------------------------- MODULE Conversation_proofs -------------------------
(***************************************************************************)
(* The turn-taking of an engine, for any number of messages, replies and   *)
(* chunks and any faults.  A handler is an operator on the engine, so the  *)
(* argument is about engines: each operator takes a sane engine to a sane  *)
(* one.  Sane says how a reply, its queued end and its turn on record fit  *)
(* together; Current, that the reply in flight has read all that the       *)
(* participant said, which fails inside a handler between the turn and the *)
(* reply it asks for; Owed, that it has read the documents too, and who    *)
(* will answer a turn that waits.                                          *)
(***************************************************************************)
EXTENDS Conversation, SequenceTheorems, TLAPS

-----------------------------------------------------------------------------
(* The invariant *)

\* Only the active engine has a reply in flight, and it is one of the born.
GenInv(e) == e.gen # 0 => e.st = "ACTIVE" /\ e.gen <= e.born

\* A reply not born has not begun; one that has not read the history has no text
\* and no report; only the reply in flight streams, and what was heard of it is
\* known to the engine.
ReplyInv(e) ==
  \A g \in Reply :
    LET r == e.reply[g]
    IN  /\ g > e.born => r.phase = "unborn"
        /\ r.phase \in {"unborn", "preparing"}
             => r.text = 0 /\ r.spoken = Everything /\ r.heard = Everything
        /\ r.phase = "streaming" => e.gen = g
        /\ e.gen = g => r.spoken = r.heard

\* A turn on record is of a reply that has begun and is not in flight any more,
\* and keeps no more than was heard.
TurnInv(e) ==
  \A i \in DOMAIN e.turns :
    LET g == e.turns[i].reply
    IN  g # 0 => /\ e.reply[g].phase \notin {"unborn", "preparing"}
                 /\ e.gen # g
                 /\ e.reply[g].phase # "broken" => e.turns[i].text <= e.reply[g].heard

\* A queued task finds its reply as it left it, and is alone with it.
QueueInv(e) ==
  /\ \A k \in DOMAIN e.queue :
       LET task == e.queue[k]
       IN  IF task.kind = "false_barge_in" THEN task.reply = 0
           ELSE /\ task.reply # 0
                /\ e.reply[task.reply].phase = (IF task.kind = "commit" THEN "ended" ELSE "failed")
  /\ \A k, l \in DOMAIN e.queue :
       k # l => e.queue[k].reply # e.queue[l].reply \/ e.queue[k].reply = 0

\* FreshReplies and LastWord, of any engine.
FreshInv(e) ==
  \A i \in DOMAIN e.turns : \A j \in 1..(i - 1) :
    LET said == e.turns[i]
    IN  said.reply # 0 /\ ~said.cut /\ e.turns[j].who = "participant"
          => j <= e.reply[said.reply].seen

LastInv(e) ==
  \A i, j \in DOMAIN e.turns :
    i < j /\ e.turns[i].closing => e.turns[j].who # "agent" \/ e.turns[j].cut

\* The closing line is said in ENDING.
ClosingInv(e) ==
  \A i \in DOMAIN e.turns : e.turns[i].closing => e.st = "ENDING" \/ IsTerminal(e.st)

\* The reply in flight has read all that the participant had said.
Current(e) ==
  e.gen # 0 /\ e.reply[e.gen].phase \in {"streaming", "ended"}
    => \A j \in DOMAIN e.turns :
         e.turns[j].who = "participant" => j <= e.reply[e.gen].seen

\* The agent will go on when the participant turns out to have said nothing.
Resumes(e) ==
  /\ e.bargeIn
  /\ e.speaking \/ e.armed \/ \E k \in DOMAIN e.queue : e.queue[k].kind = "false_barge_in"

\* The reply in flight has read the documents, too.
Heeds(e) ==
  e.gen # 0 /\ e.reply[e.gen].phase \in {"streaming", "ended"}
    => \A j \in DOMAIN e.turns : e.turns[j].who # "agent" => j <= e.reply[e.gen].seen

\* A turn that waits for an answer: a reply is in flight, or the timer will see to it.
Owed(e) ==
  /\ Heeds(e)
  /\ Unanswered(e)
       => /\ e.st = "ACTIVE" => e.gen # 0 \/ Resumes(e)
          /\ e.st # "PAUSED"
          /\ e.st = "RECONNECTING" => ~e.wasPaused

Sane(e) ==
  /\ e \in Engine
  /\ GenInv(e) /\ ReplyInv(e) /\ TurnInv(e) /\ QueueInv(e)
  /\ FreshInv(e) /\ LastInv(e) /\ ClosingInv(e)

CInv ==
  /\ Sane(engine) /\ Current(engine)
  /\ excused \in BOOLEAN
  /\ ~excused => Owed(engine)

-----------------------------------------------------------------------------
(* What the parts of a handler write *)

\* What none of them touches.
Aside(e, f) ==
  /\ f.wasPaused = e.wasPaused /\ f.connected = e.connected
  /\ f.failures = e.failures /\ f.deferred = e.deferred /\ f.timedOut = e.timedOut
  /\ f.speaking = e.speaking /\ f.partial = e.partial
  /\ f.bargeIn = e.bargeIn /\ f.armed = e.armed /\ f.checkedIn = e.checkedIn

LEMMA WithReplyFields ==
  ASSUME NEW e \in Engine, NEW g \in Reply, NEW r \in Generation
  PROVE  /\ WithReply(e, g, r) \in Engine
         /\ Aside(e, WithReply(e, g, r))
         /\ WithReply(e, g, r).st = e.st /\ WithReply(e, g, r).turns = e.turns
         /\ WithReply(e, g, r).gen = e.gen /\ WithReply(e, g, r).born = e.born
         /\ WithReply(e, g, r).queue = e.queue
         /\ WithReply(e, g, r).reply = [e.reply EXCEPT ![g] = r]
  BY DEF WithReply, Engine, Aside

LEMMA PhaseFields ==
  ASSUME NEW r \in Generation,
         NEW p \in {"unborn", "preparing", "streaming", "ended", "failed", "gone", "broken"}
  PROVE  /\ [r EXCEPT !.phase = p] \in Generation
         /\ [r EXCEPT !.phase = p].phase = p
         /\ [r EXCEPT !.phase = p].text = r.text /\ [r EXCEPT !.phase = p].ends = r.ends
         /\ [r EXCEPT !.phase = p].seen = r.seen
         /\ [r EXCEPT !.phase = p].spoken = r.spoken /\ [r EXCEPT !.phase = p].heard = r.heard
  BY DEF Generation

LEMMA PersistFields ==
  ASSUME NEW e \in Engine, NEW t \in Turn
  PROVE  /\ Persist(e, t) \in Engine
         /\ Aside(e, Persist(e, t))
         /\ Persist(e, t).st = e.st /\ Persist(e, t).reply = e.reply
         /\ Persist(e, t).gen = e.gen /\ Persist(e, t).born = e.born
         /\ Persist(e, t).queue = e.queue
         /\ Persist(e, t).turns = e.turns \/ Persist(e, t).turns = Append(e.turns, t)
         /\ ~IsTerminal(e.st) /\ (\A i \in DOMAIN e.turns : t.reply = 0 \/ e.turns[i].reply # t.reply)
              => Persist(e, t).turns = Append(e.turns, t)
  <1>1. CASE IsTerminal(e.st) \/ \E i \in DOMAIN e.turns : t.reply # 0 /\ e.turns[i].reply = t.reply
    BY <1>1 DEF Persist, Aside
  <1>2. CASE ~(IsTerminal(e.st) \/ \E i \in DOMAIN e.turns : t.reply # 0 /\ e.turns[i].reply = t.reply)
    <2>1. Persist(e, t) = [e EXCEPT !.turns = Append(@, t)]
      BY <1>2, Zenon DEF Persist
    <2>2. e.turns \in Seq(Turn) /\ Append(e.turns, t) \in Seq(Turn)
      BY DEF Engine
    <2> QED
      BY <2>1, <2>2 DEF Aside, Engine
  <1> QED
    BY <1>1, <1>2

LEMMA TurnsShape ==
  ASSUME NEW s \in Seq(Turn), NEW t \in Turn
  PROVE  /\ DOMAIN Append(s, t) = 1..(Len(s) + 1) /\ DOMAIN s = 1..Len(s)
         /\ Len(s) \in Nat /\ Len(Append(s, t)) = Len(s) + 1
         /\ Append(s, t)[Len(s) + 1] = t
         /\ \A i \in DOMAIN s : Append(s, t)[i] = s[i]
         /\ Append(s, t) \in Seq(Turn)
  OBVIOUS

LEMMA TypesInside ==
  ASSUME NEW e \in Engine
  PROVE  /\ e.turns \in Seq(Turn) /\ e.queue \in Seq(QueuedTask)
         /\ e.reply \in [Reply -> Generation] /\ e.st \in SessionStates
         /\ e.gen \in {0} \cup Reply /\ e.born \in {0} \cup Reply
         /\ \A i \in DOMAIN e.turns :
              e.turns[i] \in Turn /\ e.turns[i].reply \in {0} \cup Reply
                /\ e.turns[i].text \in 0..MaxChunks
         /\ \A k \in DOMAIN e.queue :
              e.queue[k] \in QueuedTask /\ e.queue[k].reply \in {0} \cup Reply
  <1>1. /\ e.turns \in Seq(Turn) /\ e.queue \in Seq(QueuedTask)
        /\ e.reply \in [Reply -> Generation] /\ e.st \in SessionStates
        /\ e.gen \in {0} \cup Reply /\ e.born \in {0} \cup Reply
    BY DEF Engine
  <1>2. /\ \A i \in DOMAIN e.turns : e.turns[i] \in Turn
        /\ \A k \in DOMAIN e.queue : e.queue[k] \in QueuedTask
    BY <1>1
  <1>3. /\ \A t \in Turn : t.reply \in {0} \cup Reply /\ t.text \in 0..MaxChunks
        /\ \A t \in QueuedTask : t.reply \in {0} \cup Reply
    BY DEF Turn, QueuedTask
  <1> QED
    BY <1>1, <1>2, <1>3

-----------------------------------------------------------------------------
(* Steps between sane engines *)

Closed(st) == st = "ENDING" \/ IsTerminal(st)

\* The state moves on, and a reply that does not stream is let go.
LEMMA KeepsSane ==
  ASSUME NEW e, NEW f \in Engine, Sane(e),
         f.turns = e.turns, f.reply = e.reply, f.queue = e.queue, f.born = e.born,
         \/ f.gen = e.gen
         \/ f.gen = 0 /\ (e.gen # 0 => e.reply[e.gen].phase # "streaming"),
         f.gen # 0 => f.st = "ACTIVE",
         Closed(e.st) => Closed(f.st)
  PROVE  Sane(f)
  <1>1. GenInv(f)
    BY DEF Sane, GenInv
  <1>2. ReplyInv(f)
    BY DEF Sane, ReplyInv, Reply
  <1>3. TurnInv(f)
    BY DEF Sane, TurnInv
  <1>4. QueueInv(f)
    BY DEF Sane, QueueInv
  <1>5. FreshInv(f) /\ LastInv(f)
    BY DEF Sane, FreshInv, LastInv
  <1>6. ClosingInv(f)
    BY DEF Sane, ClosingInv, Closed
  <1> QED
    BY <1>1, <1>2, <1>3, <1>4, <1>5, <1>6 DEF Sane

\* A turn is written.
LEMMA AddsTurn ==
  ASSUME NEW e, NEW f \in Engine, NEW t \in Turn, Sane(e),
         f.turns = Append(e.turns, t), f.reply = e.reply, f.queue = e.queue,
         f.born = e.born, f.gen = e.gen, f.st = e.st,
         t.reply # 0 => /\ e.reply[t.reply].phase \notin {"unborn", "preparing"}
                        /\ e.gen # t.reply
                        /\ e.reply[t.reply].phase # "broken" => t.text <= e.reply[t.reply].heard,
         t.reply # 0 /\ ~t.cut => \A j \in DOMAIN e.turns :
           e.turns[j].who = "participant" => j <= e.reply[t.reply].seen,
         \/ t.who # "agent" \/ t.cut
         \/ \A i \in DOMAIN e.turns : ~e.turns[i].closing,
         t.closing => Closed(e.st)
  PROVE  Sane(f)
  <1>0. e \in Engine /\ e.turns \in Seq(Turn)
    BY DEF Sane, Engine
  <1>1. GenInv(f) /\ ReplyInv(f) /\ QueueInv(f)
    BY DEF Sane, GenInv, ReplyInv, QueueInv
  <1>2. /\ DOMAIN f.turns = 1..(Len(e.turns) + 1) /\ DOMAIN e.turns = 1..Len(e.turns)
        /\ Len(e.turns) \in Nat /\ f.turns[Len(e.turns) + 1] = t
        /\ \A i \in DOMAIN e.turns : f.turns[i] = e.turns[i]
    BY <1>0, TurnsShape
  <1>3. \A i \in DOMAIN f.turns : i \in DOMAIN e.turns \/ (f.turns[i] = t /\ i = Len(e.turns) + 1)
    BY <1>2
  <1>4. TurnInv(f)
    BY <1>2, <1>3 DEF Sane, TurnInv
  <1>5. FreshInv(f)
    <2> SUFFICES ASSUME NEW i \in DOMAIN f.turns, NEW j \in 1..(i - 1),
                        f.turns[i].reply # 0, ~f.turns[i].cut, f.turns[j].who = "participant"
                 PROVE  j <= f.reply[f.turns[i].reply].seen
      BY DEF FreshInv
    <2>1. j \in DOMAIN e.turns /\ f.turns[j] = e.turns[j]
      BY <1>2
    <2>2. CASE i \in DOMAIN e.turns
      BY <1>2, <2>1, <2>2 DEF Sane, FreshInv
    <2>3. CASE f.turns[i] = t
      BY <2>1, <2>3
    <2> QED
      BY <1>3, <2>2, <2>3
  <1>6. LastInv(f)
    <2> SUFFICES ASSUME NEW i \in DOMAIN f.turns, NEW j \in DOMAIN f.turns,
                        i < j, f.turns[i].closing
                 PROVE  f.turns[j].who # "agent" \/ f.turns[j].cut
      BY DEF LastInv
    <2>1. i \in DOMAIN e.turns /\ f.turns[i] = e.turns[i]
      BY <1>2
    <2>2. CASE j \in DOMAIN e.turns
      BY <1>2, <2>1, <2>2 DEF Sane, LastInv
    <2>3. CASE f.turns[j] = t
      BY <2>1, <2>3
    <2> QED
      BY <1>3, <2>2, <2>3
  <1>7. ClosingInv(f)
    BY <1>2, <1>3 DEF Sane, ClosingInv, Closed
  <1> QED
    BY <1>1, <1>4, <1>5, <1>6, <1>7 DEF Sane

\* One reply moves on, and may be let go.
LEMMA MovesReply ==
  ASSUME NEW e, NEW f \in Engine, NEW g \in Reply, NEW r \in Generation, Sane(e),
         f.turns = e.turns, f.queue = e.queue, f.born = e.born, f.st = e.st,
         f.reply = [e.reply EXCEPT ![g] = r],
         f.gen = e.gen \/ (f.gen = 0 /\ e.gen = g),
         g <= e.born, r.phase \notin {"unborn", "preparing"},
         r.phase = "streaming" => f.gen = g,
         f.gen = g => r.spoken = r.heard,
         \A i \in DOMAIN e.turns : e.turns[i].reply = g =>
           r.seen = e.reply[g].seen /\ (r.phase # "broken" => e.turns[i].text <= r.heard),
         \A k \in DOMAIN e.queue : e.queue[k].reply = g => r.phase = e.reply[g].phase
  PROVE  Sane(f)
  <1>0. /\ e \in Engine /\ e.reply \in [Reply -> Generation]
        /\ \A h \in Reply : f.reply[h] = IF h = g THEN r ELSE e.reply[h]
    BY DEF Sane, Engine
  <1>1. GenInv(f)
    BY DEF Sane, GenInv
  <1>2. ReplyInv(f)
    <2> SUFFICES ASSUME NEW h \in Reply
                 PROVE  /\ h > f.born => f.reply[h].phase = "unborn"
                        /\ f.reply[h].phase \in {"unborn", "preparing"}
                             => /\ f.reply[h].text = 0 /\ f.reply[h].spoken = Everything
                                /\ f.reply[h].heard = Everything
                        /\ f.reply[h].phase = "streaming" => f.gen = h
                        /\ f.gen = h => f.reply[h].spoken = f.reply[h].heard
      BY DEF ReplyInv
    <2>1. CASE h = g
      <3>1. f.reply[h] = r
        BY <1>0, <2>1
      <3>2. ~(h > e.born)
        BY <2>1 DEF Sane, Engine, Reply
      <3> QED
        BY <2>1, <3>1, <3>2
    <2>2. CASE h # g
      <3>1. f.reply[h] = e.reply[h] /\ h # 0
        BY <1>0, <2>2 DEF Reply
      <3> QED
        BY <2>2, <3>1 DEF Sane, ReplyInv
    <2> QED
      BY <2>1, <2>2
  <1>a. /\ \A i \in DOMAIN e.turns : e.turns[i].reply \in {0} \cup Reply
        /\ \A k \in DOMAIN e.queue : e.queue[k].reply \in {0} \cup Reply
        /\ g # 0
    BY <1>0, TypesInside DEF Reply
  <1>3. TurnInv(f)
    BY <1>0, <1>a DEF Sane, TurnInv
  <1>4. QueueInv(f)
    BY <1>0, <1>a DEF Sane, QueueInv
  <1>5. FreshInv(f)
    <2> SUFFICES ASSUME NEW i \in DOMAIN e.turns, NEW j \in 1..(i - 1),
                        e.turns[i].reply # 0, ~e.turns[i].cut, e.turns[j].who = "participant"
                 PROVE  j <= f.reply[e.turns[i].reply].seen
      BY DEF FreshInv
    <2>1. j <= e.reply[e.turns[i].reply].seen
      BY DEF Sane, FreshInv
    <2> QED
      BY <1>0, <1>a, <2>1
  <1>6. LastInv(f) /\ ClosingInv(f)
    BY DEF Sane, LastInv, ClosingInv
  <1> QED
    BY <1>1, <1>2, <1>3, <1>4, <1>5, <1>6 DEF Sane

\* The talk is the same, and so is the state.
LEMMA SameSane ==
  ASSUME NEW e, NEW f \in Engine, Sane(e),
         f.turns = e.turns, f.reply = e.reply, f.queue = e.queue, f.born = e.born,
         f.gen = e.gen, f.st = e.st
  PROVE  Sane(f)
  <1>1. f.gen # 0 => f.st = "ACTIVE"
    BY DEF Sane, GenInv
  <1> QED
    BY <1>1, KeepsSane

-----------------------------------------------------------------------------
(* The parts of a handler keep an engine sane *)

LEMMA InPhaseFields ==
  ASSUME NEW e \in Engine, NEW g \in Reply,
         NEW p \in {"unborn", "preparing", "streaming", "ended", "failed", "gone", "broken"}
  PROVE  /\ InPhase(e, g, p) \in Engine
         /\ Aside(e, InPhase(e, g, p))
         /\ InPhase(e, g, p).st = e.st /\ InPhase(e, g, p).turns = e.turns
         /\ InPhase(e, g, p).gen = e.gen /\ InPhase(e, g, p).born = e.born
         /\ InPhase(e, g, p).queue = e.queue
         /\ InPhase(e, g, p).reply = [e.reply EXCEPT ![g] = [e.reply[g] EXCEPT !.phase = p]]
         /\ InPhase(e, g, p).reply[g] = [e.reply[g] EXCEPT !.phase = p]
         /\ [e.reply[g] EXCEPT !.phase = p] \in Generation
  <1>1. e.reply[g] \in Generation /\ e.reply \in [Reply -> Generation]
    BY TypesInside
  <1>2. [e.reply[g] EXCEPT !.phase = p] \in Generation
    BY <1>1, PhaseFields
  <1> QED
    BY <1>1, <1>2, WithReplyFields DEF InPhase

LEMMA InPhaseSane ==
  ASSUME NEW e, Sane(e), NEW g \in Reply, NEW p \in {"ended", "failed", "gone", "broken"},
         g <= e.born,
         e.reply[g].phase = "broken" => p = "broken",
         \A k \in DOMAIN e.queue : e.queue[k].reply # g
  PROVE  Sane(InPhase(e, g, p))
  <1>1. e \in Engine /\ e.reply[g] \in Generation
    BY TypesInside DEF Sane
  <1> DEFINE r == [e.reply[g] EXCEPT !.phase = p]
             f == InPhase(e, g, p)
  <1>2. /\ f \in Engine /\ f.st = e.st /\ f.turns = e.turns /\ f.gen = e.gen
        /\ f.born = e.born /\ f.queue = e.queue /\ f.reply = [e.reply EXCEPT ![g] = r]
        /\ r \in Generation
    <2>1. f = WithReply(e, g, r)
      BY DEF InPhase
    <2>2. r \in Generation
      BY <1>1, PhaseFields
    <2> HIDE DEF r, f
    <2> QED
      BY <1>1, <2>1, <2>2, WithReplyFields
  <1>3. /\ r.phase = p /\ r.seen = e.reply[g].seen
        /\ r.spoken = e.reply[g].spoken /\ r.heard = e.reply[g].heard
    BY <1>1, PhaseFields
  <1> HIDE DEF r, f
  <1>4. f.gen = g => r.spoken = r.heard
    BY <1>2, <1>3 DEF Sane, ReplyInv
  <1>5. \A i \in DOMAIN e.turns : e.turns[i].reply = g =>
          r.seen = e.reply[g].seen /\ (r.phase # "broken" => e.turns[i].text <= r.heard)
    BY <1>3 DEF Sane, TurnInv, Reply
  <1>6. r.phase \notin {"unborn", "preparing", "streaming"}
    BY <1>3
  <1>7. Sane(f)
    BY <1>2, <1>4, <1>5, <1>6, MovesReply
  <1> QED
    BY <1>7 DEF f

\* No task is queued for a reply that has not ended.
LEMMA NotQueued ==
  ASSUME NEW e, Sane(e), NEW g \in Reply, e.reply[g].phase \notin {"ended", "failed"}
  PROVE  \A k \in DOMAIN e.queue : e.queue[k].reply # g
  BY DEF Sane, QueueInv, Reply

\* One that streams was born.
LEMMA BornReply ==
  ASSUME NEW e, Sane(e), NEW g \in Reply, e.reply[g].phase # "unborn"
  PROVE  g <= e.born
  BY DEF Sane, ReplyInv, Engine, Reply

\* A turn waits only if one did.
Answered(e, f) == Unanswered(f) => Unanswered(e)

\* The turns are by the same speakers, and their replies have read as much.
LEMMA SameAnswers ==
  ASSUME NEW e, NEW f,
         DOMAIN f.turns = DOMAIN e.turns,
         \A i \in DOMAIN e.turns :
           f.turns[i].who = e.turns[i].who /\ f.turns[i].reply = e.turns[i].reply,
         \A i \in DOMAIN e.turns : e.turns[i].reply # 0 =>
           f.reply[e.turns[i].reply].seen = e.reply[e.turns[i].reply].seen
  PROVE  Answered(e, f)
  <1> SUFFICES ASSUME NEW j \in DOMAIN f.turns, f.turns[j].who # "agent",
                      \A i \in DOMAIN f.turns :
                        f.turns[i].reply # 0 => f.reply[f.turns[i].reply].seen < j
               PROVE  Unanswered(e)
    BY DEF Answered, Unanswered
  <1>1. \A i \in DOMAIN e.turns : e.turns[i].reply # 0 => e.reply[e.turns[i].reply].seen < j
    OBVIOUS
  <1> QED
    BY <1>1 DEF Unanswered

LEMMA SameReaders ==
  ASSUME NEW e \in Engine, NEW f, f.turns = e.turns,
         \A h \in Reply : f.reply[h].seen = e.reply[h].seen
  PROVE  Answered(e, f)
  <1>1. \A i \in DOMAIN e.turns : e.turns[i].reply \in {0} \cup Reply
    BY TypesInside
  <1>2. \A i \in DOMAIN e.turns : e.turns[i].reply # 0 =>
          f.reply[e.turns[i].reply].seen = e.reply[e.turns[i].reply].seen
    BY <1>1
  <1> QED
    BY <1>2, SameAnswers

\* Another word of the agent leaves nobody waiting.
LEMMA AgentAnswers ==
  ASSUME NEW e \in Engine, NEW f, NEW t \in Turn, t.who = "agent", f.reply = e.reply,
         f.turns = e.turns \/ f.turns = Append(e.turns, t)
  PROVE  Answered(e, f)
  <1>1. e.turns \in Seq(Turn)
    BY TypesInside
  <1>2. /\ DOMAIN e.turns \subseteq DOMAIN f.turns
        /\ \A i \in DOMAIN e.turns : f.turns[i] = e.turns[i]
        /\ \A i \in DOMAIN f.turns : f.turns[i].who # "agent" => i \in DOMAIN e.turns
    <2>1. CASE f.turns = e.turns
      BY <2>1
    <2>2. CASE f.turns = Append(e.turns, t)
      <3>1. /\ DOMAIN f.turns = 1..(Len(e.turns) + 1) /\ DOMAIN e.turns = 1..Len(e.turns)
            /\ Len(e.turns) \in Nat /\ f.turns[Len(e.turns) + 1] = t
            /\ \A i \in DOMAIN e.turns : f.turns[i] = e.turns[i]
        BY <1>1, <2>2, TurnsShape
      <3> QED
        BY <3>1
    <2> QED
      BY <2>1, <2>2
  <1> SUFFICES ASSUME NEW j \in DOMAIN f.turns, f.turns[j].who # "agent",
                      \A i \in DOMAIN f.turns :
                        f.turns[i].reply # 0 => f.reply[f.turns[i].reply].seen < j
               PROVE  Unanswered(e)
    BY DEF Answered, Unanswered
  <1>3. \A i \in DOMAIN e.turns : e.turns[i].reply # 0 => e.reply[e.turns[i].reply].seen < j
    BY <1>2
  <1> QED
    BY <1>2, <1>3 DEF Unanswered

LEMMA SilencedSane ==
  ASSUME NEW e, Sane(e), NEW g \in Reply, e.gen = g
  PROVE  /\ Sane(Silenced(e, g)) /\ Aside(e, Silenced(e, g))
         /\ Silenced(e, g).st = e.st /\ Silenced(e, g).turns = e.turns
         /\ Silenced(e, g).gen = g /\ Silenced(e, g).born = e.born
         /\ Silenced(e, g).queue = e.queue /\ Answered(e, Silenced(e, g))
         /\ Silenced(e, g).reply[g].phase # "streaming"
  <1>1. e \in Engine /\ e.reply[g] \in Generation /\ e.reply \in [Reply -> Generation]
    BY TypesInside DEF Sane
  <1>2. CASE e.reply[g].phase # "streaming"
    BY <1>1, <1>2 DEF Silenced, Aside, Answered
  <1>3. CASE e.reply[g].phase = "streaming"
    <2>1. Silenced(e, g) = InPhase(e, g, "gone")
      BY <1>3 DEF Silenced
    <2>2. Sane(InPhase(e, g, "gone"))
      BY <1>3, InPhaseSane, NotQueued, BornReply
    <2> DEFINE f == InPhase(e, g, "gone")
    <2>b. e \in Engine
      BY <1>1
    <2>3. /\ Aside(e, f) /\ f.st = e.st /\ f.turns = e.turns /\ f.gen = e.gen /\ f.born = e.born
          /\ f.queue = e.queue /\ f.reply[g] = [e.reply[g] EXCEPT !.phase = "gone"]
      BY <2>b, InPhaseFields
    <2>a. f.reply = [e.reply EXCEPT ![g] = [e.reply[g] EXCEPT !.phase = "gone"]]
      BY <2>b, InPhaseFields
    <2>4. /\ [e.reply[g] EXCEPT !.phase = "gone"].phase = "gone"
          /\ [e.reply[g] EXCEPT !.phase = "gone"].seen = e.reply[g].seen
      BY <1>1, PhaseFields
    <2> HIDE DEF f
    <2>5. f.reply[g].phase # "streaming"
      BY <2>3, <2>4
    <2>6. \A h \in Reply : f.reply[h].seen = e.reply[h].seen
      BY <1>1, <2>a, <2>4
    <2>8. Answered(e, f)
      BY <1>1, <2>3, <2>6, SameReaders
    <2> QED
      BY <2>1, <2>2, <2>3, <2>5, <2>8 DEF f
  <1> QED
    BY <1>2, <1>3

\* What an operator on the reply in flight leaves alone.
Beside(e, f) ==
  /\ Aside(e, f) /\ f.st = e.st /\ f.born = e.born /\ f.queue = e.queue
  /\ Answered(e, f)

LEMMA LetsGo ==
  ASSUME NEW e, Sane(e), e.gen # 0 => e.reply[e.gen].phase # "streaming"
  PROVE  /\ Sane([e EXCEPT !.gen = 0]) /\ [e EXCEPT !.gen = 0].gen = 0
         /\ Aside(e, [e EXCEPT !.gen = 0])
         /\ [e EXCEPT !.gen = 0].st = e.st /\ [e EXCEPT !.gen = 0].turns = e.turns
         /\ [e EXCEPT !.gen = 0].born = e.born /\ [e EXCEPT !.gen = 0].queue = e.queue
         /\ [e EXCEPT !.gen = 0].reply = e.reply
  <1> DEFINE f == [e EXCEPT !.gen = 0]
  <1>1. e \in Engine
    BY DEF Sane
  <1>2. /\ f \in Engine /\ f.gen = 0 /\ Aside(e, f)
        /\ f.st = e.st /\ f.turns = e.turns /\ f.born = e.born /\ f.queue = e.queue
        /\ f.reply = e.reply
    BY <1>1 DEF Engine, Aside
  <1> HIDE DEF f
  <1>3. Sane(f)
    BY <1>2, KeepsSane
  <1> QED
    BY <1>2, <1>3 DEF f

LEMMA ReplyTurnFields ==
  ASSUME NEW e, NEW g \in Reply, NEW x \in 0..MaxChunks, NEW c \in BOOLEAN, NEW d \in BOOLEAN
  PROVE  /\ ReplyTurn(e, g, x, c, d) \in Turn
         /\ ReplyTurn(e, g, x, c, d).who = "agent" /\ ReplyTurn(e, g, x, c, d).reply = g
         /\ ReplyTurn(e, g, x, c, d).text = x /\ ReplyTurn(e, g, x, c, d).cut = c
         /\ ReplyTurn(e, g, x, c, d).closing = d
  BY DEF ReplyTurn, Turn

LEMMA KeptLess ==
  ASSUME NEW x \in 0..MaxChunks, NEW y \in 0..Everything
  PROVE  Kept(x, y) \in 0..MaxChunks /\ Kept(x, y) <= y /\ Kept(x, y) <= x
  BY ConversationAssumption DEF Kept, Everything

LEMMA GenerationTypes ==
  ASSUME NEW r \in Generation
  PROVE  /\ r.text \in 0..MaxChunks /\ r.spoken \in 0..Everything /\ r.heard \in 0..Everything
         /\ r.seen \in Nat /\ r.ends \in BOOLEAN
  BY DEF Generation

\* A cut turn of a reply that is let go, or nothing.
LEMMA CommitAbortedSane ==
  ASSUME NEW e, Sane(e), NEW g \in Reply, NEW reason,
         e.gen # g, e.reply[g].spoken = e.reply[g].heard
  PROVE  /\ Sane(CommitAborted(e, g, reason)) /\ Beside(e, CommitAborted(e, g, reason))
         /\ CommitAborted(e, g, reason).gen = e.gen
  <1>1. e \in Engine /\ e.reply[g] \in Generation
    BY TypesInside DEF Sane
  <1> DEFINE t == ReplyTurn(e, g, Kept(e.reply[g].text, e.reply[g].spoken), TRUE, FALSE)
  <1>2. CASE CommitAborted(e, g, reason) = e
    BY <1>2 DEF Beside, Aside, Answered
  <1>3. CASE CommitAborted(e, g, reason) = Persist(e, t) /\ e.reply[g].text # 0
    <2>1. /\ t \in Turn /\ t.who = "agent" /\ t.reply = g /\ t.cut /\ ~t.closing
          /\ t.text <= e.reply[g].heard
      <3>1. /\ e.reply[g].text \in 0..MaxChunks /\ e.reply[g].spoken \in 0..Everything
        BY <1>1, GenerationTypes
      <3>2. /\ Kept(e.reply[g].text, e.reply[g].spoken) \in 0..MaxChunks
            /\ Kept(e.reply[g].text, e.reply[g].spoken) <= e.reply[g].heard
        BY <3>1, KeptLess
      <3>3. t \in Turn
        BY <3>2 DEF ReplyTurn, Turn
      <3>4. t.text <= e.reply[g].heard
        BY <3>2 DEF ReplyTurn
      <3> QED
        BY <3>3, <3>4 DEF ReplyTurn
    <2> HIDE DEF t
    <2>2. e.reply[g].phase \notin {"unborn", "preparing"}
      BY <1>3 DEF Sane, ReplyInv
    <2> DEFINE f == Persist(e, t)
    <2>3. /\ f \in Engine /\ Aside(e, f) /\ f.st = e.st /\ f.reply = e.reply
          /\ f.gen = e.gen /\ f.born = e.born /\ f.queue = e.queue
          /\ f.turns = e.turns \/ f.turns = Append(e.turns, t)
      BY <1>1, <2>1, PersistFields
    <2> HIDE DEF f
    <2>6. Sane(f)
      <3>1. CASE f.turns = e.turns
        BY <2>3, <3>1, SameSane
      <3>2. CASE f.turns = Append(e.turns, t)
        <4>1. /\ e.reply[t.reply].phase \notin {"unborn", "preparing"} /\ e.gen # t.reply
              /\ t.text <= e.reply[t.reply].heard
          BY <2>1, <2>2
        <4> QED
          BY <2>1, <2>3, <3>2, <4>1, AddsTurn
      <3> QED
        BY <2>3, <3>1, <3>2
    <2>7. Answered(e, f)
      BY <1>1, <2>1, <2>3, AgentAnswers
    <2> QED
      BY <1>3, <2>3, <2>6, <2>7 DEF Beside, f
  <1> QED
    BY <1>2, <1>3 DEF CommitAborted

LEMMA AbortSane ==
  ASSUME NEW e, Sane(e), NEW reason
  PROVE  /\ Sane(AbortGeneration(e, reason)) /\ Beside(e, AbortGeneration(e, reason))
         /\ AbortGeneration(e, reason).gen = 0
  <1>1. CASE e.gen = 0
    BY <1>1 DEF AbortGeneration, Beside, Aside, Answered
  <1>2. CASE e.gen # 0
    <2> DEFINE g == e.gen
               quiet == Silenced(e, g)
               stopped == [quiet EXCEPT !.gen = 0]
    <2>1. g \in Reply
      BY <1>2, TypesInside DEF Sane
    <2>2. /\ Sane(quiet) /\ Aside(e, quiet) /\ quiet.st = e.st /\ quiet.turns = e.turns
          /\ quiet.gen = g /\ quiet.born = e.born /\ quiet.queue = e.queue
          /\ quiet.reply[g].phase # "streaming" /\ Answered(e, quiet)
      BY <2>1, SilencedSane
    <2>3. quiet.reply[g].spoken = quiet.reply[g].heard
      BY <2>1, <2>2 DEF Sane, ReplyInv
    <2>4. AbortGeneration(e, reason) = CommitAborted(stopped, g, reason)
      BY <1>2 DEF AbortGeneration
    <2> HIDE DEF quiet
    <2>5. /\ Sane(stopped) /\ stopped.gen = 0 /\ Aside(quiet, stopped) /\ stopped.st = quiet.st
          /\ stopped.turns = quiet.turns /\ stopped.born = quiet.born
          /\ stopped.queue = quiet.queue /\ stopped.reply = quiet.reply
      BY <2>2, LetsGo
    <2> HIDE DEF stopped
    <2>6. /\ Sane(CommitAborted(stopped, g, reason))
          /\ Beside(stopped, CommitAborted(stopped, g, reason))
          /\ CommitAborted(stopped, g, reason).gen = 0
      <3>1. stopped.gen # g
        BY <1>2, <2>5
      <3> QED
        BY <2>1, <2>3, <2>5, <3>1, CommitAbortedSane
    <2>7. Answered(quiet, stopped)
      BY <2>5, SameAnswers
    <2> QED
      BY <2>2, <2>4, <2>5, <2>6, <2>7 DEF Beside, Aside, Answered
  <1> QED
    BY <1>1, <1>2

\* The engine moves to another state with nobody speaking.
LEMMA EndedSane ==
  ASSUME NEW e, Sane(e), NEW st \in TerminalStates
  PROVE  /\ Sane(Ended(e, st)) /\ Ended(e, st).gen = 0 /\ Ended(e, st).st = st
         /\ Ended(e, st).born = e.born
  <1> DEFINE quiet == IF e.gen = 0 THEN e ELSE Silenced(e, e.gen)
             f == [quiet EXCEPT !.st = st, !.gen = 0, !.armed = FALSE]
  <1>1. /\ Sane(quiet) /\ quiet.born = e.born
        /\ quiet.gen # 0 => quiet.reply[quiet.gen].phase # "streaming"
    <2>1. CASE e.gen = 0
      BY <2>1
    <2>2. CASE e.gen # 0
      <3>1. e.gen \in Reply
        BY <2>2, TypesInside DEF Sane
      <3> QED
        BY <2>2, <3>1, SilencedSane
    <2> QED
      BY <2>1, <2>2
  <1>2. Ended(e, st) = f
    BY DEF Ended
  <1> HIDE DEF quiet
  <1>3. st \in SessionStates /\ Closed(st)
    BY DEF SessionStates, Closed, IsTerminal
  <1>4. /\ f \in Engine /\ f.turns = quiet.turns /\ f.reply = quiet.reply
        /\ f.queue = quiet.queue /\ f.born = quiet.born /\ f.gen = 0 /\ f.st = st
    BY <1>1, <1>3 DEF Sane, Engine
  <1> HIDE DEF f
  <1>5. Sane(f)
    BY <1>1, <1>3, <1>4, KeepsSane
  <1> QED
    BY <1>1, <1>2, <1>4, <1>5

\* Nobody waits for an engine that has closed.
LEMMA ClosedRests ==
  ASSUME NEW f, f.gen = 0, Closed(f.st)
  PROVE  Current(f) /\ Owed(f)
  BY DEF Current, Owed, Heeds, Closed, IsTerminal, TerminalStates

LEMMA SaidFields ==
  ASSUME NEW who \in {"participant", "input", "agent"}
  PROVE  /\ Said(who) \in Turn /\ Said(who).who = who /\ Said(who).reply = 0
         /\ Said(who).closing = FALSE
  BY ConversationAssumption DEF Said, Turn

\* A scripted line; the closing one is said in ENDING, after no other.
LEMMA ScriptedSane ==
  ASSUME NEW e, Sane(e), NEW c \in BOOLEAN, c => Closed(e.st),
         \A i \in DOMAIN e.turns : ~e.turns[i].closing
  PROVE  /\ Sane(Scripted(e, c)) /\ Beside(e, Scripted(e, c))
         /\ Scripted(e, c).gen = e.gen
  <1> DEFINE t == [Said("agent") EXCEPT !.closing = c]
             f == Persist(e, t)
  <1>1. /\ t \in Turn /\ t.who = "agent" /\ t.reply = 0 /\ t.closing = c
    <2>1. Said("agent") \in Turn /\ Said("agent").who = "agent" /\ Said("agent").reply = 0
      BY SaidFields
    <2> QED
      BY <2>1 DEF Turn
  <1>2. Scripted(e, c) = f
    BY DEF Scripted
  <1>3. e \in Engine
    BY DEF Sane
  <1> HIDE DEF t
  <1>4. /\ f \in Engine /\ Aside(e, f) /\ f.st = e.st /\ f.reply = e.reply
        /\ f.gen = e.gen /\ f.born = e.born /\ f.queue = e.queue
        /\ f.turns = e.turns \/ f.turns = Append(e.turns, t)
    BY <1>1, <1>3, PersistFields
  <1> HIDE DEF f
  <1>5. CASE f.turns = e.turns
    BY <1>2, <1>4, <1>5, SameSane, SameAnswers DEF Beside
  <1>6. CASE f.turns = Append(e.turns, t)
    <2>1. t.closing => Closed(e.st)
      BY <1>1
    <2>2. Sane(f)
      BY <1>1, <1>4, <1>6, <2>1, AddsTurn
    <2>3. Answered(e, f)
      BY <1>1, <1>3, <1>4, <1>6, AgentAnswers
    <2> QED
      BY <1>2, <1>4, <2>2, <2>3 DEF Beside
  <1> QED
    BY <1>4, <1>5, <1>6

\* Before the closing nothing that closes has been said.
LEMMA NothingClosed ==
  ASSUME NEW e, Sane(e), ~Closed(e.st)
  PROVE  \A i \in DOMAIN e.turns : ~e.turns[i].closing
  BY DEF Sane, ClosingInv, Closed

LEMMA CloseSane ==
  ASSUME NEW e, Sane(e)
  PROVE  /\ Sane(CloseSessionNow(e)) /\ CloseSessionNow(e).gen = 0
         /\ Closed(CloseSessionNow(e).st) /\ CloseSessionNow(e).born = e.born
  <1>1. CASE Closed(e.st)
    <2>1. CloseSessionNow(e) = e
      BY <1>1 DEF CloseSessionNow, Closed
    <2>2. e.gen = 0
      BY <1>1 DEF Sane, GenInv, Closed, IsTerminal, TerminalStates
    <2> QED
      BY <1>1, <2>1, <2>2
  <1>2. CASE ~Closed(e.st)
    <2> DEFINE a == AbortGeneration(e, "closing")
               c == [a EXCEPT !.deferred = "none", !.st = "ENDING"]
    <2>1. Sane(a) /\ a.gen = 0 /\ a.st = e.st /\ a.born = e.born
      BY AbortSane DEF Beside
    <2>2. \/ CloseSessionNow(e) = Ended(c, "COMPLETED")
          \/ CloseSessionNow(e) = Scripted(c, TRUE)
      BY <1>2 DEF CloseSessionNow, Closed
    <2> HIDE DEF a
    <2>3. \A i \in DOMAIN a.turns : ~a.turns[i].closing
      BY <1>2, <2>1, NothingClosed
    <2>4. /\ c \in Engine /\ c.st = "ENDING" /\ c.gen = 0 /\ c.born = a.born
          /\ c.turns = a.turns /\ c.reply = a.reply /\ c.queue = a.queue
      BY <2>1 DEF Sane, Engine, SessionStates
    <2> HIDE DEF c
    <2>5. Sane(c)
      BY <2>1, <2>4, KeepsSane DEF Closed
    <2>6. CASE CloseSessionNow(e) = Ended(c, "COMPLETED")
      <3>1. "COMPLETED" \in TerminalStates
        BY DEF TerminalStates
      <3> QED
        BY <2>1, <2>4, <2>5, <2>6, <3>1, EndedSane DEF Closed, IsTerminal
    <2>7. CASE CloseSessionNow(e) = Scripted(c, TRUE)
      <3>1. Sane(Scripted(c, TRUE)) /\ Beside(c, Scripted(c, TRUE)) /\ Scripted(c, TRUE).gen = c.gen
        BY <2>3, <2>4, <2>5, ScriptedSane DEF Closed
      <3> QED
        BY <2>1, <2>4, <2>7, <3>1 DEF Closed, Beside
    <2> QED
      BY <2>2, <2>6, <2>7
  <1> QED
    BY <1>1, <1>2

LEMMA BornSane ==
  ASSUME NEW e, Sane(e), e.gen = 0, e.st = "ACTIVE", e.born < MaxReplies
  PROVE  /\ Sane(Born(e)) /\ Born(e).gen = e.born + 1 /\ Born(e).born = e.born + 1
         /\ Born(e).st = "ACTIVE" /\ Current(Born(e)) /\ Owed(Born(e))
  <1> DEFINE g == e.born + 1
             q == InPhase(e, g, "preparing")
             r == [e.reply[g] EXCEPT !.phase = "preparing"]
             f == Born(e)
  <1>1. e \in Engine /\ g \in Reply /\ e.born \in Nat
    BY ConversationAssumption, TypesInside DEF Sane, Reply
  <1>2. e.reply[g] \in Generation /\ e.reply \in [Reply -> Generation]
    BY <1>1, TypesInside
  <1>3. /\ e.reply[g].phase = "unborn" /\ e.reply[g].text = 0
        /\ e.reply[g].spoken = Everything /\ e.reply[g].heard = Everything
    BY <1>1 DEF Sane, ReplyInv
  <1>4. /\ r \in Generation /\ r.phase = "preparing" /\ r.text = 0
        /\ r.spoken = Everything /\ r.heard = Everything
    BY <1>2, <1>3, PhaseFields
  <1>5. q = WithReply(e, g, r)
    BY DEF InPhase
  <1>6. f = [q EXCEPT !.gen = g, !.born = g]
    BY DEF Born
  <1> HIDE DEF r, q, f
  <1>7. /\ q \in Engine /\ q.st = e.st /\ q.turns = e.turns /\ q.queue = e.queue
        /\ q.reply = [e.reply EXCEPT ![g] = r]
    BY <1>1, <1>4, <1>5, WithReplyFields
  <1>8. /\ f \in Engine /\ f.st = "ACTIVE" /\ f.turns = e.turns /\ f.queue = e.queue
        /\ f.gen = g /\ f.born = g
        /\ \A h \in Reply : f.reply[h] = IF h = g THEN r ELSE e.reply[h]
    <2>1. /\ f \in Engine /\ f.st = q.st /\ f.turns = q.turns /\ f.queue = q.queue
          /\ f.gen = g /\ f.born = g /\ f.reply = q.reply
      BY <1>1, <1>6, <1>7 DEF Engine
    <2> QED
      BY <1>2, <1>7, <2>1
  <1> HIDE DEF g
  <1>9. g > e.born /\ g # 0
    BY <1>1 DEF g
  <1>10. /\ \A i \in DOMAIN e.turns : e.turns[i].reply # g /\ e.turns[i].reply \in {0} \cup Reply
         /\ \A k \in DOMAIN e.queue : e.queue[k].reply # g /\ e.queue[k].reply \in {0} \cup Reply
    <2>1. \A i \in DOMAIN e.turns : e.turns[i].reply # g
      BY <1>3, <1>9 DEF Sane, TurnInv
    <2>2. \A k \in DOMAIN e.queue : e.queue[k].reply # g
      BY <1>1, <1>3, NotQueued
    <2> QED
      BY <1>1, <2>1, <2>2, TypesInside
  <1>11. GenInv(f)
    BY <1>1, <1>8 DEF GenInv, Reply
  <1>12. ReplyInv(f)
    <2> SUFFICES ASSUME NEW h \in Reply
                 PROVE  /\ h > f.born => f.reply[h].phase = "unborn"
                        /\ f.reply[h].phase \in {"unborn", "preparing"}
                             => /\ f.reply[h].text = 0 /\ f.reply[h].spoken = Everything
                                /\ f.reply[h].heard = Everything
                        /\ f.reply[h].phase = "streaming" => f.gen = h
                        /\ f.gen = h => f.reply[h].spoken = f.reply[h].heard
      BY DEF ReplyInv
    <2>1. CASE h = g
      <3>1. f.reply[h] = r /\ ~(h > f.born)
        BY <1>8, <2>1 DEF Reply
      <3> QED
        BY <1>4, <1>8, <2>1, <3>1
    <2>2. CASE h # g
      <3>1. f.reply[h] = e.reply[h] /\ (h > f.born => h > e.born) /\ h # 0
        BY <1>1, <1>8, <1>9, <2>2 DEF Reply
      <3> QED
        BY <1>8, <2>2, <3>1 DEF Sane, ReplyInv
    <2> QED
      BY <2>1, <2>2
  <1>13. TurnInv(f)
    BY <1>8, <1>10 DEF Sane, TurnInv
  <1>14. QueueInv(f)
    BY <1>8, <1>10 DEF Sane, QueueInv
  <1>15. FreshInv(f)
    <2> SUFFICES ASSUME NEW i \in DOMAIN e.turns, NEW j \in 1..(i - 1),
                        e.turns[i].reply # 0, ~e.turns[i].cut, e.turns[j].who = "participant"
                 PROVE  j <= f.reply[e.turns[i].reply].seen
      BY <1>8 DEF FreshInv
    <2>1. j <= e.reply[e.turns[i].reply].seen
      BY DEF Sane, FreshInv
    <2> QED
      BY <1>8, <1>10, <2>1
  <1>16. LastInv(f) /\ ClosingInv(f)
    BY <1>8 DEF Sane, LastInv, ClosingInv
  <1>17. Sane(f)
    BY <1>8, <1>11, <1>12, <1>13, <1>14, <1>15, <1>16 DEF Sane
  <1>18. Current(f) /\ Owed(f)
    BY <1>1, <1>4, <1>8, <1>9 DEF Current, Owed, Heeds
  <1> QED
    BY <1>8, <1>17, <1>18 DEF g, f

LEMMA ScheduleSane ==
  ASSUME NEW e, Sane(e), e.st = "ACTIVE", e.born < MaxReplies
  PROVE  /\ Sane(ScheduleGeneration(e)) /\ Current(ScheduleGeneration(e))
         /\ Owed(ScheduleGeneration(e))
  <1> DEFINE a == AbortGeneration(e, "superseded")
  <1>1. Sane(a) /\ a.gen = 0 /\ a.st = "ACTIVE" /\ a.born = e.born
    BY AbortSane DEF Beside
  <1>2. ScheduleGeneration(e) = Born(a)
    BY DEF ScheduleGeneration
  <1> HIDE DEF a
  <1> QED
    BY <1>1, <1>2, BornSane

-----------------------------------------------------------------------------
(* What a step has to show *)

\* The engine f that e becomes; x says that a reply is given up.
Serves(e, f, x) ==
  /\ Sane(f) /\ Current(f)
  /\ Owed(f) \/ (f.born = e.born /\ (x \/ ~Owed(e)))

LEMMA BecomesServes ==
  ASSUME CInv, NEW x \in BOOLEAN, Serves(engine, engine', x),
         excused' = IF engine'.born # engine.born THEN FALSE ELSE excused \/ x
  PROVE  CInv'
  <1>1. CASE engine'.born # engine.born
    BY <1>1 DEF CInv, Serves
  <1>2. CASE engine'.born = engine.born
    <2>1. excused' = (excused \/ x)
      BY <1>2
    <2>2. excused' \in BOOLEAN
      BY <2>1
    <2>3. ~excused' => ~excused /\ ~x
      BY <2>1
    <2>4. ~excused' => Owed(engine')
      BY <2>3 DEF CInv, Serves
    <2> QED
      BY <2>2, <2>4 DEF CInv, Serves
  <1> QED
    BY <1>1, <1>2

\* An engine that has closed owes nothing.
LEMMA ClosedServes ==
  ASSUME NEW e, NEW f, NEW x, Sane(f), f.gen = 0, Closed(f.st)
  PROVE  Serves(e, f, x)
  BY ClosedRests DEF Serves

\* With the same talk nobody waits who did not.
LEMMA SameTalk ==
  ASSUME NEW e, NEW f, f.turns = e.turns, f.reply = e.reply
  PROVE  /\ Unanswered(f) = Unanswered(e)
         /\ f.gen = e.gen \/ f.gen = 0 => (Heeds(e) => Heeds(f))
  BY DEF Unanswered, Heeds

\* Only the clocks and the flags of speech move, and no promise to go on is dropped.
LEMMA AsideServes ==
  ASSUME NEW e, NEW f \in Engine, NEW x, Sane(e), Current(e),
         f.turns = e.turns, f.reply = e.reply, f.queue = e.queue, f.born = e.born,
         f.gen = e.gen, f.st = e.st, f.wasPaused = e.wasPaused,
         e.bargeIn => f.bargeIn,
         e.st = "ACTIVE" /\ e.bargeIn /\ (e.speaking \/ e.armed) => f.speaking \/ f.armed
  PROVE  Serves(e, f, x)
  <1>1. Sane(f)
    BY SameSane
  <1>2. Current(f)
    BY DEF Current
  <1>3. Owed(e) => Owed(f)
    BY SameTalk DEF Owed, Resumes
  <1> QED
    BY <1>1, <1>2, <1>3 DEF Serves

\* What the reply in flight has read stays enough until the participant speaks.
LEMMA CurrentKept ==
  ASSUME NEW e \in Engine, NEW f, NEW t \in Turn, Current(e),
         f.turns = e.turns \/ f.turns = Append(e.turns, t), t.who # "participant",
         f.gen = e.gen, f.gen # 0 => f.reply[f.gen] = e.reply[f.gen]
  PROVE  Current(f)
  <1>1. e.turns \in Seq(Turn)
    BY TypesInside
  <1>2. \A j \in DOMAIN f.turns :
          f.turns[j].who = "participant" => j \in DOMAIN e.turns /\ e.turns[j].who = "participant"
    BY <1>1, TurnsShape
  <1> QED
    BY <1>2 DEF Current

\* A turn of the participant or of a document is written.
LEMMA HeardOnRecord ==
  ASSUME NEW e, Sane(e), NEW who \in {"participant", "input"}
  PROVE  LET f == Persist(e, Said(who))
         IN  /\ Sane(f) /\ Aside(e, f) /\ f.st = e.st /\ f.gen = e.gen /\ f.born = e.born
             /\ f.reply = e.reply /\ f.queue = e.queue
             /\ f.turns = e.turns \/ f.turns = Append(e.turns, Said(who))
  <1> DEFINE t == Said(who)
             f == Persist(e, t)
  <1>1. /\ t \in Turn /\ t.who = who /\ t.reply = 0 /\ t.closing = FALSE
    BY SaidFields
  <1>2. e \in Engine
    BY DEF Sane
  <1> HIDE DEF t
  <1>3. /\ f \in Engine /\ Aside(e, f) /\ f.st = e.st /\ f.reply = e.reply
        /\ f.gen = e.gen /\ f.born = e.born /\ f.queue = e.queue
        /\ f.turns = e.turns \/ f.turns = Append(e.turns, t)
    BY <1>1, <1>2, PersistFields
  <1> HIDE DEF f
  <1>4. Sane(f)
    <2>1. CASE f.turns = e.turns
      BY <1>3, <2>1, SameSane
    <2>2. CASE f.turns = Append(e.turns, t)
      <3>1. t.who # "agent" /\ ~t.closing
        BY <1>1
      <3> QED
        BY <1>1, <1>3, <2>2, <3>1, AddsTurn
    <2> QED
      BY <1>3, <2>1, <2>2
  <1> QED
    BY <1>3, <1>4 DEF f, t

LEMMA HeardSane ==
  ASSUME NEW e, Sane(e)
  PROVE  Sane(Heard(e)) /\ Heard(e).st = e.st /\ Heard(e).gen = e.gen /\ Heard(e).born = e.born
  <1> DEFINE q == [e EXCEPT !.checkedIn = FALSE, !.speaking = FALSE, !.bargeIn = FALSE, !.armed = FALSE]
  <1>1. Heard(e) = Persist(q, Said("participant"))
    BY DEF Heard
  <1>2. /\ q \in Engine /\ q.turns = e.turns /\ q.reply = e.reply /\ q.queue = e.queue
        /\ q.born = e.born /\ q.gen = e.gen /\ q.st = e.st
    BY DEF Sane, Engine
  <1> HIDE DEF q
  <1>3. Sane(q)
    BY <1>2, SameSane
  <1> QED
    BY <1>1, <1>2, <1>3, HeardOnRecord

\* Any new reply, any close and any end answers for what the engine owed.
LEMMA ScheduleServes ==
  ASSUME NEW e, NEW d, NEW x, Sane(e), e.st = "ACTIVE", e.born < MaxReplies
  PROVE  Serves(d, ScheduleGeneration(e), x)
  BY ScheduleSane DEF Serves

LEMMA CloseServes ==
  ASSUME NEW e, NEW d, NEW x, Sane(e)
  PROVE  Serves(d, CloseSessionNow(e), x)
  <1>1. /\ Sane(CloseSessionNow(e)) /\ CloseSessionNow(e).gen = 0
        /\ Closed(CloseSessionNow(e).st)
    BY CloseSane
  <1> QED
    BY <1>1, ClosedServes

LEMMA EndedServes ==
  ASSUME NEW e, NEW d, NEW x, Sane(e), NEW st \in TerminalStates
  PROVE  Serves(d, Ended(e, st), x)
  <1>1. Sane(Ended(e, st)) /\ Ended(e, st).gen = 0 /\ Ended(e, st).st = st
    BY EndedSane
  <1>2. Closed(Ended(e, st).st)
    BY <1>1 DEF Closed, IsTerminal
  <1> QED
    BY <1>1, <1>2, ClosedServes

-----------------------------------------------------------------------------
(* The participant *)

LEMMA ActsOnParticipantFinal ==
  ASSUME CInv, OnParticipantFinal
  PROVE  CInv'
  <1> DEFINE h == Heard(engine)
  <1>1. /\ Sane(h) /\ h.st = engine.st /\ h.born = engine.born /\ h.gen = engine.gen
    BY HeardSane DEF CInv
  <1>2. /\ engine' = ParticipantFinal(engine) /\ engine.born < MaxReplies
        /\ engine.st \in {"ACTIVE", "ENDING"}
        /\ excused' = IF engine'.born # engine.born THEN FALSE ELSE excused \/ FALSE
    BY DEF OnParticipantFinal, MayAsk, Becomes
  <1> HIDE DEF h
  <1>3. CASE engine.st = "ENDING"
    <2>1. engine' = h
      BY <1>2, <1>3 DEF ParticipantFinal, h
    <2>2. h.gen = 0 /\ Closed(h.st)
      BY <1>1, <1>3 DEF Sane, GenInv, Closed
    <2> QED
      BY <1>1, <1>2, <2>1, <2>2, ClosedServes, BecomesServes
  <1>4. CASE engine.st # "ENDING" /\ engine.deferred # "none"
    <2>1. engine' = CloseSessionNow(h)
      BY <1>2, <1>4 DEF ParticipantFinal, h
    <2> QED
      BY <1>1, <1>2, <2>1, CloseServes, BecomesServes
  <1>5. CASE engine.st # "ENDING" /\ engine.deferred = "none"
    <2>1. engine' = ScheduleGeneration(h)
      BY <1>2, <1>5 DEF ParticipantFinal, h
    <2> QED
      BY <1>1, <1>2, <1>5, <2>1, ScheduleServes, BecomesServes
  <1> QED
    BY <1>3, <1>4, <1>5

LEMMA ActsOnSpeakingStarts ==
  ASSUME CInv, OnSpeakingStarts
  PROVE  CInv'
  <1> DEFINE e == [engine EXCEPT !.checkedIn = FALSE, !.speaking = TRUE]
             a == AbortGeneration(e, "barge_in")
             f == [a EXCEPT !.bargeIn = TRUE, !.armed = FALSE]
  <1>1. /\ e \in Engine /\ e.turns = engine.turns /\ e.reply = engine.reply
        /\ e.queue = engine.queue /\ e.born = engine.born /\ e.gen = engine.gen
        /\ e.st = engine.st /\ e.wasPaused = engine.wasPaused /\ e.bargeIn = engine.bargeIn
        /\ e.speaking = TRUE
    BY DEF CInv, Sane, Engine
  <1>2. /\ engine' = e \/ (engine' = f /\ engine.st = "ACTIVE")
        /\ excused' = IF engine'.born # engine.born THEN FALSE ELSE excused \/ FALSE
    BY DEF OnSpeakingStarts, Becomes
  <1> HIDE DEF e
  <1>3. CASE engine' = e
    <2>1. e.speaking
      BY <1>1
    <2>2. Serves(engine, e, FALSE)
      BY <1>1, <2>1, AsideServes DEF CInv
    <2> QED
      BY <1>2, <1>3, <2>2, BecomesServes
  <1>4. CASE engine' = f /\ engine.st = "ACTIVE"
    <2>1. Sane(e)
      BY <1>1, SameSane DEF CInv
    <2>2. /\ Sane(a) /\ a.gen = 0 /\ a.st = "ACTIVE" /\ a.born = engine.born
          /\ a.speaking = TRUE
      BY <1>1, <1>4, <2>1, AbortSane DEF Beside, Aside
    <2> HIDE DEF a
    <2>3. /\ f \in Engine /\ f.turns = a.turns /\ f.reply = a.reply /\ f.queue = a.queue
          /\ f.born = a.born /\ f.gen = a.gen /\ f.st = a.st
          /\ f.bargeIn = TRUE /\ f.speaking = a.speaking
      BY <2>2 DEF Sane, Engine
    <2> HIDE DEF f
    <2>4. Sane(f)
      BY <2>2, <2>3, SameSane
    <2>5. f.bargeIn /\ f.speaking
      BY <2>2, <2>3
    <2>6. Current(f) /\ Owed(f)
      BY <2>2, <2>3, <2>5 DEF Current, Owed, Heeds, Resumes
    <2>7. Serves(engine, f, FALSE)
      BY <2>4, <2>6 DEF Serves
    <2> QED
      BY <1>2, <1>4, <2>7, BecomesServes
  <1> QED
    BY <1>2, <1>3, <1>4

LEMMA ActsOnSpeakingStops ==
  ASSUME CInv, OnSpeakingStops
  PROVE  CInv'
  <1> DEFINE f == [engine EXCEPT !.checkedIn = FALSE, !.speaking = FALSE, !.armed = Arms(engine)]
  <1>1. engine \in Engine
    BY DEF CInv, Sane
  <1>2. Arms(engine) \in BOOLEAN
    BY <1>1 DEF Arms, Engine
  <1>3. /\ f \in Engine /\ f.turns = engine.turns /\ f.reply = engine.reply
        /\ f.queue = engine.queue /\ f.born = engine.born /\ f.gen = engine.gen
        /\ f.st = engine.st /\ f.wasPaused = engine.wasPaused /\ f.bargeIn = engine.bargeIn
        /\ f.armed = Arms(engine)
    BY <1>1, <1>2 DEF Engine
  <1>4. /\ engine' = f
        /\ excused' = IF engine'.born # engine.born THEN FALSE ELSE excused \/ FALSE
    BY DEF OnSpeakingStops, Becomes
  <1> HIDE DEF f
  <1>5. engine.bargeIn => f.bargeIn
    BY <1>3
  <1>6. engine.st = "ACTIVE" /\ engine.bargeIn => f.armed
    BY <1>3 DEF Arms
  <1>7. Serves(engine, f, FALSE)
    BY <1>3, <1>5, <1>6, AsideServes DEF CInv
  <1> QED
    BY <1>4, <1>7, BecomesServes

LEMMA ActsOnPartial ==
  ASSUME CInv, OnPartial \/ PartialFades \/ DeferralExpires
  PROVE  CInv'
  <1> PICK c \in BOOLEAN, p \in BOOLEAN, d \in {"none", "waiting", "due"} :
        engine' = [engine EXCEPT !.checkedIn = c, !.partial = p, !.deferred = d]
    <2>1. /\ engine \in Engine /\ engine.checkedIn \in BOOLEAN /\ engine.partial \in BOOLEAN
          /\ engine.deferred \in {"none", "waiting", "due"}
      BY DEF CInv, Sane, Engine
    <2>2. CASE OnPartial
      <3>1. engine' = [engine EXCEPT !.checkedIn = FALSE, !.partial = TRUE, !.deferred = engine.deferred]
        BY <2>1, <2>2 DEF OnPartial, Becomes, Engine
      <3> QED
        BY <2>1, <3>1
    <2>3. CASE PartialFades
      <3>1. engine' = [engine EXCEPT !.checkedIn = engine.checkedIn, !.partial = FALSE, !.deferred = engine.deferred]
        BY <2>1, <2>3 DEF PartialFades, Becomes, Engine
      <3> QED
        BY <2>1, <3>1
    <2>4. CASE DeferralExpires
      <3>1. engine' = [engine EXCEPT !.checkedIn = engine.checkedIn, !.partial = engine.partial, !.deferred = "due"]
        BY <2>1, <2>4 DEF DeferralExpires, Becomes, Engine
      <3> QED
        BY <2>1, <3>1
    <2> QED
      BY <2>2, <2>3, <2>4
  <1>1. /\ engine' \in Engine /\ engine'.turns = engine.turns /\ engine'.reply = engine.reply
        /\ engine'.queue = engine.queue /\ engine'.born = engine.born /\ engine'.gen = engine.gen
        /\ engine'.st = engine.st /\ engine'.wasPaused = engine.wasPaused
        /\ engine'.bargeIn = engine.bargeIn /\ engine'.speaking = engine.speaking
        /\ engine'.armed = engine.armed
    BY DEF CInv, Sane, Engine
  <1>2. excused' = IF engine'.born # engine.born THEN FALSE ELSE excused \/ FALSE
    BY DEF OnPartial, PartialFades, DeferralExpires, Becomes
  <1>3. Serves(engine, engine', FALSE)
    BY <1>1, AsideServes DEF CInv
  <1> QED
    BY <1>2, <1>3, BecomesServes

LEMMA ActsOnInput ==
  ASSUME CInv, OnInput
  PROVE  CInv'
  <1> DEFINE t == Said("input")
             h == Persist(engine, t)
             waits == engine.st # "ACTIVE" \/ Busy(engine)
  <1>1. /\ Sane(h) /\ h.st = engine.st /\ h.gen = engine.gen /\ h.born = engine.born
        /\ h.reply = engine.reply
        /\ h.turns = engine.turns \/ h.turns = Append(engine.turns, t)
    BY HeardOnRecord DEF CInv
  <1>2. /\ engine' = (IF waits THEN h ELSE ScheduleGeneration(h))
        /\ excused' = IF engine'.born # engine.born THEN FALSE ELSE excused \/ waits
        /\ engine.born < MaxReplies
    BY DEF OnInput, MayAsk, Becomes
  <1>3. t \in Turn /\ t.who = "input"
    BY SaidFields
  <1>4. engine.speaking \in BOOLEAN /\ engine.partial \in BOOLEAN
    BY DEF CInv, Sane, Engine
  <1>5. waits \in BOOLEAN
    BY DEF Busy
  <1> HIDE DEF h, t, waits
  <1>6. CASE waits
    <2>1. Current(h)
      BY <1>1, <1>3, CurrentKept DEF CInv, Sane
    <2>2. Serves(engine, h, TRUE)
      BY <1>1, <2>1 DEF Serves
    <2> QED
      BY <1>2, <1>6, <2>2, BecomesServes
  <1>7. CASE ~waits
    <2>1. engine.st = "ACTIVE"
      BY <1>7 DEF waits
    <2>2. Serves(engine, ScheduleGeneration(h), FALSE)
      BY <1>1, <1>2, <2>1, ScheduleServes
    <2>3. Serves(engine, engine', FALSE)
      BY <1>2, <1>7, <2>2
    <2>4. excused' = IF engine'.born # engine.born THEN FALSE ELSE excused \/ FALSE
      BY <1>2, <1>7
    <2> QED
      BY <2>3, <2>4, BecomesServes
  <1> QED
    BY <1>6, <1>7

LEMMA SameInterval ==
  ASSUME NEW a \in Nat, NEW b \in Nat, 1..a = 1..b
  PROVE  a = b
  <1>1. a <= b
    <2>1. a # 0 => a \in 1..b
      OBVIOUS
    <2> QED
      BY <2>1
  <1>2. b <= a
    <2>1. b # 0 => b \in 1..a
      OBVIOUS
    <2> QED
      BY <2>1
  <1> QED
    BY <1>1, <1>2

\* Turns are cut to what was heard: nobody comes or goes.
Cuts(s, t, g, x) ==
  /\ DOMAIN t = DOMAIN s /\ Len(t) = Len(s)
  /\ \A i \in DOMAIN s :
       /\ t[i].who = s[i].who /\ t[i].reply = s[i].reply /\ t[i].closing = s[i].closing
       /\ t[i].reply # g => t[i] = s[i]
       /\ t[i].reply = g => t[i].text = x /\ t[i].cut = TRUE

LEMMA CutFields ==
  ASSUME NEW s \in Seq(Turn), NEW g \in Reply, NEW x \in 0..MaxChunks, NEW t,
         t = [i \in DOMAIN s |->
                IF s[i].reply # g THEN s[i] ELSE [s[i] EXCEPT !.text = x, !.cut = TRUE]]
  PROVE  t \in Seq(Turn) /\ Cuts(s, t, g, x)
  <1> DEFINE w(u) == [u EXCEPT !.text = x, !.cut = TRUE]
  <1>1. \A u \in Turn : /\ w(u) \in Turn /\ w(u).who = u.who /\ w(u).reply = u.reply
                        /\ w(u).closing = u.closing /\ w(u).text = x /\ w(u).cut = TRUE
    BY DEF Turn
  <1>2. t = [i \in DOMAIN s |-> IF s[i].reply # g THEN s[i] ELSE w(s[i])]
    OBVIOUS
  <1> HIDE DEF w
  <1>3. /\ DOMAIN s = 1..Len(s) /\ Len(s) \in Nat /\ \A i \in DOMAIN s : s[i] \in Turn
    BY LenProperties
  <1>4. DOMAIN t = DOMAIN s /\ \A i \in DOMAIN s : t[i] = IF s[i].reply # g THEN s[i] ELSE w(s[i])
    BY <1>2
  <1>5. t \in [1..Len(s) -> Turn]
    BY <1>1, <1>2, <1>3
  <1>6. t \in Seq(Turn)
    BY <1>3, <1>5, SeqDef
  <1>7. Len(t) = Len(s)
    <2>1. Len(t) \in Nat /\ DOMAIN t = 1..Len(t)
      BY <1>6, LenProperties
    <2> QED
      BY <1>3, <1>4, <2>1, SameInterval
  <1>8. ASSUME NEW i \in DOMAIN s
        PROVE  /\ t[i].who = s[i].who /\ t[i].reply = s[i].reply /\ t[i].closing = s[i].closing
               /\ t[i].reply # g => t[i] = s[i]
               /\ t[i].reply = g => t[i].text = x /\ t[i].cut = TRUE
    <2>1. s[i] \in Turn
      BY <1>3
    <2>2. CASE s[i].reply # g
      BY <1>4, <2>2
    <2>3. CASE s[i].reply = g
      <3>1. t[i] = w(s[i])
        BY <1>4, <2>3
      <3> QED
        BY <1>1, <2>1, <2>3, <3>1
    <2> QED
      BY <2>2, <2>3
  <1> QED
    BY <1>4, <1>6, <1>7, <1>8 DEF Cuts

LEMMA CutsTurns ==
  ASSUME NEW e, NEW f \in Engine, NEW g \in Reply, NEW x \in 0..MaxChunks, Sane(e),
         Cuts(e.turns, f.turns, g, x),
         f.reply = e.reply, f.queue = e.queue, f.born = e.born, f.gen = e.gen, f.st = e.st,
         x <= e.reply[g].heard
  PROVE  /\ Sane(f) /\ (Current(e) => Current(f)) /\ (Heeds(e) => Heeds(f))
         /\ Answered(e, f)
         /\ \A i \in DOMAIN f.turns : f.turns[i].reply = g => f.turns[i].text = x
  <1>0. e \in Engine /\ e.turns \in Seq(Turn) /\ DOMAIN e.turns = 1..Len(e.turns) /\ Len(e.turns) \in Nat
    BY TypesInside DEF Sane
  <1>1. ASSUME NEW i \in DOMAIN e.turns
        PROVE  /\ f.turns[i].who = e.turns[i].who /\ f.turns[i].reply = e.turns[i].reply
               /\ f.turns[i].closing = e.turns[i].closing
               /\ f.turns[i].reply # g => f.turns[i] = e.turns[i]
               /\ f.turns[i].reply = g => f.turns[i].text = x /\ f.turns[i].cut = TRUE
    BY DEF Cuts
  <1>2. DOMAIN f.turns = DOMAIN e.turns /\ Len(f.turns) = Len(e.turns)
    BY DEF Cuts
  <1>3. GenInv(f) /\ ReplyInv(f) /\ QueueInv(f)
    BY DEF Sane, GenInv, ReplyInv, QueueInv
  <1>4. TurnInv(f)
    <2> SUFFICES ASSUME NEW i \in DOMAIN e.turns, f.turns[i].reply # 0
                 PROVE  LET h == f.turns[i].reply
                        IN  /\ f.reply[h].phase \notin {"unborn", "preparing"}
                            /\ f.gen # h
                            /\ f.reply[h].phase # "broken" => f.turns[i].text <= f.reply[h].heard
      BY <1>2 DEF TurnInv
    <2>1. f.turns[i].reply = e.turns[i].reply
      BY <1>1
    <2>2. LET h == e.turns[i].reply
          IN  /\ e.reply[h].phase \notin {"unborn", "preparing"}
              /\ e.gen # h
              /\ e.reply[h].phase # "broken" => e.turns[i].text <= e.reply[h].heard
      BY <2>1 DEF Sane, TurnInv
    <2>3. f.turns[i].reply = g => f.turns[i].text = x
      BY <1>1
    <2>4. f.turns[i].reply # g => f.turns[i] = e.turns[i]
      BY <1>1
    <2> QED
      BY <2>1, <2>2, <2>3, <2>4
  <1>5. FreshInv(f)
    <2> SUFFICES ASSUME NEW i \in DOMAIN e.turns, NEW j \in 1..(i - 1),
                        f.turns[i].reply # 0, ~f.turns[i].cut, f.turns[j].who = "participant"
                 PROVE  j <= f.reply[f.turns[i].reply].seen
      BY <1>2 DEF FreshInv
    <2>1. f.turns[i] = e.turns[i]
      BY <1>1
    <2>2. j \in DOMAIN e.turns
      BY <1>0
    <2>3. e.turns[j].who = "participant"
      BY <1>1, <2>2
    <2> QED
      BY <2>1, <2>3 DEF Sane, FreshInv
  <1>6. LastInv(f)
    <2> SUFFICES ASSUME NEW i \in DOMAIN e.turns, NEW j \in DOMAIN e.turns,
                        i < j, f.turns[i].closing
                 PROVE  f.turns[j].who # "agent" \/ f.turns[j].cut
      BY <1>2 DEF LastInv
    <2>1. e.turns[i].closing
      BY <1>1
    <2>2. e.turns[j].who # "agent" \/ e.turns[j].cut
      BY <2>1 DEF Sane, LastInv
    <2>3. CASE f.turns[j].reply = g
      <3>1. f.turns[j].cut = TRUE
        BY <1>1, <2>3
      <3> QED
        BY <3>1
    <2>4. CASE f.turns[j].reply # g
      <3>1. f.turns[j] = e.turns[j]
        BY <1>1, <2>4
      <3> QED
        BY <2>2, <3>1
    <2> QED
      BY <2>3, <2>4
  <1>7. ClosingInv(f)
    <2> SUFFICES ASSUME NEW i \in DOMAIN e.turns, f.turns[i].closing
                 PROVE  f.st = "ENDING" \/ IsTerminal(f.st)
      BY <1>2 DEF ClosingInv
    <2>1. e.turns[i].closing
      BY <1>1
    <2> QED
      BY <2>1 DEF Sane, ClosingInv
  <1>8. Current(e) => Current(f)
    BY <1>1, <1>2 DEF Current
  <1>9. Heeds(e) => Heeds(f)
    BY <1>1, <1>2 DEF Heeds
  <1>10. Answered(e, f)
    <2>1. /\ DOMAIN f.turns = DOMAIN e.turns
          /\ \A i \in DOMAIN e.turns :
               f.turns[i].who = e.turns[i].who /\ f.turns[i].reply = e.turns[i].reply
      BY <1>1, <1>2
    <2>2. \A i \in DOMAIN e.turns : e.turns[i].reply # 0 =>
            f.reply[e.turns[i].reply].seen = e.reply[e.turns[i].reply].seen
      OBVIOUS
    <2> QED
      BY <2>1, <2>2, SameAnswers
  <1> QED
    BY <1>1, <1>2, <1>3, <1>4, <1>5, <1>6, <1>7, <1>8, <1>9, <1>10 DEF Sane

LEMMA ReportOnly ==
  ASSUME NEW r \in Generation, NEW x
  PROVE  [r EXCEPT !.heard = x] = [r EXCEPT !.heard = x, !.spoken = r.spoken]
  BY DEF Generation

\* A report of what was heard of a reply, before its turn is written or after.
LEMMA TruncateSane ==
  ASSUME NEW e, Sane(e), NEW g \in Reply, NEW x \in 0..MaxChunks, x < e.reply[g].heard,
         e.reply[g].text # 0
  PROVE  LET f == TruncateTurn(e, g, x)
         IN  /\ Sane(f) /\ (Current(e) => Current(f))
             /\ f.born = e.born /\ f.st = e.st /\ f.gen = e.gen /\ f.queue = e.queue
             /\ Aside(e, f)
             /\ Answered(e, f) /\ (Heeds(e) => Heeds(f))
  <1> DEFINE r == e.reply[g]
             y == IF (\E i \in DOMAIN e.turns : e.turns[i].reply = g) \/ e.gen # g
                  THEN r.spoken ELSE x
             s == [r EXCEPT !.heard = x, !.spoken = y]
             q == WithReply(e, g, s)
             k == Kept(r.text, x)
             cut == [i \in DOMAIN e.turns |->
                       IF e.turns[i].reply # g THEN e.turns[i]
                       ELSE [e.turns[i] EXCEPT !.text = k, !.cut = TRUE]]
             f == TruncateTurn(e, g, x)
  <1>1. e \in Engine /\ r \in Generation /\ e.turns \in Seq(Turn)
    BY TypesInside DEF Sane
  <1>2. r.text \in 0..MaxChunks /\ r.spoken \in 0..Everything /\ r.heard \in 0..Everything
    BY <1>1, GenerationTypes
  <1>3. x \in 0..Everything /\ y \in 0..Everything
    BY <1>2, ConversationAssumption DEF Everything
  <1>4. k \in 0..MaxChunks /\ k <= x
    BY <1>2, <1>3, KeptLess
  <1> HIDE DEF y, k
  <1>5. /\ s \in Generation /\ s.phase = r.phase /\ s.text = r.text /\ s.seen = r.seen
        /\ s.heard = x /\ s.spoken = y
    <2> HIDE DEF r
    <2> QED
      BY <1>1, <1>3 DEF Generation
  <1>6. r.phase \notin {"unborn", "preparing"}
    BY DEF Sane, ReplyInv
  <1>7. g <= e.born
    BY <1>6, BornReply
  <1> HIDE DEF r
  <1>8. CASE \E i \in DOMAIN e.turns : e.turns[i].reply = g
    <2>1. e.gen # g /\ y = r.spoken
      BY <1>8 DEF Sane, TurnInv, Reply, y, r
    <2>2. s = [r EXCEPT !.heard = x]
      BY <1>1, <2>1, ReportOnly
    <2>3. f = [q EXCEPT !.turns = cut]
      BY <1>8, <2>2 DEF TruncateTurn, r, k
    <2> HIDE DEF s
    <2>4. /\ q \in Engine /\ Aside(e, q) /\ q.st = e.st /\ q.turns = e.turns /\ q.gen = e.gen
          /\ q.born = e.born /\ q.queue = e.queue /\ q.reply = [e.reply EXCEPT ![g] = s]
      BY <1>1, <1>5, WithReplyFields
    <2> HIDE DEF q, f
    <2>5. cut \in Seq(Turn) /\ Cuts(e.turns, cut, g, k)
      BY <1>1, <1>4, CutFields
    <2> DEFINE m == [e EXCEPT !.turns = cut]
    <2> HIDE DEF cut
    <2>6. /\ m \in Engine /\ m.turns = cut /\ m.reply = e.reply /\ m.queue = e.queue
          /\ m.born = e.born /\ m.gen = e.gen /\ m.st = e.st
      BY <1>1, <2>5 DEF Engine
    <2>7. /\ f \in Engine /\ f.turns = cut /\ f.reply = q.reply /\ f.queue = q.queue
          /\ f.born = q.born /\ f.gen = q.gen /\ f.st = q.st /\ Aside(q, f)
      BY <2>3, <2>4, <2>5 DEF Engine, Aside
    <2> HIDE DEF m
    <2>8. k <= e.reply[g].heard
      BY <1>2, <1>4 DEF r
    <2>9. /\ Sane(m) /\ (Current(e) => Current(m)) /\ (Heeds(e) => Heeds(m))
          /\ Answered(e, m)
          /\ \A i \in DOMAIN m.turns : m.turns[i].reply = g => m.turns[i].text = k
      <3>1. Cuts(e.turns, m.turns, g, k)
        BY <2>5, <2>6
      <3> QED
        BY <1>4, <2>6, <2>8, <3>1, CutsTurns
    <2>10. Sane(f)
      <3>1. /\ s.seen = m.reply[g].seen /\ s.phase = m.reply[g].phase
        BY <1>5, <2>6 DEF r
      <3>2. \A i \in DOMAIN m.turns : m.turns[i].reply = g => m.turns[i].text <= s.heard
        BY <1>4, <1>5, <2>9
      <3>3. s.phase = "streaming" => f.gen = g
        BY <1>5, <2>1 DEF Sane, ReplyInv, r
      <3>4. f.gen # g
        BY <2>1, <2>4, <2>7
      <3>5. s.phase \notin {"unborn", "preparing"} /\ g <= m.born
        BY <1>5, <1>6, <1>7, <2>6
      <3>6. /\ f.turns = m.turns /\ f.queue = m.queue /\ f.born = m.born /\ f.st = m.st
            /\ f.gen = m.gen /\ f.reply = [m.reply EXCEPT ![g] = s]
        BY <2>4, <2>6, <2>7
      <3> QED
        BY <1>5, <2>7, <2>9, <3>1, <3>2, <3>3, <3>4, <3>5, <3>6, MovesReply
    <2>11. (Current(e) => Current(f)) /\ (Heeds(e) => Heeds(f))
      <3>1. f.gen = m.gen /\ f.turns = m.turns /\ f.gen # g
        BY <2>1, <2>4, <2>6, <2>7
      <3>2. f.gen # 0 => f.reply[f.gen] = m.reply[f.gen]
        <4>1. f.gen # 0 => f.gen \in Reply
          BY <2>7, TypesInside
        <4>2. e.reply \in [Reply -> Generation]
          BY <1>1, TypesInside
        <4> QED
          BY <2>4, <2>6, <2>7, <3>1, <4>1, <4>2
      <3> QED
        BY <2>9, <3>1, <3>2 DEF Current, Heeds
    <2>12. Answered(e, f)
      <3>1. \A h \in Reply : f.reply[h].seen = m.reply[h].seen
        <4>1. e.reply \in [Reply -> Generation]
          BY <1>1, TypesInside
        <4> QED
          BY <1>5, <2>4, <2>6, <2>7, <4>1 DEF r
      <3>3. Answered(m, f)
        BY <2>6, <2>7, <3>1, SameReaders
      <3> QED
        BY <2>9, <3>3 DEF Answered
    <2> QED
      BY <2>4, <2>6, <2>7, <2>10, <2>11, <2>12 DEF Aside, f
  <1>9. CASE ~\E i \in DOMAIN e.turns : e.turns[i].reply = g
    <2>1. f = q
      <3>1. y = IF e.gen = g THEN x ELSE r.spoken
        BY <1>9 DEF y
      <3> QED
        BY <1>9, <3>1 DEF TruncateTurn, r
    <2> HIDE DEF s
    <2>2. /\ q \in Engine /\ Aside(e, q) /\ q.st = e.st /\ q.turns = e.turns /\ q.gen = e.gen
          /\ q.born = e.born /\ q.queue = e.queue /\ q.reply = [e.reply EXCEPT ![g] = s]
      BY <1>1, <1>5, WithReplyFields
    <2> HIDE DEF q, f
    <2>3. q.gen = g => s.spoken = s.heard
      BY <1>5, <1>9, <2>2 DEF y
    <2>4. s.phase = "streaming" => q.gen = g
      BY <1>5, <2>2 DEF Sane, ReplyInv, r
    <2>5. s.phase = e.reply[g].phase /\ s.phase \notin {"unborn", "preparing"}
      BY <1>5, <1>6 DEF r
    <2>6. Sane(q)
      BY <1>5, <1>7, <1>9, <2>2, <2>3, <2>4, <2>5, MovesReply
    <2>7. (Current(e) => Current(q)) /\ (Heeds(e) => Heeds(q)) /\ Answered(e, q)
      <3>1. e.gen # 0 => e.gen \in Reply
        BY <1>1, TypesInside
      <3>2. e.reply \in [Reply -> Generation]
        BY <1>1, TypesInside
      <3>3. e.gen # 0 => /\ q.reply[e.gen].phase = e.reply[e.gen].phase
                         /\ q.reply[e.gen].seen = e.reply[e.gen].seen
        <4>1. CASE e.gen = g
          BY <1>5, <2>2, <3>2, <4>1 DEF r
        <4>2. CASE e.gen # g
          BY <2>2, <3>1, <3>2, <4>2
        <4> QED
          BY <4>1, <4>2
      <3>5. \A h \in Reply : q.reply[h].seen = e.reply[h].seen
        BY <1>5, <2>2, <3>2 DEF r
      <3>4. q.turns = e.turns
        BY <2>2
      <3>6. Answered(e, q)
        BY <1>1, <3>4, <3>5, SameReaders
      <3> QED
        BY <2>2, <3>3, <3>6 DEF Current, Heeds
    <2> QED
      BY <2>1, <2>2, <2>6, <2>7 DEF f
  <1> QED
    BY <1>8, <1>9

\* An operator that keeps the conversation as it is.
LEMMA KeptServes ==
  ASSUME NEW e, NEW f, NEW x, Sane(f), Current(f), f.born = e.born, Owed(e) => Owed(f)
  PROVE  Serves(e, f, x)
  BY DEF Serves

LEMMA CompletesServes ==
  ASSUME NEW e, NEW d, NEW g, NEW x, Sane(e), Serves(d, e, x)
  PROVE  Serves(d, CompletesIfClosing(e, g), x)
  <1>1. "COMPLETED" \in TerminalStates
    BY DEF TerminalStates
  <1>2. Serves(d, Ended(e, "COMPLETED"), x)
    BY <1>1, EndedServes
  <1> QED
    BY <1>2 DEF CompletesIfClosing

LEMMA ActsOnPlayback ==
  ASSUME CInv, OnPlaybackInterrupted \/ OnPlaybackCompleted
  PROVE  CInv'
  <1>1. CASE OnPlaybackInterrupted
    <2>a. PICK g \in Reply : \E x \in 0..(engine.reply[g].text - 1) :
            /\ engine.reply[g].text > 0 /\ x < engine.reply[g].heard
            /\ engine' = CompletesIfClosing(TruncateTurn(engine, g, x), g)
            /\ excused' = IF engine'.born # engine.born THEN FALSE ELSE excused \/ FALSE
      BY <1>1 DEF OnPlaybackInterrupted, Becomes
    <2>1. PICK x \in 0..(engine.reply[g].text - 1) :
            /\ engine.reply[g].text > 0 /\ x < engine.reply[g].heard
            /\ engine' = CompletesIfClosing(TruncateTurn(engine, g, x), g)
            /\ excused' = IF engine'.born # engine.born THEN FALSE ELSE excused \/ FALSE
      BY <2>a
    <2>2. engine.reply[g] \in Generation
      BY TypesInside DEF CInv, Sane
    <2>3. engine.reply[g].text \in 0..MaxChunks
      BY <2>2, GenerationTypes
    <2>4. x \in 0..MaxChunks /\ engine.reply[g].text # 0
      BY <2>1, <2>3, ConversationAssumption
    <2> DEFINE f == TruncateTurn(engine, g, x)
    <2>5. /\ Sane(f) /\ Current(f) /\ f.born = engine.born /\ f.st = engine.st
          /\ f.gen = engine.gen /\ f.queue = engine.queue /\ Aside(engine, f)
          /\ Answered(engine, f) /\ (Heeds(engine) => Heeds(f))
      BY <2>1, <2>4, TruncateSane DEF CInv
    <2> HIDE DEF f
    <2>6. Owed(engine) => Owed(f)
      BY <2>5 DEF Owed, Resumes, Aside, Answered
    <2>7. Serves(engine, f, FALSE)
      BY <2>5, <2>6, KeptServes
    <2>8. Serves(engine, CompletesIfClosing(f, g), FALSE)
      BY <2>5, <2>7, CompletesServes
    <2>9. Serves(engine, engine', FALSE)
      BY <2>1, <2>8 DEF f
    <2> QED
      BY <2>1, <2>9, BecomesServes
  <1>2. CASE OnPlaybackCompleted
    <2>1. PICK g \in {0} \cup Reply :
            /\ engine' = CompletesIfClosing(engine, g)
            /\ excused' = IF engine'.born # engine.born THEN FALSE ELSE excused \/ FALSE
      BY <1>2 DEF OnPlaybackCompleted, Becomes
    <2>2. Serves(engine, engine, FALSE)
      BY KeptServes DEF CInv
    <2>3. Serves(engine, CompletesIfClosing(engine, g), FALSE)
      BY <2>2, CompletesServes DEF CInv
    <2>4. Serves(engine, engine', FALSE)
      BY <2>1, <2>3
    <2> QED
      BY <2>1, <2>4, BecomesServes
  <1> QED
    BY <1>1, <1>2

LEMMA ActsOnControl ==
  ASSUME CInv, OnControlPause \/ OnControlResume
  PROVE  CInv'
  <1>1. CASE OnControlPause
    <2> DEFINE a == AbortGeneration(engine, "paused")
               f == [a EXCEPT !.st = "PAUSED"]
               x == Unanswered(f)
    <2>1. /\ Sane(a) /\ Beside(engine, a) /\ a.gen = 0
      BY AbortSane DEF CInv
    <2>2. /\ engine' = f /\ engine.st = "ACTIVE"
          /\ excused' = IF engine'.born # engine.born THEN FALSE ELSE excused \/ x
      BY <1>1 DEF OnControlPause, Becomes, Paused
    <2> HIDE DEF a, x
    <2>3. /\ f \in Engine /\ f.turns = a.turns /\ f.reply = a.reply /\ f.queue = a.queue
          /\ f.born = a.born /\ f.gen = 0 /\ f.st = "PAUSED"
      BY <2>1 DEF Sane, Engine, SessionStates
    <2> HIDE DEF f
    <2>4. ~Closed(a.st)
      BY <2>1, <2>2 DEF Beside, Closed, IsTerminal, TerminalStates
    <2>5. Sane(f)
      BY <2>1, <2>3, <2>4, KeepsSane
    <2>6. Current(f) /\ (x \/ Owed(f))
      BY <2>3 DEF Current, Owed, Heeds, x
    <2>7. x \in BOOLEAN
      BY DEF Unanswered, x
    <2>8. f.born = engine.born
      BY <2>1, <2>3 DEF Beside
    <2>9. Serves(engine, engine', x)
      BY <2>2, <2>5, <2>6, <2>8 DEF Serves
    <2> QED
      BY <2>2, <2>7, <2>9, BecomesServes
  <1>2. CASE OnControlResume
    <2>1. /\ engine' = [engine EXCEPT !.st = "ACTIVE"] /\ engine.st = "PAUSED"
          /\ excused' = IF engine'.born # engine.born THEN FALSE ELSE excused \/ FALSE
      BY <1>2 DEF OnControlResume, Becomes
    <2>2. /\ engine' \in Engine /\ engine'.turns = engine.turns /\ engine'.reply = engine.reply
          /\ engine'.queue = engine.queue /\ engine'.born = engine.born
          /\ engine'.gen = engine.gen /\ engine'.st = "ACTIVE"
      BY <2>1 DEF CInv, Sane, Engine, SessionStates
    <2>3. engine.gen = 0 /\ ~Closed(engine.st)
      BY <2>1 DEF CInv, Sane, GenInv, Closed, IsTerminal, TerminalStates
    <2>4. Sane(engine')
      BY <2>2, <2>3, KeepsSane DEF CInv
    <2>5. Current(engine') /\ (Owed(engine) => Owed(engine'))
      <3>1. Unanswered(engine') = Unanswered(engine) /\ (Heeds(engine) => Heeds(engine'))
        BY <2>2, SameTalk
      <3> QED
        BY <2>1, <2>2, <2>3, <3>1 DEF Current, Owed
    <2>6. Serves(engine, engine', FALSE)
      BY <2>2, <2>4, <2>5, KeptServes
    <2> QED
      BY <2>1, <2>6, BecomesServes
  <1> QED
    BY <1>1, <1>2

LEMMA ActsOnClose ==
  ASSUME CInv, OnClose
  PROVE  CInv'
  <1>1. /\ engine' = CloseSessionNow(engine)
        /\ excused' = IF engine'.born # engine.born THEN FALSE ELSE excused \/ FALSE
    BY DEF OnClose, Becomes
  <1>2. Serves(engine, engine', FALSE)
    BY <1>1, CloseServes DEF CInv
  <1> QED
    BY <1>1, <1>2, BecomesServes

LEMMA ActsOnDetach ==
  ASSUME CInv, OnDetach
  PROVE  CInv'
  <1> DEFINE e == [engine EXCEPT !.connected = FALSE, !.speaking = FALSE]
             a == AbortGeneration(e, "disconnect")
             f == [a EXCEPT !.st = "RECONNECTING", !.wasPaused = (engine.st = "PAUSED")]
  <1>1. /\ engine' = Detached(engine)
        /\ excused' = IF engine'.born # engine.born THEN FALSE ELSE excused \/ FALSE
    BY DEF OnDetach, Becomes
  <1>2. /\ a.st \in {"ACTIVE", "PAUSED"} => engine' = f
        /\ a.st = "ENDING" => engine' = Ended(a, "COMPLETED")
        /\ a.st \notin {"ACTIVE", "PAUSED", "ENDING"} => engine' = a
    BY <1>1 DEF Detached
  <1>3. /\ e \in Engine /\ e.turns = engine.turns /\ e.reply = engine.reply
        /\ e.queue = engine.queue /\ e.born = engine.born /\ e.gen = engine.gen
        /\ e.st = engine.st /\ e.wasPaused = engine.wasPaused
    BY DEF CInv, Sane, Engine
  <1> HIDE DEF e
  <1>4. Sane(e)
    BY <1>3, SameSane DEF CInv
  <1>5. Sane(a) /\ Beside(e, a) /\ a.gen = 0
    BY <1>4, AbortSane
  <1>6. /\ a.st = engine.st /\ a.born = engine.born /\ a.wasPaused = engine.wasPaused
        /\ Unanswered(a) => Unanswered(engine)
    <2>1. Unanswered(e) = Unanswered(engine)
      BY <1>3, SameTalk
    <2> QED
      BY <1>3, <1>5, <2>1 DEF Beside, Aside, Answered
  <1> HIDE DEF a
  <1>7. CASE a.st \in {"ACTIVE", "PAUSED"}
    <2>1. /\ f \in Engine /\ f.turns = a.turns /\ f.reply = a.reply /\ f.queue = a.queue
          /\ f.born = a.born /\ f.gen = 0 /\ f.st = "RECONNECTING"
          /\ f.wasPaused = (engine.st = "PAUSED")
      BY <1>5 DEF Sane, Engine, SessionStates
    <2> HIDE DEF f
    <2>2. ~Closed(a.st)
      BY <1>7 DEF Closed, IsTerminal, TerminalStates
    <2>3. Sane(f)
      BY <1>5, <2>1, <2>2, KeepsSane
    <2>4. f.wasPaused => engine.st = "PAUSED"
      BY <2>1
    <2>5. Current(f) /\ (Owed(engine) => Owed(f))
      <3>1. Unanswered(f) = Unanswered(a)
        BY <2>1, SameTalk
      <3> QED
        BY <1>6, <2>1, <2>4, <3>1 DEF Current, Owed, Heeds
    <2>6. Serves(engine, f, FALSE)
      BY <1>6, <2>1, <2>3, <2>5, KeptServes
    <2> QED
      BY <1>1, <1>2, <1>7, <2>6, BecomesServes
  <1>8. CASE a.st = "ENDING"
    <2>1. "COMPLETED" \in TerminalStates
      BY DEF TerminalStates
    <2>2. Serves(engine, Ended(a, "COMPLETED"), FALSE)
      BY <1>5, <2>1, EndedServes
    <2> QED
      BY <1>1, <1>2, <1>8, <2>2, BecomesServes
  <1>9. CASE a.st \notin {"ACTIVE", "PAUSED", "ENDING"}
    <2>1. Current(a) /\ (Owed(engine) => Owed(a))
      BY <1>5, <1>6, <1>9 DEF Current, Owed, Heeds
    <2>2. Serves(engine, a, FALSE)
      BY <1>5, <1>6, <2>1, KeptServes
    <2> QED
      BY <1>1, <1>2, <1>9, <2>2, BecomesServes
  <1> QED
    BY <1>7, <1>8, <1>9

LEMMA ActsOnAttach ==
  ASSUME CInv, Attach
  PROVE  CInv'
  <1> DEFINE f == Returned(engine)
  <1> DEFINE x == engine.st = "RECONNECTING" /\ Hidden(engine)
  <1>1. /\ engine' = Attached(engine)
        /\ NeedsResponse(engine.turns) => engine.born < MaxReplies
        /\ excused' = IF engine'.born # engine.born THEN FALSE ELSE excused \/ x
    BY DEF Attach, Becomes
  <1>a. x \in BOOLEAN
    OBVIOUS
  <1> HIDE DEF x
  <1>2. engine \in Engine
    BY DEF CInv, Sane
  <1> DEFINE st == IF engine.st # "RECONNECTING" THEN engine.st
                   ELSE IF engine.wasPaused THEN "PAUSED" ELSE "ACTIVE"
  <1>3. st \in SessionStates
    BY <1>2, TypesInside DEF SessionStates
  <1>4. f = [engine EXCEPT !.wasPaused = FALSE, !.connected = TRUE, !.st = st]
    BY DEF Returned
  <1> HIDE DEF st, f
  <1>5. /\ f \in Engine /\ f.turns = engine.turns /\ f.reply = engine.reply
        /\ f.queue = engine.queue /\ f.born = engine.born /\ f.gen = engine.gen
        /\ f.st = st /\ f.bargeIn = engine.bargeIn /\ f.speaking = engine.speaking
        /\ f.armed = engine.armed
    BY <1>2, <1>3, <1>4 DEF Engine
  <1>6. /\ engine.gen # 0 => engine.st = "ACTIVE"
        /\ engine.st = "ACTIVE" => st = "ACTIVE"
        /\ Closed(engine.st) => st = engine.st
        /\ st # "RECONNECTING"
        /\ st = "PAUSED" => engine.st = "PAUSED" \/ (engine.st = "RECONNECTING" /\ engine.wasPaused)
    BY DEF CInv, Sane, GenInv, Closed, IsTerminal, TerminalStates, st
  <1>7. Sane(f) /\ Current(f)
    <2>1. Sane(f)
      BY <1>5, <1>6, KeepsSane DEF CInv
    <2> QED
      BY <1>5, <2>1 DEF CInv, Current
  <1>8. CASE f.st = "ACTIVE" /\ NeedsResponse(engine.turns)
    <2>1. engine' = ScheduleGeneration(f)
      BY <1>1, <1>8 DEF Attached, f
    <2>2. Serves(engine, ScheduleGeneration(f), x)
      BY <1>1, <1>5, <1>7, <1>8, ScheduleServes
    <2> QED
      BY <1>1, <1>a, <2>1, <2>2, BecomesServes
  <1>9. CASE ~(f.st = "ACTIVE" /\ NeedsResponse(engine.turns))
    <2>1. engine' = f
      BY <1>1, <1>9 DEF Attached, f
    <2>2. Owed(engine) /\ ~x => Owed(f)
      <3>1. Unanswered(f) = Unanswered(engine) /\ (Heeds(engine) => Heeds(f))
        BY <1>5, SameTalk
      <3>2. Unanswered(engine) /\ ~x /\ f.st = "ACTIVE" => engine.st # "RECONNECTING"
        BY <1>9 DEF Hidden, x
      <3>3. f.st = "ACTIVE" => engine.st \in {"ACTIVE", "RECONNECTING"}
        BY <1>5 DEF st
      <3> QED
        BY <1>5, <1>6, <3>1, <3>2, <3>3 DEF Owed, Resumes
    <2>3. Serves(engine, f, x)
      BY <1>5, <1>7, <2>2 DEF Serves
    <2> QED
      BY <1>1, <1>a, <2>1, <2>3, BecomesServes
  <1> QED
    BY <1>8, <1>9

\* What a restart leaves of a reply.
Lost(r) ==
  [r EXCEPT !.spoken = Everything, !.phase = IF @ \in {"unborn", "broken"} THEN @ ELSE "gone"]

LEMMA LostFields ==
  ASSUME NEW r \in Generation
  PROVE  /\ Lost(r) \in Generation /\ Lost(r).text = r.text /\ Lost(r).seen = r.seen
         /\ Lost(r).heard = r.heard /\ Lost(r).spoken = Everything
         /\ Lost(r).phase = IF r.phase \in {"unborn", "broken"} THEN r.phase ELSE "gone"
  <1> DEFINE p == IF r.phase \in {"unborn", "broken"} THEN r.phase ELSE "gone"
  <1>1. p \in {"unborn", "broken", "gone"} /\ Everything \in 0..Everything
    BY ConversationAssumption DEF Everything
  <1>2. Lost(r) = [r EXCEPT !.spoken = Everything, !.phase = p]
    BY DEF Lost
  <1> HIDE DEF p
  <1>3. /\ Lost(r) \in Generation /\ Lost(r).text = r.text /\ Lost(r).seen = r.seen
        /\ Lost(r).heard = r.heard /\ Lost(r).spoken = Everything /\ Lost(r).phase = p
    BY <1>1, <1>2 DEF Generation
  <1> QED
    BY <1>3 DEF p

LEMMA FreshFields ==
  /\ Fresh \in Engine /\ Fresh.st = "ACTIVE" /\ Fresh.wasPaused = FALSE
  /\ Fresh.turns = << >> /\ Fresh.gen = 0 /\ Fresh.born = 0 /\ Fresh.queue = << >>
  /\ \A g \in Reply :
       /\ Fresh.reply[g].phase = "unborn" /\ Fresh.reply[g].text = 0
       /\ Fresh.reply[g].spoken = Everything /\ Fresh.reply[g].heard = Everything
  <1> DEFINE r == [phase |-> "unborn", text |-> 0, ends |-> FALSE, seen |-> 0,
                   spoken |-> Everything, heard |-> Everything]
  <1>1. /\ r \in Generation /\ r.phase = "unborn" /\ r.text = 0
        /\ r.spoken = Everything /\ r.heard = Everything
    BY ConversationAssumption DEF Generation, Everything
  <1>2. Fresh = [st |-> "ACTIVE", wasPaused |-> FALSE, connected |-> TRUE,
                 turns |-> << >>, gen |-> 0, born |-> 0, reply |-> [g \in Reply |-> r],
                 queue |-> << >>, failures |-> 0, deferred |-> "none", timedOut |-> FALSE,
                 speaking |-> FALSE, partial |-> FALSE, bargeIn |-> FALSE, armed |-> FALSE,
                 checkedIn |-> FALSE]
    BY DEF Fresh
  <1> HIDE DEF r
  <1>3. << >> \in Seq(Turn) /\ << >> \in Seq(QueuedTask) /\ "ACTIVE" \in SessionStates
    BY DEF SessionStates
  <1> QED
    BY <1>1, <1>2, <1>3 DEF Engine

LEMMA ActsOnRestart ==
  ASSUME CInv, Restart
  PROVE  CInv'
  <1> DEFINE st == CASE engine.st = "ACTIVE" -> "RECONNECTING"
                     [] engine.st = "ENDING" -> "COMPLETED"
                     [] OTHER -> engine.st
             lost == [g \in Reply |-> Lost(engine.reply[g])]
             f == [Fresh EXCEPT !.st = st, !.connected = FALSE, !.turns = engine.turns,
                                !.born = engine.born, !.reply = lost,
                                !.failures = engine.failures, !.timedOut = engine.timedOut]
  <1>1. /\ engine' = f /\ ~IsTerminal(engine.st)
        /\ excused' = IF engine'.born # engine.born THEN FALSE ELSE excused \/ FALSE
    BY DEF Restart, Becomes, Lost
  <1>2. /\ engine \in Engine /\ engine.reply \in [Reply -> Generation]
        /\ \A g \in Reply : engine.reply[g] \in Generation
    BY TypesInside DEF CInv, Sane
  <1>3. /\ st \in SessionStates /\ (Closed(engine.st) => Closed(st)) /\ st # "ACTIVE"
        /\ st = "PAUSED" => engine.st = "PAUSED"
        /\ st = "RECONNECTING" => engine.st \in {"ACTIVE", "RECONNECTING"}
    BY <1>2, TypesInside DEF SessionStates, Closed, IsTerminal, TerminalStates
  <1>4. /\ lost \in [Reply -> Generation]
        /\ \A g \in Reply :
             /\ lost[g].text = engine.reply[g].text /\ lost[g].seen = engine.reply[g].seen
             /\ lost[g].heard = engine.reply[g].heard /\ lost[g].spoken = Everything
             /\ lost[g].phase = IF engine.reply[g].phase \in {"unborn", "broken"}
                                THEN engine.reply[g].phase ELSE "gone"
    BY <1>2, LostFields
  <1> HIDE DEF st, lost
  <1>5. /\ f \in Engine /\ f.turns = engine.turns /\ f.reply = lost /\ f.queue = << >>
        /\ f.born = engine.born /\ f.gen = 0 /\ f.st = st /\ f.wasPaused = FALSE
    <2>1. /\ engine.turns \in Seq(Turn) /\ engine.born \in {0} \cup Reply
          /\ engine.failures \in Nat /\ engine.timedOut \in BOOLEAN
      BY <1>2 DEF Engine
    <2> QED
      BY <1>3, <1>4, <2>1, FreshFields DEF Engine
  <1> HIDE DEF f
  <1>6. \A i \in DOMAIN engine.turns : engine.turns[i].reply \in {0} \cup Reply
    BY <1>2, TypesInside
  <1>7. GenInv(f) /\ QueueInv(f)
    BY <1>5 DEF GenInv, QueueInv
  <1>8. ReplyInv(f)
    BY <1>4, <1>5 DEF CInv, Sane, ReplyInv, Reply
  <1>9. TurnInv(f)
    BY <1>4, <1>5, <1>6 DEF CInv, Sane, TurnInv
  <1>10. FreshInv(f)
    <2> SUFFICES ASSUME NEW i \in DOMAIN engine.turns, NEW j \in 1..(i - 1),
                        engine.turns[i].reply # 0, ~engine.turns[i].cut,
                        engine.turns[j].who = "participant"
                 PROVE  j <= f.reply[engine.turns[i].reply].seen
      BY <1>5 DEF FreshInv
    <2>1. j <= engine.reply[engine.turns[i].reply].seen
      BY DEF CInv, Sane, FreshInv
    <2> QED
      BY <1>4, <1>5, <1>6, <2>1
  <1>11. LastInv(f)
    BY <1>5 DEF CInv, Sane, LastInv
  <1>12. ClosingInv(f)
    BY <1>3, <1>5 DEF CInv, Sane, ClosingInv, Closed
  <1>13. Sane(f)
    BY <1>5, <1>7, <1>8, <1>9, <1>10, <1>11, <1>12 DEF Sane
  <1>14. Current(f) /\ (Owed(engine) => Owed(f))
    <2>1. Answered(engine, f)
      BY <1>2, <1>4, <1>5, SameReaders
    <2> QED
      BY <1>3, <1>5, <2>1 DEF Current, Owed, Heeds, Answered
  <1>15. Serves(engine, f, FALSE)
    BY <1>5, <1>13, <1>14, KeptServes
  <1> QED
    BY <1>1, <1>15, BecomesServes

-----------------------------------------------------------------------------
(* The queue *)

\* A task joins the queue and finds its reply as it left it.
LEMMA QueuesSane ==
  ASSUME NEW e, Sane(e), NEW kind \in {"commit", "error", "false_barge_in"},
         NEW g \in {0} \cup Reply,
         IF kind = "false_barge_in" THEN g = 0
         ELSE g # 0 /\ e.reply[g].phase = (IF kind = "commit" THEN "ended" ELSE "failed"),
         g = 0 \/ \A k \in DOMAIN e.queue : e.queue[k].reply # g
  PROVE  LET f == Queues(e, kind, g)
         IN  /\ Sane(f) /\ Aside(e, f)
             /\ f.turns = e.turns /\ f.reply = e.reply /\ f.born = e.born
             /\ f.gen = e.gen /\ f.st = e.st
             /\ \A k \in DOMAIN e.queue : k \in DOMAIN f.queue /\ f.queue[k] = e.queue[k]
             /\ \E k \in DOMAIN f.queue : f.queue[k].kind = kind
  <1> DEFINE t == [kind |-> kind, reply |-> g]
             f == Queues(e, kind, g)
  <1>1. t \in QueuedTask /\ t.kind = kind /\ t.reply = g
    BY DEF QueuedTask
  <1>2. e \in Engine /\ e.queue \in Seq(QueuedTask)
    BY TypesInside DEF Sane
  <1>3. f = [e EXCEPT !.queue = Append(@, t)]
    BY DEF Queues
  <1> HIDE DEF t
  <1>4. Append(e.queue, t) \in Seq(QueuedTask)
    BY <1>1, <1>2
  <1> HIDE DEF f
  <1>5. /\ f \in Engine /\ Aside(e, f) /\ f.turns = e.turns /\ f.reply = e.reply
        /\ f.born = e.born /\ f.gen = e.gen /\ f.st = e.st /\ f.queue = Append(e.queue, t)
    BY <1>2, <1>3, <1>4 DEF Engine, Aside
  <1> DEFINE n == Len(e.queue) + 1
  <1>6. /\ DOMAIN f.queue = (DOMAIN e.queue) \cup {n} /\ n \notin DOMAIN e.queue
        /\ f.queue[n] = t
        /\ \A k \in DOMAIN e.queue : k \in DOMAIN f.queue /\ f.queue[k] = e.queue[k]
    BY <1>1, <1>2, <1>5
  <1> HIDE DEF n
  <1>7. GenInv(f) /\ ReplyInv(f) /\ TurnInv(f)
    BY <1>5 DEF Sane, GenInv, ReplyInv, TurnInv
  <1>8. FreshInv(f) /\ LastInv(f) /\ ClosingInv(f)
    BY <1>5 DEF Sane, FreshInv, LastInv, ClosingInv
  <1>9. QueueInv(f)
    <2>1. ASSUME NEW k \in DOMAIN f.queue
          PROVE  IF f.queue[k].kind = "false_barge_in" THEN f.queue[k].reply = 0
                 ELSE /\ f.queue[k].reply # 0
                      /\ f.reply[f.queue[k].reply].phase
                           = (IF f.queue[k].kind = "commit" THEN "ended" ELSE "failed")
      <3>1. CASE k = n
        BY <1>1, <1>5, <1>6, <3>1
      <3>2. CASE k \in DOMAIN e.queue
        <4>1. f.queue[k] = e.queue[k]
          BY <1>6, <3>2
        <4> QED
          BY <1>5, <3>2, <4>1 DEF Sane, QueueInv
      <3> QED
        BY <1>6, <3>1, <3>2
    <2>2. ASSUME NEW k \in DOMAIN f.queue, NEW l \in DOMAIN f.queue, k # l
          PROVE  f.queue[k].reply # f.queue[l].reply \/ f.queue[k].reply = 0
      <3>1. CASE k \in DOMAIN e.queue /\ l \in DOMAIN e.queue
        BY <1>6, <2>2, <3>1 DEF Sane, QueueInv
      <3>2. CASE k = n \/ l = n
        BY <1>1, <1>6, <2>2, <3>2
      <3> QED
        BY <1>6, <3>1, <3>2
    <2> QED
      BY <2>1, <2>2 DEF QueueInv
  <1>10. Sane(f)
    BY <1>5, <1>7, <1>8, <1>9 DEF Sane
  <1>11. \E k \in DOMAIN f.queue : f.queue[k].kind = kind
    BY <1>1, <1>6
  <1> QED
    BY <1>5, <1>6, <1>10, <1>11 DEF f

\* A task leaves the queue, and no other of its reply is left.
LEMMA TailSane ==
  ASSUME NEW e, Sane(e), e.queue # << >>
  PROVE  LET f == [e EXCEPT !.queue = Tail(@)]
             task == Head(e.queue)
         IN  /\ Sane(f) /\ Aside(e, f) /\ task \in QueuedTask
             /\ f.turns = e.turns /\ f.reply = e.reply /\ f.born = e.born
             /\ f.gen = e.gen /\ f.st = e.st
             /\ task.kind # "false_barge_in" =>
                  /\ task.reply \in Reply
                  /\ e.reply[task.reply].phase = (IF task.kind = "commit" THEN "ended" ELSE "failed")
                  /\ \A k \in DOMAIN f.queue : f.queue[k].reply # task.reply
             /\ \A k \in DOMAIN e.queue : e.queue[k] = task \/ \E l \in DOMAIN f.queue : f.queue[l] = e.queue[k]
  <1> DEFINE task == Head(e.queue)
             f == [e EXCEPT !.queue = Tail(@)]
  <1>1. e \in Engine /\ e.queue \in Seq(QueuedTask)
    BY TypesInside DEF Sane
  <1>2. /\ Tail(e.queue) \in Seq(QueuedTask) /\ task \in QueuedTask
        /\ 1 \in DOMAIN e.queue /\ task = e.queue[1]
        /\ Len(e.queue) \in Nat \ {0} /\ DOMAIN e.queue = 1..Len(e.queue)
        /\ DOMAIN Tail(e.queue) = 1..(Len(e.queue) - 1)
        /\ \A k \in 1..(Len(e.queue) - 1) : Tail(e.queue)[k] = e.queue[k + 1]
    BY <1>1, HeadTailProperties, LenProperties
  <1>3. /\ f \in Engine /\ Aside(e, f) /\ f.turns = e.turns /\ f.reply = e.reply
        /\ f.born = e.born /\ f.gen = e.gen /\ f.st = e.st /\ f.queue = Tail(e.queue)
    BY <1>1, <1>2 DEF Engine, Aside
  <1> HIDE DEF f, task
  <1>4. \A k \in DOMAIN f.queue : /\ k + 1 \in DOMAIN e.queue /\ f.queue[k] = e.queue[k + 1]
                                  /\ k + 1 # 1 /\ k \in Nat
    BY <1>2, <1>3
  <1>5. \A k \in DOMAIN e.queue : k = 1 \/ (k - 1 \in DOMAIN f.queue /\ f.queue[k - 1] = e.queue[k])
    BY <1>2, <1>3
  <1>6. GenInv(f) /\ ReplyInv(f) /\ TurnInv(f)
    BY <1>3 DEF Sane, GenInv, ReplyInv, TurnInv
  <1>7. FreshInv(f) /\ LastInv(f) /\ ClosingInv(f)
    BY <1>3 DEF Sane, FreshInv, LastInv, ClosingInv
  <1>8. QueueInv(f)
    <2>1. ASSUME NEW k \in DOMAIN f.queue, NEW l \in DOMAIN f.queue, k # l
          PROVE  f.queue[k].reply # f.queue[l].reply \/ f.queue[k].reply = 0
      <3>1. k + 1 # l + 1
        BY <1>4, <2>1
      <3> QED
        BY <1>4, <3>1 DEF Sane, QueueInv
    <2> QED
      BY <1>3, <1>4, <2>1 DEF Sane, QueueInv
  <1>9. Sane(f)
    BY <1>3, <1>6, <1>7, <1>8 DEF Sane
  <1>10. task.kind # "false_barge_in" =>
           /\ task.reply \in Reply
           /\ e.reply[task.reply].phase = (IF task.kind = "commit" THEN "ended" ELSE "failed")
           /\ \A k \in DOMAIN f.queue : f.queue[k].reply # task.reply
    <2> SUFFICES ASSUME task.kind # "false_barge_in"
                 PROVE  /\ task.reply \in Reply
                        /\ e.reply[task.reply].phase = (IF task.kind = "commit" THEN "ended" ELSE "failed")
                        /\ \A k \in DOMAIN f.queue : f.queue[k].reply # task.reply
      OBVIOUS
    <2>1. /\ task.reply # 0
          /\ e.reply[task.reply].phase = (IF task.kind = "commit" THEN "ended" ELSE "failed")
      BY <1>2 DEF Sane, QueueInv
    <2>2. task.reply \in Reply
      BY <1>2, <2>1 DEF QueuedTask
    <2>3. \A k \in DOMAIN f.queue : f.queue[k].reply # task.reply
      BY <1>2, <1>4, <2>1 DEF Sane, QueueInv
    <2> QED
      BY <2>1, <2>2, <2>3
  <1>11. \A k \in DOMAIN e.queue : e.queue[k] = task \/ \E l \in DOMAIN f.queue : f.queue[l] = e.queue[k]
    BY <1>2, <1>5
  <1> QED
    BY <1>2, <1>3, <1>9, <1>10, <1>11 DEF f, task

-----------------------------------------------------------------------------
(* A generation beside the queue *)

\* The reply in flight reads as before when another one moves on.
LEMMA CurrentBeside ==
  ASSUME NEW e \in Engine, NEW f, NEW g \in Reply, NEW r, Current(e),
         f.turns = e.turns, f.gen = e.gen, f.reply = [e.reply EXCEPT ![g] = r],
         e.gen = g /\ r.phase \in {"streaming", "ended"}
           => e.reply[g].phase = "streaming" /\ r.seen = e.reply[g].seen
  PROVE  Current(f)
  <1>1. e.reply \in [Reply -> Generation] /\ e.gen \in {0} \cup Reply
    BY TypesInside
  <1>2. CASE e.gen = g
    <2>1. f.reply[g] = r
      BY <1>1
    <2> QED
      BY <1>2, <2>1 DEF Current
  <1>3. CASE e.gen # g
    <2>1. e.gen # 0 => f.reply[e.gen] = e.reply[e.gen]
      BY <1>1, <1>3
    <2> QED
      BY <2>1 DEF Current
  <1> QED
    BY <1>2, <1>3

\* A reply that has not ended moves on to s, not yet heard of.
LEMMA MovesOn ==
  ASSUME NEW e, Sane(e), Current(e), NEW g \in Reply, NEW s \in Generation,
         e.reply[g].phase \in {"preparing", "streaming"},
         s.phase \notin {"unborn", "preparing"},
         s.phase = "streaming" => e.gen = g,
         s.spoken = e.reply[g].spoken, s.heard = e.reply[g].heard,
         e.reply[g].phase = "streaming" => s.seen = e.reply[g].seen,
         e.reply[g].phase = "preparing" => s.phase # "ended" /\ (s.phase = "streaming" => s.seen = Len(e.turns))
  PROVE  LET f == WithReply(e, g, s)
         IN  /\ Sane(f) /\ Current(f) /\ Aside(e, f)
             /\ Answered(e, f) /\ (Heeds(e) => Heeds(f))
             /\ f.st = e.st /\ f.turns = e.turns /\ f.gen = e.gen /\ f.born = e.born
             /\ f.queue = e.queue /\ f.reply[g] = s
             /\ \A k \in DOMAIN e.queue : e.queue[k].reply # g
  <1> DEFINE f == WithReply(e, g, s)
  <1>1. e \in Engine /\ e.reply \in [Reply -> Generation] /\ e.turns \in Seq(Turn)
    BY TypesInside DEF Sane
  <1>2. /\ f \in Engine /\ Aside(e, f) /\ f.st = e.st /\ f.turns = e.turns /\ f.gen = e.gen
        /\ f.born = e.born /\ f.queue = e.queue /\ f.reply = [e.reply EXCEPT ![g] = s]
    BY <1>1, WithReplyFields
  <1> HIDE DEF f
  <1>3. \A k \in DOMAIN e.queue : e.queue[k].reply # g
    BY NotQueued
  <1>4. g <= e.born
    BY BornReply
  <1>5. \A i \in DOMAIN e.turns : e.turns[i].reply # g
    BY DEF Sane, TurnInv, ReplyInv, Reply
  <1>6. f.gen = g => s.spoken = s.heard
    BY <1>2 DEF Sane, ReplyInv
  <1>7. Sane(f)
    BY <1>2, <1>3, <1>4, <1>5, <1>6, MovesReply
  <1>8. Current(f)
    <2>1. CASE e.reply[g].phase = "streaming"
      BY <1>1, <1>2, <2>1, CurrentBeside
    <2>2. CASE e.reply[g].phase = "preparing" /\ s.phase = "streaming"
      <3>1. f.gen = g /\ f.reply[g] = s
        BY <1>1, <1>2, <2>2
      <3>2. \A j \in DOMAIN e.turns : j <= Len(e.turns)
        BY <1>1
      <3> QED
        BY <1>2, <2>2, <3>1, <3>2 DEF Current
    <2>3. CASE e.reply[g].phase = "preparing" /\ s.phase # "streaming"
      BY <1>1, <1>2, <2>3, CurrentBeside
    <2> QED
      BY <2>1, <2>2, <2>3
  <1>9. f.reply[g] = s
    BY <1>1, <1>2
  <1>10. Heeds(e) => Heeds(f)
    <2>1. \A j \in DOMAIN e.turns : j <= Len(e.turns)
      BY <1>1
    <2>2. CASE e.gen = g
      BY <1>2, <1>9, <2>1, <2>2 DEF Heeds
    <2>3. CASE e.gen # g
      <3>1. e.gen # 0 => e.gen \in Reply
        BY <1>1, TypesInside
      <3>2. e.gen # 0 => f.reply[e.gen] = e.reply[e.gen]
        BY <1>1, <1>2, <2>3, <3>1
      <3> QED
        BY <1>2, <3>2 DEF Heeds
    <2> QED
      BY <2>2, <2>3
  <1>11. Answered(e, f)
    <2>1. \A i \in DOMAIN e.turns : e.turns[i].reply \in {0} \cup Reply
      BY <1>1, TypesInside
    <2>2. \A h \in Reply : h # g => f.reply[h] = e.reply[h]
      BY <1>1, <1>2
    <2>3. \A i \in DOMAIN e.turns : e.turns[i].reply # 0 =>
            f.reply[e.turns[i].reply].seen = e.reply[e.turns[i].reply].seen
      BY <1>5, <2>1, <2>2
    <2>4. f.turns = e.turns
      BY <1>2
    <2> QED
      BY <2>3, <2>4, SameAnswers
  <1> QED
    BY <1>2, <1>3, <1>7, <1>8, <1>9, <1>10, <1>11 DEF f

\* What a generation does by itself is no business of the waiting turn.
LEMMA TalkServes ==
  ASSUME NEW e, NEW f, Sane(f), Current(f), Aside(e, f), f.turns = e.turns,
         f.born = e.born, f.gen = e.gen, f.st = e.st,
         Answered(e, f), Heeds(e) => Heeds(f),
         \A k \in DOMAIN e.queue : k \in DOMAIN f.queue /\ f.queue[k] = e.queue[k]
  PROVE  Serves(e, f, FALSE)
  <1>1. Owed(e) => Owed(f)
    BY DEF Owed, Resumes, Aside, Answered
  <1> QED
    BY <1>1, KeptServes

LEMMA MoveServes ==
  ASSUME NEW e, Sane(e), Current(e), NEW g \in Reply, NEW s \in Generation,
         e.reply[g].phase \in {"preparing", "streaming"},
         s.phase \notin {"unborn", "preparing"},
         s.phase = "streaming" => e.gen = g,
         s.spoken = e.reply[g].spoken, s.heard = e.reply[g].heard,
         e.reply[g].phase = "streaming" => s.seen = e.reply[g].seen,
         e.reply[g].phase = "preparing" => s.phase # "ended" /\ (s.phase = "streaming" => s.seen = Len(e.turns))
  PROVE  Serves(e, WithReply(e, g, s), FALSE)
  <1> DEFINE f == WithReply(e, g, s)
  <1>1. /\ Sane(f) /\ Current(f) /\ Aside(e, f) /\ f.st = e.st /\ f.turns = e.turns
        /\ f.gen = e.gen /\ f.born = e.born /\ f.queue = e.queue
        /\ Answered(e, f) /\ (Heeds(e) => Heeds(f))
    BY MovesOn
  <1> HIDE DEF f
  <1>2. Serves(e, f, FALSE)
    BY <1>1, TalkServes
  <1> QED
    BY <1>2 DEF f

\* A reply that has just run to its end, or failed, tells the queue so.
LEMMA EndsServes ==
  ASSUME NEW e, NEW q, NEW g \in Reply, NEW kind \in {"commit", "error"},
         Sane(q), Current(q), Aside(e, q), q.st = e.st, q.turns = e.turns,
         q.gen = e.gen, q.born = e.born, q.queue = e.queue,
         Answered(e, q), Heeds(e) => Heeds(q),
         q.reply[g].phase = (IF kind = "commit" THEN "ended" ELSE "failed"),
         \A k \in DOMAIN e.queue : e.queue[k].reply # g
  PROVE  Serves(e, Queues(q, kind, g), FALSE)
  <1> DEFINE f == Queues(q, kind, g)
  <1>1. g # 0 /\ g \in {0} \cup Reply /\ kind # "false_barge_in"
    BY DEF Reply
  <1>2. IF kind = "false_barge_in" THEN g = 0
        ELSE g # 0 /\ q.reply[g].phase = (IF kind = "commit" THEN "ended" ELSE "failed")
    BY <1>1
  <1>3. g = 0 \/ \A k \in DOMAIN q.queue : q.queue[k].reply # g
    OBVIOUS
  <1>4. kind \in {"commit", "error", "false_barge_in"}
    OBVIOUS
  <1>5. /\ Sane(f) /\ Aside(q, f) /\ f.turns = q.turns /\ f.reply = q.reply /\ f.born = q.born
        /\ f.gen = q.gen /\ f.st = q.st
        /\ \A k \in DOMAIN q.queue : k \in DOMAIN f.queue /\ f.queue[k] = q.queue[k]
    <2> HIDE DEF f
    <2>1. /\ Sane(Queues(q, kind, g)) /\ Aside(q, Queues(q, kind, g))
          /\ Queues(q, kind, g).turns = q.turns /\ Queues(q, kind, g).reply = q.reply
          /\ Queues(q, kind, g).born = q.born /\ Queues(q, kind, g).gen = q.gen
          /\ Queues(q, kind, g).st = q.st
          /\ \A k \in DOMAIN q.queue : /\ k \in DOMAIN Queues(q, kind, g).queue
                                       /\ Queues(q, kind, g).queue[k] = q.queue[k]
      BY <1>1, <1>2, <1>3, <1>4, QueuesSane
    <2> QED
      BY <2>1 DEF f
  <1> HIDE DEF f
  <1>6. Current(f)
    BY <1>5 DEF Current
  <1>7. Aside(e, f)
    BY <1>5 DEF Aside
  <1>8. Answered(e, f) /\ (Heeds(e) => Heeds(f))
    BY <1>5, SameTalk DEF Answered
  <1>9. Serves(e, f, FALSE)
    BY <1>5, <1>6, <1>7, <1>8, TalkServes
  <1> QED
    BY <1>9 DEF f

LEMMA ActsOnGeneration ==
  ASSUME CInv, NEW g \in Reply,
         GenerationStarts(g) \/ Streams(g) \/ GenerationEnds(g) \/ GenerationFails(g)
  PROVE  CInv'
  <1> DEFINE r == engine.reply[g]
  <1>1. /\ engine \in Engine /\ Sane(engine) /\ Current(engine) /\ r \in Generation
        /\ engine.turns \in Seq(Turn)
    BY TypesInside DEF CInv, Sane
  <1>2. ASSUME NEW f, engine' = f, Serves(engine, f, FALSE),
               excused' = IF engine'.born # engine.born THEN FALSE ELSE excused \/ FALSE
        PROVE  CInv'
    BY <1>2, BecomesServes
  <1>3. CASE GenerationStarts(g) /\ engine.gen = g
    <2> DEFINE s == [r EXCEPT !.phase = "streaming", !.seen = Len(engine.turns)]
    <2>1. Len(engine.turns) \in Nat
      BY <1>1
    <2>2. /\ s \in Generation /\ s.phase = "streaming" /\ s.seen = Len(engine.turns)
          /\ s.spoken = r.spoken /\ s.heard = r.heard
      <3> HIDE DEF r
      <3> QED
        BY <1>1, <2>1 DEF Generation
    <2>3. /\ engine' = WithReply(engine, g, s) /\ r.phase = "preparing"
          /\ excused' = IF engine'.born # engine.born THEN FALSE ELSE excused \/ FALSE
      BY <1>3 DEF GenerationStarts, Becomes
    <2> HIDE DEF s
    <2>4. Serves(engine, WithReply(engine, g, s), FALSE)
      BY <1>1, <1>3, <2>2, <2>3, MoveServes
    <2> QED
      BY <1>2, <2>3, <2>4
  <1>4. CASE GenerationStarts(g) /\ engine.gen # g
    <2> DEFINE s == [r EXCEPT !.phase = "gone"]
    <2>1. s \in Generation /\ s.phase = "gone" /\ s.spoken = r.spoken /\ s.heard = r.heard /\ s.seen = r.seen
      BY <1>1, PhaseFields
    <2>2. /\ engine' = WithReply(engine, g, s) /\ r.phase = "preparing"
          /\ excused' = IF engine'.born # engine.born THEN FALSE ELSE excused \/ FALSE
      BY <1>4 DEF GenerationStarts, Becomes, InPhase
    <2> HIDE DEF s
    <2>3. Serves(engine, WithReply(engine, g, s), FALSE)
      BY <1>1, <1>4, <2>1, <2>2, MoveServes
    <2> QED
      BY <1>2, <2>2, <2>3
  <1>5. CASE Streams(g)
    <2> DEFINE s == [r EXCEPT !.text = @ + 1]
    <2>1. /\ engine' = WithReply(engine, g, s) /\ r.phase = "streaming" /\ r.text < MaxChunks
          /\ excused' = IF engine'.born # engine.born THEN FALSE ELSE excused \/ FALSE
      BY <1>5 DEF Streams, Becomes
    <2>2. /\ s \in Generation /\ s.phase = r.phase /\ s.seen = r.seen
          /\ s.spoken = r.spoken /\ s.heard = r.heard
      <3> HIDE DEF r
      <3> QED
        BY <1>1, <2>1, ConversationAssumption DEF Generation
    <2> HIDE DEF s
    <2>3. engine.gen = g
      BY <1>1, <2>1 DEF Sane, ReplyInv
    <2>4. Serves(engine, WithReply(engine, g, s), FALSE)
      BY <1>1, <2>1, <2>2, <2>3, MoveServes
    <2> QED
      BY <1>2, <2>1, <2>4
  <1>6. CASE GenerationEnds(g)
    <2>1. PICK b \in BOOLEAN :
            /\ engine' = Queues(WithReply(engine, g, [r EXCEPT !.phase = "ended", !.ends = b]), "commit", g)
            /\ r.phase = "streaming"
            /\ excused' = IF engine'.born # engine.born THEN FALSE ELSE excused \/ FALSE
      BY <1>6 DEF GenerationEnds, Becomes
    <2> DEFINE s == [r EXCEPT !.phase = "ended", !.ends = b]
               q == WithReply(engine, g, s)
               f == Queues(q, "commit", g)
    <2>2. /\ s \in Generation /\ s.phase = "ended" /\ s.seen = r.seen
          /\ s.spoken = r.spoken /\ s.heard = r.heard
      <3> HIDE DEF r
      <3> QED
        BY <1>1 DEF Generation
    <2> HIDE DEF s
    <2>3. /\ Sane(q) /\ Current(q) /\ Aside(engine, q)
          /\ Answered(engine, q) /\ (Heeds(engine) => Heeds(q))
          /\ q.st = engine.st /\ q.turns = engine.turns /\ q.gen = engine.gen
          /\ q.born = engine.born /\ q.queue = engine.queue /\ q.reply[g] = s
          /\ \A k \in DOMAIN engine.queue : engine.queue[k].reply # g
      BY <1>1, <2>1, <2>2, MovesOn
    <2> HIDE DEF q
    <2>4. Serves(engine, f, FALSE)
      <3> HIDE DEF f
      <3>1. q.reply[g].phase = "ended"
        BY <2>2, <2>3
      <3>2. Serves(engine, Queues(q, "commit", g), FALSE)
        BY <2>3, <3>1, EndsServes
      <3> QED
        BY <3>2 DEF f
    <2> HIDE DEF f
    <2>5. engine' = f
      BY <2>1 DEF f, q, s
    <2> QED
      BY <1>2, <2>1, <2>4, <2>5
  <1>7. CASE GenerationFails(g)
    <2> DEFINE s == [r EXCEPT !.phase = "failed"]
               q == WithReply(engine, g, s)
               f == Queues(q, "error", g)
    <2>1. /\ engine' = f /\ r.phase \in {"preparing", "streaming"}
          /\ excused' = IF engine'.born # engine.born THEN FALSE ELSE excused \/ FALSE
      BY <1>7 DEF GenerationFails, Becomes, InPhase
    <2>2. /\ s \in Generation /\ s.phase = "failed" /\ s.seen = r.seen
          /\ s.spoken = r.spoken /\ s.heard = r.heard
      BY <1>1, PhaseFields
    <2> HIDE DEF s
    <2>3. /\ Sane(q) /\ Current(q) /\ Aside(engine, q)
          /\ Answered(engine, q) /\ (Heeds(engine) => Heeds(q))
          /\ q.st = engine.st /\ q.turns = engine.turns /\ q.gen = engine.gen
          /\ q.born = engine.born /\ q.queue = engine.queue /\ q.reply[g] = s
          /\ \A k \in DOMAIN engine.queue : engine.queue[k].reply # g
      BY <1>1, <2>1, <2>2, MovesOn
    <2> HIDE DEF q
    <2>4. Serves(engine, f, FALSE)
      <3> HIDE DEF f
      <3>1. q.reply[g].phase = "failed"
        BY <2>2, <2>3
      <3>2. Serves(engine, Queues(q, "error", g), FALSE)
        BY <2>3, <3>1, EndsServes
      <3> QED
        BY <3>2 DEF f
    <2> HIDE DEF f
    <2> QED
      BY <1>2, <2>1, <2>4
  <1> QED
    BY <1>3, <1>4, <1>5, <1>6, <1>7

\* The agent's last line is marked as the closing one.
LEMMA MarksClosing ==
  ASSUME NEW e, Sane(e), e.gen = 0, Closed(e.st), e.turns # << >>,
         \A i \in DOMAIN e.turns : ~e.turns[i].closing
  PROVE  LET f == [e EXCEPT !.turns[Len(e.turns)] = [@ EXCEPT !.closing = TRUE]]
         IN  Sane(f) /\ f.gen = 0 /\ f.st = e.st
  <1> DEFINE n == Len(e.turns)
             t == [e.turns[n] EXCEPT !.closing = TRUE]
             f == [e EXCEPT !.turns[n] = t]
  <1>1. e \in Engine /\ e.turns \in Seq(Turn)
    BY TypesInside DEF Sane
  <1>2. /\ n \in Nat \ {0} /\ DOMAIN e.turns = 1..n /\ e.turns[n] \in Turn
    BY <1>1, LenProperties, EmptySeq
  <1>3. /\ t \in Turn /\ t.who = e.turns[n].who /\ t.reply = e.turns[n].reply
        /\ t.text = e.turns[n].text /\ t.cut = e.turns[n].cut /\ t.closing = TRUE
    BY <1>2 DEF Turn
  <1> HIDE DEF t, n
  <1> DEFINE s == [e.turns EXCEPT ![n] = t]
  <1>4. s \in Seq(Turn) /\ DOMAIN s = DOMAIN e.turns /\ s[n] = t
        /\ \A i \in DOMAIN e.turns : i # n => s[i] = e.turns[i]
    <2>1. e.turns \in [1..n -> Turn]
      BY <1>1, LenProperties DEF n
    <2>2. s \in [1..n -> Turn]
      BY <1>3, <2>1
    <2>3. s \in Seq(Turn)
      BY <1>2, <2>2, SeqDef
    <2> QED
      BY <1>2, <2>1, <2>3
  <1>5. f = [e EXCEPT !.turns = s]
    BY <1>1 DEF Engine
  <1> HIDE DEF s, f
  <1>6. /\ f \in Engine /\ f.turns = s /\ f.reply = e.reply /\ f.queue = e.queue
        /\ f.born = e.born /\ f.gen = 0 /\ f.st = e.st
    BY <1>1, <1>4, <1>5 DEF Engine
  <1>7. \A i \in DOMAIN e.turns :
          /\ s[i].who = e.turns[i].who /\ s[i].reply = e.turns[i].reply
          /\ s[i].text = e.turns[i].text /\ s[i].cut = e.turns[i].cut
          /\ s[i].closing => i = n
    BY <1>3, <1>4
  <1>8. GenInv(f) /\ ReplyInv(f) /\ QueueInv(f)
    BY <1>6 DEF Sane, GenInv, ReplyInv, QueueInv
  <1>9. TurnInv(f)
    BY <1>4, <1>6, <1>7 DEF Sane, TurnInv
  <1>10. FreshInv(f)
    <2> SUFFICES ASSUME NEW i \in DOMAIN e.turns, NEW j \in 1..(i - 1),
                        s[i].reply # 0, ~s[i].cut, s[j].who = "participant"
                 PROVE  j <= e.reply[s[i].reply].seen
      BY <1>4, <1>6 DEF FreshInv
    <2>1. j \in DOMAIN e.turns
      BY <1>2
    <2>2. /\ e.turns[i].reply # 0 /\ e.turns[j].who = "participant"
          /\ s[i].reply = e.turns[i].reply /\ s[i].cut = e.turns[i].cut
      BY <1>7, <2>1
    <2>3. ~e.turns[i].cut
      BY <2>2
    <2> QED
      BY <2>2, <2>3 DEF Sane, FreshInv
  <1>11. LastInv(f)
    <2> SUFFICES ASSUME NEW i \in DOMAIN e.turns, NEW j \in DOMAIN e.turns, i < j, s[i].closing
                 PROVE  FALSE
      BY <1>4, <1>6 DEF LastInv
    <2> QED
      BY <1>2, <1>7
  <1>12. ClosingInv(f)
    BY <1>6 DEF ClosingInv, Closed
  <1>13. Sane(f)
    BY <1>6, <1>8, <1>9, <1>10, <1>11, <1>12 DEF Sane
  <1> QED
    BY <1>6, <1>13 DEF f, t, n

LEMMA WordedFields ==
  ASSUME NEW e, Sane(e), NEW g \in Reply, e.reply[g].phase = "ended", e.gen = g,
         \A k \in DOMAIN e.queue : e.queue[k].reply # g
  PROVE  LET w == Worded(e, g)
         IN  /\ Sane(w) /\ w.turns = e.turns /\ w.st = e.st /\ w.gen = 0 /\ w.born = e.born
             /\ w.reply[g] \in Generation /\ w.reply[g].phase = "gone"
             /\ w.reply[g].seen = e.reply[g].seen /\ w.reply[g].spoken = w.reply[g].heard
             /\ w.reply[g].text = 0 => w.reply[g].ends
  <1> DEFINE r == e.reply[g]
             x == IF r.text = 0 /\ ~r.ends THEN 1 ELSE r.text
             s == [r EXCEPT !.text = x, !.phase = "gone"]
             q == WithReply(e, g, s)
             w == Worded(e, g)
  <1>1. e \in Engine /\ r \in Generation /\ e.reply \in [Reply -> Generation]
    BY TypesInside DEF Sane
  <1>2. r.text \in 0..MaxChunks /\ r.ends \in BOOLEAN
    BY <1>1, GenerationTypes
  <1>3. x \in 0..MaxChunks /\ (x = 0 => r.ends)
    BY <1>2, ConversationAssumption
  <1>4. w = [q EXCEPT !.gen = 0, !.failures = 0]
    BY DEF Worded
  <1> HIDE DEF x, w
  <1>5. /\ s \in Generation /\ s.phase = "gone" /\ s.text = x /\ s.seen = r.seen
        /\ s.spoken = r.spoken /\ s.heard = r.heard /\ s.ends = r.ends
    BY <1>1, <1>3 DEF Generation
  <1> HIDE DEF s
  <1>6. /\ q \in Engine /\ q.st = e.st /\ q.turns = e.turns /\ q.born = e.born
        /\ q.queue = e.queue /\ q.reply = [e.reply EXCEPT ![g] = s]
    BY <1>1, <1>5, WithReplyFields
  <1> HIDE DEF q
  <1>7. /\ w \in Engine /\ w.st = e.st /\ w.turns = e.turns /\ w.born = e.born /\ w.gen = 0
        /\ w.queue = e.queue /\ w.reply = [e.reply EXCEPT ![g] = s]
    BY <1>4, <1>6 DEF Engine
  <1>8. g <= e.born /\ (\A i \in DOMAIN e.turns : e.turns[i].reply # g) /\ g # 0
    BY BornReply DEF Sane, TurnInv, Reply
  <1>9. Sane(w)
    BY <1>5, <1>7, <1>8, MovesReply
  <1>10. w.reply[g] = s
    BY <1>1, <1>7
  <1>11. s.spoken = s.heard
    BY <1>5 DEF Sane, ReplyInv
  <1>12. s.text = 0 => s.ends
    BY <1>3, <1>5
  <1> QED
    BY <1>5, <1>7, <1>9, <1>10, <1>11, <1>12 DEF w

\* A reply that called end_session has the last word.
LEMMA AgentEnds ==
  ASSUME NEW e, Sane(e), NEW g, e.gen = 0, e.st = "ACTIVE",
         e.reply[g].text # 0 => e.turns # << >>
  PROVE  LET f == BeginAgentEnding(e, g)
         IN  Sane(f) /\ f.gen = 0 /\ Closed(f.st)
  <1> DEFINE c == [e EXCEPT !.st = "ENDING"]
             m == [c EXCEPT !.turns[Len(e.turns)] = [@ EXCEPT !.closing = TRUE]]
             s == IF e.reply[g].text = 0 THEN Scripted(c, TRUE) ELSE m
  <1>1. BeginAgentEnding(e, g) = IF e.connected THEN s ELSE Ended(s, "COMPLETED")
    BY DEF BeginAgentEnding
  <1>2. /\ c \in Engine /\ c.turns = e.turns /\ c.reply = e.reply /\ c.queue = e.queue
        /\ c.born = e.born /\ c.gen = 0 /\ c.st = "ENDING"
    BY DEF Sane, Engine, SessionStates
  <1> HIDE DEF c
  <1>3. ~Closed(e.st) /\ Closed(c.st)
    BY <1>2 DEF Closed, IsTerminal, TerminalStates
  <1>4. Sane(c)
    BY <1>2, <1>3, KeepsSane
  <1>5. \A i \in DOMAIN c.turns : ~c.turns[i].closing
    BY <1>2, <1>3, NothingClosed
  <1>6. Sane(s) /\ s.gen = 0 /\ Closed(s.st)
    <2>1. CASE e.reply[g].text = 0
      <3>1. Sane(Scripted(c, TRUE)) /\ Beside(c, Scripted(c, TRUE)) /\ Scripted(c, TRUE).gen = c.gen
        BY <1>3, <1>4, <1>5, ScriptedSane
      <3> QED
        BY <1>2, <1>3, <2>1, <3>1 DEF Beside
    <2>2. CASE e.reply[g].text # 0
      <3>1. m = [c EXCEPT !.turns[Len(c.turns)] = [@ EXCEPT !.closing = TRUE]]
        BY <1>2
      <3> HIDE DEF m
      <3>2. c.turns # << >>
        BY <1>2, <2>2
      <3>3. Sane(m) /\ m.gen = 0 /\ m.st = c.st
        BY <1>2, <1>3, <1>4, <1>5, <3>1, <3>2, MarksClosing
      <3> QED
        BY <1>3, <2>2, <3>3
    <2> QED
      BY <2>1, <2>2
  <1> HIDE DEF s
  <1>7. "COMPLETED" \in TerminalStates
    BY DEF TerminalStates
  <1>8. /\ Sane(Ended(s, "COMPLETED")) /\ Ended(s, "COMPLETED").gen = 0
        /\ Closed(Ended(s, "COMPLETED").st)
    BY <1>6, <1>7, EndedSane DEF Closed, IsTerminal
  <1> QED
    BY <1>1, <1>6, <1>8

\* The end of a reply that another one has taken the place of is forgotten.
LEMMA SupersededServes ==
  ASSUME NEW e, Sane(e), Current(e), NEW g \in Reply, e.reply[g].phase = "ended", e.gen # g,
         \A k \in DOMAIN e.queue : e.queue[k].reply # g
  PROVE  Serves(e, InPhase(e, g, "gone"), FALSE)
  <1> DEFINE r == [e.reply[g] EXCEPT !.phase = "gone"]
             f == InPhase(e, g, "gone")
  <1>1. e \in Engine
    BY DEF Sane
  <1>2. /\ f \in Engine /\ Aside(e, f) /\ f.st = e.st /\ f.turns = e.turns /\ f.gen = e.gen
        /\ f.born = e.born /\ f.queue = e.queue /\ f.reply = [e.reply EXCEPT ![g] = r]
    BY <1>1, InPhaseFields
  <1>3. Sane(f)
    <2>1. g <= e.born
      BY BornReply
    <2> HIDE DEF f
    <2> QED
      BY <2>1, InPhaseSane DEF f
  <1>a. /\ r.seen = e.reply[g].seen /\ e.reply \in [Reply -> Generation]
        /\ e.gen \in {0} \cup Reply
    BY <1>1, TypesInside, PhaseFields
  <1> HIDE DEF r, f
  <1>4. Current(f)
    BY <1>1, <1>2, CurrentBeside
  <1>b. Answered(e, f)
    <2>1. \A h \in Reply : f.reply[h].seen = e.reply[h].seen
      BY <1>2, <1>a
    <2>2. f.turns = e.turns
      BY <1>2
    <2> QED
      BY <1>1, <2>1, <2>2, SameReaders
  <1>c. Heeds(e) => Heeds(f)
    <2>1. e.gen # 0 => f.reply[e.gen] = e.reply[e.gen]
      BY <1>2, <1>a
    <2> QED
      BY <1>2, <2>1 DEF Heeds
  <1>5. Serves(e, f, FALSE)
    BY <1>2, <1>3, <1>4, <1>b, <1>c, TalkServes
  <1> QED
    BY <1>5 DEF f

\* The reply in flight ends: its turn is written, and nobody waits any more.
LEMMA CommitServes ==
  ASSUME NEW e, Sane(e), Current(e), NEW g \in Reply, e.reply[g].phase = "ended",
         \A k \in DOMAIN e.queue : e.queue[k].reply # g
  PROVE  Serves(e, Commit(e, g), FALSE)
  <1>1. CASE e.gen # g
    <2>1. Commit(e, g) = InPhase(e, g, "gone")
      BY <1>1 DEF Commit, Superseded
    <2> QED
      BY <1>1, <2>1, SupersededServes
  <1>2. CASE e.gen = g
    <2> DEFINE w == Worded(e, g)
               x == w.reply[g].text
               k == Kept(x, w.reply[g].spoken)
               t == ReplyTurn(w, g, k, w.reply[g].spoken < x, FALSE)
               said == IF x = 0 THEN w ELSE Persist(w, t)
    <2>1. Commit(e, g) = IF w.reply[g].ends /\ w.st = "ACTIVE" THEN BeginAgentEnding(said, g) ELSE said
      BY <1>2 DEF Commit, Superseded
    <2>2. /\ Sane(w) /\ w.turns = e.turns /\ w.st = e.st /\ w.gen = 0 /\ w.born = e.born
          /\ w.reply[g] \in Generation /\ w.reply[g].phase = "gone"
          /\ w.reply[g].seen = e.reply[g].seen /\ w.reply[g].spoken = w.reply[g].heard
          /\ x = 0 => w.reply[g].ends
      BY <1>2, WordedFields
    <2>3. g # 0 /\ e.st = "ACTIVE"
      BY <1>2 DEF Sane, GenInv, Reply
    <2> HIDE DEF w
    <2>4. /\ x \in 0..MaxChunks /\ w.reply[g].spoken \in 0..Everything
      BY <2>2, GenerationTypes
    <2> HIDE DEF x
    <2>5. k \in 0..MaxChunks /\ k <= w.reply[g].heard
      BY <2>2, <2>4, KeptLess
    <2> HIDE DEF k
    <2>6. (w.reply[g].spoken < x) \in BOOLEAN
      BY <2>4
    <2>7. t \in Turn /\ t.who = "agent" /\ t.reply = g /\ t.text = k /\ t.closing = FALSE
      <3> DEFINE c == w.reply[g].spoken < x
      <3> HIDE DEF c
      <3>1. c \in BOOLEAN
        BY <2>6 DEF c
      <3>2. ReplyTurn(w, g, k, c, FALSE) \in Turn
        BY <2>5, <3>1 DEF ReplyTurn, Turn
      <3> QED
        BY <3>2 DEF ReplyTurn, c
    <2> HIDE DEF t
    <2>8. /\ Sane(said) /\ said.gen = 0 /\ said.st = "ACTIVE" /\ said.born = e.born
          /\ x = 0 => said = w
          /\ x # 0 => /\ said.turns # << >>
                      /\ \E i \in DOMAIN said.turns : said.turns[i].reply = g
                      /\ \A j \in DOMAIN said.turns : said.turns[j].who # "agent" =>
                           j \in DOMAIN e.turns /\ e.turns[j].who # "agent"
          /\ said.reply = w.reply
      <3>1. CASE x = 0
        BY <2>2, <2>3, <3>1
      <3>2. CASE x # 0
        <4> DEFINE f == Persist(w, t)
        <4>1. w \in Engine /\ w.turns \in Seq(Turn)
          BY <2>2, TypesInside DEF Sane
        <4>2. \A i \in DOMAIN w.turns : w.turns[i].reply # t.reply
          BY <1>2, <2>2, <2>3, <2>7 DEF Sane, TurnInv
        <4>3. ~IsTerminal(w.st)
          BY <2>2, <2>3 DEF IsTerminal, TerminalStates
        <4>4. /\ f \in Engine /\ f.st = w.st /\ f.reply = w.reply /\ f.gen = w.gen
              /\ f.born = w.born /\ f.queue = w.queue /\ f.turns = Append(w.turns, t)
          BY <2>7, <4>1, <4>2, <4>3, PersistFields
        <4> HIDE DEF f
        <4>5. \A i \in DOMAIN w.turns : ~w.turns[i].closing
          BY <2>2, <2>3, NothingClosed DEF Closed, IsTerminal, TerminalStates
        <4>6. \A j \in DOMAIN w.turns :
                w.turns[j].who = "participant" => j <= w.reply[t.reply].seen
          BY <1>2, <2>2, <2>3, <2>7 DEF Current
        <4>7. /\ w.reply[t.reply].phase \notin {"unborn", "preparing"} /\ w.gen # t.reply
              /\ t.text <= w.reply[t.reply].heard
          BY <2>2, <2>3, <2>5, <2>7
        <4>8. ~t.closing
          BY <2>7
        <4>9. Sane(f)
          BY <2>2, <2>7, <4>4, <4>5, <4>6, <4>7, <4>8, AddsTurn
        <4>10. /\ f.turns # << >>
               /\ \E i \in DOMAIN f.turns : f.turns[i].reply = g
               /\ \A j \in DOMAIN f.turns : f.turns[j].who # "agent" =>
                    j \in DOMAIN e.turns /\ e.turns[j].who # "agent"
          <5>1. /\ DOMAIN f.turns = 1..(Len(w.turns) + 1) /\ DOMAIN w.turns = 1..Len(w.turns)
                /\ Len(w.turns) \in Nat /\ f.turns[Len(w.turns) + 1] = t
                /\ Len(f.turns) = Len(w.turns) + 1
                /\ \A i \in DOMAIN w.turns : f.turns[i] = w.turns[i]
            BY <2>7, <4>1, <4>4, TurnsShape
          <5>2. f.turns # << >>
            BY <5>1
          <5>3. Len(w.turns) + 1 \in DOMAIN f.turns
            BY <5>1
          <5> QED
            BY <2>2, <2>7, <5>1, <5>2, <5>3
        <4>11. said = f
          BY <3>2 DEF f
        <4> QED
          BY <2>2, <2>3, <3>2, <4>4, <4>9, <4>10, <4>11
      <3> QED
        BY <3>1, <3>2
    <2> HIDE DEF said
    <2>9. CASE w.reply[g].ends /\ w.st = "ACTIVE"
      <3> DEFINE f == BeginAgentEnding(said, g)
      <3>1. said.reply[g].text # 0 => said.turns # << >>
        BY <2>8 DEF x
      <3>2. Sane(f) /\ f.gen = 0 /\ Closed(f.st)
        BY <2>8, <3>1, AgentEnds
      <3> HIDE DEF f
      <3>3. Serves(e, f, FALSE)
        BY <3>2, ClosedServes
      <3> QED
        BY <2>1, <2>9, <3>3 DEF f
    <2>10. CASE ~(w.reply[g].ends /\ w.st = "ACTIVE")
      <3>1. x # 0
        BY <2>2, <2>3, <2>10
      <3>2. Heeds(e) => ~Unanswered(said)
        <4> SUFFICES ASSUME Heeds(e), NEW j \in DOMAIN said.turns, said.turns[j].who # "agent",
                            \A i \in DOMAIN said.turns : said.turns[i].reply # 0 =>
                              said.reply[said.turns[i].reply].seen < j
                     PROVE  FALSE
          BY DEF Unanswered
        <4>1. j \in DOMAIN e.turns /\ e.turns[j].who # "agent"
          BY <2>8, <3>1
        <4>2. j <= e.reply[g].seen
          BY <1>2, <2>3, <4>1 DEF Heeds
        <4>3. w.reply[g].seen < j
          BY <2>3, <2>8, <3>1
        <4>4. j \in Nat /\ e.reply[g].seen \in Nat
          <5>1. e \in Engine
            BY DEF Sane
          <5>2. e.reply[g] \in Generation /\ e.turns \in Seq(Turn)
            BY <5>1, TypesInside
          <5>3. DOMAIN e.turns = 1..Len(e.turns) /\ Len(e.turns) \in Nat
            BY <5>2
          <5> QED
            BY <4>1, <5>2, <5>3 DEF Generation
        <4> QED
          BY <2>2, <4>2, <4>3, <4>4
      <3>3. Current(said) /\ (Owed(e) => Owed(said))
        BY <2>8, <3>2 DEF Current, Owed, Heeds
      <3>4. Serves(e, said, FALSE)
        BY <2>8, <3>3 DEF Serves
      <3> QED
        BY <2>1, <2>10, <3>4
    <2> QED
      BY <2>9, <2>10
  <1> QED
    BY <1>1, <1>2

\* A reply breaks off: what it said is written, and it is given up if it was in flight.
LEMMA ErrorServes ==
  ASSUME NEW e, Sane(e), Current(e), NEW g \in Reply, e.reply[g].phase = "failed",
         \A k \in DOMAIN e.queue : e.queue[k].reply # g
  PROVE  Serves(e, OnGenerationError(e, g), e.gen = g)
  <1> DEFINE q == InPhase(e, g, "broken")
             r == [e.reply[g] EXCEPT !.phase = "broken"]
             n == IF q.gen = g THEN 0 ELSE q.gen
             failed == [q EXCEPT !.gen = n, !.failures = @ + 1]
             t == ReplyTurn(failed, g, e.reply[g].text, TRUE, FALSE)
             said == IF e.reply[g].text = 0 THEN failed ELSE Persist(failed, t)
  <1>1. e \in Engine /\ e.reply[g] \in Generation /\ e.reply \in [Reply -> Generation]
    BY TypesInside DEF Sane
  <1>2. /\ q \in Engine /\ q.st = e.st /\ q.turns = e.turns /\ q.gen = e.gen
        /\ q.born = e.born /\ q.queue = e.queue /\ q.reply = [e.reply EXCEPT ![g] = r]
        /\ r \in Generation /\ Aside(e, q)
    BY <1>1, InPhaseFields
  <1>3. r.phase = "broken" /\ r.seen = e.reply[g].seen
    BY <1>1, PhaseFields
  <1>4. /\ OnGenerationError(e, g) = said \/ OnGenerationError(e, g) = Ended(said, "FAILED")
    BY DEF OnGenerationError
  <1> HIDE DEF q, r
  <1>5. /\ failed \in Engine /\ failed.st = e.st /\ failed.turns = e.turns /\ failed.gen = n
        /\ failed.born = e.born /\ failed.queue = e.queue
        /\ failed.reply = [e.reply EXCEPT ![g] = r]
        /\ failed.bargeIn = e.bargeIn /\ failed.speaking = e.speaking
        /\ failed.armed = e.armed /\ failed.wasPaused = e.wasPaused
    <2>1. n \in {0} \cup Reply /\ q.failures + 1 \in Nat
      BY <1>2 DEF Engine
    <2> HIDE DEF n
    <2> QED
      BY <1>2, <2>1 DEF Engine, Aside
  <1>6. g # 0 /\ g <= e.born
    BY BornReply DEF Reply
  <1>7. /\ n = e.gen \/ (n = 0 /\ e.gen = g)
        /\ n # g
    BY <1>2, <1>6
  <1> HIDE DEF failed, n
  <1>8. Sane(failed)
    <2>1. \A i \in DOMAIN e.turns : e.turns[i].reply = g =>
            r.seen = e.reply[g].seen /\ (r.phase # "broken" => e.turns[i].text <= r.heard)
      BY <1>3
    <2> QED
      BY <1>2, <1>3, <1>5, <1>6, <1>7, <2>1, MovesReply
  <1>9. Current(failed)
    <2>1. e.gen \in {0} \cup Reply
      BY <1>1, TypesInside
    <2>2. n # 0 => failed.reply[n] = e.reply[n] /\ n = e.gen
      BY <1>1, <1>5, <1>7, <2>1
    <2> QED
      BY <1>5, <2>2 DEF Current
  <1>10. failed.reply[g] = r
    BY <1>1, <1>5
  <1>11. /\ t \in Turn /\ t.who = "agent" /\ t.reply = g /\ t.cut = TRUE /\ t.closing = FALSE
    <2>1. e.reply[g].text \in 0..MaxChunks
      BY <1>1, GenerationTypes
    <2> QED
      BY <2>1 DEF ReplyTurn, Turn
  <1> HIDE DEF t
  <1>a. e.reply \in [Reply -> Generation] /\ e.gen \in {0} \cup Reply
    BY <1>1, TypesInside
  <1>b. Answered(e, failed)
    <2>1. \A h \in Reply : failed.reply[h].seen = e.reply[h].seen
      BY <1>3, <1>5, <1>a
    <2> QED
      BY <1>1, <1>5, <2>1, SameReaders
  <1>12. /\ Sane(said) /\ Current(said) /\ said.born = e.born
         /\ e.gen # g => (Owed(e) => Owed(said))
    <2>a. ASSUME e.gen # g, Owed(e), said.st = e.st, said.gen = n, said.wasPaused = e.wasPaused,
                 said.bargeIn = e.bargeIn, said.speaking = e.speaking, said.armed = e.armed,
                 said.queue = e.queue, said.reply = failed.reply, Answered(e, said),
                 \A j \in DOMAIN said.turns : said.turns[j].who # "agent" =>
                   j \in DOMAIN e.turns /\ e.turns[j].who # "agent"
          PROVE  Owed(said)
      <3>1. n = e.gen
        BY <1>7, <2>a
      <3>2. e.gen # 0 => said.reply[e.gen] = e.reply[e.gen]
        BY <1>5, <1>a, <2>a
      <3>3. Heeds(said)
        BY <2>a, <3>1, <3>2 DEF Owed, Heeds
      <3> QED
        BY <2>a, <3>1, <3>3 DEF Owed, Resumes, Answered
    <2>1. CASE said = failed
      <3>1. e.gen # g /\ Owed(e) => Owed(failed)
        BY <1>5, <1>b, <2>1, <2>a
      <3> QED
        BY <1>5, <1>8, <1>9, <2>1, <3>1
    <2>2. CASE said = Persist(failed, t)
      <3> DEFINE f == Persist(failed, t)
      <3>1. /\ f \in Engine /\ f.st = failed.st /\ f.reply = failed.reply /\ f.gen = failed.gen
            /\ f.born = failed.born /\ f.queue = failed.queue
            /\ f.turns = failed.turns \/ f.turns = Append(failed.turns, t)
            /\ Aside(failed, f)
        BY <1>5, <1>11, PersistFields
      <3> HIDE DEF f
      <3>2. t.cut /\ ~t.closing
        BY <1>11
      <3>3. failed.reply[t.reply].phase = "broken" /\ failed.gen # t.reply
        BY <1>3, <1>5, <1>7, <1>10, <1>11
      <3>4. Sane(f)
        <4>1. CASE f.turns = failed.turns
          BY <1>8, <3>1, <4>1, SameSane
        <4>2. CASE f.turns = Append(failed.turns, t)
          BY <1>8, <1>11, <3>1, <3>2, <3>3, <4>2, AddsTurn
        <4> QED
          BY <3>1, <4>1, <4>2
      <3>5. Current(f)
        BY <1>5, <1>9, <1>11, <3>1, CurrentKept
      <3>6. said = f
        BY <2>2 DEF f
      <3>7. Answered(e, f)
        <4>1. Answered(failed, f)
          BY <1>5, <1>11, <3>1, AgentAnswers
        <4> QED
          BY <1>b, <4>1 DEF Answered
      <3>8. \A j \in DOMAIN f.turns : f.turns[j].who # "agent" =>
              j \in DOMAIN e.turns /\ e.turns[j].who # "agent"
        <4>1. failed.turns \in Seq(Turn)
          BY <1>5, TypesInside
        <4> QED
          BY <1>5, <1>11, <3>1, <4>1, TurnsShape
      <3>9. e.gen # g /\ Owed(e) => Owed(f)
        BY <1>5, <2>a, <3>1, <3>6, <3>7, <3>8 DEF Aside
      <3> QED
        BY <1>5, <3>1, <3>4, <3>5, <3>6, <3>9
    <2> QED
      BY <2>1, <2>2
  <1> HIDE DEF said
  <1>13. Serves(e, said, e.gen = g)
    BY <1>12 DEF Serves
  <1>14. Serves(e, Ended(said, "FAILED"), e.gen = g)
    BY <1>12, EndedServes DEF TerminalStates
  <1> QED
    BY <1>4, <1>13, <1>14

LEMMA ActsOnQueue ==
  ASSUME CInv, RunsQueuedTask
  PROVE  CInv'
  <1> DEFINE e == [engine EXCEPT !.queue = Tail(@)]
             task == Head(engine.queue)
  <1>1. /\ engine.queue # << >>
        /\ \/ /\ task.kind = "commit" /\ engine' = Commit(e, task.reply)
              /\ excused' = IF engine'.born # engine.born THEN FALSE ELSE excused \/ FALSE
           \/ /\ task.kind = "error" /\ engine' = OnGenerationError(e, task.reply)
              /\ excused' = IF engine'.born # engine.born THEN FALSE
                            ELSE excused \/ (e.gen = task.reply)
           \/ /\ task.kind = "false_barge_in" /\ e.born < MaxReplies
              /\ engine' = OnFalseBargeIn(e)
              /\ excused' = IF engine'.born # engine.born THEN FALSE
                            ELSE excused \/ (e.bargeIn /\ e.partial /\ ~e.speaking)
    BY DEF RunsQueuedTask, Becomes
  <1>2. /\ Sane(e) /\ Aside(engine, e) /\ task \in QueuedTask
        /\ e.turns = engine.turns /\ e.reply = engine.reply /\ e.born = engine.born
        /\ e.gen = engine.gen /\ e.st = engine.st
        /\ task.kind # "false_barge_in" =>
             /\ task.reply \in Reply
             /\ engine.reply[task.reply].phase = (IF task.kind = "commit" THEN "ended" ELSE "failed")
             /\ \A k \in DOMAIN e.queue : e.queue[k].reply # task.reply
        /\ \A k \in DOMAIN engine.queue :
             engine.queue[k] = task \/ \E l \in DOMAIN e.queue : e.queue[l] = engine.queue[k]
    BY <1>1, TailSane DEF CInv
  <1> HIDE DEF e, task
  <1>3. Current(e)
    BY <1>2 DEF CInv, Current
  <1>a. Unanswered(e) = Unanswered(engine) /\ (Heeds(engine) => Heeds(e))
    BY <1>2, SameTalk
  <1>4. task.kind # "false_barge_in" /\ Owed(engine) => Owed(e)
    BY <1>2, <1>a DEF Owed, Resumes, Aside
  <1>5. CASE task.kind = "commit"
    <2>1. Serves(e, engine', FALSE)
      BY <1>1, <1>2, <1>3, <1>5, CommitServes
    <2>2. Serves(engine, engine', FALSE)
      BY <1>2, <1>4, <1>5, <2>1 DEF Serves
    <2> QED
      BY <1>1, <1>5, <2>2, BecomesServes
  <1>6. CASE task.kind = "error"
    <2> DEFINE y == e.gen = task.reply
    <2>1. Serves(e, engine', y)
      BY <1>1, <1>2, <1>3, <1>6, ErrorServes
    <2>a. y \in BOOLEAN
      OBVIOUS
    <2>b. excused' = IF engine'.born # engine.born THEN FALSE ELSE excused \/ y
      BY <1>1, <1>6
    <2> HIDE DEF y
    <2>2. Serves(engine, engine', y)
      BY <1>2, <1>4, <1>6, <2>1 DEF Serves
    <2> QED
      BY <2>2, <2>a, <2>b, BecomesServes
  <1>7. CASE task.kind = "false_barge_in"
    <2> DEFINE x == e.bargeIn /\ e.partial /\ ~e.speaking
               q == [e EXCEPT !.bargeIn = FALSE]
    <2>1. x \in BOOLEAN
      OBVIOUS
    <2>2. CASE engine' = ScheduleGeneration(q) /\ e.st = "ACTIVE"
      <3>1. /\ q \in Engine /\ q.turns = e.turns /\ q.reply = e.reply /\ q.queue = e.queue
            /\ q.born = e.born /\ q.gen = e.gen /\ q.st = e.st
        BY <1>2 DEF Sane, Engine
      <3> HIDE DEF q
      <3>2. Sane(q)
        BY <1>2, <3>1, SameSane
      <3>3. Serves(engine, engine', x)
        BY <1>1, <1>7, <2>2, <3>1, <3>2, ScheduleServes
      <3> HIDE DEF x
      <3> QED
        BY <1>1, <1>7, <2>1, <3>3, BecomesServes DEF x
    <2>3. CASE engine' = e /\ (~e.bargeIn \/ Busy(e) \/ e.gen # 0 \/ e.st # "ACTIVE")
      <3>1. Owed(engine) /\ ~x => Owed(e)
        BY <1>2, <1>a, <2>3 DEF Owed, Resumes, Aside, Busy
      <3>2. Serves(engine, engine', x)
        BY <1>2, <1>3, <2>3, <3>1 DEF Serves
      <3> HIDE DEF x
      <3> QED
        BY <1>1, <1>7, <2>1, <3>2, BecomesServes DEF x
    <2>4. \/ engine' = ScheduleGeneration(q) /\ e.st = "ACTIVE"
          \/ engine' = e /\ (~e.bargeIn \/ Busy(e) \/ e.gen # 0 \/ e.st # "ACTIVE")
      BY <1>1, <1>7 DEF OnFalseBargeIn
    <2> QED
      BY <2>2, <2>3, <2>4
  <1> QED
    BY <1>1, <1>5, <1>6, <1>7

-----------------------------------------------------------------------------
(* The timers *)

LEMMA ActsOnFalseBargeInTimer ==
  ASSUME CInv, FalseBargeInTimer
  PROVE  CInv'
  <1> DEFINE e == [engine EXCEPT !.armed = FALSE]
             f == Queues(e, "false_barge_in", 0)
  <1>1. /\ engine' = f
        /\ excused' = IF engine'.born # engine.born THEN FALSE ELSE excused \/ FALSE
    BY DEF FalseBargeInTimer, Becomes
  <1>2. /\ e \in Engine /\ e.turns = engine.turns /\ e.reply = engine.reply
        /\ e.queue = engine.queue /\ e.born = engine.born /\ e.gen = engine.gen
        /\ e.st = engine.st /\ e.wasPaused = engine.wasPaused /\ e.bargeIn = engine.bargeIn
    BY DEF CInv, Sane, Engine
  <1> HIDE DEF e
  <1>3. Sane(e)
    BY <1>2, SameSane DEF CInv
  <1>4. /\ Sane(f) /\ Aside(e, f) /\ f.turns = e.turns /\ f.reply = e.reply /\ f.born = e.born
        /\ f.gen = e.gen /\ f.st = e.st
        /\ \E k \in DOMAIN f.queue : f.queue[k].kind = "false_barge_in"
    BY <1>3, QueuesSane
  <1> HIDE DEF f
  <1>5. Current(f)
    BY <1>2, <1>4 DEF CInv, Current
  <1>6. Owed(engine) => Owed(f)
    <2>1. Unanswered(f) = Unanswered(engine) /\ (Heeds(engine) => Heeds(f))
      BY <1>2, <1>4, SameTalk
    <2> QED
      BY <1>2, <1>4, <2>1 DEF Owed, Resumes, Aside
  <1>7. Serves(engine, f, FALSE)
    BY <1>2, <1>4, <1>5, <1>6, KeptServes
  <1> QED
    BY <1>1, <1>7, BecomesServes

\* Only the deadlines of a close move.
Later(e, f) ==
  /\ f \in Engine
  /\ f.turns = e.turns /\ f.reply = e.reply /\ f.queue = e.queue /\ f.born = e.born
  /\ f.gen = e.gen /\ f.st = e.st /\ f.wasPaused = e.wasPaused /\ f.bargeIn = e.bargeIn
  /\ f.speaking = e.speaking /\ f.armed = e.armed

LEMMA RequestLater ==
  ASSUME NEW e \in Engine
  PROVE  /\ Later(e, RequestClose(e)) /\ Later(e, [e EXCEPT !.timedOut = TRUE])
  <1> DEFINE d == IF Busy(e) \/ e.gen # 0 THEN "waiting" ELSE "due"
  <1>1. d \in {"none", "waiting", "due"}
    OBVIOUS
  <1>2. RequestClose(e) = [e EXCEPT !.deferred = d]
    BY DEF RequestClose
  <1> HIDE DEF d
  <1>3. Later(e, RequestClose(e))
    BY <1>1, <1>2 DEF Later, Engine
  <1>4. Later(e, [e EXCEPT !.timedOut = TRUE])
    BY DEF Later, Engine
  <1> QED
    BY <1>3, <1>4

LEMMA ActsOnTick ==
  ASSUME CInv, TickActive
  PROVE  CInv'
  <1>1. PICK timed \in BOOLEAN, capped \in BOOLEAN :
          LET due == timed /\ ~engine.timedOut
              e1 == IF due THEN RequestClose([engine EXCEPT !.timedOut = TRUE]) ELSE engine
              e2 == IF capped /\ e1.deferred = "none" THEN RequestClose(e1) ELSE e1
          IN  /\ engine' = IF MayClose(e2) THEN CloseSessionNow(e2) ELSE e2
              /\ excused' = IF engine'.born # engine.born THEN FALSE ELSE excused \/ FALSE
    BY DEF TickActive, Becomes
  <1> DEFINE due == timed /\ ~engine.timedOut
             q == [engine EXCEPT !.timedOut = TRUE]
             e1 == IF due THEN RequestClose(q) ELSE engine
             e2 == IF capped /\ e1.deferred = "none" THEN RequestClose(e1) ELSE e1
  <1>2. engine \in Engine
    BY DEF CInv, Sane
  <1>3. Later(engine, engine)
    BY <1>2 DEF Later
  <1>4. Later(engine, q)
    BY <1>2, RequestLater
  <1>5. /\ engine' = e2 \/ engine' = CloseSessionNow(e2)
        /\ excused' = IF engine'.born # engine.born THEN FALSE ELSE excused \/ FALSE
    BY <1>1
  <1> HIDE DEF q
  <1>6. Later(engine, e1)
    <2>1. Later(q, RequestClose(q))
      BY <1>4, RequestLater DEF Later
    <2>2. Later(engine, RequestClose(q))
      BY <1>4, <2>1 DEF Later
    <2> QED
      BY <1>3, <2>2
  <1> HIDE DEF e1
  <1>7. Later(engine, e2)
    <2>1. Later(e1, RequestClose(e1))
      BY <1>6, RequestLater DEF Later
    <2>2. Later(engine, RequestClose(e1))
      BY <1>6, <2>1 DEF Later
    <2> QED
      BY <1>6, <2>2
  <1> HIDE DEF e2
  <1>8. Serves(engine, e2, FALSE)
    BY <1>7, AsideServes DEF CInv, Later
  <1>9. Serves(engine, CloseSessionNow(e2), FALSE)
    BY <1>8, CloseServes DEF Serves
  <1> QED
    BY <1>5, <1>8, <1>9, BecomesServes

LEMMA ActsOnSilence ==
  ASSUME CInv, SilenceCheckIn
  PROVE  CInv'
  <1> DEFINE e == [engine EXCEPT !.checkedIn = TRUE]
  <1>1. /\ engine' = ScheduleGeneration(e) /\ engine.st = "ACTIVE" /\ engine.born < MaxReplies
        /\ excused' = IF engine'.born # engine.born THEN FALSE ELSE excused \/ FALSE
    BY DEF SilenceCheckIn, Becomes
  <1>2. /\ e \in Engine /\ e.turns = engine.turns /\ e.reply = engine.reply
        /\ e.queue = engine.queue /\ e.born = engine.born /\ e.gen = engine.gen
        /\ e.st = engine.st
    BY DEF CInv, Sane, Engine
  <1> HIDE DEF e
  <1>3. Sane(e)
    BY <1>2, SameSane DEF CInv
  <1>4. Serves(engine, engine', FALSE)
    BY <1>1, <1>2, <1>3, ScheduleServes
  <1> QED
    BY <1>1, <1>4, BecomesServes

LEMMA ActsOnInactiveTick ==
  ASSUME CInv, TickInactive
  PROVE  CInv'
  <1>1. PICK st \in {"ABANDONED", "COMPLETED"} :
          /\ engine' = Ended(engine, st)
          /\ excused' = IF engine'.born # engine.born THEN FALSE ELSE excused \/ FALSE
    BY DEF TickInactive, Becomes
  <1>2. st \in TerminalStates
    BY DEF TerminalStates
  <1>3. Serves(engine, engine', FALSE)
    BY <1>1, <1>2, EndedServes DEF CInv
  <1> QED
    BY <1>1, <1>3, BecomesServes

-----------------------------------------------------------------------------
(* The theorems *)

LEMMA ConversationStarts ==
  ASSUME ConversationInit
  PROVE  CInv
  <1>1. PICK opening \in {<< >>, <<Said("agent")>>} :
          engine = [Fresh EXCEPT !.turns = opening]
    BY DEF ConversationInit
  <1>2. Said("agent") \in Turn /\ Said("agent").who = "agent" /\ Said("agent").reply = 0
    BY SaidFields
  <1>3. ~Said("agent").closing
    BY SaidFields
  <1>4. /\ opening \in Seq(Turn) /\ Len(opening) \in {0, 1} /\ DOMAIN opening = 1..Len(opening)
        /\ \A i \in DOMAIN opening : i = 1 /\ opening[i] = Said("agent")
    <2>1. CASE opening = << >>
      BY <2>1
    <2>2. CASE opening = <<Said("agent")>>
      <3>1. opening \in Seq(Turn) /\ Len(opening) = 1 /\ opening[1] = Said("agent")
        BY <1>2, <2>2
      <3> QED
        BY <3>1
    <2> QED
      BY <1>1, <2>1, <2>2
  <1>5. /\ engine \in Engine /\ engine.turns = opening /\ engine.gen = 0 /\ engine.born = 0
        /\ engine.st = "ACTIVE" /\ engine.queue = << >> /\ engine.reply = Fresh.reply
    BY <1>1, <1>4, FreshFields DEF Engine
  <1>6. GenInv(engine) /\ QueueInv(engine)
    BY <1>5 DEF GenInv, QueueInv
  <1>7. ReplyInv(engine)
    BY <1>5, FreshFields DEF ReplyInv, Reply
  <1>8. TurnInv(engine) /\ FreshInv(engine)
    BY <1>2, <1>4, <1>5 DEF TurnInv, FreshInv
  <1>9. LastInv(engine) /\ ClosingInv(engine)
    BY <1>3, <1>4, <1>5 DEF LastInv, ClosingInv
  <1>10. ~Unanswered(engine)
    BY <1>2, <1>4, <1>5 DEF Unanswered
  <1>11. Current(engine) /\ Owed(engine)
    BY <1>5, <1>10 DEF Current, Owed, Heeds
  <1>12. excused \in BOOLEAN
    BY DEF ConversationInit
  <1> QED
    BY <1>5, <1>6, <1>7, <1>8, <1>9, <1>11, <1>12 DEF CInv, Sane

LEMMA ConversationMoves ==
  ASSUME CInv, [ConversationNext]_conversationVars
  PROVE  CInv'
  <1>1. CASE UNCHANGED conversationVars
    <2>1. engine' = engine /\ excused' = excused
      BY <1>1 DEF conversationVars
    <2> QED
      BY <2>1 DEF CInv
  <1>2. CASE Participant
    BY <1>2, ActsOnParticipantFinal, ActsOnSpeakingStarts, ActsOnSpeakingStops, ActsOnPartial,
       ActsOnInput, ActsOnPlayback, ActsOnControl, ActsOnClose, ActsOnDetach, ActsOnAttach,
       ActsOnRestart DEF Participant
  <1>3. CASE Provider
    BY <1>3, ActsOnGeneration DEF Provider
  <1>4. CASE RunsQueuedTask
    BY <1>4, ActsOnQueue
  <1>5. CASE Timer
    BY <1>5, ActsOnPartial, ActsOnFalseBargeInTimer, ActsOnTick, ActsOnSilence,
       ActsOnInactiveTick DEF Timer
  <1> QED
    BY <1>1, <1>2, <1>3, <1>4, <1>5 DEF ConversationNext

\* The engine is sane, its reply in flight up to date, and no turn waits in vain.
THEOREM ConversationCorrect == ConversationSpec => []CInv
  <1> QED
    BY ConversationStarts, ConversationMoves, PTL DEF ConversationSpec

\* The engine record has its type (the fields of SessionEngine), for any bounds.
THEOREM ConversationTypes == ConversationSpec => []ConversationTypeOK
  <1>1. CInv => ConversationTypeOK
    BY DEF CInv, Sane, ConversationTypeOK
  <1> QED
    BY <1>1, ConversationCorrect, PTL

\* One reply is spoken at a time: generate() of any other has noticed its abort.
THEOREM OneVoiceAlways == ConversationSpec => []OneVoice
  <1>1. CInv => OneVoice
    BY DEF CInv, Sane, ReplyInv, OneVoice
  <1> QED
    BY <1>1, ConversationCorrect, PTL

\* A reply that ran to its end had read all the participant said before it:
\* scheduleGeneration supersedes the reply of an earlier history.
THEOREM RepliesAreFresh == ConversationSpec => []FreshReplies
  <1>1. CInv => FreshReplies
    BY DEF CInv, Sane, FreshInv, FreshReplies
  <1> QED
    BY <1>1, ConversationCorrect, PTL

\* The transcript keeps no more of a reply than was heard, whichever of commit
\* and playback report came first.
THEOREM OnlyHeardIsKept == ConversationSpec => []HeardIsKept
  <1>1. CInv => HeardIsKept
    BY DEF CInv, Sane, TurnInv, HeardIsKept
  <1> QED
    BY <1>1, ConversationCorrect, PTL

\* After the closing line the agent completes no other reply.
THEOREM ClosingIsLast == ConversationSpec => []LastWord
  <1>1. CInv => LastWord
    BY DEF CInv, Sane, LastInv, LastWord
  <1> QED
    BY <1>1, ConversationCorrect, PTL

\* When an active engine rests, a reply on record has read every turn and document,
\* or one of the five things has happened since the last reply was born that
\* NothingForgotten lists.
THEOREM NobodyForgotten == ConversationSpec => []NothingForgotten
  <1>1. ASSUME CInv
        PROVE  NothingForgotten
    <2> SUFFICES ASSUME engine.st = "ACTIVE", Resting, Unanswered(engine), ~excused
                 PROVE  FALSE
      BY <1>1 DEF NothingForgotten, CInv
    <2>1. Owed(engine)
      BY <1>1 DEF CInv
    <2>2. DOMAIN engine.queue = {}
      BY DEF Resting
    <2> QED
      BY <2>1, <2>2 DEF Owed, Resumes, Resting
  <1> QED
    BY <1>1, ConversationCorrect, PTL
=============================================================================
