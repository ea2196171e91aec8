--------------------------- MODULE Meetings_proofs ---------------------------
(***************************************************************************)
(* What Meetings promises for any handlers, reports, utterances and        *)
(* crashes: its session moves along the table of the platform and is       *)
(* announced over once, a meeting that was held is not cancelled, and one  *)
(* that was completed is paid for.                                         *)
(*                                                                         *)
(* The invariant ties what each handler carries to the rows.  A handler on *)
(* its route is at the state of the session or behind it, and no state is  *)
(* entered twice, so a compare-and-set that wins sees the session as the   *)
(* handler read it.  The winner that ends the session is the only one that *)
(* owes the announcement, and, if it came for the end of the meeting, the  *)
(* bill.                                                                   *)
(***************************************************************************)
EXTENDS Meetings, TLAPS

-----------------------------------------------------------------------------
(* The invariant *)

\* How far a state lies along the routes.
Rank(s) ==
  CASE s = "CREATED"                   -> 0
    [] s = "READY"                     -> 1
    [] s = "CONNECTING"                -> 2
    [] s = "ACTIVE"                    -> 3
    [] s \in {"ENDING", "RECONNECTING"} -> 4
    [] OTHER                           -> 5

\* What a handler carries fits the step it is at.
Sound(t) ==
  /\ t \in Task
  /\ t.step = "fetch" => t.kind = "poll"
  /\ t.step = "apply" => t.code \in Mapped /\ t.kind \in {"status", "poll"}
  /\ t.kind = "speech" => t.said \in Utterance
  /\ t.step \in {"seat", "save"} => t.kind = "speech"
  /\ t.step = "look" => t.kind \in {"status", "poll", "speech", "cancel"}
  /\ t.kind = "sweep" => t.step \in {"hop", "tell"}
  /\ t.step = "hop" => NextHop(t) # Null
  /\ t.step = "tell" => IsTerminal(t.at)
  /\ t.step \in {"read", "hop", "tell"} /\ t.kind # "sweep" /\ t.to = "COMPLETED"
       => t.kind \in {"status", "poll", "cancel"}

\* The types but for the announcements, which need the argument below.
Typed ==
  /\ creation \in {"row", "posted", "linked", "done"}
  /\ bot \in [status : BotStatus, linked : BOOLEAN]
  /\ row \in [state : SessionStates, started : BOOLEAN, duration : BOOLEAN, endedBy : {Null, "admin", "system"}]
  /\ turns \subseteq Utterance /\ billed \in 0..1
  /\ poll \in {"none", "due", "taken", "over"}
  /\ call \in {"none", "waiting", "in", "out", "failed"} /\ sent \subseteq Mapped
  /\ crashes \in 0..MaxCrashes

TasksOK == task \in [Handler -> Task] /\ \A h \in Handler : Sound(task[h])

\* One handler at most owes the announcement, and nobody once it was made.
OneTeller ==
  /\ announced \in 0..1
  /\ announced = 1 => IsTerminal(row.state)
  /\ \A h \in Handler : task[h].step = "tell" => IsTerminal(row.state) /\ announced = 0
  /\ \A g, h \in Handler : task[g].step = "tell" /\ task[h].step = "tell" => g = h

\* The states before the first word, and the end of a meeting without one.
Unheld == row.state \in {"CREATED", "READY", "CONNECTING", "CANCELLED"} => ~row.started

\* A handler on its route is not ahead of the session, and where they are
\* level it knows whether the meeting has started.
Level(t) ==
  t.step = "hop" =>
    /\ Rank(t.at) =< Rank(row.state)
    /\ t.at = row.state /\ t.kind # "sweep" /\ t.to = "COMPLETED" => t.started = row.started

Behind == \A h \in Handler : Level(task[h])

\* The handler that will bill a meeting it has completed.
Pays(t) ==
  /\ t.kind \in {"status", "poll"}
  /\ t.step = "bill" \/ (t.step = "tell" /\ t.to = "COMPLETED")

\* As long as no handler dies, an ending session has one that completes it, no
\* sweeper finds it, and a completed one is paid for or about to be.
Paying ==
  crashes = 0 =>
    /\ row.state = "ENDING" => \E h \in Handler : task[h].step = "hop" /\ task[h].at = "ENDING"
    /\ \A h \in Handler :
         task[h].step = "hop" /\ task[h].kind = "sweep" => task[h].at # "ENDING"
    /\ row.state = "COMPLETED" /\ row.started /\ row.endedBy = "system"
         => row.duration /\ (billed = 1 \/ \E h \in Handler : Pays(task[h]))

MInv == Typed /\ TasksOK /\ OneTeller /\ Unheld /\ Behind /\ Paying
-----------------------------------------------------------------------------
(* Lemmas about the routes and about what handlers carry *)

\* A hop goes along the table, further from the start, and never back to the
\* time before the meeting once it has begun.
LEMMA RouteFacts ==
  ASSUME NEW t \in Task, NextHop(t) # Null
  PROVE  /\ t.at \in SessionStates /\ NextHop(t) \in SessionStates
         /\ <<t.at, NextHop(t)>> \in SessionTransitions
         /\ ~IsTerminal(t.at)
         /\ Rank(t.at) < Rank(NextHop(t))
         /\ NextHop(t) \in {"CREATED", "READY", "CONNECTING", "CANCELLED"}
              => t.at \in {"CREATED", "READY", "CONNECTING"}
         /\ NextHop(t) = "ENDING" => t.kind # "sweep" /\ t.to = "COMPLETED"
         /\ NextHop(t) = "COMPLETED" => t.at = "ENDING" /\ (t.kind # "sweep" => t.to = "COMPLETED")
         /\ NextHop(t) = "ACTIVE" => t.kind # "sweep" /\ t.to = "ACTIVE"
  BY DEF NextHop, SweepTo, PathTo, SessionStates, Unstarted, TerminalStates, IsTerminal,
     SessionTransitions, Rank

\* From a terminal state no route goes on.
LEMMA RouteEnds ==
  ASSUME NEW t, IsTerminal(t.at)
  PROVE  NextHop(t) = Null
  BY DEF NextHop, SweepTo, PathTo, TerminalStates, IsTerminal

LEMMA RankType ==
  ASSUME NEW s
  PROVE  Rank(s) \in Nat
  BY DEF Rank

LEMMA IdleFields ==
  /\ Idle \in Task
  /\ Idle.kind = "none" /\ Idle.step = "idle" /\ Idle.code = Null /\ Idle.said = Null
  /\ Idle.bot = Null /\ Idle.linked = FALSE /\ Idle.at = Null /\ Idle.to = Null
  /\ Idle.started = FALSE
  BY DEF Task, Idle

LEMMA IdleSound == Sound(Idle)
  BY IdleFields DEF Sound

Steps == {"apply", "look", "read", "seat", "save", "bill", "repoll", "left"}

\* What Then keeps and what it drops.
LEMMA ThenFacts ==
  ASSUME NEW t \in Task, NEW s \in Steps
  PROVE  /\ Then(t, s) \in Task
         /\ Then(t, s).kind = t.kind /\ Then(t, s).step = s /\ Then(t, s).said = t.said
  <1> DEFINE b == IF t.kind = "speech" THEN t.bot ELSE Null
  <1>1. b \in BotStatus \cup {Null}
    BY DEF Task
  <1>2. Then(t, s) = [Idle EXCEPT !.kind = t.kind, !.step = s, !.said = t.said, !.bot = b]
    BY DEF Then
  <1> HIDE DEF b
  <1> QED
    BY <1>1, <1>2, IdleFields DEF Task, Steps

\* What a handler that goes on or returns knows.
Able(t) ==
  /\ t \in Task
  /\ t.kind = "speech" => t.said \in Utterance
  /\ t.kind # "sweep" /\ t.to = "COMPLETED" => t.kind \in {"status", "poll", "cancel"}

LEMMA ReturnFacts ==
  ASSUME NEW t \in Task
  PROVE  Sound(Return(t)) /\ Return(t).step \in {"idle", "repoll"}
  <1>1. CASE t.kind = "poll"
    <2>1. Return(t) = Then(t, "repoll") /\ "repoll" \in Steps
      BY <1>1 DEF Return, Steps
    <2> QED
      BY <1>1, <2>1, ThenFacts DEF Sound
  <1>2. CASE t.kind # "poll"
    BY <1>2, IdleFields, IdleSound DEF Return
  <1> QED
    BY <1>1, <1>2

\* After the transition a handler that completed the meeting pays.
LEMMA AfterFacts ==
  ASSUME NEW t, Able(t)
  PROVE  /\ Sound(AfterTransition(t))
         /\ AfterTransition(t).step \in {"idle", "repoll", "seat", "bill", "left"}
         /\ t.kind \in {"status", "poll"} /\ t.to = "COMPLETED" => Pays(AfterTransition(t))
  <1>0. t \in Task /\ {"seat", "bill", "left"} \subseteq Steps
    BY DEF Able, Steps
  <1>1. CASE t.kind = "speech"
    <2>1. AfterTransition(t) = Then(t, "seat")
      BY <1>1 DEF AfterTransition
    <2> QED
      BY <1>0, <1>1, <2>1, ThenFacts DEF Sound, Able
  <1>2. CASE t.kind \in {"status", "poll"} /\ t.to = "COMPLETED"
    <2>1. AfterTransition(t) = Then(t, "bill")
      BY <1>2 DEF AfterTransition
    <2> QED
      BY <1>0, <1>2, <2>1, ThenFacts DEF Sound, Pays
  <1>3. CASE t.kind = "create"
    <2>1. AfterTransition(t) = Then(t, "left")
      BY <1>3 DEF AfterTransition
    <2> QED
      BY <1>0, <1>3, <2>1, ThenFacts DEF Sound
  <1>4. CASE /\ t.kind \notin {"speech", "create"}
             /\ ~(t.kind \in {"status", "poll"} /\ t.to = "COMPLETED")
    <2>1. AfterTransition(t) = Return(t)
      BY <1>4 DEF AfterTransition
    <2> QED
      BY <1>0, <1>4, <2>1, ReturnFacts
  <1> QED
    BY <1>1, <1>2, <1>3, <1>4

\* A handler goes on with its route where there is a next hop.
LEMMA OnwardFacts ==
  ASSUME NEW t, Able(t)
  PROVE  /\ Sound(Onward(t))
         /\ \/ NextHop(t) = Null /\ Onward(t) = AfterTransition(t)
            \/ /\ NextHop(t) # Null
               /\ Onward(t).step = "hop"
               /\ Onward(t).kind = t.kind /\ Onward(t).to = t.to
               /\ Onward(t).at = t.at /\ Onward(t).started = t.started
  <1>1. CASE NextHop(t) = Null
    BY <1>1, AfterFacts DEF Onward
  <1>2. CASE NextHop(t) # Null
    <2> DEFINE u == [t EXCEPT !.step = "hop"]
    <2>1. Onward(t) = u
      BY <1>2 DEF Onward
    <2>2. /\ u \in Task /\ u.step = "hop"
          /\ u.kind = t.kind /\ u.to = t.to /\ u.at = t.at /\ u.started = t.started
          /\ u.said = t.said
      BY DEF Able, Task
    <2>3. NextHop(u) = NextHop(t)
      BY <2>2 DEF NextHop
    <2> HIDE DEF u
    <2>4. Sound(u)
      BY <1>2, <2>2, <2>3 DEF Sound, Able
    <2> QED
      BY <1>2, <2>1, <2>2, <2>4
  <1> QED
    BY <1>1, <1>2

-----------------------------------------------------------------------------
(* Steps that leave the session alone *)

\* The parts of the invariant that a handler's step can disturb.
Core == TasksOK /\ OneTeller /\ Unheld /\ Behind /\ Paying

\* A handler that owed nothing goes on to something that owes nothing, or to
\* the start of a route from where the session is.
LEMMA QuietStep ==
  ASSUME MInv, NEW h \in Handler, NEW t, Sound(t), Become(h, t),
         task[h].step \notin {"hop", "tell", "bill"}, t.step # "tell", Level(t),
         t.step = "hop" /\ t.kind = "sweep" /\ crashes = 0 => t.at # "ENDING",
         row' = row, announced' = announced, billed' = billed, crashes' = crashes
  PROVE  Core'
  <1>1. /\ task' \in [Handler -> Task] /\ task'[h] = t
        /\ \A g \in Handler : g # h => task'[g] = task[g]
    BY DEF Become, MInv, TasksOK, Sound
  <1>2. TasksOK'
    BY <1>1 DEF MInv, TasksOK, Sound, NextHop, PathTo, SweepTo
  <1>3. OneTeller' /\ Unheld'
    BY <1>1 DEF MInv, OneTeller, Unheld
  <1>4. Behind'
    BY <1>1 DEF MInv, Behind, Level, Rank
  <1>5. Paying'
    <2>1. \A g \in Handler : Pays(task[g]) \/ task[g].step = "hop" => task'[g] = task[g]
      BY <1>1 DEF Pays
    <2> QED
      BY <1>1, <2>1 DEF MInv, Paying, Pays
  <1> QED
    BY <1>2, <1>3, <1>4, <1>5 DEF Core

Still == row' = row /\ announced' = announced

\* A handler is called: webhooks, the poll job and a member find nobody on it.
LEMMA CalledStep ==
  ASSUME MInv, MeetingAssumption, NEW h \in Handler,
         \/ \E code \in Reports : StatusWebhook(h, code)
         \/ \E u \in Utterance : SpeechWebhook(h, u)
         \/ Poll(h) \/ Cancel(h)
  PROVE  MInv' /\ Still
  <1> SUFFICES Core' /\ Typed' /\ Still
    BY DEF MInv, Core
  <1>0. task \in [Handler -> Task] /\ Typed
    BY DEF MInv, TasksOK
  <1>1. ASSUME NEW code \in Reports, StatusWebhook(h, code) PROVE Core' /\ Typed' /\ Still
    <2> DEFINE t == [Idle EXCEPT !.kind = "status", !.step = "apply", !.code = code]
    <2>1. /\ t \in Task /\ t.kind = "status" /\ t.step = "apply" /\ t.code \in Mapped
      BY IdleFields DEF Task, Mapped, MeetingAssumption
    <2>2. Become(h, t) /\ task[h] = Idle
      BY <1>1 DEF StatusWebhook
    <2> HIDE DEF t
    <2>3. Sound(t) /\ Level(t)
      BY <2>1 DEF Sound, Level
    <2>4. Core'
      BY <1>1, <2>1, <2>2, <2>3, QuietStep, IdleFields DEF StatusWebhook, session
    <2> QED
      BY <1>0, <1>1, <2>4 DEF Typed, StatusWebhook, session, recall, Still
  <1>2. ASSUME NEW u \in Utterance, SpeechWebhook(h, u) PROVE Core' /\ Typed' /\ Still
    <2> DEFINE t == [Idle EXCEPT !.kind = "speech", !.step = "look", !.bot = bot.status, !.said = u]
    <2>1. /\ t \in Task /\ t.kind = "speech" /\ t.step = "look" /\ t.said \in Utterance
      BY <1>0, IdleFields DEF Task, Typed
    <2>2. Become(h, t) /\ task[h] = Idle
      BY <1>2 DEF SpeechWebhook, Called
    <2> HIDE DEF t
    <2>3. Sound(t) /\ Level(t)
      BY <2>1 DEF Sound, Level
    <2>4. Core'
      BY <1>2, <2>1, <2>2, <2>3, QuietStep, IdleFields DEF SpeechWebhook, session
    <2> QED
      BY <1>0, <1>2, <2>4 DEF Typed, SpeechWebhook, session, recall, Still
  <1>3. CASE Poll(h) /\ task' = task
    <2>1. Core'
      BY <1>3 DEF MInv, Core, Poll, session, TasksOK, OneTeller, Unheld, Behind, Level, Paying
    <2> QED
      BY <1>0, <1>3, <2>1 DEF Typed, Poll, session, recall, Still
  <1>4. CASE Poll(h) /\ Become(h, Called("poll", "fetch"))
    <2> DEFINE t == [Idle EXCEPT !.kind = "poll", !.step = "fetch", !.bot = bot.status]
    <2>1. t \in Task /\ t.kind = "poll" /\ t.step = "fetch"
      BY <1>0, IdleFields DEF Task, Typed
    <2>2. Become(h, t) /\ task[h] = Idle
      BY <1>4 DEF Poll, Called
    <2> HIDE DEF t
    <2>3. Sound(t) /\ Level(t)
      BY <2>1 DEF Sound, Level
    <2>4. Core'
      BY <1>4, <2>1, <2>2, <2>3, QuietStep, IdleFields DEF Poll, session
    <2> QED
      BY <1>0, <1>4, <2>4 DEF Typed, Poll, session, recall, Still
  <1>5. CASE Cancel(h)
    <2> DEFINE t == [Idle EXCEPT !.kind = "cancel", !.step = "left", !.linked = bot.linked]
    <2>1. t \in Task /\ t.kind = "cancel" /\ t.step = "left"
      BY <1>0, IdleFields DEF Task, Typed
    <2>2. Become(h, t) /\ task[h] = Idle
      BY <1>5 DEF Cancel
    <2> HIDE DEF t
    <2>3. Sound(t) /\ Level(t)
      BY <2>1 DEF Sound, Level
    <2>4. Core'
      BY <1>5, <2>1, <2>2, <2>3, QuietStep, IdleFields DEF Cancel, session
    <2> QED
      BY <1>0, <1>5, <2>4 DEF Typed, Cancel, LeaveCall, Mapped, session, recall, Still
  <1> QED
    BY <1>1, <1>2, <1>3, <1>4, <1>5 DEF Poll

\* What follows a step is sound, owes nothing and is on no route.
Rests(t) == Sound(t) /\ t.step \notin {"hop", "tell"}

LEMMA RestsStep ==
  ASSUME MInv, NEW h \in Handler, NEW t, Rests(t), Become(h, t),
         task[h].step \notin {"hop", "tell", "bill"},
         row' = row, announced' = announced, billed' = billed, crashes' = crashes
  PROVE  Core'
  BY QuietStep DEF Rests, Level

\* The calls a handler makes before and after its route.
LEMMA WorkStep ==
  ASSUME MInv, MeetingAssumption, NEW h \in Handler,
         Fetch(h) \/ Repoll(h) \/ ApplyStatus(h) \/ Seat(h) \/ Save(h) \/ Left(h)
  PROVE  MInv' /\ Still
  <1> DEFINE t == task[h]
  <1> SUFFICES Core' /\ Typed' /\ Still
    BY DEF MInv, Core
  <1>0. t \in Task /\ Sound(t) /\ Typed /\ {"apply", "look", "save"} \subseteq Steps
    BY DEF MInv, TasksOK, Steps
  <1> HIDE DEF t
  <1>1. CASE Fetch(h)
    <2>0. t.step = "fetch" /\ Still /\ billed' = billed /\ crashes' = crashes /\ Typed'
      BY <1>0, <1>1 DEF Fetch, Typed, session, recall, Still, t
    <2>1. CASE Become(h, Return(t))
      BY <1>0, <2>0, <2>1, RestsStep, ReturnFacts DEF Rests, Still, t
    <2>2. CASE Code \in Reports /\ Become(h, [Then(t, "apply") EXCEPT !.code = Code])
      <3> DEFINE u == [Then(t, "apply") EXCEPT !.code = Code]
      <3>1. Code \in Mapped
        BY DEF Code, Mapped
      <3>0. /\ Then(t, "apply") \in Task
            /\ Then(t, "apply").kind = t.kind /\ Then(t, "apply").step = "apply"
        BY <1>0, ThenFacts
      <3>2. u \in Task /\ u.kind = t.kind /\ u.step = "apply" /\ u.code = Code
        BY <3>0, <3>1 DEF Task
      <3>3. Become(h, u)
        BY <2>2
      <3> HIDE DEF u
      <3>4. Rests(u)
        BY <1>0, <2>0, <3>1, <3>2 DEF Rests, Sound
      <3> QED
        BY <2>0, <3>3, <3>4, RestsStep DEF Still, t
    <2> QED
      BY <1>1, <2>1, <2>2 DEF Fetch, t
  <1>2. CASE Repoll(h)
    <2>1. Rests(Idle)
      BY IdleSound, IdleFields DEF Rests
    <2> QED
      BY <1>0, <1>2, <2>1, RestsStep DEF Repoll, Typed, session, recall, Still, t
  <1>3. CASE ApplyStatus(h)
    <2>0. /\ t.step = "apply" /\ Still /\ billed' = billed /\ crashes' = crashes
          /\ bot' = [bot EXCEPT !.status = t.code]
      BY <1>3 DEF ApplyStatus, session, Still, t
    <2>1. Typed'
      BY <1>0, <1>3, <2>0 DEF ApplyStatus, Typed, session, recall, Sound, BotStatus, Still
    <2> DEFINE u == [t EXCEPT !.step = "look"]
    <2>2. /\ u \in Task /\ u.kind = t.kind /\ u.step = "look" /\ u.said = t.said
      BY <1>0 DEF Task
    <2>3. Become(h, u)
      BY <1>3 DEF ApplyStatus, t
    <2> HIDE DEF u
    <2>4. Rests(u)
      BY <1>0, <2>0, <2>2 DEF Rests, Sound
    <2> QED
      BY <2>0, <2>1, <2>3, <2>4, RestsStep DEF Still, t
  <1>4. CASE Seat(h)
    <2>0. t.step = "seat" /\ Still /\ billed' = billed /\ crashes' = crashes /\ Typed'
      BY <1>0, <1>4 DEF Seat, Typed, session, recall, Still, t, BotStatus, Mapped
    <2> DEFINE u == [Then(t, "save") EXCEPT !.bot = Null]
    <2>1. /\ Then(t, "save") \in Task /\ Then(t, "save").kind = t.kind
          /\ Then(t, "save").step = "save" /\ Then(t, "save").said = t.said
      BY <1>0, ThenFacts
    <2>2. u \in Task /\ u.kind = t.kind /\ u.step = "save" /\ u.said = t.said
      BY <2>1 DEF Task
    <2>3. Become(h, u)
      BY <1>4 DEF Seat, t
    <2> HIDE DEF u
    <2>4. Rests(u)
      BY <1>0, <2>0, <2>2 DEF Rests, Sound
    <2> QED
      BY <2>0, <2>3, <2>4, RestsStep DEF Still, t
  <1>5. CASE Save(h)
    <2>0. t.step = "save" /\ Still /\ billed' = billed /\ crashes' = crashes /\ Typed'
      BY <1>0, <1>5 DEF Save, Typed, Sound, recall, Still, t
    <2>1. Become(h, Return(t)) /\ Rests(Return(t))
      BY <1>0, <1>5, ReturnFacts DEF Rests, Save, t
    <2> QED
      BY <2>0, <2>1, RestsStep DEF Still, t
  <1>6. CASE Left(h)
    <2>0. t.step = "left" /\ Still /\ billed' = billed /\ crashes' = crashes /\ Typed'
      BY <1>0, <1>6 DEF Left, Typed, session, recall, Still, t, BotStatus, Mapped
    <2>1. CASE t.kind = "cancel" /\ t.linked
      <3>1. Become(h, Then(t, "look"))
        BY <1>6, <2>1 DEF Left, t
      <3>2. Rests(Then(t, "look"))
        BY <1>0, <2>1, ThenFacts DEF Rests, Sound
      <3> QED
        BY <2>0, <3>1, <3>2, RestsStep DEF Still, t
    <2>2. CASE ~(t.kind = "cancel" /\ t.linked)
      <3>1. Become(h, Idle)
        BY <1>6, <2>2 DEF Left, t
      <3> QED
        BY <2>0, <3>1, RestsStep, IdleSound, IdleFields DEF Rests, Still, t
    <2> QED
      BY <2>1, <2>2
  <1> QED
    BY <1>1, <1>2, <1>3, <1>4, <1>5, <1>6

\* The handler looks where the session is, and reads it before its route.
LEMMA ReadStep ==
  ASSUME MInv, MeetingAssumption, NEW h \in Handler, Look(h) \/ Read(h)
  PROVE  MInv' /\ Still
  <1> DEFINE t == task[h]
  <1> SUFFICES Core' /\ Typed' /\ Still
    BY DEF MInv, Core
  <1>0. t \in Task /\ Sound(t) /\ Typed /\ {"read", "save"} \subseteq Steps
    BY DEF MInv, TasksOK, Steps
  <1>1. Still /\ billed' = billed /\ crashes' = crashes /\ Typed'
    BY <1>0 DEF Look, Read, Typed, session, recall, Still
  <1> HIDE DEF t
  <1>2. CASE Look(h)
    <2>0. t.step = "look" /\ t.kind \in {"status", "poll", "speech", "cancel"}
      BY <1>0, <1>2 DEF Look, Sound, t
    <2>1. CASE Become(h, Return(t))
      BY <1>0, <1>1, <2>0, <2>1, RestsStep, ReturnFacts DEF Rests, Still, t
    <2>2. CASE Become(h, [Then(t, "read") EXCEPT !.to = Wanted(t)])
      <3> DEFINE u == [Then(t, "read") EXCEPT !.to = Wanted(t)]
      <3>1. Wanted(t) \in SessionStates \cup {Null}
        BY DEF Wanted, SessionStates, Unstarted, TerminalStates
      <3>2. Wanted(t) = "COMPLETED" => t.kind # "speech"
        BY MeetingAssumption DEF MeetingAssumption, Wanted, SessionStates, Unstarted, TerminalStates
      <3>3. /\ u \in Task /\ u.kind = t.kind /\ u.step = "read" /\ u.said = t.said
            /\ u.to = Wanted(t)
        BY <1>0, <3>1, ThenFacts DEF Task
      <3>4. Become(h, u)
        BY <2>2
      <3> HIDE DEF u
      <3>5. Rests(u)
        BY <1>0, <2>0, <3>2, <3>3 DEF Rests, Sound
      <3> QED
        BY <1>1, <2>0, <3>4, <3>5, RestsStep DEF Still, t
    <2>3. CASE t.kind = "speech" /\ Become(h, [Then(t, "save") EXCEPT !.bot = Null])
      <3> DEFINE u == [Then(t, "save") EXCEPT !.bot = Null]
      <3>1. u \in Task /\ u.kind = t.kind /\ u.step = "save" /\ u.said = t.said
        BY <1>0, ThenFacts DEF Task
      <3>2. Become(h, u)
        BY <2>3
      <3> HIDE DEF u
      <3>3. Rests(u)
        BY <1>0, <2>3, <3>1 DEF Rests, Sound
      <3> QED
        BY <1>1, <2>0, <3>2, <3>3, RestsStep DEF Still, t
    <2> QED
      BY <1>2, <2>1, <2>2, <2>3 DEF Look, t
  <1>3. CASE Read(h)
    <2> DEFINE u == [t EXCEPT !.at = row.state, !.started = row.started]
    <2>0. t.step = "read" /\ row.state \in SessionStates /\ row.started \in BOOLEAN
      BY <1>0, <1>3 DEF Read, Typed, t
    <2>1. /\ u \in Task /\ u.kind = t.kind /\ u.to = t.to /\ u.said = t.said
          /\ u.at = row.state /\ u.started = row.started
      BY <1>0, <2>0 DEF Task
    <2>2. Become(h, Onward(u))
      BY <1>3 DEF Read, t
    <2> HIDE DEF u
    <2>3. Able(u)
      BY <1>0, <2>0, <2>1 DEF Sound, Able
    <2>4. t.kind # "sweep"
      BY <1>0, <2>0 DEF Sound
    <2>5. Sound(Onward(u)) /\ Onward(u).step # "tell" /\ Level(Onward(u))
      BY <2>1, <2>3, OnwardFacts, AfterFacts, RankType DEF Level
    <2>6. Onward(u).step = "hop" => Onward(u).kind # "sweep"
      BY <2>1, <2>3, <2>4, OnwardFacts, AfterFacts
    <2> QED
      BY <1>1, <2>0, <2>2, <2>5, <2>6, QuietStep DEF Still, t
  <1> QED
    BY <1>2, <1>3

\* The sweeper takes a session on which nobody is at work.
LEMMA SweepStep ==
  ASSUME MInv, NEW h \in Handler, Sweep(h)
  PROVE  MInv' /\ Still
  <1> DEFINE u == [Idle EXCEPT !.kind = "sweep", !.step = "hop", !.at = row.state]
  <1> SUFFICES Core' /\ Typed' /\ Still
    BY DEF MInv, Core
  <1>0. Typed /\ task[h] = Idle /\ Still /\ billed' = billed /\ crashes' = crashes
    BY DEF MInv, Sweep, Resting, Still, session
  <1>1. /\ u \in Task /\ u.kind = "sweep" /\ u.step = "hop" /\ u.at = row.state
    BY <1>0, IdleFields DEF Typed, Task
  <1>2. Become(h, u)
    BY DEF Sweep
  <1> HIDE DEF u
  <1>3. Sound(u) /\ Level(u)
    BY <1>0, <1>1, RankType DEF Sound, Level, NextHop, Sweep
  <1>4. crashes = 0 => row.state # "ENDING"
    BY IdleFields DEF MInv, Paying, Sweep, Resting
  <1>5. Core'
    BY <1>0, <1>1, <1>2, <1>3, <1>4, QuietStep, IdleFields DEF Still
  <1>6. Typed'
    BY <1>0 DEF Typed, Still, Sweep, session, recall
  <1> QED
    BY <1>0, <1>5, <1>6

\* A handler dies, or the request that creates the bot fails: from then on
\* nothing is promised about the bill.
LEMMA CrashStep ==
  ASSUME MInv, MeetingAssumption, NEW h \in Handler, Crash(h) \/ CreateFails(h)
  PROVE  MInv' /\ Still
  <1> SUFFICES Core' /\ Typed' /\ Still
    BY DEF MInv, Core
  <1>0. Typed /\ TasksOK /\ OneTeller /\ Unheld /\ Behind
    BY DEF MInv
  <1>1. Typed' /\ Still /\ crashes' # 0
    BY <1>0 DEF MeetingAssumption, Typed, Crash, CreateFails, session, recall, Still
  <1>2. PICK u : /\ Sound(u) /\ u.step \notin {"hop", "tell"}
                 /\ task' = [task EXCEPT ![h] = u]
    <2>1. CASE Become(h, Idle)
      BY <2>1, IdleSound, IdleFields DEF Become
    <2>2. CASE Become(h, [Idle EXCEPT !.kind = "create", !.step = "read", !.to = "FAILED"])
      <3> DEFINE u == [Idle EXCEPT !.kind = "create", !.step = "read", !.to = "FAILED"]
      <3>1. u \in Task /\ u.kind = "create" /\ u.step = "read" /\ u.to = "FAILED"
        BY IdleFields DEF Task, SessionStates, TerminalStates
      <3>2. task' = [task EXCEPT ![h] = u]
        BY <2>2 DEF Become
      <3> HIDE DEF u
      <3> QED
        BY <3>1, <3>2 DEF Sound
    <2>3. CASE task' = task /\ CreateFails(h)
      <3>1. task' = [task EXCEPT ![h] = task[h]] /\ task[h] = Idle
        BY <1>0, <2>3 DEF TasksOK, CreateFails
      <3> QED
        BY <3>1, IdleSound, IdleFields
    <2> QED
      BY <2>1, <2>2, <2>3 DEF Crash, CreateFails
  <1>3. TasksOK'
    BY <1>0, <1>2 DEF TasksOK, Sound, NextHop, PathTo, SweepTo
  <1>4. OneTeller' /\ Unheld' /\ Behind'
    BY <1>0, <1>1, <1>2 DEF TasksOK, OneTeller, Unheld, Behind, Level, Rank, Still
  <1>5. Paying'
    BY <1>1 DEF Paying
  <1> QED
    BY <1>1, <1>3, <1>4, <1>5 DEF Core

\* Recall, the meeting, and the steps of create that go well.
LEMMA WorldStep ==
  ASSUME MInv, Creates \/ Admitted \/ CallEnds \/ UNCHANGED vars
  PROVE  MInv' /\ Still
  <1>1. /\ task' = task /\ row' = row /\ announced' = announced /\ billed' = billed
        /\ crashes' = crashes /\ turns' = turns
    BY DEF Creates, Send, Link, SchedulePoll, Admitted, CallEnds, vars, session
  <1>2. Core'
    BY <1>1 DEF MInv, Core, TasksOK, OneTeller, Unheld, Behind, Level, Paying
  <1>3. Typed'
    <2>0. CASE Link
      <3>1. bot' = [status |-> "JOINING", linked |-> TRUE] /\ "JOINING" \in BotStatus
        BY <2>0 DEF Link, BotStatus, Mapped
      <3>2. bot' \in [status : BotStatus, linked : BOOLEAN]
        BY <3>1
      <3> QED
        BY <1>1, <2>0, <3>2 DEF MInv, Typed, Link, recall
    <2>1. CASE Send \/ SchedulePoll
      BY <1>1, <2>1 DEF MInv, Typed, Send, SchedulePoll, recall, Mapped
    <2>2. CASE Admitted \/ CallEnds
      BY <1>1, <2>2 DEF MInv, Typed, Admitted, CallEnds, session, Mapped
    <2>3. CASE UNCHANGED vars
      BY <2>3 DEF MInv, Typed, vars
    <2> QED
      BY <2>0, <2>1, <2>2, <2>3 DEF Creates
  <1> QED
    BY <1>1, <1>2, <1>3 DEF MInv, Core, Still

-----------------------------------------------------------------------------
(* Steps that move the session, announce its end, or pay for it *)

\* The winner announces the end, and only then goes on.
LEMMA TellStep ==
  ASSUME MInv, NEW h \in Handler, Tell(h)
  PROVE  MInv' /\ row' = row /\ announced = 0 /\ announced' = 1 /\ IsTerminal(row.state)
  <1> DEFINE t == task[h]
  <1> DEFINE u == AfterTransition(t)
  <1>0. t.step = "tell" /\ Sound(t) /\ Able(t) /\ Typed /\ task \in [Handler -> Task]
    BY DEF MInv, TasksOK, Tell, Sound, Able
  <1>1. /\ row' = row /\ billed' = billed /\ crashes' = crashes
        /\ announced = 0 /\ announced' = 1 /\ IsTerminal(row.state)
    BY <1>0 DEF MInv, OneTeller, Tell
  <1>2. Become(h, u)
    BY <1>0, RouteEnds DEF Tell, Onward, Sound
  <1>3. /\ Sound(u) /\ u.step \in {"idle", "repoll", "seat", "bill", "left"}
        /\ t.kind \in {"status", "poll"} /\ t.to = "COMPLETED" => Pays(u)
    BY <1>0, AfterFacts
  <1> HIDE DEF u
  <1>4. /\ task' \in [Handler -> Task] /\ task'[h] = u
        /\ \A g \in Handler : g # h => task'[g] = task[g]
    BY <1>0, <1>2, <1>3 DEF Become, Sound
  <1>5. TasksOK' /\ Unheld' /\ Behind'
    BY <1>1, <1>3, <1>4 DEF MInv, TasksOK, Sound, NextHop, PathTo, SweepTo, Unheld, Behind,
       Level, Rank
  <1>6. OneTeller'
    BY <1>0, <1>1, <1>3, <1>4 DEF MInv, OneTeller
  <1>7. Paying'
    <2>1. \A g \in Handler : Pays(task[g]) => Pays(task'[g])
      BY <1>0, <1>3, <1>4 DEF Pays
    <2>2. \A g \in Handler :
            task[g].step = "hop" \/ task'[g].step = "hop" => task'[g] = task[g]
      BY <1>0, <1>3, <1>4
    <2> QED
      BY <1>1, <2>1, <2>2 DEF MInv, Paying, Pays
  <1>8. Typed'
    BY <1>0, <1>1 DEF Typed, Tell, recall
  <1> QED
    BY <1>1, <1>5, <1>6, <1>7, <1>8 DEF MInv

\* The bill of a meeting whose duration is on record.
LEMMA BillStep ==
  ASSUME MInv, NEW h \in Handler, Bill(h)
  PROVE  MInv' /\ Still
  <1> DEFINE t == task[h]
  <1> DEFINE u == Return(t)
  <1>0. /\ t.step = "bill" /\ t \in Task /\ Typed /\ Become(h, u)
        /\ task \in [Handler -> Task]
    BY DEF MInv, TasksOK, Bill
  <1>1. Still /\ crashes' = crashes /\ billed' = IF row.duration THEN 1 ELSE billed
    BY DEF Bill, Still
  <1>2. Sound(u) /\ u.step \in {"idle", "repoll"}
    BY <1>0, ReturnFacts
  <1> HIDE DEF u
  <1>3. /\ task' \in [Handler -> Task] /\ task'[h] = u
        /\ \A g \in Handler : g # h => task'[g] = task[g]
    BY <1>0, <1>2 DEF Become, Sound
  <1>4. TasksOK' /\ Unheld' /\ Behind' /\ OneTeller'
    BY <1>1, <1>2, <1>3 DEF MInv, TasksOK, Sound, NextHop, PathTo, SweepTo, Unheld, Behind,
       Level, Rank, OneTeller, Still
  <1>5. Paying'
    <2>1. \A g \in Handler :
            task[g].step = "hop" \/ task'[g].step = "hop" => task'[g] = task[g]
      BY <1>0, <1>2, <1>3
    <2> QED
      BY <1>1, <2>1 DEF MInv, Paying, Still
  <1>6. Typed'
    BY <1>0, <1>1 DEF Typed, Bill, Still, recall
  <1> QED
    BY <1>1, <1>4, <1>5, <1>6 DEF MInv

\* A hop whose compare-and-set finds the session moved: the route is given up.
LEMMA HopLoses ==
  ASSUME MInv, NEW h \in Handler, Hop(h), row.state # task[h].at
  PROVE  MInv' /\ Still
  <1> DEFINE t == task[h]
  <1> DEFINE u == AfterTransition(t)
  <1>0. t.step = "hop" /\ Sound(t) /\ Able(t) /\ Typed /\ task \in [Handler -> Task]
    BY DEF MInv, TasksOK, Hop, Sound, Able
  <1>1. /\ Still /\ billed' = billed /\ crashes' = crashes /\ Become(h, u)
    BY DEF Hop, Still
  <1>2. Sound(u) /\ u.step \in {"idle", "repoll", "seat", "bill", "left"}
    BY <1>0, AfterFacts
  <1> HIDE DEF u
  <1>3. /\ task' \in [Handler -> Task] /\ task'[h] = u
        /\ \A g \in Handler : g # h => task'[g] = task[g]
    BY <1>0, <1>1, <1>2 DEF Become, Sound
  <1>4. TasksOK' /\ Unheld' /\ Behind' /\ OneTeller'
    BY <1>1, <1>2, <1>3 DEF MInv, TasksOK, Sound, NextHop, PathTo, SweepTo, Unheld, Behind,
       Level, Rank, OneTeller, Still
  <1>5. Paying'
    <2>1. \A g \in Handler : Pays(task[g]) => task'[g] = task[g]
      BY <1>0, <1>3 DEF Pays
    <2>2. \A g \in Handler : task'[g].step = "hop" => task'[g] = task[g]
      BY <1>2, <1>3
    <2>3. \A g \in Handler :
            task[g].step = "hop" /\ task[g].at = row.state => task'[g] = task[g]
      BY <1>3
    <2> QED
      BY <1>1, <2>1, <2>2, <2>3 DEF MInv, Paying, Pays, Still
  <1>6. Typed'
    BY <1>0, <1>1 DEF Typed, Hop, Still, recall
  <1> QED
    BY <1>1, <1>4, <1>5, <1>6 DEF MInv

\* A hop whose compare-and-set wins: one pair of the table, and nobody else
\* believes the session to be where it now is.
LEMMA HopWins ==
  ASSUME MInv, MeetingAssumption, NEW h \in Handler, Hop(h), row.state = task[h].at
  PROVE  MInv' /\ CanTransition(row.state, row'.state) /\ announced' = announced
  <1> DEFINE t == task[h]
  <1> DEFINE next == NextHop(t)
  <1> DEFINE v == [t EXCEPT !.at = next]
  <1> DEFINE w == [t EXCEPT !.step = "tell", !.at = next]
  <1> DEFINE u == IF IsTerminal(next) THEN w ELSE Onward(v)
  <1>0. /\ t.step = "hop" /\ Sound(t) /\ Able(t) /\ Typed /\ task \in [Handler -> Task]
        /\ t \in Task /\ t.at = row.state /\ next # Null
    BY DEF MInv, TasksOK, Hop, Sound, Able
  <1>1. /\ row' = [state    |-> next,
                   started  |-> row.started \/ (next = "ACTIVE" /\ ~t.started),
                   duration |-> row.duration \/ (IsTerminal(next) /\ t.kind # "sweep" /\ t.started),
                   endedBy  |-> IF ~IsTerminal(next) THEN Null
                                ELSE IF t.kind = "cancel" THEN "admin" ELSE "system"]
        /\ Become(h, u)
        /\ announced' = announced /\ billed' = billed /\ crashes' = crashes /\ turns' = turns
        /\ UNCHANGED <<creation, bot, poll, recall>>
    BY <1>0 DEF Hop
  <1>2. /\ next \in SessionStates /\ t.at \in SessionStates
        /\ <<t.at, next>> \in SessionTransitions
        /\ ~IsTerminal(t.at)
        /\ Rank(t.at) < Rank(next)
        /\ next \in {"CREATED", "READY", "CONNECTING", "CANCELLED"}
              => t.at \in {"CREATED", "READY", "CONNECTING"}
        /\ next = "ENDING" => t.kind # "sweep" /\ t.to = "COMPLETED"
        /\ next = "COMPLETED" => t.at = "ENDING" /\ (t.kind # "sweep" => t.to = "COMPLETED")
        /\ next = "ACTIVE" => t.kind # "sweep" /\ t.to = "ACTIVE"
    BY <1>0, RouteFacts
  <1>3. /\ v \in Task /\ v.kind = t.kind /\ v.to = t.to /\ v.said = t.said
        /\ v.at = next /\ v.started = t.started
    BY <1>0, <1>2 DEF Task
  <1>4. /\ w \in Task /\ w.step = "tell" /\ w.kind = t.kind /\ w.to = t.to /\ w.said = t.said
        /\ w.at = next
    BY <1>0, <1>2 DEF Task
  <1>5. Able(v)
    BY <1>0, <1>3 DEF Able
  <1>6. next = "ENDING" => NextHop(v) # Null
    BY <1>2, <1>3 DEF NextHop, PathTo, MeetingAssumption, SessionStates, TerminalStates
  <1>7. /\ row'.state = next /\ row.started \in BOOLEAN /\ row.duration \in BOOLEAN
        /\ row'.started = (row.started \/ (next = "ACTIVE" /\ ~t.started))
        /\ row'.duration = (row.duration \/ (IsTerminal(next) /\ t.kind # "sweep" /\ t.started))
        /\ IsTerminal(next) /\ row'.endedBy = "system" => t.kind # "cancel"
    BY <1>0, <1>1 DEF Typed
  <1> HIDE DEF next, v, w
  <1>8. IsTerminal(next) => u = w
    OBVIOUS
  <1>9. ~IsTerminal(next) => u = Onward(v)
    OBVIOUS
  <1> HIDE DEF u
  <1>10. Sound(u)
    <2>1. CASE IsTerminal(next)
      BY <1>0, <1>4, <1>8, <2>1 DEF Sound, Able
    <2>2. CASE ~IsTerminal(next)
      BY <1>5, <1>9, <2>2, OnwardFacts
    <2> QED
      BY <2>1, <2>2
  <1>11. /\ u.step = "tell" => IsTerminal(next)
         /\ u.step = "hop" => /\ ~IsTerminal(next) /\ u.kind = t.kind /\ u.to = t.to
                              /\ u.at = next /\ u.started = t.started
         /\ next = "ENDING" => u.step = "hop" /\ u.at = next
         /\ next = "COMPLETED" => u.step = "tell" /\ u.kind = t.kind /\ u.to = t.to
    <2>1. CASE IsTerminal(next)
      BY <1>4, <1>8, <2>1 DEF IsTerminal, TerminalStates
    <2>2. CASE ~IsTerminal(next)
      BY <1>3, <1>5, <1>6, <1>9, <2>2, OnwardFacts, AfterFacts DEF IsTerminal, TerminalStates
    <2> QED
      BY <2>1, <2>2
  <1>12. /\ task' \in [Handler -> Task] /\ task'[h] = u
         /\ \A g \in Handler : g # h => task'[g] = task[g]
    BY <1>0, <1>1, <1>10 DEF Become, Sound
  <1>13. TasksOK'
    BY <1>10, <1>12 DEF MInv, TasksOK, Sound, NextHop, PathTo, SweepTo
  <1>14. OneTeller'
    <2>1. announced = 0 /\ \A g \in Handler : task[g].step # "tell"
      BY <1>0, <1>2 DEF MInv, OneTeller
    <2> QED
      BY <1>1, <1>7, <1>11, <1>12, <2>1 DEF OneTeller
  <1>15. Unheld'
    BY <1>0, <1>2, <1>7 DEF MInv, Unheld
  <1>16. Behind'
    <2>1. ASSUME NEW g \in Handler, g # h, task[g].step = "hop"
          PROVE  Rank(task[g].at) < Rank(next)
      BY <1>0, <1>2, <2>1, RankType DEF MInv, Behind, Level
    <2>2. ASSUME NEW g \in Handler, g # h PROVE Level(task[g])'
      BY <1>7, <1>12, <2>1, <2>2, RankType DEF Level, Rank
    <2>3. t.kind # "sweep" /\ t.to = "COMPLETED" => row.started = t.started /\ next # "ACTIVE"
      BY <1>0, <1>2 DEF MInv, Behind, Level
    <2>4. Level(task[h])'
      BY <1>0, <1>7, <1>11, <1>12, <2>3, RankType DEF Level, Rank
    <2> QED
      BY <1>12, <2>2, <2>4 DEF Behind
  <1>17. Paying'
    <2> SUFFICES ASSUME crashes = 0 PROVE Paying'
      BY <1>1 DEF Paying
    <2>1. next = "ENDING" => task'[h].step = "hop" /\ task'[h].at = "ENDING"
      BY <1>11, <1>12
    <2>2. \A g \in Handler :
            task'[g].step = "hop" /\ task'[g].kind = "sweep" => task'[g].at # "ENDING"
      BY <1>2, <1>11, <1>12 DEF MInv, Paying
    <2>3. ASSUME next = "COMPLETED", row'.started, row'.endedBy = "system"
          PROVE  row'.duration /\ Pays(task'[h])
      <3>1. t.kind # "sweep" /\ t.to = "COMPLETED" /\ IsTerminal(next)
        BY <1>0, <1>2, <2>3 DEF MInv, Paying, IsTerminal, TerminalStates
      <3>2. t.kind \in {"status", "poll"}
        BY <1>0, <1>7, <2>3, <3>1 DEF Able
      <3>3. t.started
        BY <1>0, <1>7, <2>3, <3>1 DEF MInv, Behind, Level
      <3> QED
        BY <1>7, <1>11, <1>12, <2>3, <3>1, <3>2, <3>3 DEF Pays
    <2> QED
      BY <1>7, <2>1, <2>2, <2>3 DEF Paying, Pays
  <1>18. Typed'
    <2>1. row' \in [state : SessionStates, started : BOOLEAN, duration : BOOLEAN,
                     endedBy : {Null, "admin", "system"}]
      BY <1>0, <1>1, <1>2, <1>7
    <2> QED
      BY <1>0, <1>1, <2>1 DEF Typed, recall
  <1>19. CanTransition(row.state, row'.state)
    BY <1>0, <1>2, <1>7 DEF CanTransition
  <1> QED
    BY <1>1, <1>13, <1>14, <1>15, <1>16, <1>17, <1>18, <1>19 DEF MInv

-----------------------------------------------------------------------------
(* The theorems *)

LEMMA MeetingInit ==
  ASSUME MeetingAssumption, Init
  PROVE  MInv
  <1>1. Typed
    <2>1. row.state \in SessionStates /\ "SCHEDULED" \in BotStatus
      BY DEF Init, SessionStates, Unstarted, BotStatus
    <2> QED
      BY <2>1 DEF Init, Typed, MeetingAssumption
  <1>2. \A h \in Handler : task[h] = Idle
    BY DEF Init
  <1>3. TasksOK
    BY <1>2, IdleSound, IdleFields DEF Init, TasksOK
  <1>4. row.state = "READY" /\ row.started = FALSE /\ announced = 0
    BY DEF Init
  <1>5. OneTeller /\ Unheld
    BY <1>2, <1>4, IdleFields DEF OneTeller, Unheld
  <1>6. Behind /\ Paying
    BY <1>2, <1>4, IdleFields DEF Behind, Level, Paying
  <1> QED
    BY <1>1, <1>3, <1>5, <1>6 DEF MInv

\* Every step keeps the invariant, and is a step of SessionLifecycle.
LEMMA MeetingStep ==
  ASSUME MInv, MeetingAssumption, [Next]_vars
  PROVE  MInv' /\ [Lifecycle!Next]_(Lifecycle!vars)
  <1>0. Still => UNCHANGED Lifecycle!vars
    BY DEF Still, Lifecycle!vars
  <1>1. CASE Creates \/ Admitted \/ CallEnds \/ UNCHANGED vars
    BY <1>0, <1>1, WorldStep
  <1>2. ASSUME NEW h \in Handler,
               \/ Fetch(h) \/ Repoll(h) \/ ApplyStatus(h) \/ Seat(h) \/ Save(h) \/ Left(h)
               \/ Look(h) \/ Read(h) \/ Bill(h) \/ Poll(h) \/ Cancel(h) \/ CreateFails(h)
               \/ Sweep(h) \/ Crash(h)
               \/ \E code \in Reports : StatusWebhook(h, code)
               \/ \E u \in Utterance : SpeechWebhook(h, u)
        PROVE  MInv' /\ Still
    BY <1>2, WorkStep, ReadStep, BillStep, CalledStep, CrashStep, SweepStep
  <1>3. ASSUME NEW h \in Handler, Hop(h)
        PROVE  MInv' /\ [Lifecycle!Next]_(Lifecycle!vars)
    <2>1. CASE row.state # task[h].at
      BY <1>0, <1>3, <2>1, HopLoses
    <2>2. CASE row.state = task[h].at
      <3>1. MInv' /\ CanTransition(row.state, row'.state) /\ announced' = announced
        BY <1>3, <2>2, HopWins
      <3>2. row'.state \in SessionStates
        BY <3>1 DEF MInv, Typed
      <3> QED
        BY <3>1, <3>2 DEF Lifecycle!Next, Lifecycle!Transition, Lifecycle!CanTransition,
           Lifecycle!SessionTransitions, CanTransition, SessionTransitions,
           Lifecycle!SessionStates, SessionStates, Lifecycle!Unstarted, Unstarted,
           Lifecycle!TerminalStates, TerminalStates
    <2> QED
      BY <2>1, <2>2
  <1>4. ASSUME NEW h \in Handler, Tell(h)
        PROVE  MInv' /\ [Lifecycle!Next]_(Lifecycle!vars)
    <2>1. MInv' /\ row' = row /\ announced = 0 /\ announced' = 1 /\ IsTerminal(row.state)
      BY <1>4, TellStep
    <2> QED
      BY <2>1 DEF Lifecycle!Next, Lifecycle!Announce, Lifecycle!IsTerminal, IsTerminal,
         Lifecycle!TerminalStates, TerminalStates
  <1> QED
    BY <1>0, <1>1, <1>2, <1>3, <1>4 DEF Next, Works

\* Whatever the reports of Recall, the members and the crashes, the rows and
\* what the handlers carry stay in step.
THEOREM MeetingCorrect == Spec => []MInv
  <1>1. Init => MInv
    BY MeetingInit, MeetingAssumption
  <1>2. MInv /\ [Next]_vars => MInv'
    BY MeetingStep, MeetingAssumption
  <1> QED
    BY <1>1, <1>2, PTL DEF Spec

\* Every variable keeps its type; the end is announced once at most.
THEOREM MeetingTypes == Spec => []TypeOK
  <1>1. MInv => TypeOK
    BY DEF MInv, Typed, TasksOK, OneTeller, TypeOK
  <1> QED
    BY <1>1, MeetingCorrect, PTL

\* A meeting that has started is never recorded as cancelled.
THEOREM HeldStays == Spec => []HeldIsNotCancelled
  <1>1. MInv => HeldIsNotCancelled
    BY DEF MInv, Unheld, HeldIsNotCancelled
  <1> QED
    BY <1>1, MeetingCorrect, PTL

\* A meeting its end has completed is billed once the handlers have returned.
THEOREM HeldIsPaid == Spec => []HeldIsBilled
  <1>1. MInv => HeldIsBilled
    BY IdleFields DEF MInv, Paying, Pays, Resting, HeldIsBilled
  <1> QED
    BY <1>1, MeetingCorrect, PTL

\* Webhooks, polls, members and the sweeper together implement the lifecycle
\* the platform promises.
THEOREM MeetingsFollowTheTable == Spec => MeetingsImplementLifecycle
  <1>1. Init => Lifecycle!Init
    BY DEF Init, Lifecycle!Init, Lifecycle!Unstarted
  <1>2. MInv /\ [Next]_vars => [Lifecycle!Next]_(Lifecycle!vars)
    BY MeetingStep, MeetingAssumption
  <1> QED
    BY <1>1, <1>2, MeetingCorrect, PTL DEF Spec, MeetingsImplementLifecycle, Lifecycle!Spec
=============================================================================
