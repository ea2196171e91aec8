---------------------------- MODULE Conversation ----------------------------
(***************************************************************************)
(* The turn-taking of one engine in pipeline mode (session-engine.ts).     *)
(* Messages, uploads, timers and commits run one at a time through the     *)
(* engine's serial queue, so each is one step on the record "engine";      *)
(* generate() runs beside the queue and comes back to it with a commit or  *)
(* an error, which waits in "queue" while messages sent earlier are        *)
(* handled.  What the engine shares with other processes (the row and its  *)
(* compare-and-set) is the subject of EngineFleet: here database calls     *)
(* succeed.  Times are abstracted to which limit has passed; a text is its *)
(* number of chunks.                                                       *)
(***************************************************************************)
EXTENDS SessionStates, Naturals, Sequences, FiniteSets

CONSTANTS
  Moves,             \* what the participant, the provider and the process may do
  AllowBargeIn,      \* turnTaking.allowBargeIn
  MAX_LLM_FAILURES,  \* errors in a row that fail the session
  MaxInputs,         \* bound on participant turns and documents
  MaxReplies,        \* bound on generations
  MaxChunks          \* bound on the text of a reply

ASSUME ConversationAssumption ==
  /\ Moves \subseteq {"speak", "type", "upload", "playback", "pause", "end", "drop",
                      "restart", "error", "close", "timer"}
  /\ AllowBargeIn \in BOOLEAN
  /\ MAX_LLM_FAILURES \in Nat \ {0} /\ MaxInputs \in Nat
  /\ MaxReplies \in Nat /\ MaxChunks \in Nat \ {0}

VARIABLES
  engine,   \* the SessionEngine, its transcript and its generations
  excused   \* history: since the last reply was born, one that is owed was given up in
            \* one of the ways that NothingForgotten lists

conversationVars == <<engine, excused>>

-----------------------------------------------------------------------------
(* Data *)

Reply == 1..MaxReplies

\* spokenChars of a reply of which the participant has not said how much was heard.
Everything == MaxChunks + 1

\* A coroutine of generate(): "preparing" before it reads the history, "ended"
\* and "failed" when its commit or error is queued, "gone" and "broken" after.
Generation == [phase: {"unborn", "preparing", "streaming", "ended", "failed", "gone", "broken"},
               text: 0..MaxChunks, ends: BOOLEAN,
               seen: Nat,                              \* turns in the history it read
               spoken: 0..Everything,                  \* pendingTruncations
               heard: 0..Everything]                   \* what the participant reported

Turn == [who: {"participant", "input", "agent"}, reply: {0} \cup Reply,
         text: 0..MaxChunks, cut: BOOLEAN, closing: BOOLEAN]

QueuedTask == [kind: {"commit", "error", "false_barge_in"}, reply: {0} \cup Reply]

Engine == [st: SessionStates, wasPaused: BOOLEAN, connected: BOOLEAN,
           turns: Seq(Turn), gen: {0} \cup Reply, born: {0} \cup Reply,
           reply: [Reply -> Generation], queue: Seq(QueuedTask),
           failures: Nat,
           deferred: {"none", "waiting", "due"},  \* deferredClose and its deadline
           timedOut: BOOLEAN,                     \* the timed "end" has fired
           speaking: BOOLEAN, partial: BOOLEAN,   \* participantBusy
           bargeIn: BOOLEAN, armed: BOOLEAN,      \* pendingBargeIn, falseBargeInTimer
           checkedIn: BOOLEAN]                    \* silenceFired

\* The engine record has its type.
ConversationTypeOK == engine \in Engine /\ excused \in BOOLEAN

Said(who) == [who |-> who, reply |-> 0, text |-> 0, cut |-> FALSE, closing |-> FALSE]

Fresh == [st |-> "ACTIVE", wasPaused |-> FALSE, connected |-> TRUE,
          turns |-> << >>, gen |-> 0, born |-> 0,
          reply |-> [g \in Reply |-> [phase |-> "unborn", text |-> 0, ends |-> FALSE, seen |-> 0,
                                      spoken |-> Everything, heard |-> Everything]],
          queue |-> << >>, failures |-> 0, deferred |-> "none", timedOut |-> FALSE,
          speaking |-> FALSE, partial |-> FALSE, bargeIn |-> FALSE, armed |-> FALSE,
          checkedIn |-> FALSE]

\* onStart has run, with an opening line when the agent speaks first.
ConversationInit ==
  /\ \E opening \in {<< >>, <<Said("agent")>>} : engine = [Fresh EXCEPT !.turns = opening]
  /\ excused = FALSE

-----------------------------------------------------------------------------
(* What the handlers are made of *)

Busy(e) == e.speaking \/ e.partial

\* What is kept of a text of which "spoken" was heard.
Kept(text, spoken) == IF text <= spoken THEN text ELSE spoken

\* A terminal engine writes nothing; the id of a reply's turn is its primary key.
Persist(e, turn) ==
  IF IsTerminal(e.st) \/ \E i \in DOMAIN e.turns : turn.reply # 0 /\ e.turns[i].reply = turn.reply
  THEN e
  ELSE [e EXCEPT !.turns = Append(@, turn)]

ReplyTurn(e, g, text, cut, closing) ==
  [who |-> "agent", reply |-> g, text |-> text, cut |-> cut, closing |-> closing]

\* The generation g becomes r, or only moves on to another phase.
WithReply(e, g, r) == [e EXCEPT !.reply[g] = r]
InPhase(e, g, phase) == WithReply(e, g, [e.reply[g] EXCEPT !.phase = phase])

\* The coroutine of g notices the abort; one that has queued its end has not.
Silenced(e, g) == IF e.reply[g].phase = "streaming" THEN InPhase(e, g, "gone") ELSE e

CommitIgnoringReports(e, g, reason) ==
  IF e.reply[g].text = 0 \/ reason = "disconnect" \/ IsTerminal(e.st) THEN e
  ELSE Persist(e, ReplyTurn(e, g, e.reply[g].text, TRUE, FALSE))

CommitAborted(e, g, reason) ==
  IF e.reply[g].text = 0 \/ reason = "disconnect" \/ IsTerminal(e.st) THEN e
  ELSE Persist(e, ReplyTurn(e, g, Kept(e.reply[g].text, e.reply[g].spoken), TRUE, FALSE))

AbortGeneration(e, reason) ==
  IF e.gen = 0 THEN e
  ELSE LET g == e.gen
           stopped == [Silenced(e, g) EXCEPT !.gen = 0]
       IN  CommitAborted(stopped, g, reason)

Born(e) ==
  [InPhase(e, e.born + 1, "preparing") EXCEPT !.gen = e.born + 1, !.born = e.born + 1]

SpeaksOver(e) == IF e.st # "ACTIVE" THEN e ELSE Born(e)

ScheduleGeneration(e) ==
  IF e.st # "ACTIVE" THEN e ELSE Born(AbortGeneration(e, "superseded"))

\* transition() to a terminal state, with what onTerminal does to the reply.
Ended(e, st) ==
  LET quiet == IF e.gen = 0 THEN e ELSE Silenced(e, e.gen)
  IN  [quiet EXCEPT !.st = st, !.gen = 0, !.armed = FALSE]

Scripted(e, closing) == Persist(e, [Said("agent") EXCEPT !.closing = closing])

ClosesWhileSpeaking(e) ==
  IF IsTerminal(e.st) \/ e.st = "ENDING" THEN e
  ELSE LET closing == [e EXCEPT !.deferred = "none", !.st = "ENDING"]
       IN  IF ~e.connected \/ e.st = "RECONNECTING" THEN Ended(closing, "COMPLETED")
           ELSE Scripted(closing, TRUE)

\* The closing line, and COMPLETED at once when nobody is there to hear it.
CloseSessionNow(e) ==
  IF IsTerminal(e.st) \/ e.st = "ENDING" THEN e
  ELSE LET closing == [AbortGeneration(e, "closing") EXCEPT !.deferred = "none", !.st = "ENDING"]
       IN  IF ~e.connected \/ e.st = "RECONNECTING" THEN Ended(closing, "COMPLETED")
           ELSE Scripted(closing, TRUE)

\* The engine's own test: it looks at the last turn only.
NeedsResponse(turns) == turns # << >> /\ turns[Len(turns)].who \in {"participant", "input"}

\* A turn of the participant or a document that no reply on record has read.
Unanswered(e) ==
  \E j \in DOMAIN e.turns :
    /\ e.turns[j].who # "agent"
    /\ \A i \in DOMAIN e.turns :
         e.turns[i].reply # 0 => e.reply[e.turns[i].reply].seen < j

\* It waits behind the text of an interrupted reply, where the engine does not look.
Hidden(e) == Unanswered(e) /\ ~NeedsResponse(e.turns)

-----------------------------------------------------------------------------
(* The participant and the callers of the engine *)

\* Room for one more turn of the participant and one more reply.
MayAsk(e) ==
  /\ Cardinality({i \in DOMAIN e.turns : e.turns[i].who # "agent"}) < MaxInputs
  /\ e.born < MaxReplies

\* The participant's message e leads to next; who gives up a reply says so.
Becomes(next, givenUp) ==
  /\ engine' = next
  /\ excused' = IF next.born # engine.born THEN FALSE ELSE excused \/ givenUp

\* participant.final: the participant was heard, whatever comes of it.
Heard(e) ==
  Persist([e EXCEPT !.checkedIn = FALSE, !.speaking = FALSE, !.bargeIn = FALSE, !.armed = FALSE],
          Said("participant"))

AnswersLater(e) ==
  IF e.st = "ENDING" THEN Heard(e)
  ELSE IF e.deferred # "none" THEN CloseSessionNow(Heard(e))
  ELSE IF e.gen # 0 THEN Heard(e) ELSE ScheduleGeneration(Heard(e))

\* A deferred close takes the place of the reply.
ParticipantFinal(e) ==
  IF e.st = "ENDING" THEN Heard(e)
  ELSE IF e.deferred # "none" THEN CloseSessionNow(Heard(e))
  ELSE ScheduleGeneration(Heard(e))

OnParticipantFinal ==
  /\ "type" \in Moves /\ engine.connected /\ MayAsk(engine)
  /\ engine.st \in {"ACTIVE", "ENDING"}
  /\ Becomes(ParticipantFinal(engine), FALSE)

OnSpeakingStarts ==
  LET e == [engine EXCEPT !.checkedIn = FALSE, !.speaking = TRUE]
      interrupts == e.gen # 0 /\ AllowBargeIn /\ e.st = "ACTIVE"
  IN  /\ "speak" \in Moves /\ engine.connected /\ ~IsTerminal(engine.st)
      /\ Becomes(IF interrupts
                 THEN [AbortGeneration(e, "barge_in") EXCEPT !.bargeIn = TRUE, !.armed = FALSE]
                 ELSE e, FALSE)

Arms(e) == e.armed \/ (e.bargeIn /\ e.st = "ACTIVE")

\* Speech ended: if no utterance follows, the timer has the agent go on.
OnSpeakingStops ==
  /\ "speak" \in Moves /\ engine.connected /\ ~IsTerminal(engine.st)
  /\ Becomes([engine EXCEPT !.checkedIn = FALSE, !.speaking = FALSE,
                            !.armed = Arms(engine)], FALSE)

OnPartial ==
  /\ "speak" \in Moves /\ engine.connected /\ ~IsTerminal(engine.st)
  /\ Becomes([engine EXCEPT !.checkedIn = FALSE, !.partial = TRUE], FALSE)

\* 2.5 seconds without a partial transcript.
PartialFades ==
  /\ engine.partial
  /\ Becomes([engine EXCEPT !.partial = FALSE], FALSE)

\* A document or the answer of a tool: in a spoken turn it waits for the turn.
OnInput ==
  LET e == Persist(engine, Said("input"))
      waits == engine.st # "ACTIVE" \/ Busy(engine)
  IN  /\ "upload" \in Moves /\ ~IsTerminal(engine.st) /\ MayAsk(engine)
      /\ Becomes(IF waits THEN e ELSE ScheduleGeneration(e), waits)

\* The player tells how much of a reply was heard before it was interrupted:
\* of a turn on record, or of the reply in flight.
TruncateTurn(e, g, spoken) ==
  LET r == e.reply[g]
  IN  IF \E i \in DOMAIN e.turns : e.turns[i].reply = g
      THEN [WithReply(e, g, [r EXCEPT !.heard = spoken]) EXCEPT !.turns =
              [i \in DOMAIN e.turns |->
                 IF e.turns[i].reply # g THEN e.turns[i]
                 ELSE [e.turns[i] EXCEPT !.text = Kept(r.text, spoken), !.cut = TRUE]]]
      ELSE WithReply(e, g, [r EXCEPT !.heard = spoken, !.spoken = IF e.gen = g THEN spoken ELSE @])

ClosingTurn(e, g) ==
  \E i \in DOMAIN e.turns : e.turns[i].closing /\ e.turns[i].reply = g

CompletesIfClosing(e, g) ==
  IF e.st = "ENDING" /\ ClosingTurn(e, g) THEN Ended(e, "COMPLETED") ELSE e

OnPlaybackInterrupted ==
  /\ "playback" \in Moves /\ engine.connected /\ ~IsTerminal(engine.st)
  /\ \E g \in Reply : \E spoken \in 0..(engine.reply[g].text - 1) :
       /\ engine.reply[g].text > 0 /\ spoken < engine.reply[g].heard
       /\ Becomes(CompletesIfClosing(TruncateTurn(engine, g, spoken), g), FALSE)

OnPlaybackCompleted ==
  /\ engine.connected /\ engine.st = "ENDING"
  /\ \E g \in {0} \cup Reply : ClosingTurn(engine, g) /\ Becomes(CompletesIfClosing(engine, g), FALSE)

Paused(e) == [AbortGeneration(e, "paused") EXCEPT !.st = "PAUSED"]

OnControlPause ==
  /\ "pause" \in Moves /\ engine.connected /\ engine.st = "ACTIVE"
  /\ Becomes(Paused(engine), Unanswered(Paused(engine)))

OnControlResume ==
  /\ engine.connected /\ engine.st = "PAUSED"
  /\ Becomes([engine EXCEPT !.st = "ACTIVE"], FALSE)

\* control end (allowParticipantEnd) and closeSession, called by the phone bridge.
OnClose ==
  /\ \/ "end" \in Moves /\ engine.connected
     \/ "close" \in Moves
  /\ ~IsTerminal(engine.st) /\ engine.st # "ENDING"
  /\ Becomes(CloseSessionNow(engine), FALSE)

Detached(e) ==
  LET alone == AbortGeneration([e EXCEPT !.connected = FALSE, !.speaking = FALSE], "disconnect")
  IN  CASE alone.st \in {"ACTIVE", "PAUSED"} ->
             [alone EXCEPT !.st = "RECONNECTING", !.wasPaused = (e.st = "PAUSED")]
        [] alone.st = "ENDING" -> Ended(alone, "COMPLETED")
        [] OTHER -> alone

OnDetach ==
  /\ "drop" \in Moves /\ engine.connected /\ ~IsTerminal(engine.st)
  /\ Becomes(Detached(engine), FALSE)

\* wasPausedBeforeDisconnect is read in RECONNECTING only, which sets it.
Returned(e) ==
  [e EXCEPT !.wasPaused = FALSE, !.connected = TRUE,
            !.st = IF @ # "RECONNECTING" THEN @ ELSE IF e.wasPaused THEN "PAUSED" ELSE "ACTIVE"]

ReturnsSilently(e) == Returned(e)

Attached(e) ==
  IF Returned(e).st = "ACTIVE" /\ NeedsResponse(e.turns) THEN ScheduleGeneration(Returned(e))
  ELSE Returned(e)

\* A new connection, also one that takes the place of another.
Attach ==
  /\ "drop" \in Moves /\ ~IsTerminal(engine.st)
  /\ NeedsResponse(engine.turns) => engine.born < MaxReplies
  /\ Becomes(Attached(engine), engine.st = "RECONNECTING" /\ Hidden(engine))

\* The process dies; the engine is rebuilt from the row and the transcript.
Restart ==
  /\ "restart" \in Moves /\ ~IsTerminal(engine.st)
  /\ LET st == CASE engine.st = "ACTIVE" -> "RECONNECTING"
                 [] engine.st = "ENDING" -> "COMPLETED"
                 [] OTHER -> engine.st
         lost == [g \in Reply |-> [engine.reply[g] EXCEPT !.spoken = Everything,
                     !.phase = IF @ \in {"unborn", "broken"} THEN @ ELSE "gone"]]
     IN  Becomes([Fresh EXCEPT !.st = st, !.connected = FALSE, !.turns = engine.turns,
                               !.born = engine.born, !.reply = lost, !.failures = engine.failures,
                               !.timedOut = engine.timedOut], FALSE)

-----------------------------------------------------------------------------
(* generate(), beside the queue *)

Queues(e, kind, g) == [e EXCEPT !.queue = Append(@, [kind |-> kind, reply |-> g])]

\* The prompt is ready: a superseded coroutine stops, the other reads the history.
GenerationStarts(g) ==
  /\ engine.reply[g].phase = "preparing"
  /\ Becomes(IF engine.gen # g THEN InPhase(engine, g, "gone")
             ELSE WithReply(engine, g, [engine.reply[g] EXCEPT !.phase = "streaming",
                                                               !.seen = Len(engine.turns)]), FALSE)

Streams(g) ==
  /\ engine.reply[g].phase = "streaming" /\ engine.reply[g].text < MaxChunks
  /\ Becomes(WithReply(engine, g, [engine.reply[g] EXCEPT !.text = @ + 1]), FALSE)

GenerationEnds(g) ==
  /\ engine.reply[g].phase = "streaming"
  /\ \E ends \in (IF "end" \in Moves THEN BOOLEAN ELSE {FALSE}) :
       Becomes(Queues(WithReply(engine, g, [engine.reply[g] EXCEPT !.phase = "ended", !.ends = ends]),
                      "commit", g), FALSE)

\* No model can be resolved, or the stream breaks.
GenerationFails(g) ==
  /\ "error" \in Moves
  /\ engine.reply[g].phase \in {"preparing", "streaming"}
  /\ Becomes(Queues(InPhase(engine, g, "failed"), "error", g), FALSE)

\* beginAgentEnding, from the commit of a reply that called end_session.
BeginAgentEnding(e, g) ==
  LET ending == [e EXCEPT !.st = "ENDING"]
      spoken == IF e.reply[g].text = 0 THEN Scripted(ending, TRUE)
                ELSE [ending EXCEPT !.turns[Len(e.turns)] = [@ EXCEPT !.closing = TRUE]]
  IN  IF e.connected THEN spoken ELSE Ended(spoken, "COMPLETED")

\* A reply without a word asks the participant to say it again.
Worded(e, g) ==
  LET r == e.reply[g]
  IN  [WithReply(e, g, [r EXCEPT !.text = IF @ = 0 /\ ~r.ends THEN 1 ELSE @, !.phase = "gone"])
         EXCEPT !.gen = 0, !.failures = 0]

Superseded(e, g) == e.gen # g

Commit(e, g) ==
  IF Superseded(e, g) THEN InPhase(e, g, "gone")
  ELSE LET w == Worded(e, g)
           text == w.reply[g].text
           said == IF text = 0 THEN w
                   ELSE Persist(w, ReplyTurn(w, g, Kept(text, w.reply[g].spoken),
                                             w.reply[g].spoken < text, FALSE))
       IN  IF w.reply[g].ends /\ w.st = "ACTIVE" THEN BeginAgentEnding(said, g) ELSE said

\* Nothing asks whether g is still the reply in flight.
OnGenerationError(e, g) ==
  LET failed == [InPhase(e, g, "broken") EXCEPT !.gen = IF @ = g THEN 0 ELSE @, !.failures = @ + 1]
      said == IF e.reply[g].text = 0 THEN failed
              ELSE Persist(failed, ReplyTurn(failed, g, e.reply[g].text, TRUE, FALSE))
  IN  IF said.failures >= MAX_LLM_FAILURES /\ CanTransition(said.st, "FAILED")
      THEN Ended(said, "FAILED") ELSE said

\* The participant has said nothing after all: the agent goes on.
OnFalseBargeIn(e) ==
  IF ~e.bargeIn \/ Busy(e) \/ e.gen # 0 \/ e.st # "ACTIVE" THEN e
  ELSE ScheduleGeneration([e EXCEPT !.bargeIn = FALSE])

RunsQueuedTask ==
  /\ engine.queue # << >>
  /\ LET task == Head(engine.queue)
         e == [engine EXCEPT !.queue = Tail(@)]
     IN  \/ task.kind = "commit" /\ Becomes(Commit(e, task.reply), FALSE)
         \/ task.kind = "error" /\ Becomes(OnGenerationError(e, task.reply), e.gen = task.reply)
         \/ /\ task.kind = "false_barge_in" /\ e.born < MaxReplies
            /\ Becomes(OnFalseBargeIn(e), e.bargeIn /\ e.partial /\ ~e.speaking)

-----------------------------------------------------------------------------
(* Timers *)

\* The timer runs for more than 2.5 seconds: the queue has drained when it fires.
FalseBargeInTimer ==
  /\ engine.armed /\ engine.queue = << >>
  /\ Becomes(Queues([engine EXCEPT !.armed = FALSE], "false_barge_in", 0), FALSE)

\* The deadline of a deferred close passes.
DeferralExpires ==
  /\ engine.deferred = "waiting"
  /\ Becomes([engine EXCEPT !.deferred = "due"], FALSE)

RequestClose(e) ==
  [e EXCEPT !.deferred = IF Busy(e) \/ e.gen # 0 THEN "waiting" ELSE "due"]

WaitsForSilence(e) == e.deferred # "none" /\ ~Busy(e) /\ e.gen = 0

MayClose(e) == e.deferred # "none" /\ (e.deferred = "due" \/ (~Busy(e) /\ e.gen = 0))

\* tick() of an active session: the timed end, the hard cap, the deferred close.
TickActive ==
  /\ "timer" \in Moves /\ engine.st = "ACTIVE"
  /\ \E timed, capped \in BOOLEAN :
       LET due == timed /\ ~engine.timedOut
           e1 == IF due THEN RequestClose([engine EXCEPT !.timedOut = TRUE]) ELSE engine
           e2 == IF capped /\ e1.deferred = "none" THEN RequestClose(e1) ELSE e1
       IN  /\ e2.deferred # "none"
           /\ Becomes(IF MayClose(e2) THEN CloseSessionNow(e2) ELSE e2, FALSE)

\* tick() when nothing closes and the participant has been silent for long.
SilenceCheckIn ==
  LET e == engine
  IN  /\ "timer" \in Moves /\ e.st = "ACTIVE" /\ e.deferred = "none" /\ e.born < MaxReplies
      /\ e.gen = 0 /\ ~e.checkedIn /\ ~Busy(e)
      /\ e.turns # << >> /\ e.turns[Len(e.turns)].who = "agent"
      /\ Becomes(ScheduleGeneration([e EXCEPT !.checkedIn = TRUE]), FALSE)

\* tick() of the other states: grace and pause limits, the closing line is over.
TickInactive ==
  /\ "timer" \in Moves
  /\ \/ /\ engine.st \in {"RECONNECTING", "PAUSED"}
        /\ Becomes(Ended(engine, "ABANDONED"), FALSE)
     \/ engine.st = "ENDING" /\ Becomes(Ended(engine, "COMPLETED"), FALSE)

-----------------------------------------------------------------------------
Participant ==
  \/ OnParticipantFinal \/ OnSpeakingStarts \/ OnSpeakingStops \/ OnPartial \/ OnInput
  \/ OnPlaybackInterrupted \/ OnPlaybackCompleted
  \/ OnControlPause \/ OnControlResume \/ OnClose \/ OnDetach \/ Attach \/ Restart

Provider == \E g \in Reply :
  GenerationStarts(g) \/ Streams(g) \/ GenerationEnds(g) \/ GenerationFails(g)

Timer ==
  \/ PartialFades \/ FalseBargeInTimer \/ DeferralExpires \/ TickActive \/ SilenceCheckIn
  \/ TickInactive

ConversationNext == Participant \/ Provider \/ RunsQueuedTask \/ Timer

ConversationSpec == ConversationInit /\ [][ConversationNext]_conversationVars

\* The tick runs every second, and deadlines pass.
FairConversationSpec ==
  ConversationSpec /\ WF_conversationVars(TickActive) /\ WF_conversationVars(DeferralExpires)

-----------------------------------------------------------------------------
(* Properties *)

\* The participant hears one reply at a time: a coroutine that still streams is
\* the one the engine knows, whatever superseded, paused or closed the others.
OneVoice == \A g \in Reply : engine.reply[g].phase = "streaming" => engine.gen = g

\* A reply that ran to its end was generated from a history with everything the
\* participant had said before it (scheduleGeneration supersedes the others).
FreshReplies ==
  \A i \in DOMAIN engine.turns : \A j \in 1..(i - 1) :
    LET said == engine.turns[i]
    IN  said.reply # 0 /\ ~said.cut /\ engine.turns[j].who = "participant"
          => j <= engine.reply[said.reply].seen

\* The transcript keeps no more of a reply than the participant reports to have
\* heard, whether the report came before or after the turn was written.  A reply
\* that broke off with an error is written in full (onGenerationError).
HeardIsKept ==
  \A i \in DOMAIN engine.turns :
    LET g == engine.turns[i].reply
    IN  g # 0 /\ engine.reply[g].phase # "broken"
          => engine.turns[i].text <= engine.reply[g].heard

\* After the closing line no reply is completed: it is the agent's last word.
LastWord ==
  \A i, j \in DOMAIN engine.turns :
    i < j /\ engine.turns[i].closing => engine.turns[j].who # "agent" \/ engine.turns[j].cut

\* Nothing will make the agent speak but a new message.
Resting ==
  /\ engine.gen = 0 /\ engine.queue = << >>
  /\ ~engine.speaking /\ ~engine.armed

\* An active engine does not come to rest while a turn of the participant or a
\* document waits that no reply on record has read, whatever noise, drops, other
\* windows and restarts came in between.  Since the last reply was born one of the
\* five things that "excused" records may have given it up: a pause; the error of
\* the reply in flight, which asks the participant to say it again; an upload
\* while busy; a partial transcript when the false-barge-in timer fires; a return
\* when the turn stands before the text of an interrupted reply (see Hidden).
NothingForgotten ==
  engine.st = "ACTIVE" /\ Resting /\ engine.connected /\ Unanswered(engine) => excused

\* A close that was put off for the participant or for a reply happens: the
\* deferral has a deadline that speech does not move.
CloseIsNotPutOff == engine.deferred # "none" ~> engine.st # "ACTIVE"
=============================================================================
