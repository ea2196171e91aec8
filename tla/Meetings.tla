------------------------------ MODULE Meetings -------------------------------
(***************************************************************************)
(* A notetaker bot and its session (channels/meetings.service.ts,          *)
(* channels/meeting-session.ts).  The session has no engine: it is moved   *)
(* by status and transcript webhooks, by the poll job, by a member who     *)
(* cancels, and by the sweeper of the runtime, which does not know that    *)
(* nobody is meant to drive it.                                            *)
(* Every handler works on the bot row it read first.  Recall (external)    *)
(* may deliver a webhook late, twice, out of order or never.               *)
(***************************************************************************)
EXTENDS Naturals, FiniteSets, SessionStates

CONSTANTS
  Handler,    \* requests and jobs that may be in progress at the same time
  Reports,    \* the statuses of Recall that are looked at
  Utterance,  \* what is said, by content hash
  MaxCrashes, \* bound on the handlers that die or whose calls fail
  Null

ASSUME MeetingAssumption ==
  /\ Reports \subseteq {"JOINING", "IN_CALL", "COMPLETED", "FAILED"} /\ MaxCrashes \in Nat
  /\ Null \notin SessionStates

VARIABLES
  creation,  \* how far the request that sends the bot has come
  bot,       \* MeetingBot: status, and whether the session and provider ids are set
  row,       \* Session: state, endedBy, whether startedAt and durationMs are set
  turns,     \* utterances in the transcript
  announced, \* session.terminal events emitted
  billed,    \* usage records of the meeting, under one idempotency key
  task,      \* what each handler is doing
  poll,      \* the poll job: none, due, taken, over
  call,      \* the bot at Recall: none, waiting, in, out, failed
  sent,      \* statuses Recall has reported
  crashes

vars == <<creation, bot, row, turns, announced, billed, task, poll,
          call, sent, crashes>>

session == <<row, turns, announced, billed>>
recall == <<call, sent>>

-----------------------------------------------------------------------------
(* Data *)

Mapped == {"JOINING", "IN_CALL", "COMPLETED", "FAILED"}

TERMINAL_BOT == {"COMPLETED", "FAILED", "CANCELLED", "BLOCKED"}

BotStatus == Mapped \cup {"SCHEDULED", "CANCELLED"}

\* The last status Recall knows of the call.
Code ==
  CASE call = "waiting" -> "JOINING"
    [] call = "in"      -> "IN_CALL"
    [] call = "out"     -> "COMPLETED"
    [] OTHER            -> "FAILED"

\* Mutant: an active session is completed in one go.
SkipsEnding(from, to) ==
  CASE to = "ACTIVE" /\ from = "READY"                               -> "CONNECTING"
    [] to = "ACTIVE" /\ from = "CONNECTING"                          -> "ACTIVE"
    [] to = "COMPLETED" /\ from \in {"CONNECTING", "ACTIVE", "ENDING"} -> "COMPLETED"
    [] to \in {"CANCELLED", "FAILED"} /\ from \in {"READY", "CONNECTING"} -> to
    [] OTHER                                                         -> Null

\* The routes of pathTo, as the next state on the way.
PathTo(from, to) ==
  CASE to = "ACTIVE" /\ from = "CREATED"                                -> "READY"
    [] to = "ACTIVE" /\ from = "READY"                                  -> "CONNECTING"
    [] to = "ACTIVE" /\ from = "CONNECTING"                             -> "ACTIVE"
    [] to = "COMPLETED" /\ from \in {"CONNECTING", "ACTIVE"}            -> "ENDING"
    [] to = "COMPLETED" /\ from = "ENDING"                              -> "COMPLETED"
    [] to = "CANCELLED" /\ from \in {"CREATED", "READY", "CONNECTING"}  -> "CANCELLED"
    [] to = "FAILED" /\ from \in {"CREATED", "READY", "CONNECTING", "ACTIVE", "ENDING"} -> "FAILED"
    [] OTHER                                                            -> Null

\* Mutant: the sweeper looks for sessions that still talk.
SweepsTheLive(from) ==
  CASE from = "READY"                    -> "EXPIRED"
    [] from \in {"CONNECTING", "ACTIVE"} -> "RECONNECTING"
    [] from = "RECONNECTING"             -> "ABANDONED"
    [] OTHER                             -> Null

\* What the engine the sweeper builds does to a session it finds.
SweepTo(from) ==
  CASE from = "READY"                       -> "EXPIRED"
    [] from = "ENDING"                      -> "COMPLETED"
    [] from \in {"CONNECTING", "ACTIVE"}    -> "RECONNECTING"
    [] from = "RECONNECTING"                -> "ABANDONED"
    [] OTHER                                -> Null

NextHop(t) == IF t.kind = "sweep" THEN SweepTo(t.at) ELSE PathTo(t.at, t.to)

\* A handler: what it was called for, the bot as it read it, and, during
\* transitionMeetingSession, the state it believes the session is in.
Task ==
  [kind : {"none", "status", "speech", "poll", "cancel", "create", "sweep"},
   step : {"idle", "fetch", "apply", "look", "read", "hop", "tell", "seat", "save", "bill", "repoll", "left"},
   code : Mapped \cup {Null}, said : Utterance \cup {Null},
   bot : BotStatus \cup {Null}, linked : BOOLEAN,
   at : SessionStates \cup {Null}, to : SessionStates \cup {Null}, started : BOOLEAN]

Idle ==
  [kind |-> "none", step |-> "idle", code |-> Null, said |-> Null, bot |-> Null,
   linked |-> FALSE, at |-> Null, to |-> Null, started |-> FALSE]

\* The request that creates the bot has written the row.
Init ==
  /\ creation = "row"
  /\ bot = [status |-> "SCHEDULED", linked |-> FALSE]
  /\ row = [state |-> "READY", started |-> FALSE, duration |-> FALSE, endedBy |-> Null]
  /\ turns = {} /\ announced = 0 /\ billed = 0
  /\ task = [h \in Handler |-> Idle]
  /\ poll = "none" /\ call = "none" /\ sent = {}
  /\ crashes = 0

-----------------------------------------------------------------------------
(* Steps of a handler *)

Become(h, t) == task' = [task EXCEPT ![h] = t]

\* On to a step that needs no more than what was said and where the bot was.
Then(t, step) ==
  [Idle EXCEPT !.kind = t.kind, !.step = step, !.said = t.said,
               !.bot = IF t.kind = "speech" THEN t.bot ELSE Null]

\* The handler returns; the poll job first looks whether to come back.
Return(t) == IF t.kind = "poll" THEN Then(t, "repoll") ELSE Idle

\* Mutant: only a webhook bills the meeting it completed.
PollForgetsBill(t) ==
  CASE t.kind = "speech"                     -> Then(t, "seat")
    [] t.kind = "status" /\ t.to = "COMPLETED" -> Then(t, "bill")
    [] t.kind = "create"                     -> Then(t, "left")
    [] OTHER                                 -> Return(t)

\* What follows transitionMeetingSession, whether or not it got to the end.
AfterTransition(t) ==
  CASE t.kind = "speech"                                   -> Then(t, "seat")
    [] t.kind \in {"status", "poll"} /\ t.to = "COMPLETED" -> Then(t, "bill")
    [] t.kind = "create"                                   -> Then(t, "left")
    [] OTHER                                               -> Return(t)

\* On with the route, or what follows it.
Onward(t) == IF NextHop(t) = Null THEN AfterTransition(t) ELSE [t EXCEPT !.step = "hop"]

\* The process dies, or a call fails.  A poll job that died is run again by
\* the queue, or is not.
Crash(h) ==
  /\ task[h] # Idle
  /\ crashes < MaxCrashes /\ crashes' = crashes + 1
  /\ Become(h, Idle)
  /\ poll' \in IF task[h].kind = "poll" THEN {"due", "over"} ELSE {poll}
  /\ creation' = IF task[h].kind = "create" THEN "done" ELSE creation
  /\ UNCHANGED <<session, bot, recall>>

\* findUnique at the top of transitionMeetingSession.
Read(h) ==
  /\ task[h].step = "read"
  /\ Become(h, Onward([task[h] EXCEPT !.at = row.state, !.started = row.started]))
  /\ UNCHANGED <<session, creation, bot, poll, recall, crashes>>

\* Mutant: the update has no state in its WHERE.
HopsBlindly(h) ==
  LET t == task[h]
      next == NextHop(t)
  IN /\ t.step = "hop"
     /\ row' = [state    |-> next,
                started  |-> row.started \/ (next = "ACTIVE" /\ ~t.started),
                duration |-> row.duration \/ (IsTerminal(next) /\ t.started),
                endedBy  |-> IF IsTerminal(next) THEN "system" ELSE Null]
     /\ Become(h, IF IsTerminal(next)
                  THEN [t EXCEPT !.step = "tell", !.at = next]
                  ELSE Onward([t EXCEPT !.at = next]))
     /\ UNCHANGED <<turns, announced, billed, creation, bot, poll, recall, crashes>>

\* One compare-and-set on the way; somebody else may have moved the session.
\* A sweeper's engine never counted any time: what it ends has no duration.
Hop(h) ==
  LET t == task[h]
      next == NextHop(t)
  IN /\ t.step = "hop"
     /\ IF row.state # t.at
        THEN Become(h, AfterTransition(t)) /\ UNCHANGED row
        ELSE /\ row' = [state    |-> next,
                        started  |-> row.started \/ (next = "ACTIVE" /\ ~t.started),
                        duration |-> row.duration \/ (IsTerminal(next) /\ t.kind # "sweep" /\ t.started),
                        endedBy  |-> IF ~IsTerminal(next) THEN Null
                                     ELSE IF t.kind = "cancel" THEN "admin" ELSE "system"]
             /\ Become(h, IF IsTerminal(next)
                          THEN [t EXCEPT !.step = "tell", !.at = next]
                          ELSE Onward([t EXCEPT !.at = next]))
     /\ UNCHANGED <<turns, announced, billed, creation, bot, poll, recall, crashes>>

\* session.terminal, after it.
Tell(h) ==
  LET t == task[h] IN
  /\ t.step = "tell"
  /\ announced' = announced + 1
  /\ Become(h, Onward(t))
  /\ UNCHANGED <<row, turns, billed, creation, bot, poll, recall, crashes>>

-----------------------------------------------------------------------------
(* What handlers are called for *)

Called(kind, step) == [Idle EXCEPT !.kind = kind, !.step = step, !.bot = bot.status]

\* applyStatus returns early on a bot it read as cancelled, or where it is told.
Ignored(status, code) == status = "CANCELLED" \/ (status = code /\ code # "COMPLETED")

\* handleWebhook with a status: found by the provider's id, once it is set.
StatusWebhook(h, code) ==
  /\ task[h] = Idle /\ bot.linked /\ code \in sent /\ ~Ignored(bot.status, code)
  /\ Become(h, [Idle EXCEPT !.kind = "status", !.step = "apply", !.code = code])
  /\ UNCHANGED <<session, creation, bot, poll, recall, crashes>>

\* handleWebhook with an utterance: ingestUtterance up to the session.
SpeechWebhook(h, u) ==
  /\ task[h] = Idle /\ bot.linked /\ "IN_CALL" \in sent
  /\ bot.status \notin TERMINAL_BOT \ {"COMPLETED"}
  /\ Become(h, [Called("speech", "look") EXCEPT !.said = u])
  /\ UNCHANGED <<session, creation, bot, poll, recall, crashes>>

\* poll: the row, then Recall.
Poll(h) ==
  /\ task[h] = Idle /\ poll = "due"
  /\ IF bot.status \in TERMINAL_BOT \/ ~bot.linked
     THEN poll' = "over" /\ UNCHANGED task
     ELSE poll' = "taken" /\ Become(h, Called("poll", "fetch"))
  /\ UNCHANGED <<session, creation, bot, recall, crashes>>

\* Recall does not answer, or answers with its last status.
Fetch(h) ==
  LET t == task[h] IN
  /\ t.step = "fetch"
  /\ \/ Become(h, Return(t))
     \/ /\ Code \in Reports /\ ~Ignored(t.bot, Code)
        /\ Become(h, [Then(t, "apply") EXCEPT !.code = Code])
  /\ UNCHANGED <<session, creation, bot, poll, recall, crashes>>

\* The end of poll: read the bot again and come back until it is done.
Repoll(h) ==
  /\ task[h].step = "repoll"
  /\ poll' = IF bot.status \in TERMINAL_BOT THEN "over" ELSE "due"
  /\ Become(h, Idle)
  /\ UNCHANGED <<session, creation, bot, recall, crashes>>

\* applyStatus: the bot's row is overwritten, whatever it says by now.
ApplyStatus(h) ==
  LET t == task[h] IN
  /\ t.step = "apply"
  /\ bot' = [bot EXCEPT !.status = t.code]
  /\ Become(h, [t EXCEPT !.step = "look"])
  /\ UNCHANGED <<session, creation, poll, recall, crashes>>

\* Where the handler wants the session to be, once it has read it.
Wanted(t) ==
  IF t.kind = "speech" THEN IF row.state = "ACTIVE" THEN Null ELSE "ACTIVE"
  ELSE IF t.kind = "cancel" THEN IF row.started THEN "COMPLETED" ELSE "CANCELLED"
  ELSE CASE t.code = "IN_CALL"   -> "ACTIVE"
         [] t.code = "COMPLETED" -> IF turns # {} \/ row.started THEN "COMPLETED" ELSE "CANCELLED"
         [] t.code = "FAILED"    -> "FAILED"
         [] OTHER                -> Null

Look(h) ==
  LET t == task[h] IN
  /\ t.step = "look"
  /\ Become(h,
       IF IsTerminal(row.state) THEN Return(t)
       ELSE IF Wanted(t) # Null THEN [Then(t, "read") EXCEPT !.to = Wanted(t)]
       ELSE IF t.kind = "speech" THEN [Then(t, "save") EXCEPT !.bot = Null]
       ELSE Return(t))
  /\ UNCHANGED <<session, creation, bot, poll, recall, crashes>>

\* ingestUtterance after the session was made active: the bot is in the call.
Seat(h) ==
  LET t == task[h] IN
  /\ t.step = "seat"
  /\ bot' = IF t.bot = "IN_CALL" THEN bot ELSE [bot EXCEPT !.status = "IN_CALL"]
  /\ Become(h, [Then(t, "save") EXCEPT !.bot = Null])
  /\ UNCHANGED <<session, creation, poll, recall, crashes>>

\* The turn, once per content hash.
Save(h) ==
  LET t == task[h] IN
  /\ t.step = "save"
  /\ turns' = turns \cup {t.said}
  /\ Become(h, Return(t))
  /\ UNCHANGED <<row, announced, billed, creation, bot, poll, recall, crashes>>

\* The usage record of a session that completed, under its own key.
Bill(h) ==
  LET t == task[h] IN
  /\ t.step = "bill"
  /\ billed' = IF row.duration THEN 1 ELSE billed
  /\ Become(h, Return(t))
  /\ UNCHANGED <<row, turns, announced, creation, bot, poll, recall, crashes>>

-----------------------------------------------------------------------------
(* cancel, and the end of a create that failed *)

\* The bot leaves the call, or the request to Recall fails and is only logged.
LeaveCall ==
  \/ UNCHANGED recall
  \/ /\ call \in {"waiting", "in"}
     /\ call' = "out" /\ sent' = sent \cup {"COMPLETED"}

\* cancel reads the bot, and asks Recall to leave if it knows it.
Cancel(h) ==
  /\ task[h] = Idle /\ bot.status \notin TERMINAL_BOT
  /\ Become(h, [Idle EXCEPT !.kind = "cancel", !.step = "left", !.linked = bot.linked])
  /\ IF bot.linked THEN LeaveCall ELSE UNCHANGED recall
  /\ UNCHANGED <<session, creation, bot, poll, crashes>>

\* Both overwrite the bot's row, whatever it says by then.
Left(h) ==
  LET t == task[h] IN
  /\ t.step = "left"
  /\ bot' = [bot EXCEPT !.status = IF t.kind = "cancel" THEN "CANCELLED" ELSE "FAILED"]
  /\ Become(h, IF t.kind = "cancel" /\ t.linked THEN Then(t, "look") ELSE Idle)
  /\ UNCHANGED <<session, creation, poll, recall, crashes>>

-----------------------------------------------------------------------------
(* create *)

\* POST to Recall, after createSession: the bot exists there from here on.
Send ==
  /\ creation = "row"
  /\ creation' = "posted" /\ call' = "waiting" /\ sent' = {"JOINING"}
  /\ UNCHANGED <<session, bot, task, poll, crashes>>

\* The row learns the ids, and is overwritten with JOINING (SCHEDULED, for a
\* meeting later on: no handler tells the two apart).
Link ==
  /\ creation = "posted"
  /\ creation' = "linked" /\ bot' = [status |-> "JOINING", linked |-> TRUE]
  /\ UNCHANGED <<session, task, poll, recall, crashes>>

SchedulePoll ==
  /\ creation = "linked"
  /\ creation' = "done" /\ poll' = "due"
  /\ UNCHANGED <<session, bot, task, recall, crashes>>

\* Any of these calls throws: the session and the bot are failed, and a bot
\* Recall already has stays in the meeting.  Or the process dies.
CreateFails(h) ==
  /\ task[h] = Idle /\ creation \in {"row", "posted", "linked"}
  /\ crashes < MaxCrashes /\ crashes' = crashes + 1
  /\ creation' = "done"
  /\ \/ Become(h, [Idle EXCEPT !.kind = "create", !.step = "read", !.to = "FAILED"])
     \/ UNCHANGED task
  /\ UNCHANGED <<session, bot, poll, recall>>

-----------------------------------------------------------------------------
(* The rest of the world *)

\* Recall: somebody admits the bot, the meeting ends, the bot cannot go on.
Admitted ==
  /\ call = "waiting" /\ call' = "in" /\ sent' = sent \cup {"IN_CALL"}
  /\ UNCHANGED <<session, creation, bot, task, poll, crashes>>

CallEnds ==
  /\ call \in {"waiting", "in"}
  /\ \/ call' = "out" /\ sent' = sent \cup {"COMPLETED"}
     \/ call' = "failed" /\ sent' = sent \cup {"FAILED"}
  /\ UNCHANGED <<session, creation, bot, task, poll, crashes>>

Resting == \A h \in Handler : task[h] = Idle

\* RuntimeService.sweep finds a session nobody has written for three minutes, or
\* one that has not started a day after it was created.  No handler takes that
\* long, so nothing is in progress when it does.
Sweep(h) ==
  /\ Resting /\ creation = "done" /\ SweepTo(row.state) # Null
  /\ Become(h, [Idle EXCEPT !.kind = "sweep", !.step = "hop", !.at = row.state])
  /\ UNCHANGED <<session, creation, bot, poll, recall, crashes>>

Works(h) ==
  \/ Fetch(h) \/ Repoll(h) \/ ApplyStatus(h) \/ Look(h) \/ Read(h) \/ Hop(h) \/ Tell(h)
  \/ Seat(h) \/ Save(h) \/ Bill(h) \/ Left(h)

Creates == Send \/ Link \/ SchedulePoll

Next ==
  \/ \E h \in Handler :
       \/ Works(h) \/ Poll(h) \/ Cancel(h) \/ CreateFails(h) \/ Sweep(h) \/ Crash(h)
       \/ \E code \in Reports : StatusWebhook(h, code)
       \/ \E u \in Utterance : SpeechWebhook(h, u)
  \/ Creates \/ Admitted \/ CallEnds

Spec == Init /\ [][Next]_vars

\* Calls return, timers fire and the sweeper runs every minute; meetings,
\* members and webhooks owe nothing.
FairSpec ==
  /\ Spec
  /\ WF_vars(Creates)
  /\ \A h \in Handler : WF_vars(Works(h))
  /\ SF_vars(\E h \in Handler : Poll(h)) /\ SF_vars(\E h \in Handler : Sweep(h))

-----------------------------------------------------------------------------
(* Properties *)

TypeOK ==
  /\ creation \in {"row", "posted", "linked", "done"}
  /\ bot \in [status : BotStatus, linked : BOOLEAN]
  /\ row \in [state : SessionStates, started : BOOLEAN, duration : BOOLEAN, endedBy : {Null, "admin", "system"}]
  /\ turns \subseteq Utterance /\ announced \in 0..1 /\ billed \in 0..1
  /\ task \in [Handler -> Task]
  /\ poll \in {"none", "due", "taken", "over"}
  /\ call \in {"none", "waiting", "in", "out", "failed"} /\ sent \subseteq Mapped
  /\ crashes \in 0..MaxCrashes

Lifecycle == INSTANCE SessionLifecycle WITH state <- row.state

\* Webhooks, polls, members and the sweeper together move the session of a
\* meeting only along the table, never out of a terminal state, and announce
\* its end at most once.
MeetingsImplementLifecycle == Lifecycle!Spec

\* A meeting that took place is never recorded as cancelled, whatever a handler
\* knew of it when it decided (meetings.service.ts: "meeting_ended_without_transcript").
HeldIsNotCancelled == row.state = "CANCELLED" => ~row.started

\* When the call is over, the session of a notetaker comes to an end, also when
\* the webhooks are lost or the process that was completing it dies, as long as
\* webhooks that keep coming leave a pause now and then.
MeetingEnds == []<>Resting => (call \in {"out", "failed"} ~> IsTerminal(row.state))

\* A meeting that was held and that its end completed is paid for, whichever of
\* the handlers that saw the end got to complete it.
HeldIsBilled ==
  crashes = 0 /\ Resting /\ row.state = "COMPLETED" /\ row.started /\ row.endedBy = "system" => billed = 1
=============================================================================
