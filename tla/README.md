# A verification of ConversaForge's session runtime

ConversaForge runs spoken and typed conversations between a participant and an
AI agent, analyses them afterwards and tells the customer's systems. This
directory holds TLA+ models of the parts where several actors touch the same
state, the TLC configurations that check them on small instances, and proofs,
checked by TLAPS, for every instance. Source paths below are relative to
`src/backend/src/`; `session-engine.ts` is `modules/runtime/engine/session-engine.ts`.

Contents: 1 inventory, 2 plan, 3 the modules and the code, 4 runs and bounds,
5 fairness, 6 proofs, 7 disagreements found, 8 what is not modelled.

## 1. Inventory

| Component | State it keeps | Operations | Interacts with | Why it is hard |
|---|---|---|---|---|
| Session state machine (`shared/session-state.ts`) | `Session.state` | `SESSION_TRANSITIONS`, `canTransition` | every writer of a session row | many writers, terminal states must stay terminal |
| Session lifecycle (`session-engine.ts`, `runtime.service.ts`) | the row with its `runtimeState`; in memory a copy of both, timers, the serial queue | `build`, `attach`, `detach`, `onStart`, `transition`, `pause`, `closeSession`, `abandon`, `fail`, the tick; the sweeper; `cancel` of the API | gateway, sweeper, public API, usage ledger, domain events | several processes drive one row by compare-and-set; death between any two calls; deadlines partly in memory |
| Conversation (`session-engine.ts`, `engine/history.ts`) | transcript, generation in flight, pending truncations, barge-in flags, deferred close | `participant.final`, `speaking`, `partial`, uploads, `agent.playback`, `generate`, commit, `closeSessionNow`, `tick` | participant, language model | replies stream beside the serial queue; reports of what was heard come late; timers fire in between |
| Analysis pipeline (`modules/analysis`) | `Session.analysisStatus` and `analysisGeneration`, `ProcessingJob` rows, BullMQ jobs, the current evaluation | `startPipeline`, `handle`, `advance`, `completePipeline`, `retryStep`, `reprocess`, `sweep` | domain events, queue, webhooks | rows and queue jobs can disagree; re-runs race the old run; at-least-once everything |
| Webhook delivery (`modules/webhooks`) | outbox events, delivery rows, jobs, the subscription's failure count | `produce`, `fanOut`, `deliverAttempt`, `autoDisable`, `redeliver`, `update`, `sweep` | domain events, queue, customer endpoints | claims of attempts by several workers; aborted jobs; sweeping what is in flight |
| Job queue (`common/queue`, BullMQ) | jobs by id | `enqueue`, `process` | all pipelines | an id that was used is kept: a later `add` is dropped |
| Sessions and participant API (`sessions.service.ts`, `participant.controller.ts`) | session rows, tokens | create, close, consent, uploads | engine, access | a creation that fails half way |
| Public access (`modules/access`) | share links, use counts, Redis counters and locks | `startFromLink`, `startFromAccessToken`, `withEmailLock`, `checkPasscode`, grants | session creation | uses and attempts under concurrent starts, a lock that expires |
| Usage and quotas (`modules/usage`) | ledger with unique keys, quotas, alerts | `record`, `assertWithinQuota` | engine, analysis, recordings | check then act |
| Recordings (`recordings.service.ts`) | assets, parts, storage objects | `start`, `putPart`, `complete` | browser, storage, usage | parts that arrive while the upload is completed |
| Developer API (`modules/developer`) | keys, idempotency records | v1 controllers, `IdempotencyInterceptor` | sessions, webhooks | claims, stale claims taken over, replays |
| Call batches (`channels/batches.service.ts`) | the batch, its targets, tick jobs | `uploadTargets`, `start`, `tick`, `onCallOutcome`, `cancel` | queue, Twilio, sessions | ticks side by side with each other and with requests that had read the batch before; nothing but a job moves it |
| Meetings (`channels/meetings.service.ts`, `meeting-session.ts`) | the bot, the session row, the transcript, usage | `create`, webhooks, `poll`, `cancel`, the sweeper of the runtime | Recall, session row, usage ledger | webhooks late, repeated, out of order; every handler works on what it read |
| Phone calls (`channels/phone.service.ts`, `channels/twilio`) | calls, media streams | inbound and outbound calls, bridge | engine, Twilio | provider callbacks |
| Courses (`modules/courses`) | enrollments with a generation, attempts at items, refresh jobs | `start`, `complete`, `enroll`, `unenroll`, `startOver`, `markComplete`, `refreshAttemptForSession`, `reconcileEnrollment` | sessions, their events, the queue | nothing is transactional; progress is counted from rows that others write |
| Coach, knowledge, scenarios | rows | request handlers, listeners, jobs | finished sessions | rules over data |
| Accounts, workspaces, admin, analytics | rows | request handlers | all | role checks, erasure |
| Voice, language models, tools | none of their own | adapters | conversation | failing or slow providers |
| Browser client (`src/frontend/src/lib`) | socket, unacknowledged utterances, outbox, transcript shown; audio queue | `connect`, `takeOver`, `send`, `handle`, `flush`, reconnection; capture, playback, end of turn | gateway (`runtime.gateway.ts`), and through it `attach`, `receive` and `detach` of the engine | sockets that are half open, late hellos and late closes, two tabs, a server that restarts |

What makes each of the modelled components correct:

- *Lifecycle.* The row moves only along the table; one actor wins the end and
  announces it, once, after the bill; a session starts once; time nobody talked
  is not billed, also when a process dies; every session that started ends.
- *Conversation.* One reply at a time; a reply answers everything said before it;
  the transcript keeps what was heard; no turn is forgotten; the closing line is
  the last; closing happens.
- *Pipeline.* One start per generation; a step runs within its attempts; the
  report is built last; the newest evaluation stays, unless its run began inside the
  older one's scoring transaction; completion is announced at most once per run; every
  session is analysed in the end.
- *Webhooks.* One post for each claimed attempt; failures are counted right; no
  event and no delivery is lost.
- *Meetings.* The session of a bot moves along the same table; a meeting that was
  held is not recorded as cancelled, is billed once, and ends.
- *Call batches.* No row of a target is called twice; a cancelled batch stops; a
  completed one is done; a running one has a tick to come, unless the queue gave it up.
- *Starts.* A use of a link for each session started by it, no more attempts than
  allowed, one answer for one idempotency key.
- *The line to the browser.* What the participant says is saved once, whatever socket
  or process dies; his other messages stay in order; the transcript he sees has no gap;
  when all is at rest, the connected tab is the one the engine talks to.
- *Courses.* Completed means that the required items are complete since the learner
  last started over, and the reverse when all is at rest; items are taken in order; a
  late job fails nobody who has passed, unless the queue gave it up or ignored the
  announcement of his score.

`PROJECT.json` lists, under "hazards", the places where these can go wrong, each
with the properties that watch it.

## 2. Plan

Order of work, the most important behaviour first. *Done* means modelled and
checked in this directory.

1. `SessionStates`, `SessionLifecycle` (abstract), `EngineFleet` (detailed, shown
   to implement the abstract one). *Done, and proved for every instance.*
2. `AnalysisPipeline`. *Done, with every safety property proved.*
3. `Conversation`. *Done for the pipeline mode, with every safety property proved.*
4. `WebhookDelivery`. *Done, with the type invariant, `AttemptSentOnce` and
   `FailuresAreCounted` proved.* Several subscriptions of one event are to come.
5. `Meetings`, another writer of the session row, shown to implement
   `SessionLifecycle`. *Done, with that and both invariants proved.*
6. `CallBatches`. *Done, with the types and all four properties of its run proved.*
7. `SessionStarts`: share links and the idempotency interceptor. *Done, and proved.*
8. `Recordings`, `UsageQuota`: a part beside `complete`; check-then-act quotas.
9. `CourseProgress`. *Done, and proved.* The scoring
   functions as operators, compared with a reference definition over bounded inputs,
   are to come.
10. `LiveLink`: the connection of the browser, the gateway and the engine's queue.
   *Done, with all three properties of its run proved.*
11. A composition of 1, 2 and 4: the terminal announcement starts the analysis and
    produces the events, with the losses each hand-over allows.

Modules with theorems hold no `RECURSIVE` operator. Liveness stays with TLC.

## 3. The modules and the code

**`SessionStates`** is the table `SESSION_TRANSITIONS` with `CanTransition`,
`IsTerminal` and `Unstarted`. **`SessionLifecycle`** is what a session promises to
the rest of the system: its state moves along the table, a terminal state is final,
and the end is announced at most once and only after it happened.

**`EngineFleet`** is one session and every process that may drive it. `row` is the
database row with its `runtimeState`; `eng[p]` the engine of process `p` with its
own copy (`mem`, `runtime`) and the task its serial queue executes (`job`, `step`);
`sweep` and `cancels` the sweeper and the API's cancel call. A task such as
`attach`, `pause` or `closeSession` starts when the queue is free; each database
call of `transition()` is a step: the compare-and-set (`CasWins`, `CasLoses`), the
reload, the usage record, the announcement, disposal. Other processes run in
between. `Crash` is the death of a process, `CallFails` a rejected call. The history
variables `talked`, `starts`, `faults` serve the properties and bounds.

Abstractions: what a session says belongs to `Conversation`; analysis and consent
fields are left out but for `ConsentRequired`, which forbids a start in `CREATED`; the
runs take `FALSE`, which allows every behaviour that `TRUE` does. Staleness (3 and 31
minutes without a heartbeat) and age (24 hours) are flags that are raised when no
engine is writing; they are tracked where something reads them. `now` advances
between tasks, and heartbeats succeed. `SwitchRealtimeProvider` writes and adopts in
one step. A graceful restart is a death.

**`Conversation`** is the serial queue of one engine with its generations. A
message, a timer or an upload is handled in one step (the queue makes it so); a
generation (`GenerationStarts`, `Streams`, `GenerationEnds`, `GenerationFails`) runs
beside the queue and comes back as a queued commit or error that messages may
overtake. A text is its number of chunks, a deadline the fact that it has passed,
`spoken` an entry of `pendingTruncations`, and `heard` what the participant
reported. `NothingForgotten` does not use the engine's own test whether a reply is owed
(`NeedsResponse`, the last turn alone) but `Unanswered`: a turn that no reply on record
has read. `excused` records the five ways in which the code gives up a reply it owes
(a pause, an error of the reply in flight, an upload while the participant is busy, a
partial transcript standing when the false-barge-in timer fires, and a return when the
turn stands before the text of an interrupted reply, `Hidden`); a reply begun later
clears it. Abstractions: pipeline
mode only; database calls succeed; scripted lines are not truncated; side effects
of tools, instructions and notices are data; playback reports only shrink;
`wasPaused` is cleared on return because nothing reads it later. The cap of the
call's duration is two flags of `TickActive`: its limits can pass at any tick.

**`AnalysisPipeline`** is the analysis of one session: `job` is the
`ProcessingJob` row and `queued` the BullMQ job with the same generation and step,
which nothing but the code keeps in agreement. Workers take jobs, callers start,
reprocess, retry and sweep; each call another actor can slip in front of is a step.
`Crash` aborts a task: BullMQ runs a job again while it has attempts. The
scoring step is `ScoreChecks` (the transaction reads the session's generation),
`ScoreWrites` (its upsert and the clearing of `isCurrent` elsewhere, as READ COMMITTED
shows the rows at that moment), `ScoreCommits` and `StepEnds`, which records it; `tx` is
what the transaction has read, `current` the committed rows with `isCurrent`. A run that
begins between the first and the commit is `overtaken`, the exception of
`EvaluationNeverRegresses`. Abstractions:
`enqueueStep` is one step; a read and the claim that follows it are merged, and so
are the effect and the record of the steps other than scoring; row locks between two
scoring transactions are not modelled, which allows more; what is computed is the
generation it was computed for; two of the five steps are instantiated (`score` and
`report`); the
age conditions of the sweep are ignored, so it may come at any time; the
stalled-lock double run of BullMQ and soft deletion are left out. `session.analyzed`
is lost when a process dies between settling and announcing.

**`WebhookDelivery`** is one subscription: the outbox, a delivery row for an event,
the jobs `wh_<delivery>_<attempt>`, the failure count. `ReadDelivery`, `Claim`,
`Send`, `UpdateDelivery` and what follows are the calls of `deliverAttempt`. Delays
do not exist: a delayed job may run at once and the sweep may overtake an attempt
in flight, which `overtaken` records. Ping, secret rotation, signature and payload
are data. A job that crashes is run again or, but not the first time, given up with its
id used (`Afterlife`). A process that dies in the last attempt strands its delivery; the
property excuses exactly the deliveries whose attempts are used up. A job that crashes
twice may strand its delivery before that; the run has one crash, the theorems any
number.

**`Meetings`** is a notetaker bot and its session, which no engine drives. A handler
(a webhook, the poll job, a member's cancel, the clean-up of a failed create, the
sweeper) is a `task` with what it read: the status of the bot, and during
`transitionMeetingSession` the state it believes the session is in (`at`). `PathTo`
gives the routes of `pathTo`, `Hop` is one compare-and-set on the way, `Tell` the
`session.terminal` after the last; `AfterTransition` is what the caller goes on with
whether or not its route was cut short. `call` and `sent` are the bot at Recall and
the statuses it has reported, each of which may be delivered at any later time, any
number of times. Abstractions: `SCHEDULED` and `JOINING` are not told apart, and the
runs leave reports of `JOINING` out, which move nothing; transcripts are a set of
content hashes; a sweep that loses its compare-and-set leaves nothing behind; no
handler takes the three minutes after which the sweeper looks at a session. Bots that
speak are left out. The model has the code's oddities, which no property forbids: a
late webhook overwrites a bot that was `COMPLETED` or `CANCELLED` with `IN_CALL`; a
meeting that a cancel or a sweep completes leaves no usage record; an utterance in
flight is saved after the end.

**`CallBatches`** is one batch, its targets, the ticks that run at the same time and the
requests of its owner. `Take`, `Activate`, `Block`, `Count`, `Find`, `Claim`, `Dial`,
`DialFailed`, `Finish` and `Complete` are the database and provider calls of `tick`;
what was read stays in `tick[w]`. `due` and `later` are the tick jobs that may run and
the delayed one (a second delayed job is not counted). A job that is added under a name
the queue knows is ignored: `StartEnqueue` and `OnCallOutcome` may lose theirs.
Abstractions: `OVER` stands for the three outcomes of a target, which nothing tells
apart; the write of `start` is one step, behind a read of its own. An upload is
`UploadRead`, `UploadReplace`, `UploadCompare` and `UploadWrite`, as many calls without
a transaction, and several run side by side: two can make two rows of one phone
(`Phone`, section 7). A tick that dies is run again or, but not the first time, given up
(`dropped`). Oddities: a tick, a start or a block that had read the batch earlier brings
a cancelled or completed batch back to `RUNNING` or `BLOCKED`; an upload that had read
it earlier leaves waiting targets in a finished one (`late` records rows made while a
tick or a cancellation is at work, and excuses nothing else); a batch whose tick was
given up stays `RUNNING` with nothing to move it; a call of more than fifteen minutes is
failed while it is live; a blocked batch without a waiting target can be neither started
nor completed.

**`SessionStarts`** is a set of requests that each start a session, by a pass (a share
link or an access token: both have a conditional update of their uses), by a pass
whose attempts are limited per email, or with an `Idempotency-Key`. `Lock`, `Count`,
`Use`, `GiveBack` and `Unlock` are `public-run.service.ts`, `Create` and `Event` are
`createSession` with its failures, `Claim`, `Look`, `Take`, `Store`, `StoreError` and
`Free` the interceptor. One pass, one email and one key are enough for the races
among requests. `Lapse` is the expiry of the email's lock, which may happen while its
owner is at work; `lapsed` records that. Quotas and providers refuse at will; a
session whose event cannot be written gives its use back and still counts as an
attempt until it expires, as in the code; a death burns its use.

**`CourseProgress`** is one learner in one course with forced order. A handler (`task`)
is a request of the learner, a reviewer's `markComplete`, an `attempt.refresh` job or a
visit that reconciles; each call of it is an action: `Enroll`, `Check`, `Create`,
`CreateSession`, `Delete`, `MarkAttempt`, `StartOver`, `Unenroll` for requests, `Load`,
`Judge`, `Write` for `refreshAttemptForSession`, `Fresh`, `Count`, `CompleteEnrollment`
for `refreshEnrollmentStatus`. `Decision` is `decideAttempt`; an evaluation is `pass` or
`low`, which stands for a score below the mark, too little evidence, and a failed or
skipped analysis. `Scored` writes a new evaluation row (another run) or the same one
again (a retried step), `Announced` tells of it later; `Tells` names the job after the
session and the event, so that an announcement under an id the queue has had is
`ignored`. A job that dies is run again or given up (`dropped`); taking the attempt up
again clears both marks. Abstractions: creating a session and linking it are one step,
so the link does not fail alone; the course is not edited (an edit never undoes a
completion); requests do not die; an event whose `enqueue` throws and is handled in
place is left out; percentages, notices, assignment and the match of learners and
participants are left out. Oddities, which no property forbids: a `startOver` or an
enrolment that had read the row before brings a dropped enrolment back; two of them
raise the generation twice; a late job may leave an attempt waiting until the learner
opens the course; a start that fails deletes an attempt that a reviewer has completed
meanwhile (`erased` excuses this and nothing else).

**`LiveLink`** is the line between the browser and the engine of a session that has
begun. `tab` is `SessionConnection` with the transcript of its store, `socket` each
socket that was opened, with what travels in it both ways and the handler of
`handleConnection` (`phase`), `engine` the engine's queue, transport, state and turns.
`Say` and `SendDurable` are `send`; `HandleWelcome` includes `flush`. `Attach` is the
task of `attach()`: it takes the transport and sends the welcome, and when a reply has
to be broken off first it returns only later (`AttachReturns`), while the gateway has
no connection yet and turns messages away. `Drop` ends a socket on the client's side:
what it carries may still arrive, and the server learns of it when `GatewayNotices`
comes. `Restart` loses everything but the rows. Abstractions: a turn's seq is its
place; what a reply says is nothing; `pause` and `resume` are the durable messages with
an effect here, and `other` stands for the rest; pings, delays and backoff do not exist
and a client never gives up; rate limits, a client too slow to read, the end of the
session (`EngineFleet` has it) and failing database calls are left out. `excused`
records the utterances that were turned away. Oddities, which no property forbids: an
utterance turned away on a connection that stays up waits for the next one; a durable
message sent into a dead socket is gone (one that finds the socket closing is kept in
the outbox); a tab that reconnects quickly may be closed by
its own older hello; the text of a reply that a drop broke off stays on the screen; a
turn that was truncated while the tab was away is not sent again.

The modules meet at events: `announced` of `EngineFleet` is the `session.terminal`
that `SessionTerminal` of `AnalysisPipeline` receives (or loses: the sweep then
finds the session); the pipeline's `session.analyzed` and the engine's events are
what `Produce` of `WebhookDelivery` writes to the outbox. The events travel inside
one process and die with it.

`MCFleet`, `MCPipeline`, `MCConversation`, `MCWebhooks`, `MCMeetings`, `MCCallBatches`,
`MCSessionStarts`, `MCCourseProgress` and `MCLiveLink` extend the modules for TLC, with
the liveness properties of the fleet and the statements of section 7.

## 4. Runs, bounds and what they show

| Run | Instance | Shows |
|---|---|---|
| `FleetSingle` | one process with everything, clock 0..2, one death | accounting, billing before the announcement, a pause outlives a drop, every session ends, closing ends, the end is announced |
| `FleetProd` | API and worker processes, one fault: a death, or a failed call of the worker | one winner of the end and of the start; the fleet implements `SessionLifecycle` (the clock stands still here, so that the bill is empty: its order is `FleetSingle`'s and proved) |
| `Pipeline` | 2 workers, 1 caller, 2 steps, 2 attempts, 1 retry, 1 crash | an analysis marked done is complete, with a report that knows its evaluation, and announced once; every analyzable session is analysed |
| `PipelineRerun` | 2 workers, 2 callers, 2 generations | one starter; the newest evaluation stays, with the scoring transaction statement by statement |
| `ConversationTalk` | 2 inputs, 2 replies of up to 2 chunks; speech, typing, uploads, playback, errors, pauses, drops, restarts | one voice, fresh replies, the transcript keeps what was heard, no turn is forgotten |
| `ConversationLife` | 2 inputs, 2 replies of 1 chunk; speech, typing, pause, end, close, drop, restart, timers | the closing line is last, closing is not put off, by the participant's speech neither |
| `Meetings` | 2 handlers, 3 statuses, 1 utterance, 1 death | the session of a bot implements `SessionLifecycle`; held is not cancelled, and is billed; it ends |
| `CallBatches` | 2 ticks, 2 rows of one phone, 2 uploads, 1 line, 2 deaths | one call for each row, completion and cancellation are what they say, a running batch is driven |
| `SessionStarts` | 3 requests, 2 uses, 1 attempt, 1 fault | uses are starts, attempts are limited, one key has one answer |
| `Courses` | 2 handlers, 2 items, 2 attempts, 3 generations, 2 scorings into a new row or the same, 2 deaths | completed is earned and earned is completed, items are taken in order, a late job fails nobody who has passed |
| `LiveLink` | 1 tab, 2 inputs, outbox of 1, 3 sockets, restarts or refusals | utterances are delivered once, durable messages in order, the transcript is whole, both sides agree on the connection |
| `Webhooks` | 2 workers, 1 caller, 1 event, 2 attempts, 1 manual redelivery, 1 crash | an attempt is sent once, failures are counted, events are dispatched, deliveries are tried |

The bounds: two processes are what the deployment has and what a race needs; one fault
reaches the state between any two calls; where the queue gives a job up after its second
death (batches, courses) there are two. Two replies and two inputs give a current and a
superseded reply with a turn before and after; two chunks give a text that can be cut
inside; a union of both sets of moves with two chunks is too large, so the conversation
is split by topic, with the moves of each topic that interact (5.1 and 0.8 million
states). A second attempt is both the retry and the last; one event with two workers is
the race for a claim; a threshold of one failure brings the automatic disabling within
reach. `MaxTime`, `MaxFaults`, `MaxGeneration`, `MaxRetries`, `MaxCrashes`, `MaxInputs`,
`MaxReplies`, `MaxChunks`, `MaxManual`, `MaxTrouble` and `MaxDue` are the only bounds
and appear in guards under those names; `Concurrency`, `MaxUses`, `Limit` and
`OutboxLimit` (200 in the code) are settings of the code. Two handlers of a meeting are
a report and the one that overtakes it; one line and two rows make two ticks compete for
both, and two uploads make two rows of one phone; three requests are a claim, its
takeover and a third that finds either's record, or two that take the two uses of a pass
and one that must not. Two handlers of a course are the one that counts and the one that
starts over, or the two that complete the last two items; `MaxAttempts` and
`MaxEvaluations` bound rows and scorings. Three sockets of one tab are an old one, the present one
and the one a slow or late handshake belongs to; a tab that reconnects supersedes
itself, which is what a second tab does. Two tabs with the same bounds, and no `resume`,
have 9.3 million states, in which the same properties hold.

The type invariants of the conversation, the pipeline, the meetings, the batches, the
starts, the courses, the line, the fleet and the webhooks stand in their modules
(`TypeOK`, `ConversationTypeOK`, `PipelineTypeOK`, `LiveLinkTypeOK`, `FleetTypeOK`,
`WebhookTypeOK`) for reading and for the proofs; TLC finds them true of the same
instances, and the runs spend their properties on what could be wrong.

`CHECK_DEADLOCK FALSE` stands in every run but the fleet's: they stop when the analysis,
the call, the deliveries, the meeting, the batch, the requests or the course are over,
or the line has used up its sockets and inputs. The fleet is checked for deadlock.

`BilledAsTalked` is checked with one process. With
failing calls, a session whose reload is rejected right after its compare-and-set has
an engine that believes the old state until it dies, so the liveness of closing is
stated for calls that succeed (`Unreliable` is empty). The safety properties of
`FleetProd` are checked with failing calls of the worker, since those of both
processes double the states, and proved with failing calls of any.

`PROJECT.json` gives for every property a mutant: a plausible mistake in one
definition that breaks it under the run's own configuration.

## 5. Fairness

- *Fleet.* Weak fairness of an engine's current task (`Work`: promises settle), its
  timers (a `setInterval` tick), the sweeper (an interval in the worker), the cancel
  call in progress, disposal, and of time (`GoStale`, `Age`). A participant is never
  forced to come, stay or leave: the liveness properties say what follows once he is
  gone.
- *Conversation.* Weak fairness of the tick, which runs every second, and of the
  passing of a deadline. Providers and participants are not fair.
- *Meetings.* Weak fairness of a handler's next call and of creating the bot; strong
  fairness of the poll job and of the sweeper, which need a free handler (and, for
  the sweeper, a session at rest). Recall, members and webhooks owe nothing, and
  `MeetingEnds` supposes that webhooks leave a pause again and again.
- *Call batches, starts, courses, the line.* None: what must happen is stated as an invariant
  (`Driven`: there is a job that will look at the batch; `EarnedIsCompleted`, when
  nothing is queued or in progress; `FinalsArrive`, `TranscriptIsWhole` and `LinkAgrees`,
  when nothing is under way).
- *Pipeline, webhooks.* Weak fairness of a worker that holds a job, of a call in
  progress and of the periodic sweep; strong fairness of taking a queued job and of
  producing an event where other jobs compete for the worker, since BullMQ serves
  waiting jobs in order.

## 6. Proofs

`EngineFleet_proofs` proves, from `FleetAssumption` and `EngineAssumption` (the mark of a
process without an engine is not an engine), and so for any set of processes, any clock
bound and any number of faults:

- `TypeCorrect`: `FleetTypeOK`, through `TypeInv`, which adds that an engine whose
  task is in progress stands in a step with a legal target state.
- `WinnerCorrect`: `OneWinner`, the conjunction of `AnnounceInv`, `StartInv` and
  `BillInv`. It is the inductive invariant of the three theorems that follow: a
  compare-and-set that ends the session finds a row that has not ended; then nobody
  owes an announcement and none was made; so its winner is the only one that will
  owe it. The same argument with the first move to `ACTIVE` gives one start. It is
  inductive only relative to `TypeInv`, which tells the steps apart.
- `StartsOnce`, `BillsFirst`: `StartedOnce` and `BilledBeforeAnnounced` are read
  off it.
- `FleetImplementsLifecycle`: every initial state and step of the fleet is one of
  `SessionLifecycle`, or a stutter, with `state <- row.state` and
  `announced <- announced`.
- `BillsWhatWasTalked`, `PausesOutlive`: `BilledAsTalked` and `PauseOutlives`, with the
  hypothesis `OneReliable`: one process, whose database calls succeed. That is the default
  deployment, and the one `FleetSingle` checks. It is not a convenience: two processes with
  an engine each may count the same minutes, and a write that failed is not charged.
  Neither property is inductive. `Ledger` says of a session that goes on that the engine
  and the row tell the same story at every step (`Fine`: they agree on the state whenever a
  task reads it, and on the pause but while one begins or ends), and that what the engine
  counts up to now (`Sum`) and what the row tells up to its last heartbeat (`Told`) are
  never more than `talked`; the engine's sum equals it while nothing died. A death leaves
  only the row, whose sum is the smaller one. Of a session that has ended, `Ledger` says
  what was charged.

`WebhookDelivery_proofs` proves, from `WebhookAssumption` (any number of workers, events,
redeliveries and crashes):

- `WebhookTypeCorrect`: `WebhookTypeOK`, through `TypeInv`, which adds that a task
  that stands somewhere has the event and the attempt its next steps use, and that
  only manual redeliveries go beyond `MAX_ATTEMPTS`.
- `SentOnce` and `CountedOnce`: `AttemptSentOnce` and `FailuresAreCounted`. Neither is
  inductive. `DeliveryInv` adds that a task between its claim and the end of its work
  has an attempt the row counts already and shares with no other task (`ClaimInv`),
  that what was sent was claimed and what is about to be sent was not (`SentInv`),
  and that the last attempt of a delivery that was given up has no owner any more
  (`GivenUpInv`). A claim of attempt `n` requires the row at `n - 1`, below every
  owner; so attempts never fall, and no number is owned twice.

`CallBatches_proofs` proves, from `BatchAssumption` (the targets are finitely many
numbers, which orders them by age and lets them be counted; any number of deaths):

- `BatchTypeCorrect`: `TypeOK`, through `TypeInv`, which adds that a tick past its
  search has a target at hand, and a line for it when it is about to claim. The oldest
  target that waits exists because the naturals are well founded.
- `CalledOnceAlways`: `OwnerInv` adds that a target that was called is never waiting
  again, that the tick about to dial it owns it alone, and that no call was placed
  for it yet. A claim finds the target waiting, hence never called.
- `CompletedIsSettledAlways`, `CancelStopsAlways`: `SettledInv` adds the tick that
  has counted the targets that remain and is about to complete the batch, and the
  cancellation that has skipped them. Only an upload makes a target wait, and one
  that writes in sight of either of them is `late`, the exception that the properties name.
- `DrivenAlways`: `Driven` is inductive: whatever ends a tick leaves a job, or finds
  nothing that remains, or the batch no longer running; a tick that is given up says so in
  `dropped`, the exception of the property, until another one runs.

`CourseProgress_proofs` proves, from `CourseAssumption` (any courses, any number of
handlers, rows, generations, evaluations and deaths):

- `CompletedIsEarnedAlways`, `InOrderAlways`: `CompletedIsEarned` and `InOrder`. What is
  done in a generation stays done (`Forward`, `DoneStays`): no step takes a completed
  attempt away but the catch of a failed start, which says so in `erased`. Hence what a
  task has found out stays true until it acts on it (`TaskInv`: that the course is
  complete in the generation it counted, that the item it is about to begin is
  unlocked), however many steps of others lie in between; and a new row overwrites no
  other (`RowInv`).
- `NoStaleFailureAlways`, `EarnedIsCompletedAlways`: `NoStaleFailure` and
  `EarnedIsCompleted` speak of a state of rest, so their invariant, `DebtInv`, says who
  still has to act before there is rest. A failed attempt, or one about to be failed,
  whose decision is out of date has a job in the queue or a task that will judge it
  (`StaleInv`); an active learner with everything completed has a task that will count
  again (`CountInv`: of two handlers that complete the last two items side by side, the
  one that writes last counts last). Both excuse what the queue gave up, and the first an
  announcement it ignored: the debt is then in `dropped` or `ignored`, which the next
  judgement of that attempt clears. `Duties` are the facts both rest on: whom a task
  judges and with what, and that an attempt being started has no session but one task.

`Meetings_proofs` proves, from `MeetingAssumption` (which now says that `Null` is not a
state of a session):

- `MeetingTypes`: `TypeOK`. `TasksOK` adds what a handler on its route carries.
- `HeldStays`: `Unheld` adds to `HeldIsNotCancelled` the states before the first word,
  none of which a meeting that has started is in. A handler decides on a session it read
  earlier, and the session may have moved since: `Behind` says that it moved only
  forward on the route, so that the compare-and-set of one that read "not started"
  loses if the meeting has started in between.
- `HeldIsPaid`: `Paying` names the payer at every moment: an ending session has a handler
  that completes it, and one completed by its end has its duration and a handler about
  to bill, unless it is billed.
- `MeetingsFollowTheTable`: with `OneTeller` (one handler at most owes the announcement,
  and nobody once it was made) every step is one of `SessionLifecycle` or a stutter.

`AnalysisPipeline_proofs` proves, from `PipelineAssumption` (finitely many workers and
callers, disjoint):

- `RunsHaveOneStarter`, `EvaluationGrows`: whoever is past the guard holds the generation
  that the guard's compare-and-set raised, no generation is ahead of the session's
  (`StartInv`). At most one row is current, and a transaction that found its generation
  the latest works for the latest and clears whatever is current beside it, until a new
  run begins inside it, which sets `overtaken` (`ScoreInv`).
- `RunsAreAnnouncedOnce`: `CountInv` adds up, per run, the announcements made, the actors
  about to make one and 1 while the run is open, and bounds the sum by the retries and
  one. A settlement moves the 1 to its actor; only a retry opens a run again.
- `DoneIsDone`: until a retry hits a running pipeline, the steps of a run end in order
  (`OrderInv`): what is queued, handled, dispatched or swept has everything before it
  finished. That one worker holds a job (`HeldInv`) makes it inductive.
- `PipelineTypes`: `PipelineTypeOK`; every task has what its place needs (`Fits`).

`Participant_proofs` proves two components, the participant's way in and his line. Of
`SessionStarts`, from `StartAssumption` (finitely many requests, the mark of a refusal is
none of them):

- `UsesAreCounted`: the conditional increment and its repair, counted with the requests
  that hold a use.
- `AttemptsStayLimited`: as long as no lock ran out, who has counted and not yet created
  holds the email's lock, alone, and there is room for one more (`LockInv`).
- `KeysHaveOneAnswer`: a finished record belongs to a request that is done, and only an
  unfinished one is ever removed or taken over (`KeyInv`).
- `StartTypes`: `TypeOK`.

Of `LiveLink`, from `LiveLinkAssumption` (any set of tabs, any number of inputs, sockets
and faults). The handlers are operators on records: a lemma for each says what it
writes, so that no proof of an invariant opens a handler. What is sent twice, cut or merged
is seen as a set (`Member`), or by what holds of any two places of a sequence.

- `LinkTypes`: `LiveLinkTypeOK`, with `LineInv`, which says who talks to whom. A socket
  that is open is its tab's present one, and the server has neither closed nor refused it;
  it carries one hello, first, until the gateway has read it; one that is attached and not
  closed is the engine's. A socket is attached once; what is queued of it comes after
  that, and its detachment after it was closed. A loaded engine
  without a transport is reconnecting, or has an attachment to come. Everything below
  rests on it.
- `LinkTranscript`: `TranscriptIsWhole` is not inductive. `ShowInv` says that what travels
  to a tab continues what the tab shows: a welcome first, then each turn after those before
  it or told already (`Told`), up to the end of the engine's transcript (`Reaches`); and
  that a handshake in progress asks for exactly what its tab shows (`Asks`).
- `LinkAgreement`: `LinkAgrees` is what `LineInv` and `ShowInv` leave when nothing is under
  way (`AtRest`): all they allow to be late is a message, a close or a task that still travels.
- `LinkDelivers`: `Delivered`, by two more parts. `FinalsInv`: an utterance that is not
  saved is pending in its tab, and one that is pending in a tab whose line is open travels,
  is queued, was turned away, or has its `turn.saved` to come (`OnItsWay`). `OrderInv`: of
  the durable messages of a tab, those handled come before those queued, these before
  those in the socket the engine listens to, and these before those in the outbox, each
  part in order. The outbox of a tab with an open connection (`Connected`) is empty, so
  that nothing overtakes it. An old socket may still carry some; the engine takes none of
  them, so the invariant need not speak of them.

`Conversation_proofs` proves, from `ConversationAssumption`. The handlers are operators on
the engine's record, and so is the argument: one lemma for each says what it writes and
that it keeps `Sane`, and the actions follow.

- `OneVoiceAlways`, `OnlyHeardIsKept`: every way to give a reply up silences its coroutine
  first (`ReplyInv`); a turn on record is of a reply no longer in flight, and what is
  committed or reported later keeps the smaller of the two lengths (`TurnInv`).
- `RepliesAreFresh`: not inductive. The reply in flight has read all that the participant
  had said (`Current`): whoever adds a turn aborts it or has one begun anew. A queued
  commit finds its reply as it left it (`QueueInv`), and writes a whole turn only if the
  reply is still the one in flight.
- `ClosingIsLast`: an engine with a closing line on record is in `ENDING` or ended
  (`ClosingInv`), and there no reply is in flight or begun (`GenInv`).
- `NobodyForgotten`: `Owed` names who will see to a turn that no reply on record has read:
  a reply in flight, speech or a timer that will resume the engine, or its return; it holds
  until one of the five excuses.
- `ConversationTypes`: `ConversationTypeOK`.

The modules go from lemmas on the helpers (what `Account`, `Fold`, `Begin` and
`Rest` preserve) to one lemma for each group of actions, one case for each action,
and a last temporal step.

Every safety invariant that a run checks is stated by a theorem. Model-checked only:

- The properties with `~>` or fairness: liveness and `ENABLED` are out of the prover's
  reach.
- The accounting of a fleet of several processes is neither checked nor proved: it is
  not true of them.

## 7. Disagreements between the code and what is said of it

Fourteen statements of comments and documents are in the MC modules, each next to the
words it translates, and refuted by TLC when added to a configuration of the module:

- `MCCallBatches!AtMostConcurrency`: two ticks count the calls in flight before
  either has claimed a target, and dial beyond the concurrency of the batch.
- `MCFleet!UnstartedExpires` (with two roles in one process): a session that never
  started is not expired while an engine of it lives in the sweeper's own process.
- `MCFleet!ActiveWasStarted`: a process that dies inside `onStart` leaves a session
  that becomes active without a start time and a `session.started`.
- `MCFleet!PauseSurvivesRestart`: a paused session whose connection drops and whose
  process restarts comes back as active.
- `MCPipeline!RetryRerunsTheStep`: a retry while the step's job is still in the queue
  resets the row and schedules nothing.
- `MCPipeline!OlderRunsAreHistory` and `MCPipeline!PreviousStaysCurrent` (the latter
  with two generations and two attempts): a scoring transaction that looked at the
  session before a reprocess and commits after it shows the older evaluation again,
  beside or instead of the newer; one that runs for the second time takes the mark from
  its own row, so that no evaluation is current.
- `MCCallBatches!PhonesAreCalledOnce`: two uploads that compare before either writes make
  two rows of one phone, and both are called.
- `MCCourseProgress!InSync`: a step of the same run that is retried scores into the same
  row; its `session.analyzed` has the job id of the first, which the queue ignores, and the
  attempt rests failed with a passing evaluation. So does one whose job was given up.
- `MCMeetings!DrivenByTheMeeting` (one handler, no death): the sweeper of the runtime
  takes the session of a meeting in which nobody has spoken for three minutes for an
  orphan and ends it, with the bot still in the call.
- `MCConversation!AnsweredOnResume`: a typed turn that cuts a reply is followed in the
  transcript by the reply's text, so that a participant who drops and returns gets no
  answer to it (the case `Hidden` that `NothingForgotten` excuses).
- `MCLiveLink!DurablesNotLost` (an outbox of two): the messages that "must not be lost
  across a reconnect" are, when they were sent into a socket already dead.
- `MCLiveLink!AtLeastOnce`: an utterance turned away on a connection that stays up is
  not sent again.
- `MCLiveLink!NewerSupersedes`: the order is that in which tokens are verified and
  engines found, not that of the hellos.

## 8. Not modelled

Sections of the inventory without a module are listed in `PROJECT.json` with the
reason. Within the modelled parts: bots that speak in a meeting, inbound calls and the
media bridge, the passcode budget, grants, public runs without a link, edits of a link
other than revoking it, streaming text and rate limits of the socket, what the
browser does with audio, the 24 hours of an idempotency key and keys sent with
different requests, editing and assigning courses, the realtime mode of the engine (the browser
talks to the provider and reports turns), the direct failure of a phone session
(`channels/phone.service.ts:125`), what a language model answers, the text of
prompts, the score itself, delays and priorities of jobs, Redis as a store that may
lose data, the row locks of Postgres and its isolation below single statements, which are
atomic here (the scoring transaction is modelled statement by statement), and the
in-place handling of a course event whose `enqueue` throws.
