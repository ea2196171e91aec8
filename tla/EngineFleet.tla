---------------------------- MODULE EngineFleet -----------------------------
(***************************************************************************)
(* One session and every process that may drive it.  An API or worker      *)
(* process builds a SessionEngine from the database row on demand, keeps a *)
(* private copy of the row and of its runtimeState, and moves the session  *)
(* by compare-and-set; a sweeper finalizes what nobody drives; processes   *)
(* crash.  The engine's serial queue runs one task at a time: a task       *)
(* starts when the engine is idle, and each of its database calls is a     *)
(* step of its own, because other processes run between them.              *)
(***************************************************************************)
EXTENDS Naturals, SessionStates

CONSTANTS
  Proc,             \* processes that can hold an engine
  Sweepers,         \* those with workers enabled: they run the sweeper
  Clients,          \* those a participant or a REST call can reach
  ConsentRequired,  \* the scenario records or analyses
  MaxTime,          \* bound on the clock
  Unreliable,       \* processes whose database calls may fail
  MaxFaults,        \* bound on the number of process deaths and failed calls
  NoEngine,         \* no engine in this process
  Lost,             \* the usage record could not be written
  Null

ASSUME FleetAssumption ==
  /\ Sweepers \subseteq Proc /\ Clients \subseteq Proc
  /\ ConsentRequired \in BOOLEAN
  /\ Unreliable \subseteq Proc
  /\ MaxTime \in Nat /\ MaxFaults \in Nat
  /\ Null \notin Nat /\ Lost \notin Nat /\ Lost # Null

VARIABLES
  row,       \* the Session row
  announced, \* session.terminal events emitted
  eng,       \* the engine of each process, or NoEngine
  sweep,     \* what each sweeper is doing with this session
  cancels,   \* processes that cancelled through the public API, event not yet emitted
  stale,     \* nothing has written the row for ORPHAN_AFTER_MS
  old,       \* the session was created UNSTARTED_EXPIRY_MS ago
  starts,    \* session.started events emitted
  usage,     \* quantity of the SESSION_SECONDS record, or Null, or Lost
  now, talked, faults  \* clock; time in the call; deaths and failed calls

fleetVars == <<row, announced, eng, sweep, cancels, stale, old, starts, usage,
               now, talked, faults>>

-----------------------------------------------------------------------------
(* Data *)

COUNTING == {"ACTIVE", "ENDING"}

Live == {"ACTIVE", "CONNECTING", "RECONNECTING", "ENDING", "PAUSED"}

Time == 0..MaxTime

\* Session.runtimeState, as far as the lifecycle and the clock depend on it.
RuntimeState ==
  [activeMs: Nat, activeSince: Time \cup {Null}, heartbeatAt: Time \cup {Null},
   disconnected: BOOLEAN, paused: BOOLEAN]

Row == [state: SessionStates, started: BOOLEAN, runtime: RuntimeState,
        duration: Nat]

\* The task an engine is executing; "recover" is the constructor.
Jobs == {"none", "recover", "attach", "start", "consent", "detach", "pause",
         "resume", "cancel", "close", "closeNow", "complete", "timeout",
         "abandon", "expire", "fail"}

\* Where a task stands: transition(), whose "from" is the engine's copy when it
\* was called, is cas, then reload (or lost), then the
\* steps of onTerminal; "done" waits for dispose.
Steps == {"idle", "loaded", "cas", "lost", "reload", "usage", "emit", "done"}

Engine == [mem: SessionStates, runtime: RuntimeState,
           wasPaused: BOOLEAN, closing: BOOLEAN, conn: BOOLEAN,
           terminal: BOOLEAN, job: Jobs, from: SessionStates, to: SessionStates,
           step: Steps]

ASSUME EngineAssumption == NoEngine \notin Engine

InitialRuntime ==
  [activeMs |-> 0, activeSince |-> Null, heartbeatAt |-> Null,
   disconnected |-> FALSE, paused |-> FALSE]

FleetTypeOK ==
  /\ row \in Row
  /\ announced \in Nat
  /\ eng \in [Proc -> Engine \cup {NoEngine}]
  /\ sweep \in [Proc -> {"idle", "picked", "visiting"}]
  /\ cancels \subseteq Proc
  /\ stale \in BOOLEAN /\ old \in BOOLEAN
  /\ starts \in Nat
  /\ usage \in Nat \cup {Null, Lost}
  /\ now \in Time /\ talked \in Nat /\ faults \in Nat

\* createSession: a new row, READY when consent came with the request.
FleetInit ==
  /\ \E s \in Unstarted :
       row = [state |-> s, started |-> FALSE, runtime |-> InitialRuntime,
              duration |-> 0]
  /\ announced = 0
  /\ eng = [p \in Proc |-> NoEngine]
  /\ sweep = [p \in Proc |-> "idle"]
  /\ cancels = {}
  /\ stale = FALSE /\ old = FALSE
  /\ starts = 0 /\ usage = Null
  /\ now = 0 /\ talked = 0 /\ faults = 0

-----------------------------------------------------------------------------
(* Helpers *)

Present(p) == eng[p] # NoEngine

\* RuntimeService.peek: the engine is registered once its build has finished.
Peek(p) == Present(p) /\ eng[p].job # "recover"

\* The serial queue of p's engine is free.
Idle(p) == Peek(p) /\ eng[p].step = "idle"

\* A task may start, and the session has not ended for this engine.
Ready(p) == Idle(p) /\ ~eng[p].terminal

\* A request can reach this engine, or its tick believes the call is going on
\* (it may end a call at its time limit, and it may make the agent speak).
Reached(p) == p \in Clients \/ eng[p].mem = "ACTIVE"

\* A message of the attached participant is handled.  A sweep that has found
\* the engine has already queued its abandon() ahead of any later message.
Handles(p) == Ready(p) /\ eng[p].conn /\ sweep[p] # "visiting"

\* Ticks of this engine write a heartbeat.
Ticking(p) == Peek(p) /\ ~eng[p].terminal /\ eng[p].mem \notin Unstarted

Begin(e, job, to) ==
  [e EXCEPT !.job = job, !.from = e.mem, !.to = to, !.step = "cas"]

Rest(e) ==
  [e EXCEPT !.job = "none", !.from = "CREATED", !.to = "CREATED", !.step = "idle"]

\* activeMs += until - activeSince.
Fold(rs, until) ==
  IF rs.activeSince = Null THEN rs
  ELSE [rs EXCEPT !.activeMs = @ + (until - rs.activeSince), !.activeSince = Null]

\* The accounting at the top of transition().
Account(rs, from, to) ==
  LET stopped == IF from \in COUNTING /\ to \notin COUNTING THEN Fold(rs, now) ELSE rs
      counted == IF from \notin COUNTING /\ to \in COUNTING
                 THEN [stopped EXCEPT !.activeSince = now] ELSE stopped
  IN  [counted EXCEPT !.heartbeatAt = now]

FoldToNow(rs) == Fold(rs, now)

\* recoverAfterRestart: time is folded up to the last heartbeat.
FoldToHeartbeat(rs) ==
  IF rs.activeSince = Null THEN rs
  ELSE Fold(rs, IF rs.heartbeatAt # Null /\ rs.heartbeatAt > rs.activeSince
                THEN rs.heartbeatAt ELSE rs.activeSince)

KeepRow == UNCHANGED <<row, announced, stale, usage, starts>>
KeepWorld == UNCHANGED <<cancels, old, now, talked, faults>>

\* Change p's engine only.
Only(p, e) ==
  /\ eng' = [eng EXCEPT ![p] = e]
  /\ UNCHANGED sweep /\ KeepRow /\ KeepWorld

-----------------------------------------------------------------------------
(* RuntimeService.getEngine and SessionEngine.build *)

\* sessions.load reads the row; turns are read after it, so the copy may be
\* out of date before recoverAfterRestart looks at it.
Loaded ==
  [mem |-> row.state, runtime |-> row.runtime,
   wasPaused |-> FALSE, closing |-> FALSE, conn |-> FALSE, terminal |-> FALSE,
   job |-> "recover", from |-> "CREATED", to |-> "CREATED", step |-> "loaded"]

\* Any REST call or connection of a participant makes its process build one.
Load(p) ==
  /\ p \in Clients
  /\ ~Present(p)
  /\ Only(p, Loaded)

LeavesClosing(e) == Rest(e)

\* Closing words were already underway: finish.
FinishesClosing(e) ==
  Begin([e EXCEPT !.runtime = [FoldToHeartbeat(@) EXCEPT !.activeSince = now]],
        "recover", "COMPLETED")

RecoverAfterRestart(p) ==
  LET e == eng[p] IN
  /\ Present(p) /\ e.step = "loaded"
  /\ Only(p,
       CASE IsTerminal(e.mem) -> [Rest(e) EXCEPT !.terminal = TRUE]
         [] e.mem = "ENDING" -> FinishesClosing(e)
         [] e.mem \in {"ACTIVE", "CONNECTING"} ->
              Begin([e EXCEPT !.runtime = [FoldToHeartbeat(@) EXCEPT !.disconnected = TRUE]],
                    "recover", "RECONNECTING")
         [] e.mem = "RECONNECTING" -> [Rest(e) EXCEPT !.runtime.disconnected = TRUE]
         [] OTHER -> Rest(e))

-----------------------------------------------------------------------------
(* transition(): assert, compare-and-set, reload, onTerminal *)

\* assertTransition throws; the task ends (a build that throws leaves no engine).
TransitionRefused(p) ==
  LET e == eng[p] IN
  /\ Present(p) /\ e.step = "cas"
  /\ ~CanTransition(e.from, e.to)
  /\ eng' = [eng EXCEPT ![p] = IF e.job = "recover" THEN NoEngine ELSE Rest(e)]
  /\ UNCHANGED sweep /\ KeepRow /\ KeepWorld

AnyRow(e) == TRUE

\* WHERE id = ... AND state = from
Unmoved(e) == row.state = e.from

CasWins(p) ==
  LET e == eng[p] rs == Account(e.runtime, e.from, e.to) IN
  /\ Present(p) /\ e.step = "cas"
  /\ CanTransition(e.from, e.to)
  /\ Unmoved(e)
  /\ row' = [row EXCEPT !.state = e.to, !.runtime = rs,
                        !.started = @ \/ (e.job = "start" /\ e.to = "ACTIVE"),
                        !.duration = IF IsTerminal(e.to) THEN rs.activeMs ELSE @]
  /\ stale' = FALSE
  /\ eng' = [eng EXCEPT ![p].runtime = rs, ![p].step = "reload"]
  /\ UNCHANGED <<announced, usage, starts, sweep, cancels, old, now, talked, faults>>

\* Another writer moved the row first; the in-memory accounting stays changed.
CasLoses(p) ==
  LET e == eng[p] IN
  /\ Present(p) /\ e.step = "cas"
  /\ CanTransition(e.from, e.to)
  /\ ~Unmoved(e)
  /\ Only(p, [e EXCEPT !.runtime = Account(@, e.from, e.to), !.step = "lost"])

\* The loser reloads, stops if the session ended, and throws.
LoserReloads(p) ==
  LET e == eng[p]
      fresh == [Rest(e) EXCEPT !.mem = row.state]
  IN
  /\ Present(p) /\ e.step = "lost"
  /\ eng' = [eng EXCEPT ![p] =
               IF e.job = "recover" THEN NoEngine
               ELSE IF IsTerminal(row.state)
                    THEN [fresh EXCEPT !.terminal = TRUE, !.step = "done"]
                    ELSE fresh]
  /\ UNCHANGED sweep /\ KeepRow /\ KeepWorld

\* What the task does once its transition is in the database and re-read.
Continue(e) ==
  CASE e.job = "start" /\ e.to = "READY" /\ e.mem = "READY" -> Begin(e, "start", "CONNECTING")
    [] e.job = "start" /\ e.to = "CONNECTING" -> Begin(e, "start", "ACTIVE")
    [] e.job = "attach" -> [Rest(e) EXCEPT !.runtime.disconnected = FALSE]
    [] e.job = "close" -> [Rest(e) EXCEPT !.closing = TRUE]
    [] e.job \in {"closeNow", "complete"} /\ e.mem = "ENDING" -> Begin(e, "complete", "COMPLETED")
    [] e.job = "closeNow" /\ e.mem \in {"ACTIVE", "PAUSED", "RECONNECTING"} ->
         Begin(e, "complete", "ENDING")
    [] e.job = "abandon" /\ e.mem \in {"RECONNECTING", "PAUSED"} ->
         Begin(e, "abandon", "ABANDONED")
    [] OTHER -> Rest(e)

AnnouncesFirst(e) == [e EXCEPT !.terminal = TRUE, !.step = "emit"]

\* onTerminal stops the timers and goes on to the usage record.
OnTerminal(e) == [e EXCEPT !.terminal = TRUE, !.step = "usage"]

\* session.started is emitted by onStart, not by the transition.
FirstActive(e) == e.job = "start" /\ e.to = "ACTIVE"

WinnerReloads(p) ==
  LET e == [eng[p] EXCEPT !.mem = row.state] IN
  /\ Present(p) /\ e.step = "reload"
  /\ eng' = [eng EXCEPT ![p] = IF IsTerminal(e.to) THEN OnTerminal(e)
                               ELSE Continue(e)]
  /\ starts' = IF FirstActive(e) THEN starts + 1 ELSE starts
  /\ UNCHANGED <<row, announced, stale, usage, sweep>> /\ KeepWorld

SilentWhenFree(p) ==
  /\ Present(p) /\ eng[p].step = "usage"
  /\ usage' = IF row.duration > 0 /\ usage = Null THEN row.duration ELSE usage
  /\ eng' = [eng EXCEPT ![p].step = IF row.duration > 0 THEN "emit" ELSE "done"]
  /\ UNCHANGED <<row, announced, stale, starts, sweep>> /\ KeepWorld

\* onTerminal: SESSION_SECONDS under a key that is unique per session.
RecordSeconds(p) ==
  /\ Present(p) /\ eng[p].step = "usage"
  /\ usage' = IF row.duration > 0 /\ usage = Null THEN row.duration ELSE usage
  /\ eng' = [eng EXCEPT ![p].step = "emit"]
  /\ UNCHANGED <<row, announced, stale, starts, sweep>> /\ KeepWorld

EmitTerminal(p) ==
  /\ Present(p) /\ eng[p].step = "emit"
  /\ announced' = announced + 1
  /\ eng' = [eng EXCEPT ![p] = [Rest(@) EXCEPT !.step = "done"]]
  /\ UNCHANGED <<row, stale, usage, starts, sweep>> /\ KeepWorld

\* A database call of the task is rejected: the task ends where it stands, with
\* the accounting already changed; only the usage record's failure is caught.
CallFails(p) ==
  LET e == eng[p] IN
  /\ p \in Unreliable /\ faults < MaxFaults
  /\ Present(p)
  /\ \/ /\ \/ e.step = "cas" /\ CanTransition(e.from, e.to)
           \/ e.step \in {"lost", "reload"}
        /\ eng' = [eng EXCEPT ![p] =
             IF e.job = "recover" THEN NoEngine
             ELSE IF e.step = "cas"
                  THEN [Rest(e) EXCEPT !.runtime = Account(e.runtime, e.from, e.to)]
                  ELSE Rest(e)]
        /\ UNCHANGED usage
     \/ /\ e.step = "usage"
        /\ usage' = IF row.duration > 0 /\ usage = Null THEN Lost ELSE usage
        /\ eng' = [eng EXCEPT ![p].step = "emit"]
  /\ faults' = faults + 1
  /\ UNCHANGED <<row, announced, stale, starts, sweep, cancels, old, now, talked>>

\* A minute after the end the engine is dropped.
Dispose(p) ==
  /\ Present(p) /\ eng[p].step = "done"
  /\ Only(p, NoEngine)

-----------------------------------------------------------------------------
(* Transport *)

AlwaysActive(e) == "ACTIVE"

ReconnectTo(e) == IF e.wasPaused THEN "PAUSED" ELSE "ACTIVE"

\* A connection reaches the engine; a newer one supersedes the older.
Attach(p) ==
  LET e == [eng[p] EXCEPT !.conn = TRUE] IN
  /\ p \in Clients /\ Ready(p)
  /\ Only(p, IF e.mem = "RECONNECTING"
             THEN Begin(e, "attach", ReconnectTo(e))
             ELSE e)

Detach(p) ==
  LET e == [eng[p] EXCEPT !.conn = FALSE] IN
  /\ Ready(p) /\ eng[p].conn
  /\ Only(p, CASE e.mem \in {"ACTIVE", "PAUSED", "CONNECTING"} ->
                    Begin([e EXCEPT !.wasPaused = (e.mem = "PAUSED"),
                                    !.runtime.disconnected = TRUE],
                          "detach", "RECONNECTING")
               [] e.mem = "ENDING" -> Begin(e, "complete", "COMPLETED")
               [] OTHER -> e)

-----------------------------------------------------------------------------
(* Tasks that move the session *)

\* POST consent: the update returns the row, which replaces the copy.
RecordConsent(p) ==
  LET e == eng[p]
      fresh == [e EXCEPT !.mem = row.state]
  IN
  /\ p \in Clients /\ Idle(p) /\ e.mem \in Unstarted
  /\ eng' = [eng EXCEPT ![p] = IF e.mem = "CREATED" THEN Begin(fresh, "consent", "READY")
                               ELSE fresh]
  /\ stale' = FALSE
  /\ UNCHANGED <<row, announced, usage, starts, sweep>> /\ KeepWorld

Start(p) ==
  LET e == eng[p] IN
  /\ Handles(p)
  /\ \/ /\ e.mem = "CREATED" /\ ~ConsentRequired
        /\ eng' = [eng EXCEPT ![p] =
             Begin([e EXCEPT !.mem = row.state], "start", "READY")]
        /\ stale' = FALSE
     \/ /\ e.mem = "READY"
        /\ eng' = [eng EXCEPT ![p] = Begin(e, "start", "CONNECTING")]
        /\ UNCHANGED stale
  /\ UNCHANGED <<row, announced, usage, starts, sweep>> /\ KeepWorld

Pause(p) ==
  /\ Handles(p) /\ eng[p].mem = "ACTIVE"
  /\ Only(p, Begin([eng[p] EXCEPT !.runtime.paused = TRUE], "pause", "PAUSED"))

Resume(p) ==
  /\ Handles(p) /\ eng[p].mem = "PAUSED"
  /\ Only(p, Begin([eng[p] EXCEPT !.runtime.paused = FALSE], "resume", "ACTIVE"))

\* closeSessionNow: participant's end, the agent's end_session, the time limit,
\* or a hang-up seen by a bridge.
Close(p) ==
  LET e == eng[p] IN
  /\ Ready(p) /\ Reached(p) /\ e.mem # "ENDING"
  /\ Only(p, IF e.mem \in Unstarted THEN Begin(e, "cancel", "CANCELLED")
             ELSE IF ~e.conn \/ e.mem = "RECONNECTING" THEN Begin(e, "closeNow", "ENDING")
             ELSE Begin(e, "close", "ENDING"))

\* The closing words have been played, or closingWaitUntil has passed.
CloseFinished(p) ==
  /\ Ready(p) /\ eng[p].mem = "ENDING" /\ eng[p].closing
  /\ Only(p, Begin(eng[p], "complete", "COMPLETED"))

\* Three failed replies in a row, or a phone or meeting bridge giving up.
Fail(p) ==
  /\ Ready(p) /\ Reached(p)
  /\ Only(p, Begin(eng[p], "fail", "FAILED"))

NeverGivesUp(e) == FALSE

GraceOver(e) == e.mem = "RECONNECTING" /\ e.runtime.disconnected

\* tick(): the reconnect grace, or the longest pause, has passed.
TimedOut(p) ==
  LET e == eng[p] IN
  /\ Ready(p)
  /\ \/ GraceOver(e)
     \/ e.mem = "PAUSED" /\ e.runtime.paused
  /\ Only(p, Begin(e, "timeout", "ABANDONED"))

\* saveRuntimeState, by the tick or a message: no condition on what the row has
\* become.
Save(p) ==
  LET rs == [eng[p].runtime EXCEPT !.heartbeatAt = now] IN
  /\ Ready(p) /\ (Ticking(p) \/ eng[p].conn)
  /\ eng' = [eng EXCEPT ![p].runtime = rs]
  /\ row' = [row EXCEPT !.runtime = rs]
  /\ stale' = FALSE
  /\ UNCHANGED <<announced, usage, starts, sweep>> /\ KeepWorld

\* The realtime-token call writes providerInfo outside the queue and takes the
\* returned row as the engine's copy; a task that has not called transition()
\* yet will take its "from" from the new copy.
SwitchRealtimeProvider(p) ==
  /\ p \in Clients /\ Peek(p)
  /\ \E from \in {eng[p].from} \cup (IF eng[p].step = "cas" THEN {row.state} ELSE {}) :
       eng' = [eng EXCEPT ![p].mem = row.state,
                          ![p].from = from]
  /\ stale' = FALSE
  /\ UNCHANGED <<row, announced, usage, starts, sweep>> /\ KeepWorld

-----------------------------------------------------------------------------
(* POST /api/v1/sessions/:id/cancel writes the row without an engine *)

ApiCancel(p) ==
  /\ p \in Clients \ cancels
  /\ row.state \in Unstarted \cup {"CONNECTING"}
  /\ row' = [row EXCEPT !.state = "CANCELLED"]
  /\ cancels' = cancels \cup {p}
  /\ stale' = FALSE
  /\ UNCHANGED <<announced, usage, starts, eng, sweep, old, now, talked, faults>>

ApiCancelEmits(p) ==
  /\ p \in cancels
  /\ cancels' = cancels \ {p}
  /\ announced' = announced + 1
  /\ UNCHANGED <<row, stale, usage, starts, eng, sweep, old, now, talked, faults>>

-----------------------------------------------------------------------------
(* RuntimeService.sweep *)

Candidate ==
  \/ row.state \in Live /\ stale
  \/ row.state \in Unstarted /\ old

SetSweep(p, s) ==
  /\ sweep' = [sweep EXCEPT ![p] = s]
  /\ KeepRow /\ KeepWorld

SweepPick(p) ==
  /\ p \in Sweepers /\ sweep[p] = "idle" /\ Candidate
  /\ SetSweep(p, "picked") /\ UNCHANGED eng

\* An engine in this process is left alone; otherwise one is built.
SweepVisit(p) ==
  /\ sweep[p] = "picked"
  /\ IF Peek(p) THEN SetSweep(p, "idle") /\ UNCHANGED eng
     ELSE /\ SetSweep(p, "visiting")
          /\ eng' = IF Present(p) THEN eng ELSE [eng EXCEPT ![p] = Loaded]

\* The build failed (another writer was faster); the sweep goes on.
SweepGivesUp(p) ==
  /\ sweep[p] = "visiting" /\ ~Present(p)
  /\ SetSweep(p, "idle") /\ UNCHANGED eng

\* The engine's abandon().
Abandon(e) ==
  CASE e.terminal -> e
    [] ~e.terminal /\ e.mem = "ENDING" -> Begin(e, "complete", "COMPLETED")
    [] ~e.terminal /\ e.mem \in Unstarted -> Begin(e, "expire", "EXPIRED")
    [] ~e.terminal /\ e.mem \in {"ACTIVE", "CONNECTING"} -> Begin(e, "abandon", "RECONNECTING")
    [] ~e.terminal /\ e.mem \in {"RECONNECTING", "PAUSED"} -> Begin(e, "abandon", "ABANDONED")
    [] OTHER -> e

\* abandon() on the engine it got, whatever happened to the session meanwhile.
SweepAbandons(p) ==
  /\ sweep[p] = "visiting" /\ Peek(p) /\ eng[p].step \in {"idle", "done"}
  /\ SetSweep(p, "idle")
  /\ eng' = [eng EXCEPT ![p] = Abandon(@)]

-----------------------------------------------------------------------------
(* The world *)

\* No engine is between two database calls: minutes pass only then.
Settled == \A p \in Proc : Present(p) => eng[p].step \in {"idle", "done"}

\* Three minutes without a write: possible only if no engine is ticking.
GoStale ==
  /\ ~stale /\ row.state \in Live
  /\ Settled
  /\ \A p \in Proc : ~Ticking(p)
  /\ stale' = TRUE
  /\ UNCHANGED <<row, announced, usage, starts, eng, sweep>> /\ KeepWorld

\* The session has existed for a day without being started.
Age ==
  /\ ~old /\ row.state \in Unstarted
  /\ Settled
  /\ old' = TRUE
  /\ UNCHANGED <<row, announced, stale, usage, starts, eng, sweep, cancels,
                 now, talked, faults>>

Elapse ==
  /\ now < MaxTime
  /\ Settled
  /\ now' = now + 1
  /\ talked' = IF row.state \in COUNTING /\ \E p \in Proc : Peek(p)
               THEN talked + 1 ELSE talked
  /\ UNCHANGED <<row, announced, stale, usage, starts, eng, sweep, cancels,
                 old, faults>>

Crash(p) ==
  /\ faults < MaxFaults
  /\ faults' = faults + 1
  /\ eng' = [eng EXCEPT ![p] = NoEngine]
  /\ sweep' = [sweep EXCEPT ![p] = "idle"]
  /\ cancels' = cancels \ {p}
  /\ UNCHANGED <<row, announced, stale, usage, starts, old, now, talked>>

-----------------------------------------------------------------------------
\* The steps an engine takes on its own once a task has begun.
Work(p) ==
  \/ RecoverAfterRestart(p) \/ TransitionRefused(p) \/ CasWins(p) \/ CasLoses(p)
  \/ LoserReloads(p) \/ WinnerReloads(p) \/ RecordSeconds(p) \/ EmitTerminal(p)

Timers(p) == TimedOut(p) \/ CloseFinished(p)

Request(p) ==
  \/ Load(p) \/ Attach(p) \/ Detach(p) \/ RecordConsent(p) \/ Start(p) \/ Pause(p)
  \/ Resume(p) \/ Close(p) \/ Fail(p) \/ SwitchRealtimeProvider(p) \/ ApiCancel(p)

Sweep(p) == SweepPick(p) \/ SweepVisit(p) \/ SweepGivesUp(p) \/ SweepAbandons(p)

FleetNext ==
  \/ \E p \in Proc : \/ Work(p) \/ Timers(p) \/ Request(p) \/ Sweep(p)
                     \/ Save(p) \/ Dispose(p) \/ ApiCancelEmits(p) \/ Crash(p)
                     \/ CallFails(p)
  \/ GoStale \/ Age \/ Elapse

FleetSpec == FleetInit /\ [][FleetNext]_fleetVars

\* Promises resolve, timers fire, the sweeper runs every minute; participants,
\* callers and faults owe nothing.
FairFleetSpec ==
  /\ FleetSpec
  /\ \A p \in Proc : /\ WF_fleetVars(Work(p)) /\ WF_fleetVars(Timers(p))
                     /\ WF_fleetVars(Sweep(p)) /\ WF_fleetVars(ApiCancelEmits(p))
                     /\ WF_fleetVars(Dispose(p))
  /\ WF_fleetVars(GoStale) /\ WF_fleetVars(Age)

-----------------------------------------------------------------------------
(* Properties *)

\* The engine of p has ended the session and has not said so yet.
EngineOwes(p) ==
  Present(p) /\ IsTerminal(eng[p].to) /\ eng[p].step \in {"reload", "usage", "emit"}

Owes(p) == EngineOwes(p) \/ p \in cancels

AnnounceInv ==
  /\ announced <= 1
  /\ announced = 1 => IsTerminal(row.state)
  /\ \A p \in Proc : Owes(p) => IsTerminal(row.state) /\ announced = 0
  /\ \A p \in Proc : ~(EngineOwes(p) /\ p \in cancels)
  /\ \A p, q \in Proc : Owes(p) /\ Owes(q) => p = q
  /\ \A p \in Proc : Present(p) /\ eng[p].step \in {"usage", "emit"} => IsTerminal(eng[p].to)

\* p runs the one onStart whose session.started is still to come.
Starter(p) ==
  /\ Present(p) /\ eng[p].job = "start"
  /\ \/ eng[p].step = "reload" /\ eng[p].to \in {"CONNECTING", "ACTIVE"}
     \/ eng[p].step = "cas" /\ eng[p].to = "ACTIVE"

StartInv ==
  /\ starts <= 1
  /\ starts = 1 => row.state \notin Unstarted
  /\ \A p \in Proc : Starter(p) => starts = 0 /\ row.state \notin Unstarted
  /\ \A p, q \in Proc : Starter(p) /\ Starter(q) => p = q

BillInv ==
  /\ ~IsTerminal(row.state) => row.duration = 0 /\ usage = Null
  /\ usage \in {Null, Lost, row.duration}
  /\ announced > 0 /\ row.duration > 0 => usage # Null
  /\ \A p \in Proc : Present(p) /\ eng[p].step = "emit" /\ row.duration > 0
                     => usage # Null
  /\ cancels # {} => row.duration = 0

\* Exactly one process at a time owes the announcement of the end, and at most
\* one onStart owes session.started: whoever's compare-and-set succeeded.  The
\* seconds are on record from before the announcement.
OneWinner == AnnounceInv /\ StartInv /\ BillInv

Lifecycle == INSTANCE SessionLifecycle WITH state <- row.state

\* Whatever processes build engines, sweep, cancel, die or lose calls, the row moves only
\* along SESSION_TRANSITIONS, a terminal state is final, and session.terminal
\* is emitted at most once and only after the row is terminal: what the
\* compare-and-set of transition() and of the API's cancel is for.
ImplementsLifecycle == Lifecycle!Spec

\* session.started is emitted at most once, over restarts and reconnections.
StartedOnce == starts <= 1

\* When session.terminal is out, the SESSION_SECONDS record of a session that
\* lasted has been written with its duration, or its write has failed for good:
\* onTerminal awaits it before the event, whoever ended the session.
BilledBeforeAnnounced ==
  announced > 0 /\ row.duration > 0 => usage \in {row.duration, Lost}

\* The duration charged is at most the time the session was ACTIVE or ENDING
\* with an engine running it: a crash, however long the row then lies, never
\* adds time (recoverAfterRestart folds up to the last heartbeat).  As long as
\* no process died it is exactly that time, over any number of pauses and
\* reconnections.
BilledAsTalked ==
  /\ row.duration <= talked
  /\ IsTerminal(row.state) /\ faults = 0 => row.duration = talked

\* A participant who paused, lost the connection and came back is still paused
\* (onDetach remembers it), as long as no process died in between.
PauseOutlives ==
  [][row.state = "RECONNECTING" /\ row'.state = "ACTIVE" /\ faults = 0
       => ~row.runtime.paused]_row
=============================================================================
