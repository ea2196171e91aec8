------------------------- MODULE EngineFleet_proofs -------------------------
(***************************************************************************)
(* Proofs about EngineFleet, for any number of processes, any bound on the *)
(* clock and any number of faults: the type invariant, that the fleet      *)
(* implements SessionLifecycle, announces a start at most once and bills   *)
(* before it announces the end; and, for one process whose database calls  *)
(* succeed, that it bills what was talked and remembers a pause.           *)
(***************************************************************************)
EXTENDS EngineFleet, TLAPS

-----------------------------------------------------------------------------
(* The type invariant: folding the clock needs that no stretch of counted  *)
(* time begins in the future.                                              *)

Clocked(rs) ==
  /\ rs \in RuntimeState
  /\ rs.activeSince # Null => rs.activeSince <= now

Sound(e) == e \in Engine /\ Clocked(e.runtime)

EnginesOK ==
  /\ eng \in [Proc -> Engine \cup {NoEngine}]
  /\ \A p \in Proc : Present(p) => Sound(eng[p])

\* FleetTypeOK without the engines.
WorldOK ==
  /\ row \in Row /\ Clocked(row.runtime)
  /\ announced \in Nat
  /\ sweep \in [Proc -> {"idle", "picked", "visiting"}]
  /\ cancels \subseteq Proc
  /\ stale \in BOOLEAN /\ old \in BOOLEAN
  /\ starts \in Nat
  /\ usage \in Nat \cup {Null, Lost}
  /\ now \in Time /\ talked \in Nat /\ faults \in Nat

TypeInv == WorldOK /\ EnginesOK

\* A transition leaves a non-terminal state of the table for another state of it.
LEMMA TableFacts ==
  \A a, b : CanTransition(a, b) =>
    /\ a \in SessionStates /\ b \in SessionStates
    /\ ~IsTerminal(a)
    /\ b \notin Unstarted \/ a \in Unstarted
    /\ b = "CONNECTING" => a = "READY"
  BY DEF CanTransition, SessionTransitions, SessionStates, IsTerminal, TerminalStates,
         Unstarted

\* Folding up to a moment not before activeSince closes the counted stretch.
LEMMA FoldFacts ==
  ASSUME NEW rs \in RuntimeState, NEW u \in Time,
         rs.activeSince # Null => rs.activeSince <= u
  PROVE  Fold(rs, u) \in RuntimeState /\ Fold(rs, u).activeSince = Null
  <1>1. CASE rs.activeSince = Null
    BY <1>1 DEF Fold
  <1>2. CASE rs.activeSince # Null
    <2>1. rs.activeSince \in Time /\ rs.activeMs \in Nat
      BY <1>2 DEF RuntimeState
    <2>2. rs.activeMs + (u - rs.activeSince) \in Nat
      BY <1>2, <2>1, FleetAssumption DEF Time
    <2> QED
      BY <1>2, <2>2 DEF Fold, RuntimeState
  <1> QED
    BY <1>1, <1>2

\* transition()'s accounting keeps the clock well formed.
LEMMA AccountFacts ==
  ASSUME NEW rs, NEW from, NEW to, Clocked(rs), now \in Time
  PROVE  Clocked(Account(rs, from, to))
  <1> DEFINE stopped == IF from \in COUNTING /\ to \notin COUNTING THEN Fold(rs, now) ELSE rs
  <1> DEFINE counted == IF from \notin COUNTING /\ to \in COUNTING
                        THEN [stopped EXCEPT !.activeSince = now] ELSE stopped
  <1>1. Clocked(stopped)
    BY FoldFacts DEF Clocked
  <1>2. Clocked(counted)
    BY <1>1, FleetAssumption DEF Clocked, RuntimeState, Time
  <1>3. Account(rs, from, to) = [counted EXCEPT !.heartbeatAt = now]
    BY DEF Account
  <1> HIDE DEF counted
  <1> QED
    BY <1>2, <1>3 DEF Clocked, RuntimeState

\* So does the recovery's folding up to the last heartbeat.
LEMMA HeartbeatFacts ==
  ASSUME NEW rs, Clocked(rs)
  PROVE  FoldToHeartbeat(rs) \in RuntimeState /\ FoldToHeartbeat(rs).activeSince = Null
  <1>1. CASE rs.activeSince = Null
    BY <1>1 DEF Clocked, FoldToHeartbeat
  <1>2. CASE rs.activeSince # Null
    <2> DEFINE until == IF rs.heartbeatAt # Null /\ rs.heartbeatAt > rs.activeSince
                        THEN rs.heartbeatAt ELSE rs.activeSince
    <2>1. until \in Time /\ rs.activeSince <= until
      BY <1>2, FleetAssumption DEF Clocked, RuntimeState, Time
    <2>2. FoldToHeartbeat(rs) = Fold(rs, until)
      BY <1>2 DEF FoldToHeartbeat
    <2> HIDE DEF until
    <2> QED
      BY <2>1, <2>2, FoldFacts DEF Clocked
  <1> QED
    BY <1>1, <1>2

\* A closed stretch may be reopened now, and the connection marked as lost.
LEMMA FoldedFacts ==
  ASSUME NEW rs \in RuntimeState, rs.activeSince = Null, now \in Time
  PROVE  /\ Clocked([rs EXCEPT !.activeSince = now])
         /\ Clocked([rs EXCEPT !.disconnected = TRUE])
  <1>1. now <= now
    BY FleetAssumption DEF Time
  <1>2. Clocked([rs EXCEPT !.activeSince = now])
    BY <1>1 DEF Clocked, RuntimeState
  <1>3. Clocked([rs EXCEPT !.disconnected = TRUE])
    BY DEF Clocked, RuntimeState
  <1> QED
    BY <1>2, <1>3

-----------------------------------------------------------------------------
(* What the helpers do to an engine *)

\* The names used by the tasks are names of the tables.
LEMMA Names ==
  /\ {"idle", "loaded", "cas", "lost", "reload", "usage", "emit", "done"} \subseteq Steps
  /\ {"none", "recover", "attach", "start", "consent", "detach", "pause",
      "resume", "cancel", "close", "closeNow", "complete", "timeout",
      "abandon", "expire", "fail"} \subseteq Jobs
  /\ {"CREATED", "READY", "CONNECTING", "ACTIVE", "PAUSED", "RECONNECTING", "ENDING",
      "COMPLETED", "FAILED", "CANCELLED", "EXPIRED", "ABANDONED"} \subseteq SessionStates
  BY DEF Steps, Jobs, SessionStates, Unstarted, TerminalStates

\* Starting a task changes only the task.
LEMMA BeginFacts ==
  ASSUME NEW e, Sound(e), NEW job \in Jobs, NEW to \in SessionStates
  PROVE  Sound(Begin(e, job, to))
  BY Names DEF Sound, Begin, Engine, Clocked

\* So does ending one.
LEMMA RestFacts ==
  ASSUME NEW e, Sound(e)
  PROVE  Sound(Rest(e))
  BY Names DEF Sound, Rest, Engine, Clocked

\* The flag changes of the handlers keep an engine well formed.
LEMMA FlagFacts ==
  ASSUME NEW e, Sound(e), NEW b \in BOOLEAN
  PROVE  /\ Sound([e EXCEPT !.conn = b])
         /\ Sound([e EXCEPT !.closing = b])
         /\ Sound([e EXCEPT !.terminal = b])
         /\ Sound([e EXCEPT !.wasPaused = b])
         /\ Sound([e EXCEPT !.runtime.disconnected = b])
         /\ Sound([e EXCEPT !.runtime.paused = b])
  BY DEF Sound, Engine, Clocked, RuntimeState

\* As does taking the row's state.
LEMMA CopyFacts ==
  ASSUME NEW e, Sound(e), NEW s \in SessionStates
  PROVE  Sound([e EXCEPT !.mem = s])
  BY DEF Sound, Engine, Clocked

LEMMA StepFacts ==
  ASSUME NEW e, Sound(e), NEW step \in Steps
  PROVE  /\ Sound([e EXCEPT !.step = step])
         /\ Sound([e EXCEPT !.terminal = TRUE, !.step = step])
  BY DEF Sound, Engine, Clocked

\* Engines with a new runtime state.
LEMMA RuntimeFacts ==
  ASSUME NEW e, Sound(e), NEW rs, Clocked(rs), NEW step \in Steps
  PROVE  /\ Sound([e EXCEPT !.runtime = rs])
         /\ Sound([e EXCEPT !.runtime = rs, !.step = step])
  BY DEF Sound, Engine, Clocked

\* A finished transition goes on to a well-formed task.
LEMMA ContinueFacts ==
  ASSUME NEW e, Sound(e)
  PROVE  Sound(Continue(e))
  BY BeginFacts, RestFacts, FlagFacts, Names DEF Continue

\* Replacing one engine by a well-formed one, or by none, keeps all of them so.
LEMMA EngineUpdate ==
  ASSUME NEW p \in Proc, NEW x, EnginesOK, x = NoEngine \/ Sound(x),
         eng' = [eng EXCEPT ![p] = x], now' = now
  PROVE  EnginesOK'
  <1>1. eng' \in [Proc -> Engine \cup {NoEngine}]
    BY DEF EnginesOK, Sound
  <1>2. ASSUME NEW q \in Proc, Present(q)' PROVE Sound(eng[q])'
    BY <1>2 DEF EnginesOK, Present, Sound, Clocked
  <1> QED
    BY <1>1, <1>2 DEF EnginesOK

\* A step that leaves the engines alone may let time pass.
LEMMA EnginesKept ==
  ASSUME TypeInv, eng' = eng, now' \in Time, now <= now'
  PROVE  EnginesOK'
  <1> SUFFICES ASSUME NEW p \in Proc, Present(p)' PROVE Sound(eng[p])'
    BY DEF EnginesOK, TypeInv
  <1> QED
    BY FleetAssumption DEF TypeInv, WorldOK, EnginesOK, Present, Sound, Clocked, RuntimeState, Time

\* A task's own engine step.
LEMMA OnlyFacts ==
  ASSUME NEW p \in Proc, NEW x, TypeInv, Only(p, x), x = NoEngine \/ Sound(x)
  PROVE  TypeInv'
  <1>1. EnginesOK'
    BY EngineUpdate DEF TypeInv, Only, KeepWorld
  <1>2. WorldOK'
    BY DEF TypeInv, WorldOK, Only, KeepRow, KeepWorld, Clocked
  <1> QED
    BY <1>1, <1>2 DEF TypeInv

\* A fresh copy of the row is a well-formed engine.
LEMMA LoadedFacts ==
  ASSUME TypeInv
  PROVE  Sound(Loaded)
  BY Names DEF TypeInv, WorldOK, Loaded, Sound, Engine, Clocked, Row

-----------------------------------------------------------------------------
(* The steps, one action at a time *)

LEMMA TypeInit == FleetInit => TypeInv
  <1> SUFFICES ASSUME FleetInit PROVE TypeInv
    OBVIOUS
  <1>1. Clocked(InitialRuntime)
    BY DEF Clocked, RuntimeState, InitialRuntime
  <1>2. row \in Row /\ row.runtime = InitialRuntime
    BY <1>1, Names DEF FleetInit, Row, Clocked, Unstarted
  <1>3. WorldOK
    <2>1. now \in Time /\ usage \in Nat \cup {Null, Lost}
      BY FleetAssumption DEF FleetInit, Time
    <2>2. sweep \in [Proc -> {"idle", "picked", "visiting"}]
      BY DEF FleetInit
    <2> QED
      BY <1>1, <1>2, <2>1, <2>2 DEF FleetInit, WorldOK
  <1>4. EnginesOK
    BY DEF FleetInit, EnginesOK, Present
  <1> QED
    BY <1>3, <1>4 DEF TypeInv

\* The steps of a task that has begun.
LEMMA TypeWork ==
  ASSUME NEW p \in Proc, TypeInv, Work(p)
  PROVE  TypeInv'
  <1> DEFINE e == eng[p]
  <1>0. Present(p) /\ Sound(e)
    BY DEF Work, RecoverAfterRestart, TransitionRefused, CasWins, CasLoses, LoserReloads,
           WinnerReloads, RecordSeconds, EmitTerminal, TypeInv, EnginesOK
  <1>0a. e.from \in SessionStates /\ e.to \in SessionStates /\ e.mem \in SessionStates
    BY <1>0 DEF Sound, Engine
  <1>0b. row.state \in SessionStates /\ now \in Time /\ Clocked(e.runtime)
    BY <1>0 DEF TypeInv, WorldOK, Row, Sound
  <1> HIDE DEF e
  <1>1. CASE RecoverAfterRestart(p)
    <2> DEFINE folded == FoldToHeartbeat(e.runtime)
    <2>0. folded \in RuntimeState /\ folded.activeSince = Null
      BY <1>0b, HeartbeatFacts
    <2> HIDE DEF folded
    <2>1. /\ Clocked([folded EXCEPT !.activeSince = now])
          /\ Clocked([folded EXCEPT !.disconnected = TRUE])
      BY <1>0b, <2>0, FoldedFacts
    <2>2. Sound(FinishesClosing(e))
      BY <1>0, <2>1, RuntimeFacts, BeginFacts, Names DEF FinishesClosing, folded
    <2>3. Sound(Begin([e EXCEPT !.runtime = [FoldToHeartbeat(@) EXCEPT !.disconnected = TRUE]],
                      "recover", "RECONNECTING"))
      BY <1>0, <2>1, RuntimeFacts, BeginFacts, Names DEF folded
    <2>4. Sound(Rest(e)) /\ Sound([Rest(e) EXCEPT !.terminal = TRUE])
          /\ Sound([Rest(e) EXCEPT !.runtime.disconnected = TRUE])
      BY <1>0, RestFacts, FlagFacts
    <2> QED
      BY <1>1, <2>2, <2>3, <2>4, OnlyFacts DEF RecoverAfterRestart, e
  <1>2. CASE TransitionRefused(p)
    <2>1. EnginesOK'
      BY <1>0, <1>2, RestFacts, EngineUpdate DEF TransitionRefused, KeepWorld, TypeInv, e
    <2> QED
      BY <1>2, <2>1 DEF TransitionRefused, KeepRow, KeepWorld, TypeInv, WorldOK, Clocked
  <1>3. CASE CasWins(p)
    <2> DEFINE rs == Account(e.runtime, e.from, e.to)
    <2>1. Clocked(rs)
      BY <1>0b, AccountFacts
    <2> DEFINE x == [e EXCEPT !.runtime = rs, !.step = "reload"]
    <2>2. Sound(x)
      BY <1>0, <2>1, Names DEF Sound, Engine, Clocked
    <2>3. eng' = [eng EXCEPT ![p] = x] /\ now' = now
      BY <1>3 DEF CasWins, e
    <2> HIDE DEF x
    <2>4. EnginesOK'
      BY <2>2, <2>3, EngineUpdate DEF TypeInv
    <2>5. row' \in Row /\ row'.runtime = rs
      BY <1>0a, <1>3, <2>1 DEF CasWins, TypeInv, WorldOK, Row, Clocked, RuntimeState, e
    <2>6. Clocked(row.runtime)'
      BY <2>1, <2>3, <2>5 DEF Clocked
    <2> QED
      BY <1>3, <2>4, <2>5, <2>6 DEF CasWins, TypeInv, WorldOK
  <1>4. CASE CasLoses(p)
    <2>1. Sound([e EXCEPT !.runtime = Account(@, e.from, e.to), !.step = "lost"])
      <3> DEFINE rs == Account(e.runtime, e.from, e.to)
      <3>1. Clocked(rs)
        BY <1>0b, AccountFacts
      <3> HIDE DEF rs
      <3>2. Sound([e EXCEPT !.runtime = rs, !.step = "lost"])
        BY <1>0, <3>1, RuntimeFacts, Names
      <3> QED
        BY <3>2 DEF rs
    <2> QED
      BY <1>4, <2>1, OnlyFacts DEF CasLoses, e
  <1>5. CASE LoserReloads(p)
    <2> DEFINE fresh == [Rest(e) EXCEPT !.mem = row.state]
    <2>1. Sound(fresh) /\ Sound([fresh EXCEPT !.terminal = TRUE, !.step = "done"])
      BY <1>0, <1>0b, RestFacts, CopyFacts, StepFacts, Names
    <2>2. EnginesOK'
      BY <1>5, <2>1, EngineUpdate DEF LoserReloads, KeepWorld, TypeInv, e
    <2> QED
      BY <1>5, <2>2 DEF LoserReloads, KeepRow, KeepWorld, TypeInv, WorldOK, Clocked
  <1>6. CASE WinnerReloads(p)
    <2> DEFINE f == [e EXCEPT !.mem = row.state]
    <2>1. Sound(f)
      BY <1>0, <1>0b, CopyFacts
    <2>2. Sound(OnTerminal(f)) /\ Sound(Continue(f))
      BY <2>1, ContinueFacts, StepFacts, Names DEF OnTerminal
    <2> HIDE DEF f
    <2>3. eng' = [eng EXCEPT ![p] = IF IsTerminal(f.to) THEN OnTerminal(f) ELSE Continue(f)]
          /\ now' = now
      BY <1>6 DEF WinnerReloads, KeepWorld, e, f
    <2>4. EnginesOK'
      BY <2>2, <2>3, EngineUpdate DEF TypeInv
    <2> QED
      BY <1>6, <2>4 DEF WinnerReloads, KeepWorld, TypeInv, WorldOK, Clocked
  <1>7. CASE RecordSeconds(p)
    <2>1. EnginesOK'
      <3>1. Sound([e EXCEPT !.step = "emit"])
        BY <1>0, StepFacts, Names
      <3>2. eng' = [eng EXCEPT ![p] = [e EXCEPT !.step = "emit"]] /\ now' = now
        BY <1>7 DEF RecordSeconds, KeepWorld, e
      <3> QED
        BY <3>1, <3>2, EngineUpdate DEF TypeInv
    <2> QED
      BY <1>7, <2>1 DEF RecordSeconds, KeepWorld, TypeInv, WorldOK, Clocked, Row
  <1>8. CASE EmitTerminal(p)
    <2>1. Sound([Rest(e) EXCEPT !.step = "done"])
      BY <1>0, RestFacts, StepFacts, Names
    <2>2. EnginesOK'
      BY <1>8, <2>1, EngineUpdate DEF EmitTerminal, KeepWorld, TypeInv, e
    <2> QED
      BY <1>8, <2>2 DEF EmitTerminal, KeepWorld, TypeInv, WorldOK, Clocked
  <1> QED
    BY <1>1, <1>2, <1>3, <1>4, <1>5, <1>6, <1>7, <1>8 DEF Work

\* A task that begins on a present engine, seen from the actions that are Only.
LEMMA TypeTasks ==
  ASSUME NEW p \in Proc, TypeInv,
         \/ Load(p) \/ Dispose(p) \/ Attach(p) \/ Detach(p) \/ Pause(p) \/ Resume(p)
         \/ Close(p) \/ Fail(p) \/ TimedOut(p) \/ CloseFinished(p)
  PROVE  TypeInv'
  <1> DEFINE e == eng[p]
  <1>0. Sound(Loaded)
    BY LoadedFacts
  <1>a. ASSUME Present(p) PROVE Sound(e)
    BY <1>a DEF TypeInv, EnginesOK
  <1> HIDE DEF e
  <1>1. CASE Load(p)
    BY <1>0, <1>1, OnlyFacts DEF Load
  <1>2. CASE Dispose(p)
    BY <1>2, OnlyFacts DEF Dispose
  <1>3. CASE Attach(p)
    <2>1. Sound([e EXCEPT !.conn = TRUE])
      BY <1>3, <1>a, FlagFacts DEF Attach, Ready, Idle, Peek
    <2>2. ReconnectTo([e EXCEPT !.conn = TRUE]) \in SessionStates
      BY Names DEF ReconnectTo
    <2> QED
      BY <1>3, <2>1, <2>2, BeginFacts, Names, OnlyFacts DEF Attach, e
  <1>4. CASE Detach(p)
    <2> DEFINE f == [e EXCEPT !.conn = FALSE]
    <2>1. Sound(f)
      BY <1>4, <1>a, FlagFacts DEF Detach, Ready, Idle, Peek
    <2>2. Sound([f EXCEPT !.wasPaused = (f.mem = "PAUSED"), !.runtime.disconnected = TRUE])
      BY <2>1 DEF Sound, Engine, Clocked, RuntimeState
    <2> HIDE DEF f
    <2>3. Sound(Begin([f EXCEPT !.wasPaused = (f.mem = "PAUSED"),
                                !.runtime.disconnected = TRUE], "detach", "RECONNECTING"))
      BY <2>2, BeginFacts, Names
    <2>4. Sound(Begin(f, "complete", "COMPLETED"))
      BY <2>1, BeginFacts, Names
    <2> QED
      BY <1>4, <2>1, <2>3, <2>4, OnlyFacts DEF Detach, e, f
  <1>5. CASE Pause(p)
    <2>1. Sound([e EXCEPT !.runtime.paused = TRUE])
      BY <1>5, <1>a, FlagFacts DEF Pause, Handles, Ready, Idle, Peek
    <2> QED
      BY <1>5, <2>1, BeginFacts, Names, OnlyFacts DEF Pause, e
  <1>6. CASE Resume(p)
    <2>1. Sound([e EXCEPT !.runtime.paused = FALSE])
      BY <1>6, <1>a, FlagFacts DEF Resume, Handles, Ready, Idle, Peek
    <2> QED
      BY <1>6, <2>1, BeginFacts, Names, OnlyFacts DEF Resume, e
  <1>7. CASE Close(p)
    BY <1>7, <1>a, BeginFacts, Names, OnlyFacts DEF Close, Ready, Idle, Peek, e
  <1>8. CASE Fail(p)
    BY <1>8, <1>a, BeginFacts, Names, OnlyFacts DEF Fail, Ready, Idle, Peek, e
  <1>9. CASE TimedOut(p)
    BY <1>9, <1>a, BeginFacts, Names, OnlyFacts DEF TimedOut, Ready, Idle, Peek, e
  <1>10. CASE CloseFinished(p)
    BY <1>10, <1>a, BeginFacts, Names, OnlyFacts DEF CloseFinished, Ready, Idle, Peek, e
  <1> QED
    BY <1>1, <1>2, <1>3, <1>4, <1>5, <1>6, <1>7, <1>8, <1>9, <1>10

\* The actions that also write the row: consent, start, saves, the provider switch.
LEMMA TypeWrites ==
  ASSUME NEW p \in Proc, TypeInv,
         RecordConsent(p) \/ Start(p) \/ Save(p) \/ SwitchRealtimeProvider(p)
  PROVE  TypeInv'
  <1> DEFINE e == eng[p]
  <1>0. Present(p) /\ Sound(e)
    BY DEF RecordConsent, Start, Save, SwitchRealtimeProvider, Handles, Ready, Idle, Peek,
           TypeInv, EnginesOK
  <1>0a. row.state \in SessionStates /\ now \in Time /\ Sound([e EXCEPT !.mem = row.state])
    BY <1>0, CopyFacts DEF TypeInv, WorldOK, Row
  <1> HIDE DEF e
  <1>1. CASE RecordConsent(p)
    <2>1. EnginesOK'
      BY <1>0a, <1>1, BeginFacts, Names, EngineUpdate DEF RecordConsent, KeepWorld, TypeInv, e
    <2> QED
      BY <1>1, <2>1 DEF RecordConsent, KeepWorld, TypeInv, WorldOK, Clocked
  <1>2. CASE Start(p)
    <2>1. \/ eng' = [eng EXCEPT ![p] = Begin([e EXCEPT !.mem = row.state], "start", "READY")]
          \/ eng' = [eng EXCEPT ![p] = Begin(e, "start", "CONNECTING")]
      BY <1>2 DEF Start, e
    <2>2. EnginesOK'
      BY <1>0, <1>0a, <1>2, <2>1, BeginFacts, Names, EngineUpdate DEF Start, KeepWorld, TypeInv
    <2>3. stale' \in BOOLEAN
      BY <1>2 DEF Start, TypeInv, WorldOK
    <2> QED
      BY <1>2, <2>2, <2>3 DEF Start, KeepWorld, TypeInv, WorldOK, Clocked
  <1>3. CASE Save(p)
    <2> DEFINE rs == [e.runtime EXCEPT !.heartbeatAt = now]
    <2>1. Clocked(rs)
      BY <1>0, <1>0a DEF Sound, Clocked, RuntimeState
    <2> HIDE DEF rs
    <2>2. Sound([e EXCEPT !.runtime = rs])
      BY <1>0, <2>1, RuntimeFacts, Names
    <2>3. eng' = [eng EXCEPT ![p] = [e EXCEPT !.runtime = rs]] /\ now' = now
          /\ row' = [row EXCEPT !.runtime = rs]
      BY <1>3 DEF Save, KeepWorld, e, rs
    <2>4. EnginesOK'
      BY <2>2, <2>3, EngineUpdate DEF TypeInv
    <2>5. row' \in Row /\ row'.runtime = rs
      BY <2>1, <2>3 DEF TypeInv, WorldOK, Row, Clocked
    <2>6. Clocked(row.runtime)'
      BY <2>1, <2>3, <2>5 DEF Clocked
    <2> QED
      BY <1>3, <2>4, <2>5, <2>6 DEF Save, KeepWorld, TypeInv, WorldOK
  <1>4. CASE SwitchRealtimeProvider(p)
    <2>1. PICK from \in {e.from, row.state} :
            eng' = [eng EXCEPT ![p].mem = row.state, ![p].from = from]
      BY <1>4 DEF SwitchRealtimeProvider, e
    <2> DEFINE x == [e EXCEPT !.mem = row.state, !.from = from]
    <2>2. Sound(x)
      BY <1>0, <1>0a DEF Sound, Engine, Clocked
    <2>3. eng' = [eng EXCEPT ![p] = x]
      BY <2>1 DEF e
    <2> HIDE DEF x
    <2>4. EnginesOK'
      BY <1>4, <2>2, <2>3, EngineUpdate DEF SwitchRealtimeProvider, KeepWorld, TypeInv
    <2> QED
      BY <1>4, <2>4 DEF SwitchRealtimeProvider, KeepWorld, TypeInv, WorldOK, Clocked
  <1> QED
    BY <1>1, <1>2, <1>3, <1>4

\* The sweeper.
LEMMA TypeSweep ==
  ASSUME NEW p \in Proc, TypeInv, Sweep(p)
  PROVE  TypeInv'
  <1> DEFINE e == eng[p]
  <1>0. now' = now /\ now <= now' /\ now' \in Time
    BY FleetAssumption DEF Sweep, SweepPick, SweepVisit, SweepGivesUp, SweepAbandons,
                           SetSweep, KeepWorld, TypeInv, WorldOK, Time
  <1>1. sweep' \in [Proc -> {"idle", "picked", "visiting"}]
    BY DEF Sweep, SweepPick, SweepVisit, SweepGivesUp, SweepAbandons, SetSweep, TypeInv, WorldOK
  <1>2. WorldOK'
    BY <1>1 DEF Sweep, SweepPick, SweepVisit, SweepGivesUp, SweepAbandons, SetSweep, TypeInv,
                WorldOK, KeepRow, KeepWorld, Clocked
  <1>3. CASE eng' = eng
    BY <1>0, <1>2, <1>3, EnginesKept DEF TypeInv
  <1>4. CASE eng' # eng /\ SweepVisit(p)
    <2>1. eng' = [eng EXCEPT ![p] = Loaded]
      BY <1>4 DEF SweepVisit
    <2> QED
      BY <1>0, <1>2, <2>1, LoadedFacts, EngineUpdate DEF TypeInv
  <1>5. CASE eng' # eng /\ SweepAbandons(p)
    <2>1. Sound(e)
      BY <1>5 DEF SweepAbandons, Peek, TypeInv, EnginesOK
    <2>2. Sound(Abandon(e))
      BY <2>1, BeginFacts, Names DEF Abandon
    <2>3. eng' = [eng EXCEPT ![p] = Abandon(e)]
      BY <1>5 DEF SweepAbandons
    <2> QED
      BY <1>0, <1>2, <2>2, <2>3, EngineUpdate DEF TypeInv
  <1> QED
    BY <1>3, <1>4, <1>5 DEF Sweep, SweepPick, SweepGivesUp

\* Cancels, faults and the passing of time.
LEMMA TypeWorld ==
  ASSUME TypeInv,
         \/ \E p \in Proc : ApiCancel(p) \/ ApiCancelEmits(p) \/ Crash(p)
         \/ GoStale \/ Age \/ Elapse
  PROVE  TypeInv'
  <1>0. now \in Nat /\ now \in Time
    BY FleetAssumption DEF TypeInv, WorldOK, Time
  <1>1. ASSUME NEW p \in Proc, ApiCancel(p) PROVE TypeInv'
    <2>1. row' \in Row /\ row'.runtime = row.runtime
      BY <1>1, Names DEF ApiCancel, TypeInv, WorldOK, Row
    <2>2. EnginesOK' /\ now' = now
      BY <1>0, <1>1, EnginesKept DEF ApiCancel
    <2> QED
      BY <1>1, <2>1, <2>2 DEF ApiCancel, TypeInv, WorldOK, Clocked
  <1>2. ASSUME NEW p \in Proc, ApiCancelEmits(p) PROVE TypeInv'
    <2>1. EnginesOK'
      BY <1>0, <1>2, EnginesKept DEF ApiCancelEmits
    <2> QED
      BY <1>2, <2>1 DEF ApiCancelEmits, TypeInv, WorldOK, Clocked
  <1>3. ASSUME NEW p \in Proc, Crash(p) PROVE TypeInv'
    <2>1. EnginesOK'
      BY <1>3, EngineUpdate DEF Crash, TypeInv
    <2>2. sweep' \in [Proc -> {"idle", "picked", "visiting"}]
      BY <1>3 DEF Crash, TypeInv, WorldOK
    <2> QED
      BY <1>3, <2>1, <2>2 DEF Crash, TypeInv, WorldOK, Clocked
  <1>4. CASE GoStale
    <2>1. EnginesOK'
      BY <1>0, <1>4, EnginesKept DEF GoStale, KeepWorld
    <2> QED
      BY <1>4, <2>1 DEF GoStale, KeepWorld, TypeInv, WorldOK, Clocked
  <1>5. CASE Age
    <2>1. EnginesOK'
      BY <1>0, <1>5, EnginesKept DEF Age
    <2> QED
      BY <1>5, <2>1 DEF Age, TypeInv, WorldOK, Clocked
  <1>6. CASE Elapse
    <2>1. now' \in Time /\ now <= now'
      BY <1>6, <1>0, FleetAssumption DEF Elapse, Time
    <2>2. EnginesOK'
      BY <1>6, <2>1, EnginesKept DEF Elapse
    <2>3. Clocked(row.runtime)'
      <3>1. row.runtime \in RuntimeState
        BY DEF TypeInv, WorldOK, Clocked
      <3>2. row.runtime.activeSince # Null => row.runtime.activeSince \in Nat
        BY <3>1, FleetAssumption DEF RuntimeState, Time
      <3>3. now' \in Nat
        BY <2>1, FleetAssumption DEF Time
      <3> QED
        BY <1>0, <1>6, <2>1, <3>1, <3>2, <3>3 DEF Elapse, TypeInv, WorldOK, Clocked
    <2>4. talked' \in Nat
      BY <1>6 DEF Elapse, TypeInv, WorldOK
    <2> QED
      BY <1>6, <2>1, <2>2, <2>3, <2>4 DEF Elapse, TypeInv, WorldOK
  <1> QED
    BY <1>1, <1>2, <1>3, <1>4, <1>5, <1>6

\* A failed call ends the task, its accounting done.
LEMMA TypeFails ==
  ASSUME NEW p \in Proc, TypeInv, CallFails(p)
  PROVE  TypeInv'
  <1> DEFINE e == eng[p]
  <1> DEFINE rs == Account(e.runtime, e.from, e.to)
  <1>0. Present(p) /\ Sound(e) /\ now' = now /\ row' = row
    BY DEF CallFails, TypeInv, EnginesOK
  <1>1. Clocked(rs)
    BY <1>0, AccountFacts DEF Sound, TypeInv, WorldOK
  <1> HIDE DEF rs
  <1>2. Sound(Rest(e)) /\ Sound([Rest(e) EXCEPT !.runtime = rs])
        /\ Sound([e EXCEPT !.step = "emit"])
    BY <1>0, <1>1, RestFacts, RuntimeFacts, StepFacts, Names
  <1>3. \E x : (x = NoEngine \/ Sound(x)) /\ eng' = [eng EXCEPT ![p] = x]
    BY <1>2 DEF CallFails, e, rs
  <1>4. EnginesOK'
    BY <1>0, <1>3, EngineUpdate DEF TypeInv
  <1>5. usage' \in Nat \cup {Null, Lost} /\ faults' \in Nat
    BY DEF CallFails, TypeInv, WorldOK
  <1> QED
    BY <1>0, <1>4, <1>5 DEF CallFails, TypeInv, WorldOK, Clocked

LEMMA TypeStep == TypeInv /\ [FleetNext]_fleetVars => TypeInv'
  <1> SUFFICES ASSUME TypeInv, [FleetNext]_fleetVars PROVE TypeInv'
    OBVIOUS
  <1>1. CASE UNCHANGED fleetVars
    BY <1>1 DEF fleetVars, TypeInv, WorldOK, EnginesOK, Sound, Clocked, Present
  <1>2. ASSUME NEW p \in Proc,
               \/ Work(p) \/ Timers(p) \/ Request(p) \/ Sweep(p)
               \/ Save(p) \/ Dispose(p) \/ ApiCancelEmits(p) \/ Crash(p)
               \/ CallFails(p)
        PROVE  TypeInv'
    BY <1>2, TypeFails, TypeWork, TypeTasks, TypeWrites, TypeSweep, TypeWorld DEF Timers, Request
  <1>3. CASE GoStale \/ Age \/ Elapse
    BY <1>3, TypeWorld
  <1> QED
    BY <1>1, <1>2, <1>3 DEF FleetNext

\* Every reachable state is well typed; in particular elapsed time is never
\* negative, whatever copy of the runtime state an engine folds.
THEOREM TypeCorrect == FleetSpec => []FleetTypeOK
  <1>1. TypeInv => FleetTypeOK
    BY DEF TypeInv, WorldOK, EnginesOK, FleetTypeOK, Sound, Clocked
  <1> QED
    BY <1>1, TypeInit, TypeStep, PTL DEF FleetSpec
-----------------------------------------------------------------------------
(* The lifecycle: a compare-and-set that ends the session finds it not      *)
(* ended, so nobody else can owe its announcement.  OneWinner is inductive  *)
(* relative to the type invariant.                                          *)

-----------------------------------------------------------------------------
(* Steps that owe nothing new *)

\* An engine that neither owes an announcement nor runs onStart's last step.
Quiet(x) ==
  \/ x = NoEngine
  \/ /\ x.step \notin {"reload", "usage", "emit"}
     /\ x.step = "cas" => x.job # "start" \/ x.to # "ACTIVE"

\* The task stands where it stood.
Alike(x, e) == x.job = e.job /\ x.to = e.to /\ x.step = e.step

\* What the session's writers leave alone most of the time.
Unwritten ==
  /\ row'.state = row.state /\ row'.duration = row.duration
  /\ announced' = announced /\ starts' = starts /\ usage' = usage

LEMMA QuietStep ==
  ASSUME TypeInv, OneWinner, Unwritten, cancels' \subseteq cancels,
         NEW p \in Proc, NEW x, eng' = [eng EXCEPT ![p] = x],
         Quiet(x) \/ (Present(p) /\ Alike(x, eng[p]))
  PROVE  OneWinner'
  <1>1. ASSUME NEW q \in Proc PROVE eng'[q] = IF q = p THEN x ELSE eng[q]
    BY DEF TypeInv, EnginesOK
  <1>2. ASSUME NEW q \in Proc
        PROVE  /\ EngineOwes(q)' => EngineOwes(q)
               /\ Starter(q)' => Starter(q)
               /\ (Present(q)' /\ eng'[q].step \in {"usage", "emit"})
                    => Present(q) /\ eng[q].step = eng'[q].step /\ eng[q].to = eng'[q].to
    BY <1>1 DEF EngineOwes, Starter, Present, Quiet, Alike
  <1>3. AnnounceInv'
    BY <1>2 DEF OneWinner, AnnounceInv, Owes, Unwritten
  <1>4. StartInv'
    BY <1>2 DEF OneWinner, StartInv, Unwritten
  <1>5. BillInv'
    BY <1>2 DEF OneWinner, BillInv, Unwritten
  <1> QED
    BY <1>3, <1>4, <1>5 DEF OneWinner

\* The same when no engine moves.
LEMMA StillStep ==
  ASSUME OneWinner, Unwritten, cancels' \subseteq cancels, eng' = eng
  PROVE  OneWinner'
  BY DEF OneWinner, AnnounceInv, StartInv, BillInv, Unwritten, Owes, EngineOwes, Starter, Present

LEMMA OnlyQuiet ==
  ASSUME TypeInv, OneWinner, NEW p \in Proc, NEW x, Only(p, x), Quiet(x)
  PROVE  OneWinner' /\ Unwritten
  <1>1. Unwritten /\ cancels' \subseteq cancels /\ eng' = [eng EXCEPT ![p] = x]
    BY DEF Only, KeepRow, KeepWorld, Unwritten
  <1> QED
    BY <1>1, QuietStep

\* Beginning a task is quiet, but for onStart's second transition.
LEMMA BeginQuiet ==
  ASSUME NEW e, Sound(e), NEW job, NEW to, job # "start" \/ to # "ACTIVE"
  PROVE  Quiet(Begin(e, job, to))
  BY DEF Quiet, Begin, Sound, Engine

LEMMA RestQuiet ==
  ASSUME NEW e, Sound(e)
  PROVE  Quiet(Rest(e)) /\ Rest(e).step = "idle"
  BY DEF Quiet, Rest, Sound, Engine

\* What follows a finished transition.
LEMMA ContinueQuiet ==
  ASSUME NEW e, Sound(e)
  PROVE  /\ Continue(e).step \in {"cas", "idle"}
         /\ (Continue(e).step = "cas" /\ Continue(e).job = "start" /\ Continue(e).to = "ACTIVE")
              => e.job = "start" /\ e.to = "CONNECTING"
  BY DEF Continue, Begin, Rest, Sound, Engine

-----------------------------------------------------------------------------
(* The steps, one action at a time *)

LEMMA WinnerInit == FleetInit => OneWinner
  <1> SUFFICES ASSUME FleetInit PROVE OneWinner
    OBVIOUS
  <1>1. /\ row.state \in Unstarted /\ row.duration = 0 /\ usage = Null
        /\ announced = 0 /\ starts = 0 /\ cancels = {}
        /\ ~IsTerminal(row.state)
    BY DEF FleetInit, Unstarted, IsTerminal, TerminalStates
  <1>2. \A p \in Proc : ~Present(p)
    BY DEF FleetInit, Present
  <1>3. AnnounceInv
    BY <1>1, <1>2 DEF AnnounceInv, Owes, EngineOwes
  <1>4. StartInv
    BY <1>1, <1>2 DEF StartInv, Starter
  <1>5. BillInv
    BY <1>1, <1>2 DEF BillInv
  <1> QED
    BY <1>3, <1>4, <1>5 DEF OneWinner

\* The compare-and-set finds the session not ended, so nobody owes anything: the
\* winner is the only one that will.
LEMMA WinnerCas ==
  ASSUME TypeInv, OneWinner, NEW p \in Proc, CasWins(p)
  PROVE  /\ OneWinner'
         /\ CanTransition(row.state, row'.state) /\ announced' = announced
  <1> DEFINE e == eng[p]
  <1> DEFINE rs == Account(e.runtime, e.from, e.to)
  <1>0. Present(p) /\ e.step = "cas" /\ e \in Engine /\ row \in Row
    BY DEF CasWins, TypeInv, WorldOK, EnginesOK, Sound
  <1>1. /\ CanTransition(row.state, e.to) /\ row.state = e.from
        /\ ~IsTerminal(row.state)
        /\ e.to \notin Unstarted \/ row.state \in Unstarted
        /\ e.to = "CONNECTING" => row.state \in Unstarted
    BY TableFacts DEF CasWins, Unmoved, Unstarted
  <1>2. /\ announced = 0 /\ row.duration = 0 /\ usage = Null /\ cancels = {}
        /\ \A q \in Proc : ~EngineOwes(q)
    <2>1. announced = 0
      BY <1>1 DEF OneWinner, AnnounceInv, TypeInv, WorldOK
    <2>2. \A q \in Proc : ~Owes(q)
      BY <1>1 DEF OneWinner, AnnounceInv
    <2> QED
      BY <1>1, <2>1, <2>2 DEF OneWinner, BillInv, Owes, TypeInv, WorldOK
  <1>3. /\ announced' = announced /\ usage' = usage /\ starts' = starts /\ cancels' = cancels
        /\ row'.state = e.to
        /\ ~IsTerminal(e.to) => row'.duration = row.duration
    BY <1>0 DEF CasWins, Row
  <1>4. eng'[p].step = "reload" /\ eng'[p].job = e.job /\ eng'[p].to = e.to
    BY <1>0 DEF CasWins, Engine, TypeInv, EnginesOK
  <1>5. \A q \in Proc : q # p => eng'[q] = eng[q]
    BY DEF CasWins, TypeInv, EnginesOK
  <1> HIDE DEF e, rs
  <1>6. \A q \in Proc : EngineOwes(q)' => q = p /\ IsTerminal(e.to)
    BY <1>2, <1>4, <1>5 DEF EngineOwes, Present
  <1>7. AnnounceInv'
    <2>1. \A q \in Proc : Present(q)' /\ eng'[q].step \in {"usage", "emit"}
                            => IsTerminal(eng'[q].to)
      BY <1>4, <1>5 DEF OneWinner, AnnounceInv, Present
    <2>2. announced' <= 1 /\ (announced' = 1 => IsTerminal(row'.state))
      BY <1>2, <1>3 DEF OneWinner, AnnounceInv
    <2>3. \A q \in Proc : Owes(q)' => EngineOwes(q)'
      BY <1>2, <1>3 DEF Owes
    <2> QED
      BY <1>2, <1>3, <1>6, <2>1, <2>2, <2>3 DEF AnnounceInv
  <1>8. StartInv'
    <2>1. \A q \in Proc : q # p => (Starter(q)' => Starter(q))
      BY <1>5 DEF Starter, Present
    <2>2. Starter(p)' => e.job = "start" /\ e.to \in {"CONNECTING", "ACTIVE"}
      BY <1>4 DEF Starter
    <2>3. e.job = "start" /\ e.to = "ACTIVE" => Starter(p)
      BY <1>0 DEF Starter, e
    <2>4. row.state \in Unstarted => starts = 0 /\ \A q \in Proc : ~Starter(q)
      BY DEF OneWinner, StartInv, TypeInv, WorldOK
    <2>5. row.state \notin Unstarted => row'.state \notin Unstarted
      BY <1>1, <1>3
    <2>6. "CONNECTING" \notin Unstarted /\ "ACTIVE" \notin Unstarted
      BY DEF Unstarted
    <2>7. Starter(p)' => Starter(p) \/ row.state \in Unstarted
      BY <1>1, <2>2, <2>3
    <2> QED
      BY <1>3, <2>1, <2>2, <2>4, <2>5, <2>6, <2>7 DEF OneWinner, StartInv
  <1>9. BillInv'
    <2>1. \A q \in Proc : Present(q)' => eng'[q].step # "emit"
      BY <1>2, <1>4, <1>5 DEF OneWinner, AnnounceInv, EngineOwes, Present
    <2> QED
      BY <1>2, <1>3, <2>1 DEF BillInv
  <1> QED
    BY <1>1, <1>3, <1>7, <1>8, <1>9 DEF OneWinner

\* The winner's own engine moves from its transition to the usage record, or to
\* what the task does next; session.started is due exactly when it is a Starter.
LEMMA WinnerReload ==
  ASSUME TypeInv, OneWinner, NEW p \in Proc, WinnerReloads(p)
  PROVE  OneWinner' /\ row' = row /\ announced' = announced
  <1> DEFINE e == [eng[p] EXCEPT !.mem = row.state]
  <1>0. /\ Present(p) /\ eng[p].step = "reload" /\ Sound(e)
        /\ e.step = eng[p].step /\ e.job = eng[p].job /\ e.to = eng[p].to
    BY CopyFacts DEF WinnerReloads, TypeInv, EnginesOK, WorldOK, Row, Sound, Engine
  <1>1. /\ row' = row /\ announced' = announced /\ usage' = usage /\ cancels' = cancels
        /\ starts' = IF FirstActive(e) THEN starts + 1 ELSE starts
        /\ eng' = [eng EXCEPT ![p] = IF IsTerminal(e.to) THEN OnTerminal(e) ELSE Continue(e)]
    BY DEF WinnerReloads, KeepWorld
  <1> HIDE DEF e
  <1>2. \A q \in Proc : q # p => eng'[q] = eng[q]
    BY <1>1 DEF TypeInv, EnginesOK
  <1>3. CASE IsTerminal(e.to)
    <2>1. eng'[p] = OnTerminal(e) /\ ~FirstActive(e)
      BY <1>1, <1>3 DEF TypeInv, EnginesOK, FirstActive, IsTerminal, TerminalStates
    <2>2. eng'[p].step = "usage" /\ eng'[p].to = e.to
      BY <1>0, <2>1 DEF OnTerminal, Sound, Engine
    <2>3. \A q \in Proc : EngineOwes(q)' => EngineOwes(q)
      BY <1>0, <1>2, <1>3, <2>2 DEF EngineOwes, Present
    <2>4. \A q \in Proc : Starter(q)' => Starter(q)
      BY <1>2, <2>2 DEF Starter, Present
    <2>5. AnnounceInv'
      BY <1>1, <1>2, <1>3, <2>2, <2>3 DEF OneWinner, AnnounceInv, Owes, Present
    <2>6. StartInv'
      BY <1>1, <2>1, <2>4 DEF OneWinner, StartInv
    <2>7. BillInv'
      BY <1>1, <1>2, <2>2 DEF OneWinner, BillInv, Present
    <2> QED
      BY <1>1, <2>5, <2>6, <2>7 DEF OneWinner
  <1>4. CASE ~IsTerminal(e.to)
    <2>1. eng'[p] = Continue(e)
      BY <1>1, <1>4 DEF TypeInv, EnginesOK
    <2>2. /\ eng'[p].step \in {"cas", "idle"}
          /\ (eng'[p].step = "cas" /\ eng'[p].job = "start" /\ eng'[p].to = "ACTIVE")
               => e.job = "start" /\ e.to = "CONNECTING"
      BY <1>0, <2>1, ContinueQuiet
    <2>3. \A q \in Proc : EngineOwes(q)' => EngineOwes(q)
      BY <1>2, <2>2 DEF EngineOwes, Present
    <2>4. \A q \in Proc : Starter(q)' => Starter(q) /\ (q = p => e.to = "CONNECTING")
      BY <1>0, <1>2, <2>2 DEF Starter, Present
    <2>5. AnnounceInv'
      BY <1>1, <1>2, <2>2, <2>3 DEF OneWinner, AnnounceInv, Owes, Present
    <2>6. BillInv'
      BY <1>1, <1>2, <2>2 DEF OneWinner, BillInv, Present
    <2>7. StartInv'
      <3>1. CASE FirstActive(e)
        <4>1. Starter(p) /\ e.to = "ACTIVE"
          BY <1>0, <3>1 DEF FirstActive, Starter
        <4>2. \A q \in Proc : ~Starter(q)'
          BY <2>4, <4>1 DEF OneWinner, StartInv
        <4>3. starts' = 1 /\ row'.state \notin Unstarted
          BY <1>1, <3>1, <4>1 DEF OneWinner, StartInv
        <4> QED
          BY <4>2, <4>3 DEF StartInv
      <3>2. CASE ~FirstActive(e)
        BY <1>1, <2>4, <3>2 DEF OneWinner, StartInv
      <3> QED
        BY <3>1, <3>2
    <2> QED
      BY <1>1, <2>5, <2>6, <2>7 DEF OneWinner
  <1> QED
    BY <1>1, <1>3, <1>4

\* The usage record is written while the announcement is still owed.
LEMMA WinnerRecords ==
  ASSUME TypeInv, OneWinner, NEW p \in Proc, RecordSeconds(p)
  PROVE  OneWinner' /\ row' = row /\ announced' = announced
  <1>1. /\ row' = row /\ announced' = announced /\ starts' = starts /\ cancels' = cancels
        /\ usage' = IF row.duration > 0 /\ usage = Null THEN row.duration ELSE usage
    BY DEF RecordSeconds, KeepWorld
  <1>2. /\ \A q \in Proc : q # p => eng'[q] = eng[q]
        /\ Present(p) /\ eng[p].step = "usage"
        /\ eng'[p].step = "emit" /\ eng'[p].to = eng[p].to /\ eng'[p].job = eng[p].job
    BY DEF RecordSeconds, TypeInv, EnginesOK, Sound, Engine
  <1>3. /\ EngineOwes(p) /\ IsTerminal(row.state) /\ announced = 0
        /\ IsTerminal(eng[p].to)
    BY <1>2 DEF OneWinner, AnnounceInv, EngineOwes, Owes
  <1>4. /\ \A q \in Proc : EngineOwes(q)' => EngineOwes(q)
        /\ \A q \in Proc : Starter(q)' => Starter(q)
    BY <1>2, <1>3 DEF EngineOwes, Starter, Present
  <1>5. AnnounceInv'
    BY <1>1, <1>2, <1>3, <1>4 DEF OneWinner, AnnounceInv, Owes, Present
  <1>6. StartInv'
    BY <1>1, <1>4 DEF OneWinner, StartInv
  <1>7. row.duration \in Nat /\ usage \in {Null, Lost, row.duration}
    BY DEF OneWinner, BillInv, TypeInv, WorldOK, Row
  <1>8. usage' \in {Null, Lost, row.duration} /\ (row.duration > 0 => usage' # Null)
    BY <1>1, <1>7, FleetAssumption
  <1>9. BillInv'
    BY <1>1, <1>3, <1>8 DEF OneWinner, BillInv
  <1> QED
    BY <1>1, <1>5, <1>6, <1>9 DEF OneWinner

\* A failed call leaves a task that owes nothing more, or goes on to the
\* announcement without the record.
LEMMA WinnerFails ==
  ASSUME TypeInv, OneWinner, NEW p \in Proc, CallFails(p)
  PROVE  OneWinner' /\ row' = row /\ announced' = announced
  <1> DEFINE e == eng[p]
  <1>0. /\ Present(p) /\ Sound(e) /\ eng \in [Proc -> Engine \cup {NoEngine}]
        /\ row' = row /\ announced' = announced /\ starts' = starts /\ cancels' = cancels
    BY DEF CallFails, TypeInv, EnginesOK
  <1>1. CASE e.step # "usage"
    <2>1. Quiet(Rest(e)) /\ Quiet(NoEngine)
          /\ Quiet([Rest(e) EXCEPT !.runtime = Account(e.runtime, e.from, e.to)])
      BY <1>0 DEF Quiet, Rest, Sound, Engine
    <2>2. \E x : Quiet(x) /\ eng' = [eng EXCEPT ![p] = x]
      BY <1>1, <2>1 DEF CallFails
    <2>3. usage' = usage
      BY <1>1 DEF CallFails
    <2> QED
      BY <1>0, <2>2, <2>3, QuietStep DEF Unwritten
  <1>2. CASE e.step = "usage"
    <2>1. /\ usage' = IF row.duration > 0 /\ usage = Null THEN Lost ELSE usage
          /\ eng' = [eng EXCEPT ![p].step = "emit"]
      BY <1>2 DEF CallFails
    <2>2. /\ \A q \in Proc : q # p => eng'[q] = eng[q]
          /\ eng'[p].step = "emit" /\ eng'[p].to = e.to /\ eng'[p].job = e.job
      BY <1>0, <2>1 DEF Sound, Engine
    <2>3. EngineOwes(p) /\ IsTerminal(row.state) /\ announced = 0 /\ IsTerminal(e.to)
      BY <1>0, <1>2 DEF OneWinner, AnnounceInv, EngineOwes, Owes
    <2>4. /\ \A q \in Proc : EngineOwes(q)' => EngineOwes(q)
          /\ \A q \in Proc : Starter(q)' => Starter(q)
      BY <1>2, <2>2, <2>3 DEF EngineOwes, Starter, Present
    <2>5. AnnounceInv'
      BY <1>0, <2>2, <2>3, <2>4 DEF OneWinner, AnnounceInv, Owes, Present
    <2>6. StartInv'
      BY <1>0, <2>4 DEF OneWinner, StartInv
    <2>7. usage' \in {Null, Lost, row.duration} /\ (row.duration > 0 => usage' # Null)
      BY <2>1, FleetAssumption DEF OneWinner, BillInv
    <2>8. BillInv'
      BY <1>0, <2>3, <2>7 DEF OneWinner, BillInv
    <2> QED
      BY <1>0, <2>5, <2>6, <2>8 DEF OneWinner
  <1> QED
    BY <1>1, <1>2

\* The announcement is made by the one that owes it.
LEMMA WinnerEmits ==
  ASSUME TypeInv, OneWinner, NEW p \in Proc, EmitTerminal(p) \/ ApiCancelEmits(p)
  PROVE  /\ OneWinner'
         /\ row' = row /\ IsTerminal(row.state) /\ announced = 0 /\ announced' = 1
  <1>1. /\ row' = row /\ usage' = usage /\ starts' = starts /\ announced' = announced + 1
        /\ Owes(p) /\ ~Owes(p)' /\ cancels' \subseteq cancels
        /\ \A q \in Proc : q # p => eng'[q] = eng[q]
        /\ Present(p)' => eng'[p] = eng[p] \/ eng'[p].step = "done"
    <2>1. CASE EmitTerminal(p)
      <3>1. Present(p) /\ eng[p].step = "emit" /\ Sound(eng[p])
        BY <2>1 DEF EmitTerminal, TypeInv, EnginesOK
      <3>2. EngineOwes(p) /\ p \notin cancels
        BY <3>1 DEF OneWinner, AnnounceInv, EngineOwes
      <3>3. eng'[p].step = "done"
        BY <2>1, <3>1 DEF EmitTerminal, Rest, Sound, Engine, TypeInv, EnginesOK
      <3>4. \A q \in Proc : q # p => eng'[q] = eng[q]
        BY <2>1 DEF EmitTerminal, TypeInv, EnginesOK
      <3> QED
        BY <2>1, <3>2, <3>3, <3>4 DEF EmitTerminal, KeepWorld, Owes, EngineOwes
    <2>2. CASE ApiCancelEmits(p)
      BY <2>2 DEF ApiCancelEmits, OneWinner, AnnounceInv, Owes, EngineOwes, Present
    <2> QED
      BY <2>1, <2>2
  <1>2. IsTerminal(row.state) /\ announced = 0 /\ announced' = 1
    BY <1>1 DEF OneWinner, AnnounceInv
  <1>3. \A q \in Proc : EngineOwes(q)' => EngineOwes(q)
    BY <1>1 DEF EngineOwes, Present
  <1>4. \A q \in Proc : ~Owes(q)'
    BY <1>1, <1>3 DEF OneWinner, AnnounceInv, Owes
  <1>5. AnnounceInv'
    BY <1>1, <1>2, <1>4 DEF OneWinner, AnnounceInv, Present, Owes
  <1>6. StartInv'
    BY <1>1 DEF OneWinner, StartInv, Starter, Present
  <1>7. row.duration > 0 => usage # Null
    BY DEF EmitTerminal, ApiCancelEmits, OneWinner, BillInv, TypeInv, WorldOK, Row
  <1>8. BillInv'
    BY <1>1, <1>2, <1>7 DEF OneWinner, BillInv
  <1> QED
    BY <1>1, <1>2, <1>5, <1>6, <1>8 DEF OneWinner

\* A cancel through the API finds the session not ended too.
LEMMA WinnerCancels ==
  ASSUME TypeInv, OneWinner, NEW p \in Proc, ApiCancel(p)
  PROVE  /\ OneWinner'
         /\ CanTransition(row.state, row'.state) /\ announced' = announced
  <1>1. /\ CanTransition(row.state, "CANCELLED") /\ ~IsTerminal(row.state)
        /\ IsTerminal("CANCELLED") /\ "CANCELLED" \notin Unstarted
    BY DEF ApiCancel, CanTransition, SessionTransitions, IsTerminal, TerminalStates, Unstarted
  <1>2. /\ row'.state = "CANCELLED" /\ row'.duration = row.duration
        /\ announced' = announced /\ usage' = usage /\ starts' = starts /\ eng' = eng
        /\ cancels' = cancels \cup {p}
    BY DEF ApiCancel, TypeInv, WorldOK, Row
  <1>3. announced = 0 /\ row.duration = 0 /\ \A q \in Proc : ~Owes(q)
    BY <1>1 DEF OneWinner, AnnounceInv, BillInv, TypeInv, WorldOK
  <1>4. \A q \in Proc : EngineOwes(q)' <=> EngineOwes(q)
    BY <1>2 DEF EngineOwes, Present
  <1>5. AnnounceInv'
    BY <1>1, <1>2, <1>3, <1>4 DEF OneWinner, AnnounceInv, Owes, Present
  <1>6. StartInv'
    BY <1>1, <1>2 DEF OneWinner, StartInv, Starter, Present
  <1>7. BillInv'
    BY <1>1, <1>2, <1>3 DEF OneWinner, BillInv, Present
  <1> QED
    BY <1>1, <1>2, <1>5, <1>6, <1>7 DEF OneWinner

\* The other steps of a task.
LEMMA WinnerWork ==
  ASSUME TypeInv, OneWinner, NEW p \in Proc,
         RecoverAfterRestart(p) \/ TransitionRefused(p) \/ CasLoses(p) \/ LoserReloads(p)
  PROVE  OneWinner' /\ Unwritten
  <1> DEFINE e == eng[p]
  <1>0. Present(p) /\ Sound(e)
    BY DEF RecoverAfterRestart, TransitionRefused, CasLoses, LoserReloads, TypeInv, EnginesOK
  <1> HIDE DEF e
  <1>1. CASE RecoverAfterRestart(p)
    <2>1. \A f : Sound(f) => Quiet(Begin(f, "recover", "COMPLETED"))
                             /\ Quiet(Begin(f, "recover", "RECONNECTING"))
      BY BeginQuiet
    <2>2. Quiet(Rest(e)) /\ Quiet([Rest(e) EXCEPT !.terminal = TRUE])
          /\ Quiet([Rest(e) EXCEPT !.runtime.disconnected = TRUE])
      BY <1>0, RestQuiet DEF Quiet, Rest, Sound, Engine
    <2> DEFINE folded == FoldToHeartbeat(e.runtime)
    <2>3. folded \in RuntimeState /\ folded.activeSince = Null /\ now \in Time
      BY <1>0, HeartbeatFacts DEF Sound, TypeInv, WorldOK
    <2> HIDE DEF folded
    <2>4. /\ Clocked([folded EXCEPT !.activeSince = now])
          /\ Clocked([folded EXCEPT !.disconnected = TRUE])
      BY <2>3, FoldedFacts
    <2>5. Quiet(FinishesClosing(e))
      BY <1>0, <2>1, <2>4, RuntimeFacts, Names DEF FinishesClosing, folded
    <2>6. Quiet(Begin([e EXCEPT !.runtime = [FoldToHeartbeat(@) EXCEPT !.disconnected = TRUE]],
                      "recover", "RECONNECTING"))
      BY <1>0, <2>1, <2>4, RuntimeFacts, Names DEF folded
    <2> QED
      BY <1>1, <2>2, <2>5, <2>6, OnlyQuiet DEF RecoverAfterRestart, e
  <1>2. CASE TransitionRefused(p)
    <2>1. Quiet(Rest(e))
      BY <1>0, RestQuiet
    <2>2. Quiet(IF e.job = "recover" THEN NoEngine ELSE Rest(e))
      BY <2>1 DEF Quiet
    <2>3. Unwritten /\ cancels' = cancels
          /\ eng' = [eng EXCEPT ![p] = IF e.job = "recover" THEN NoEngine ELSE Rest(e)]
      BY <1>2 DEF TransitionRefused, KeepRow, KeepWorld, Unwritten, e
    <2> QED
      BY <2>2, <2>3, QuietStep
  <1>3. CASE CasLoses(p)
    <2> DEFINE x == [e EXCEPT !.runtime = Account(@, e.from, e.to), !.step = "lost"]
    <2>1. Quiet(x)
      BY <1>0 DEF Quiet, Sound, Engine
    <2>2. Only(p, x)
      BY <1>3 DEF CasLoses, e
    <2> HIDE DEF x
    <2> QED
      BY <2>1, <2>2, OnlyQuiet
  <1>4. CASE LoserReloads(p)
    <2> DEFINE fresh == [Rest(e) EXCEPT !.mem = row.state]
    <2> DEFINE x == IF e.job = "recover" THEN NoEngine
                    ELSE IF IsTerminal(row.state)
                         THEN [fresh EXCEPT !.terminal = TRUE, !.step = "done"]
                         ELSE fresh
    <2>1. Quiet(x)
      BY <1>0 DEF Quiet, Rest, Sound, Engine
    <2>2. Unwritten /\ cancels' = cancels /\ eng' = [eng EXCEPT ![p] = x]
      BY <1>4 DEF LoserReloads, KeepRow, KeepWorld, Unwritten, e
    <2> HIDE DEF x
    <2> QED
      BY <2>1, <2>2, QuietStep
  <1> QED
    BY <1>1, <1>2, <1>3, <1>4

\* The beginning of a task.
LEMMA WinnerTasks ==
  ASSUME TypeInv, OneWinner, NEW p \in Proc,
         \/ Load(p) \/ Dispose(p) \/ Attach(p) \/ Detach(p) \/ Pause(p) \/ Resume(p)
         \/ Close(p) \/ Fail(p) \/ TimedOut(p) \/ CloseFinished(p)
  PROVE  OneWinner' /\ Unwritten
  <1> DEFINE e == eng[p]
  <1>0. Present(p) => Sound(e)
    BY DEF TypeInv, EnginesOK
  <1>0a. Ready(p) => Present(p) /\ e.step = "idle"
    BY DEF Ready, Idle, Peek
  <1> HIDE DEF e
  <1>1. CASE Load(p) \/ Dispose(p)
    <2>1. Quiet(Loaded) /\ Quiet(NoEngine)
      BY DEF Quiet, Loaded
    <2> QED
      BY <1>1, <2>1, OnlyQuiet DEF Load, Dispose
  <1>2. CASE Attach(p)
    <2> DEFINE f == [e EXCEPT !.conn = TRUE]
    <2>1. Sound(f) /\ Quiet(f)
      BY <1>0, <1>0a, <1>2, FlagFacts DEF Attach, Quiet, Sound, Engine
    <2> HIDE DEF f
    <2>2. Quiet(Begin(f, "attach", ReconnectTo(f)))
      BY <2>1, BeginQuiet
    <2> QED
      BY <1>2, <2>1, <2>2, OnlyQuiet DEF Attach, e, f
  <1>3. CASE Detach(p)
    <2> DEFINE f == [e EXCEPT !.conn = FALSE]
    <2>1. Sound(f) /\ Quiet(f)
      BY <1>0, <1>0a, <1>3, FlagFacts DEF Detach, Quiet, Sound, Engine
    <2>2. Sound([f EXCEPT !.wasPaused = (f.mem = "PAUSED"), !.runtime.disconnected = TRUE])
      BY <2>1 DEF Sound, Engine, Clocked, RuntimeState
    <2> HIDE DEF f
    <2>3. Quiet(Begin([f EXCEPT !.wasPaused = (f.mem = "PAUSED"),
                                !.runtime.disconnected = TRUE], "detach", "RECONNECTING"))
      BY <2>2, BeginQuiet
    <2>4. Quiet(Begin(f, "complete", "COMPLETED"))
      BY <2>1, BeginQuiet
    <2> QED
      BY <1>3, <2>1, <2>3, <2>4, OnlyQuiet DEF Detach, e, f
  <1>4. CASE Pause(p)
    <2>1. Sound([e EXCEPT !.runtime.paused = TRUE])
      BY <1>0, <1>0a, <1>4, FlagFacts DEF Pause, Handles
    <2>2. Quiet(Begin([e EXCEPT !.runtime.paused = TRUE], "pause", "PAUSED"))
      BY <2>1, BeginQuiet
    <2> QED
      BY <1>4, <2>2, OnlyQuiet DEF Pause, e
  <1>5. CASE Resume(p)
    <2>1. Sound([e EXCEPT !.runtime.paused = FALSE])
      BY <1>0, <1>0a, <1>5, FlagFacts DEF Resume, Handles
    <2>2. Quiet(Begin([e EXCEPT !.runtime.paused = FALSE], "resume", "ACTIVE"))
      BY <2>1, BeginQuiet
    <2> QED
      BY <1>5, <2>2, OnlyQuiet DEF Resume, e
  <1>6. CASE Close(p)
    <2>1. Quiet(Begin(e, "cancel", "CANCELLED")) /\ Quiet(Begin(e, "closeNow", "ENDING"))
          /\ Quiet(Begin(e, "close", "ENDING"))
      BY <1>0, <1>0a, <1>6, BeginQuiet DEF Close
    <2> QED
      BY <1>6, <2>1, OnlyQuiet DEF Close, e
  <1>7. CASE Fail(p)
    <2>1. Quiet(Begin(e, "fail", "FAILED"))
      BY <1>0, <1>0a, <1>7, BeginQuiet DEF Fail
    <2> QED
      BY <1>7, <2>1, OnlyQuiet DEF Fail, e
  <1>8. CASE TimedOut(p)
    <2>1. Quiet(Begin(e, "timeout", "ABANDONED"))
      BY <1>0, <1>0a, <1>8, BeginQuiet DEF TimedOut
    <2> QED
      BY <1>8, <2>1, OnlyQuiet DEF TimedOut, e
  <1>9. CASE CloseFinished(p)
    <2>1. Quiet(Begin(e, "complete", "COMPLETED"))
      BY <1>0, <1>0a, <1>9, BeginQuiet DEF CloseFinished
    <2> QED
      BY <1>9, <2>1, OnlyQuiet DEF CloseFinished, e
  <1> QED
    BY <1>1, <1>2, <1>3, <1>4, <1>5, <1>6, <1>7, <1>8, <1>9

\* Consent, the first transition of onStart, saves and the provider switch.
LEMMA WinnerWrites ==
  ASSUME TypeInv, OneWinner, NEW p \in Proc,
         RecordConsent(p) \/ Start(p) \/ Save(p) \/ SwitchRealtimeProvider(p)
  PROVE  OneWinner' /\ Unwritten
  <1> DEFINE e == eng[p]
  <1>0. Present(p) /\ Sound(e)
    BY DEF RecordConsent, Start, Save, SwitchRealtimeProvider, Handles, Ready, Idle, Peek,
           TypeInv, EnginesOK
  <1>1. /\ Unwritten /\ cancels' = cancels
    BY DEF RecordConsent, Start, Save, SwitchRealtimeProvider, KeepWorld, Unwritten,
           TypeInv, WorldOK, Row
  <1> DEFINE fresh == [e EXCEPT !.mem = row.state]
  <1>2. Sound(fresh)
    BY <1>0, CopyFacts DEF TypeInv, WorldOK, Row
  <1> HIDE DEF e
  <1>3. CASE RecordConsent(p)
    <2>1. e.step = "idle"
      BY <1>3 DEF RecordConsent, Idle, e
    <2>2. Quiet(fresh)
      BY <1>0, <2>1 DEF Quiet, Sound, Engine
    <2> HIDE DEF fresh
    <2>3. Quiet(Begin(fresh, "consent", "READY"))
      BY <1>2, BeginQuiet
    <2>4. eng' = [eng EXCEPT ![p] = IF e.mem = "CREATED" THEN Begin(fresh, "consent", "READY")
                                    ELSE fresh]
      BY <1>3 DEF RecordConsent, e, fresh
    <2> QED
      BY <1>1, <2>2, <2>3, <2>4, QuietStep
  <1>4. CASE Start(p)
    <2> HIDE DEF fresh
    <2>1. Quiet(Begin(fresh, "start", "READY")) /\ Quiet(Begin(e, "start", "CONNECTING"))
      BY <1>0, <1>2, BeginQuiet
    <2>2. \/ eng' = [eng EXCEPT ![p] = Begin(fresh, "start", "READY")]
          \/ eng' = [eng EXCEPT ![p] = Begin(e, "start", "CONNECTING")]
      BY <1>4 DEF Start, e, fresh
    <2> QED
      BY <1>1, <2>1, <2>2, QuietStep
  <1>5. CASE Save(p)
    <2> DEFINE x == [e EXCEPT !.runtime = [e.runtime EXCEPT !.heartbeatAt = now]]
    <2>1. Alike(x, eng[p]) /\ eng' = [eng EXCEPT ![p] = x]
      BY <1>0, <1>5 DEF Save, Alike, Sound, Engine, e
    <2> HIDE DEF x
    <2> QED
      BY <1>0, <1>1, <2>1, QuietStep
  <1>6. CASE SwitchRealtimeProvider(p)
    <2>1. PICK from : eng' = [eng EXCEPT ![p].mem = row.state, ![p].from = from]
      BY <1>6 DEF SwitchRealtimeProvider
    <2> DEFINE x == [e EXCEPT !.mem = row.state, !.from = from]
    <2>2. Alike(x, eng[p]) /\ eng' = [eng EXCEPT ![p] = x]
      BY <1>0, <2>1 DEF Alike, Sound, Engine, e
    <2> HIDE DEF x
    <2> QED
      BY <1>0, <1>1, <2>2, QuietStep
  <1> QED
    BY <1>3, <1>4, <1>5, <1>6

\* The sweeper only builds engines and begins their tasks.
LEMMA WinnerSweep ==
  ASSUME TypeInv, OneWinner, NEW p \in Proc, Sweep(p)
  PROVE  OneWinner' /\ Unwritten
  <1>1. Unwritten /\ cancels' = cancels
    BY DEF Sweep, SweepPick, SweepVisit, SweepGivesUp, SweepAbandons, SetSweep, KeepRow,
           KeepWorld, Unwritten
  <1>2. CASE eng' = eng
    BY <1>1, <1>2, StillStep
  <1>3. CASE eng' # eng /\ SweepVisit(p)
    <2>1. eng' = [eng EXCEPT ![p] = Loaded] /\ Quiet(Loaded)
      BY <1>3 DEF SweepVisit, Quiet, Loaded
    <2> QED
      BY <1>1, <2>1, QuietStep
  <1>4. CASE eng' # eng /\ SweepAbandons(p)
    <2>1. Sound(eng[p]) /\ eng[p].step \in {"idle", "done"}
      BY <1>4 DEF SweepAbandons, Peek, TypeInv, EnginesOK
    <2>2. /\ Quiet(eng[p])
          /\ Quiet(Begin(eng[p], "complete", "COMPLETED"))
          /\ Quiet(Begin(eng[p], "expire", "EXPIRED"))
          /\ Quiet(Begin(eng[p], "abandon", "RECONNECTING"))
          /\ Quiet(Begin(eng[p], "abandon", "ABANDONED"))
      BY <2>1, BeginQuiet DEF Quiet
    <2>3. Quiet(Abandon(eng[p]))
      BY <2>2 DEF Abandon
    <2>4. eng' = [eng EXCEPT ![p] = Abandon(eng[p])]
      BY <1>4 DEF SweepAbandons
    <2> QED
      BY <1>1, <2>3, <2>4, QuietStep
  <1> QED
    BY <1>2, <1>3, <1>4 DEF Sweep, SweepPick, SweepGivesUp

\* Deaths and the passing of time.
LEMMA WinnerWorld ==
  ASSUME TypeInv, OneWinner,
         (\E p \in Proc : Crash(p)) \/ GoStale \/ Age \/ Elapse
  PROVE  OneWinner' /\ Unwritten
  <1>1. Unwritten /\ cancels' \subseteq cancels
    BY DEF Crash, GoStale, Age, Elapse, KeepWorld, Unwritten
  <1>2. ASSUME NEW p \in Proc, Crash(p) PROVE OneWinner'
    <2>1. eng' = [eng EXCEPT ![p] = NoEngine] /\ Quiet(NoEngine)
      BY <1>2 DEF Crash, Quiet
    <2> QED
      BY <1>1, <2>1, QuietStep
  <1>3. CASE GoStale \/ Age \/ Elapse
    BY <1>1, <1>3, StillStep DEF GoStale, Age, Elapse
  <1> QED
    BY <1>1, <1>2, <1>3

-----------------------------------------------------------------------------
(* The theorems *)

\* Every step keeps OneWinner, and is a step of SessionLifecycle.
LEMMA WinnerStep ==
  ASSUME TypeInv, OneWinner, [FleetNext]_fleetVars
  PROVE  OneWinner' /\ [Lifecycle!Next]_(Lifecycle!vars)
  <1>0. Unwritten => UNCHANGED Lifecycle!vars
    BY DEF Unwritten, Lifecycle!vars
  <1>1. CASE UNCHANGED fleetVars
    <2>1. Unwritten /\ cancels' = cancels /\ eng' = eng
      BY <1>1 DEF fleetVars, Unwritten
    <2> QED
      BY <1>0, <2>1, StillStep
  <1>2. ASSUME NEW p \in Proc, CasWins(p) \/ ApiCancel(p)
        PROVE  OneWinner' /\ Lifecycle!Next
    <2>1. OneWinner' /\ CanTransition(row.state, row'.state) /\ announced' = announced
      BY <1>2, WinnerCas, WinnerCancels
    <2>2. row'.state \in SessionStates
      BY <2>1, TableFacts
    <2> QED
      BY <2>1, <2>2 DEF Lifecycle!Next, Lifecycle!Transition, Lifecycle!CanTransition,
         Lifecycle!SessionTransitions, CanTransition, SessionTransitions,
         Lifecycle!SessionStates, SessionStates, Lifecycle!Unstarted, Unstarted,
         Lifecycle!TerminalStates, TerminalStates
  <1>3. ASSUME NEW p \in Proc, EmitTerminal(p) \/ ApiCancelEmits(p)
        PROVE  OneWinner' /\ Lifecycle!Next
    BY <1>3, WinnerEmits DEF Lifecycle!Next, Lifecycle!Announce, Lifecycle!IsTerminal,
       Lifecycle!TerminalStates, IsTerminal, TerminalStates
  <1>4. ASSUME NEW p \in Proc, WinnerReloads(p) \/ RecordSeconds(p) \/ CallFails(p)
        PROVE  OneWinner' /\ UNCHANGED Lifecycle!vars
    BY <1>4, WinnerReload, WinnerRecords, WinnerFails DEF Lifecycle!vars
  <1>5. ASSUME NEW p \in Proc,
               \/ RecoverAfterRestart(p) \/ TransitionRefused(p) \/ CasLoses(p)
               \/ LoserReloads(p) \/ Timers(p) \/ Sweep(p) \/ Save(p) \/ Dispose(p)
               \/ Crash(p) \/ (Request(p) /\ ~ApiCancel(p))
        PROVE  OneWinner' /\ Unwritten
    BY <1>5, WinnerWork, WinnerTasks, WinnerWrites, WinnerSweep, WinnerWorld
       DEF Timers, Request
  <1>6. CASE GoStale \/ Age \/ Elapse
    BY <1>0, <1>6, WinnerWorld
  <1> QED
    BY <1>0, <1>1, <1>2, <1>3, <1>4, <1>5, <1>6 DEF FleetNext, Work, Request

\* At any moment one process at most owes the announcement of the end, and one
\* at most the announcement of the start.
THEOREM WinnerCorrect == FleetSpec => []OneWinner
  <1>1. FleetInit => TypeInv /\ OneWinner
    BY TypeInit, WinnerInit
  <1>2. TypeInv /\ OneWinner /\ [FleetNext]_fleetVars => (TypeInv /\ OneWinner)'
    BY TypeStep, WinnerStep
  <1> QED
    BY <1>1, <1>2, PTL DEF FleetSpec

\* session.started is emitted at most once over any number of restarts, sweeps
\* and reconnections.
THEOREM StartsOnce == FleetSpec => []StartedOnce
  <1>1. OneWinner => StartedOnce
    BY DEF OneWinner, StartInv, StartedOnce
  <1> QED
    BY <1>1, WinnerCorrect, PTL

\* The seconds of a session are on record before its end is announced.
THEOREM BillsFirst == FleetSpec => []BilledBeforeAnnounced
  <1>1. OneWinner => BilledBeforeAnnounced
    BY DEF OneWinner, BillInv, BilledBeforeAnnounced
  <1> QED
    BY <1>1, WinnerCorrect, PTL

\* The compare-and-set of every writer, with onTerminal run by the winner only,
\* implements the lifecycle the platform promises.
THEOREM FleetImplementsLifecycle == FleetSpec => ImplementsLifecycle
  <1>1. FleetInit => Lifecycle!Init
    BY DEF FleetInit, Lifecycle!Init, Unstarted, Lifecycle!Unstarted
  <1>2. TypeInv /\ OneWinner /\ [FleetNext]_fleetVars
          => (TypeInv /\ OneWinner)' /\ [Lifecycle!Next]_(Lifecycle!vars)
    BY TypeStep, WinnerStep
  <1>3. FleetInit => TypeInv /\ OneWinner
    BY TypeInit, WinnerInit
  <1> QED
    BY <1>1, <1>2, <1>3, PTL DEF FleetSpec, ImplementsLifecycle, Lifecycle!Spec

-----------------------------------------------------------------------------
(* What one process bills and remembers.  With a single process, whose      *)
(* database calls do not fail, the engine and the row tell the same story.  *)

OneReliable == (\A p, q \in Proc : p = q) /\ Unreliable = {}

Before == Unstarted \cup {"CONNECTING"}

\* The time a runtime state counts: up to now, and up to the last heartbeat.
Sum(rs) == rs.activeMs + (IF rs.activeSince = Null THEN 0 ELSE now - rs.activeSince)
Told(rs) == FoldToHeartbeat(rs).activeMs

Going(e) == e.step \in {"idle", "cas", "reload"}

\* No step of the engine is behind the row.
Agrees(e) ==
  /\ Going(e) \/ e.step = "loaded"
  /\ e.step = "loaded" => e.mem = row.state /\ e.runtime = row.runtime
  /\ e.step = "idle" => e.mem = row.state /\ e.job = "none"
  /\ e.step = "cas" => e.mem = row.state /\ e.from = row.state
  /\ e.step = "reload" => e.to = row.state

\* The engine counts no more than was talked, and all of it when nobody died.
Counts(e) ==
  /\ Going(e) => /\ Sum(e.runtime) <= talked
                 /\ e.runtime.activeSince # Null => row.state \in COUNTING
  /\ faults = 0 =>
       /\ e.step = "loaded" => row.state \in Unstarted
       /\ e.job = "recover" => e.step = "loaded"
       /\ Going(e) => /\ Sum(e.runtime) = talked
                      /\ row.state \in COUNTING => e.runtime.activeSince # Null

\* The row knows of a pause what the engine knows, but while one begins or ends;
\* a detachment has noted it, and only an attachment that found none makes a
\* session that was waiting for its participant active.
Remembers(e) ==
  /\ Going(e) /\ ~(e.step = "cas" /\ e.job \in {"pause", "resume"})
       => e.runtime.paused = row.runtime.paused
  /\ e.step = "cas" =>
       /\ e.job = "pause" => e.from = "ACTIVE" /\ e.to = "PAUSED" /\ e.runtime.paused
       /\ e.job = "resume" => e.from = "PAUSED" /\ e.to = "ACTIVE" /\ ~e.runtime.paused
       /\ e.to = "PAUSED" => e.job \in {"pause", "attach"}
       /\ e.to = "ACTIVE" => e.job \in {"attach", "resume", "start"}
       /\ e.job = "start" => e.from # "RECONNECTING" /\ ~e.runtime.paused
       /\ e.job = "abandon" /\ e.from = "RECONNECTING" => e.to = "ABANDONED"
       /\ e.job = "attach" => /\ e.from = "RECONNECTING" /\ e.to \in {"ACTIVE", "PAUSED"}
                              /\ e.wasPaused <=> e.to = "PAUSED"
  /\ e.step \in {"cas", "reload"} /\ e.to = "RECONNECTING" =>
       \/ e.job = "detach" /\ (e.wasPaused <=> e.runtime.paused)
       \/ e.job = "abandon"
  /\ row.state = "RECONNECTING" /\ (e.step = "idle" \/ (e.step = "cas" /\ e.job # "abandon"))
       => (e.wasPaused <=> row.runtime.paused)

Fine(e) == Agrees(e) /\ Counts(e) /\ (faults = 0 => Remembers(e))

RowFine ==
  /\ Told(row.runtime) <= talked
  /\ row.state \notin COUNTING => row.runtime.activeSince = Null
  /\ row.state \in Before => talked = 0
  /\ faults = 0 /\ row.state \in Before \cup {"ACTIVE"} => ~row.runtime.paused
  /\ faults = 0 /\ row.state = "PAUSED" => row.runtime.paused

\* Where a session that goes on stands; without a death only one that never
\* started has no engine.
Books ==
  /\ RowFine
  /\ \A p \in Proc : IF Present(p) THEN Fine(eng[p]) ELSE faults = 0 => row.state \in Unstarted

Paid == row.duration <= talked /\ (faults = 0 => row.duration = talked)

Ledger == IF IsTerminal(row.state) THEN Paid ELSE Books

-----------------------------------------------------------------------------
(* The clock *)

\* Folding a stretch that began before moves it into the sum.
LEMMA FoldSum ==
  ASSUME NEW rs, Clocked(rs), now \in Time
  PROVE  /\ Fold(rs, now).activeMs = Sum(rs) /\ Fold(rs, now).activeSince = Null
         /\ Fold(rs, now).paused = rs.paused
         /\ Sum(rs) \in Nat
  <1>1. CASE rs.activeSince = Null
    BY <1>1 DEF Clocked, RuntimeState, Fold, Sum
  <1>2. CASE rs.activeSince # Null
    <2>1. rs.activeSince \in Nat /\ now \in Nat /\ rs.activeSince <= now /\ rs.activeMs \in Nat
      BY <1>2, FleetAssumption DEF Clocked, RuntimeState, Time
    <2>2. Sum(rs) = rs.activeMs + (now - rs.activeSince)
      BY <1>2 DEF Sum
    <2>3. Fold(rs, now) = [rs EXCEPT !.activeMs = @ + (now - rs.activeSince), !.activeSince = Null]
      BY <1>2 DEF Fold
    <2> QED
      BY <2>1, <2>2, <2>3 DEF Clocked, RuntimeState
  <1> QED
    BY <1>1, <1>2

\* A transition's accounting neither adds nor loses time: what ran until now is
\* counted, and the row is told.
LEMMA AccountSum ==
  ASSUME NEW rs, Clocked(rs), now \in Time, NEW from, NEW to,
         rs.activeSince # Null => from \in COUNTING
  PROVE  LET new == Account(rs, from, to)
         IN  /\ Sum(new) = Sum(rs) /\ new.paused = rs.paused /\ new.heartbeatAt = now
             /\ new.activeSince # Null => to \in COUNTING
             /\ to \in COUNTING /\ (from \in COUNTING => rs.activeSince # Null)
                  => new.activeSince # Null
             /\ to \notin COUNTING => new.activeMs = Sum(rs)
  <1> DEFINE stopped == IF from \in COUNTING /\ to \notin COUNTING THEN Fold(rs, now) ELSE rs
  <1> DEFINE counted == IF from \notin COUNTING /\ to \in COUNTING
                        THEN [stopped EXCEPT !.activeSince = now] ELSE stopped
  <1>0. now # Null /\ now \in Nat
    BY FleetAssumption DEF Time
  <1>1. Account(rs, from, to) = [counted EXCEPT !.heartbeatAt = now]
    BY DEF Account
  <1>2. Clocked(stopped)
    BY FoldFacts DEF Clocked
  <1>3. /\ Sum(stopped) = Sum(rs) /\ stopped.paused = rs.paused
        /\ to \notin COUNTING => stopped.activeSince = Null /\ stopped.activeMs = Sum(rs)
        /\ from \notin COUNTING => stopped.activeSince = Null
        /\ to \in COUNTING => stopped = rs
    <2>1. CASE from \in COUNTING /\ to \notin COUNTING
      <3>1. Sum(Fold(rs, now)) = Fold(rs, now).activeMs
        BY FoldSum DEF Sum
      <3> QED
        BY <2>1, <3>1, FoldSum
    <2>2. CASE ~(from \in COUNTING /\ to \notin COUNTING)
      BY <2>2 DEF Sum, Clocked, RuntimeState
    <2> QED
      BY <2>1, <2>2
  <1> HIDE DEF stopped
  <1>4. /\ counted \in RuntimeState
        /\ Sum(counted) = Sum(rs) /\ counted.paused = rs.paused
        /\ to \notin COUNTING => counted.activeSince = Null /\ counted.activeMs = Sum(rs)
        /\ to \in COUNTING /\ (from \in COUNTING => rs.activeSince # Null)
             => counted.activeSince # Null
    <2>1. CASE from \notin COUNTING /\ to \in COUNTING
      <3>1. counted = [stopped EXCEPT !.activeSince = now]
        BY <2>1
      <3>2. stopped.activeSince = Null /\ stopped \in RuntimeState /\ Sum(stopped) = stopped.activeMs
        BY <1>2, <1>3, <2>1 DEF Clocked, Sum, RuntimeState
      <3>3. counted.activeSince = now /\ counted.activeMs = stopped.activeMs
            /\ counted.paused = stopped.paused /\ counted \in RuntimeState
        BY <3>1, <3>2 DEF RuntimeState
      <3>4. Sum(counted) = stopped.activeMs
        BY <1>0, <3>2, <3>3 DEF Sum, RuntimeState
      <3> QED
        BY <1>0, <1>3, <2>1, <3>2, <3>3, <3>4
    <2>2. CASE ~(from \notin COUNTING /\ to \in COUNTING)
      BY <1>2, <1>3, <2>2 DEF Clocked
    <2> QED
      BY <2>1, <2>2
  <1> HIDE DEF counted
  <1>5. /\ Account(rs, from, to).heartbeatAt = now
        /\ Account(rs, from, to).activeMs = counted.activeMs
        /\ Account(rs, from, to).activeSince = counted.activeSince
        /\ Account(rs, from, to).paused = counted.paused
    BY <1>1, <1>4 DEF RuntimeState
  <1>6. Sum(Account(rs, from, to)) = Sum(counted)
    BY <1>5 DEF Sum
  <1> QED
    BY <1>4, <1>5, <1>6

\* A runtime state with a heartbeat of now tells all it counts.
LEMMA ToldNow ==
  ASSUME NEW rs, Clocked(rs), now \in Time, rs.heartbeatAt = now
  PROVE  Told(rs) = Sum(rs)
  <1>0. now # Null /\ now \in Nat
    BY FleetAssumption DEF Time
  <1>1. CASE rs.activeSince = Null
    BY <1>1 DEF Clocked, RuntimeState, Told, FoldToHeartbeat, Sum
  <1>2. CASE rs.activeSince # Null
    <2>1. rs.activeSince \in Nat /\ rs.activeSince <= now /\ rs.activeMs \in Nat
      BY <1>2, FleetAssumption DEF Clocked, RuntimeState, Time
    <2>2. FoldToHeartbeat(rs) = Fold(rs, now)
      BY <1>0, <1>2, <2>1 DEF FoldToHeartbeat
    <2> QED
      BY <2>2, FoldSum DEF Told
  <1> QED
    BY <1>1, <1>2

-----------------------------------------------------------------------------
(* What an engine may become *)

\* A single process: what it leaves of the row and the world stays in order.
LEMMA BooksKept ==
  ASSUME TypeInv, OneReliable, ~IsTerminal(row.state), Books,
         NEW p \in Proc, NEW x, eng' = [eng EXCEPT ![p] = x],
         row' = row, now' = now, talked' = talked, faults' = faults,
         IF x = NoEngine THEN faults = 0 => row.state \in Unstarted ELSE Fine(x)
  PROVE  Ledger'
  <1>1. ASSUME NEW q \in Proc PROVE q = p /\ eng'[q] = x
    BY DEF OneReliable, TypeInv, EnginesOK
  <1>2. RowFine'
    BY DEF Books, RowFine, Told, FoldToHeartbeat, Fold
  <1>3. x # NoEngine => Fine(x)'
    BY DEF Fine, Agrees, Counts, Remembers, Going, Sum
  <1>4. \A q \in Proc : (IF Present(q) THEN Fine(eng[q]) ELSE faults = 0 => row.state \in Unstarted)'
    BY <1>1, <1>3 DEF Present
  <1>5. Books'
    BY <1>2, <1>4 DEF Books
  <1> QED
    BY <1>5 DEF Ledger

\* The same for a step of the engine alone.
LEMMA OnlyKept ==
  ASSUME TypeInv, OneReliable, ~IsTerminal(row.state), Books,
         NEW p \in Proc, NEW x, Only(p, x), Sound(x), Fine(x)
  PROVE  Ledger'
  <1>1. x # NoEngine
    BY EngineAssumption DEF Sound
  <1> QED
    BY <1>1, BooksKept DEF Only, KeepRow, KeepWorld

\* A task begins on an engine that agrees with the row.
LEMMA BeginFine ==
  ASSUME NEW e, Sound(e), Fine(e), e.step \in {"idle", "reload"}, e.job # "recover",
         NEW f, Sound(f), f.mem = row.state,
         f.runtime.activeMs = e.runtime.activeMs,
         f.runtime.activeSince = e.runtime.activeSince,
         NEW job, NEW to, job # "recover", faults = 0 => Remembers(Begin(f, job, to))
  PROVE  Fine(Begin(f, job, to))
  <1> DEFINE x == Begin(f, job, to)
  <1>1. /\ x.step = "cas" /\ x.mem = row.state /\ x.from = row.state
        /\ x.job = job /\ x.runtime = f.runtime
    BY DEF Begin, Sound, Engine
  <1>2. faults = 0 => Remembers(x)
    OBVIOUS
  <1> HIDE DEF x
  <1>3. Sum(x.runtime) = Sum(e.runtime) /\ (x.runtime.activeSince = e.runtime.activeSince)
    BY <1>1 DEF Sum
  <1>4. Going(e) /\ Going(x)
    BY <1>1 DEF Going
  <1>5. Agrees(x)
    BY <1>1, <1>4 DEF Agrees
  <1>6. Counts(x)
    BY <1>1, <1>3, <1>4 DEF Fine, Counts
  <1> QED
    BY <1>2, <1>5, <1>6 DEF Fine, x

\* An engine with no task in progress that agrees with the row.
LEMMA IdleFine ==
  ASSUME NEW e, Fine(e), Going(e), faults = 0 => e.job # "recover",
         NEW x, x.step = "idle", x.job = "none", x.mem = row.state,
         x.runtime.activeMs = e.runtime.activeMs,
         x.runtime.activeSince = e.runtime.activeSince,
         faults = 0 => x.runtime.paused = row.runtime.paused,
         faults = 0 /\ row.state = "RECONNECTING" => (x.wasPaused <=> row.runtime.paused)
  PROVE  Fine(x)
  <1>1. Sum(x.runtime) = Sum(e.runtime)
    BY DEF Sum
  <1>2. Going(x)
    BY DEF Going
  <1>3. Agrees(x)
    BY <1>2 DEF Agrees
  <1>4. Counts(x)
    BY <1>1, <1>2 DEF Fine, Counts
  <1>5. faults = 0 => Remembers(x)
    BY DEF Remembers
  <1> QED
    BY <1>3, <1>4, <1>5 DEF Fine

\* A task that pauses, resumes, connects and starts nothing has nothing to
\* remember.
Plain == {"consent", "cancel", "close", "closeNow", "complete", "timeout", "expire", "fail"}

LEMMA PlainFine ==
  ASSUME NEW e, Sound(e), Fine(e), e.step = "idle",
         NEW job \in Plain, NEW to \in SessionStates \ {"ACTIVE", "PAUSED", "RECONNECTING"}
  PROVE  Fine(Begin(e, job, to)) /\ Sound(Begin(e, job, to))
  <1>0. e.job = "none" /\ e.mem = row.state /\ Going(e)
    BY DEF Fine, Agrees, Going
  <1>1. ASSUME faults = 0 PROVE Remembers(Begin(e, job, to))
    <2> DEFINE x == Begin(e, job, to)
    <2>1. /\ x.step = "cas" /\ x.job = job /\ x.to = to /\ x.from = row.state
          /\ x.runtime = e.runtime /\ x.wasPaused = e.wasPaused
      BY <1>0 DEF Begin, Sound, Engine
    <2>2. e.runtime.paused = row.runtime.paused
          /\ (row.state = "RECONNECTING" => (e.wasPaused <=> row.runtime.paused))
      BY <1>0, <1>1 DEF Fine, Remembers
    <2> HIDE DEF x
    <2>3. Remembers(x)
      BY <2>1, <2>2 DEF Remembers, Plain
    <2> QED
      BY <2>3 DEF x
  <1>2. Fine(Begin(e, job, to))
    BY <1>0, <1>1, BeginFine DEF Plain
  <1>3. job \in Jobs
    BY DEF Plain, Jobs
  <1> QED
    BY <1>2, <1>3, BeginFacts

-----------------------------------------------------------------------------
(* The steps of a session that goes on, one action at a time *)

LEMMA LedgerTasks ==
  ASSUME TypeInv, OneReliable, ~IsTerminal(row.state), Books, NEW p \in Proc,
         \/ Timers(p) \/ Attach(p) \/ Detach(p) \/ RecordConsent(p) \/ Start(p)
         \/ Pause(p) \/ Resume(p) \/ Close(p) \/ Fail(p)
  PROVE  Ledger'
  <1> DEFINE e == eng[p]
  <1>0. /\ Sound(e) /\ Fine(e) /\ e.step = "idle"
        /\ e.job = "none" /\ e.mem = row.state /\ Going(e)
    <2>1. Present(p) /\ e.step = "idle"
      BY DEF Timers, TimedOut, CloseFinished, Attach, Detach, RecordConsent, Start, Pause,
             Resume, Close, Fail, Handles, Ready, Idle, Peek
    <2> QED
      BY <2>1 DEF TypeInv, EnginesOK, Books, Fine, Agrees, Going
  <1>0a. faults = 0 => /\ e.runtime.paused = row.runtime.paused
                       /\ row.state = "RECONNECTING" => (e.wasPaused <=> row.runtime.paused)
    BY <1>0 DEF Fine, Remembers
  <1>0b. /\ faults = 0 /\ row.state \in Before \cup {"ACTIVE"} => ~row.runtime.paused
         /\ faults = 0 /\ row.state = "PAUSED" => row.runtime.paused
    BY DEF Books, RowFine
  <1>0c. e \in Engine /\ e.runtime \in RuntimeState
    BY <1>0 DEF Sound, Engine
  <1> HIDE DEF e
  <1>1. CASE TimedOut(p) \/ CloseFinished(p) \/ Fail(p) \/ Close(p)
    <2>1. \E job \in Plain, to \in SessionStates \ {"ACTIVE", "PAUSED", "RECONNECTING"} :
            Only(p, Begin(e, job, to))
      BY <1>1, Names DEF TimedOut, CloseFinished, Fail, Close, Plain, e
    <2>2. PICK job \in Plain, to \in SessionStates \ {"ACTIVE", "PAUSED", "RECONNECTING"} :
            Only(p, Begin(e, job, to))
      BY <2>1
    <2>3. Fine(Begin(e, job, to)) /\ Sound(Begin(e, job, to))
      BY <1>0, PlainFine
    <2> QED
      BY <2>2, <2>3, OnlyKept
  <1>2. CASE Attach(p)
    <2> DEFINE f == [e EXCEPT !.conn = TRUE]
    <2>1. /\ Sound(f) /\ f.step = "idle" /\ f.job = "none" /\ f.mem = row.state
          /\ f.runtime = e.runtime /\ f.wasPaused = e.wasPaused
      BY <1>0, <1>0c, FlagFacts DEF Engine
    <2>2. Only(p, IF f.mem = "RECONNECTING" THEN Begin(f, "attach", ReconnectTo(f)) ELSE f)
      BY <1>2 DEF Attach, e
    <2> HIDE DEF f
    <2>3. CASE f.mem # "RECONNECTING"
      <3>1. Fine(f)
        BY <1>0, <1>0a, <2>1, <2>3, IdleFine
      <3> QED
        BY <2>1, <2>2, <2>3, <3>1, OnlyKept
    <2>4. CASE f.mem = "RECONNECTING"
      <3> DEFINE to == ReconnectTo(f)
      <3>1. to \in {"ACTIVE", "PAUSED"} /\ (f.wasPaused <=> to = "PAUSED") /\ to \in SessionStates
        BY Names DEF ReconnectTo
      <3> HIDE DEF to
      <3>2. ASSUME faults = 0 PROVE Remembers(Begin(f, "attach", to))
        <4> DEFINE x == Begin(f, "attach", to)
        <4>1. /\ x.step = "cas" /\ x.job = "attach" /\ x.to = to /\ x.from = "RECONNECTING"
              /\ x.runtime = e.runtime /\ x.wasPaused = e.wasPaused
          BY <2>1, <2>4 DEF Begin, Sound, Engine
        <4> HIDE DEF x
        <4>2. Remembers(x)
          BY <1>0a, <2>1, <2>4, <3>1, <3>2, <4>1 DEF Remembers
        <4> QED
          BY <4>2 DEF x
      <3>3. Fine(Begin(f, "attach", to))
        BY <1>0, <2>1, <3>2, BeginFine
      <3>4. Sound(Begin(f, "attach", to))
        BY <2>1, <3>1, BeginFacts, Names
      <3> QED
        BY <2>2, <2>4, <3>3, <3>4, OnlyKept DEF to
    <2> QED
      BY <2>3, <2>4
  <1>3. CASE Detach(p)
    <2> DEFINE f == [e EXCEPT !.conn = FALSE]
    <2> DEFINE g == [f EXCEPT !.wasPaused = (f.mem = "PAUSED"), !.runtime.disconnected = TRUE]
    <2>1. /\ Sound(f) /\ f.step = "idle" /\ f.job = "none" /\ f.mem = row.state
          /\ f.runtime = e.runtime /\ f.wasPaused = e.wasPaused
      BY <1>0, <1>0c, FlagFacts DEF Engine
    <2>2. Only(p, CASE f.mem \in {"ACTIVE", "PAUSED", "CONNECTING"} -> Begin(g, "detach", "RECONNECTING")
                    [] f.mem = "ENDING" -> Begin(f, "complete", "COMPLETED")
                    [] OTHER -> f)
      BY <1>3 DEF Detach, e
    <2>2a. /\ Sound(g) /\ g.mem = row.state /\ (g.wasPaused <=> row.state = "PAUSED")
           /\ g.runtime.activeMs = e.runtime.activeMs
           /\ g.runtime.activeSince = e.runtime.activeSince
           /\ g.runtime.paused = e.runtime.paused
      BY <2>1 DEF Sound, Engine, Clocked, RuntimeState
    <2>2b. Fine(f)
      BY <1>0, <1>0a, <2>1, IdleFine
    <2> HIDE DEF f, g
    <2>3. CASE f.mem \in {"ACTIVE", "PAUSED", "CONNECTING"}
      <3>1. ASSUME faults = 0 PROVE Remembers(Begin(g, "detach", "RECONNECTING"))
        <4> DEFINE x == Begin(g, "detach", "RECONNECTING")
        <4>1. /\ x.step = "cas" /\ x.job = "detach" /\ x.to = "RECONNECTING"
              /\ x.from = row.state /\ x.runtime = g.runtime /\ x.wasPaused = g.wasPaused
          BY <2>2a DEF Begin, Sound, Engine
        <4>2. x.wasPaused <=> x.runtime.paused
          BY <1>0a, <1>0b, <2>1, <2>2a, <2>3, <3>1, <4>1 DEF Before
        <4> HIDE DEF x
        <4>3. Remembers(x)
          BY <1>0a, <2>1, <2>2a, <2>3, <3>1, <4>1, <4>2 DEF Remembers
        <4> QED
          BY <4>3 DEF x
      <3>2. Fine(Begin(g, "detach", "RECONNECTING"))
        BY <1>0, <2>2a, <3>1, BeginFine
      <3>3. Sound(Begin(g, "detach", "RECONNECTING"))
        BY <2>2a, BeginFacts, Names
      <3>4. Only(p, Begin(g, "detach", "RECONNECTING"))
        BY <2>2, <2>3
      <3> QED
        BY <3>2, <3>3, <3>4, OnlyKept
    <2>4. CASE f.mem = "ENDING"
      <3>1. Fine(Begin(f, "complete", "COMPLETED")) /\ Sound(Begin(f, "complete", "COMPLETED"))
        BY <2>1, <2>2b, PlainFine, Names DEF Plain
      <3>2. Only(p, Begin(f, "complete", "COMPLETED"))
        BY <2>2, <2>4
      <3> QED
        BY <3>1, <3>2, OnlyKept
    <2>5. CASE f.mem \notin {"ACTIVE", "PAUSED", "CONNECTING", "ENDING"}
      <3>1. Only(p, f)
        BY <2>2, <2>5
      <3> QED
        BY <2>1, <2>2b, <3>1, OnlyKept
    <2> QED
      BY <2>3, <2>4, <2>5
  <1>4. CASE RecordConsent(p) \/ Start(p)
    <2> DEFINE f == [e EXCEPT !.mem = row.state]
    <2>1. f = e
      BY <1>0, <1>0c DEF Engine
    <2>2. /\ row.state \in Unstarted
          /\ row' = row /\ now' = now /\ talked' = talked /\ faults' = faults
          /\ \/ eng' = [eng EXCEPT ![p] = e]
             \/ eng' = [eng EXCEPT ![p] = Begin(e, "consent", "READY")]
             \/ eng' = [eng EXCEPT ![p] = Begin(e, "start", "READY")]
             \/ eng' = [eng EXCEPT ![p] = Begin(e, "start", "CONNECTING")]
      BY <1>0, <1>4, <2>1 DEF RecordConsent, Start, KeepWorld, Unstarted, e
    <2> HIDE DEF f
    <2>3. Fine(Begin(e, "consent", "READY"))
      BY <1>0, PlainFine, Names DEF Plain
    <2>4. ASSUME NEW to \in {"READY", "CONNECTING"} PROVE Fine(Begin(e, "start", to))
      <3>1. ASSUME faults = 0 PROVE Remembers(Begin(e, "start", to))
        <4> DEFINE x == Begin(e, "start", to)
        <4>1. /\ x.step = "cas" /\ x.job = "start" /\ x.to = to
              /\ x.from = row.state /\ x.runtime = e.runtime /\ x.wasPaused = e.wasPaused
          BY <1>0 DEF Begin, Sound, Engine
        <4> HIDE DEF x
        <4>2. Remembers(x)
          BY <1>0a, <1>0b, <2>2, <2>4, <3>1, <4>1 DEF Remembers, Before, Unstarted
        <4> QED
          BY <4>2 DEF x
      <3> QED
        BY <1>0, <3>1, BeginFine
    <2>5. PICK x : eng' = [eng EXCEPT ![p] = x] /\ Fine(x)
      BY <1>0, <2>2, <2>3, <2>4
    <2> QED
      BY <2>2, <2>5, BooksKept
  <1>5. CASE Pause(p)
    <2> DEFINE f == [e EXCEPT !.runtime.paused = TRUE]
    <2>1. /\ Sound(f) /\ f.mem = row.state /\ f.runtime.paused = TRUE
          /\ f.runtime.activeMs = e.runtime.activeMs
          /\ f.runtime.activeSince = e.runtime.activeSince
      BY <1>0 DEF Sound, Engine, Clocked, RuntimeState
    <2>2. Only(p, Begin(f, "pause", "PAUSED")) /\ row.state = "ACTIVE"
      BY <1>0, <1>5 DEF Pause, e
    <2> HIDE DEF f
    <2>3. ASSUME faults = 0 PROVE Remembers(Begin(f, "pause", "PAUSED"))
      <3> DEFINE x == Begin(f, "pause", "PAUSED")
      <3>1. /\ x.step = "cas" /\ x.job = "pause" /\ x.to = "PAUSED"
            /\ x.from = "ACTIVE" /\ x.runtime = f.runtime
        BY <2>1, <2>2 DEF Begin, Sound, Engine
      <3> HIDE DEF x
      <3>2. Remembers(x)
        BY <2>1, <2>2, <3>1 DEF Remembers
      <3> QED
        BY <3>2 DEF x
    <2>4. Fine(Begin(f, "pause", "PAUSED"))
      BY <1>0, <2>1, <2>3, BeginFine
    <2>5. Sound(Begin(f, "pause", "PAUSED"))
      BY <2>1, BeginFacts, Names
    <2> QED
      BY <2>2, <2>4, <2>5, OnlyKept
  <1>6. CASE Resume(p)
    <2> DEFINE f == [e EXCEPT !.runtime.paused = FALSE]
    <2>1. /\ Sound(f) /\ f.mem = row.state /\ f.runtime.paused = FALSE
          /\ f.runtime.activeMs = e.runtime.activeMs
          /\ f.runtime.activeSince = e.runtime.activeSince
      BY <1>0 DEF Sound, Engine, Clocked, RuntimeState
    <2>2. Only(p, Begin(f, "resume", "ACTIVE")) /\ row.state = "PAUSED"
      BY <1>0, <1>6 DEF Resume, e
    <2> HIDE DEF f
    <2>3. ASSUME faults = 0 PROVE Remembers(Begin(f, "resume", "ACTIVE"))
      <3> DEFINE x == Begin(f, "resume", "ACTIVE")
      <3>1. /\ x.step = "cas" /\ x.job = "resume" /\ x.to = "ACTIVE"
            /\ x.from = "PAUSED" /\ x.runtime = f.runtime
        BY <2>1, <2>2 DEF Begin, Sound, Engine
      <3> HIDE DEF x
      <3>2. Remembers(x)
        BY <2>1, <2>2, <3>1 DEF Remembers
      <3> QED
        BY <3>2 DEF x
    <2>4. Fine(Begin(f, "resume", "ACTIVE"))
      BY <1>0, <2>1, <2>3, BeginFine
    <2>5. Sound(Begin(f, "resume", "ACTIVE"))
      BY <2>1, BeginFacts, Names
    <2> QED
      BY <2>2, <2>4, <2>5, OnlyKept
  <1> QED
    BY <1>1, <1>2, <1>3, <1>4, <1>5, <1>6 DEF Timers

\* Taking a session over, and what its first step makes of the copy.
LEMMA LedgerLoads ==
  ASSUME TypeInv, OneReliable, ~IsTerminal(row.state), Books, NEW p \in Proc
  PROVE  /\ ~Present(p) => Sound(Loaded) /\ Fine(Loaded)
         /\ RecoverAfterRestart(p) => Ledger'
  <1>1. ASSUME ~Present(p) PROVE Sound(Loaded) /\ Fine(Loaded)
    <2>1. faults = 0 => row.state \in Unstarted
      BY <1>1 DEF Books
    <2>2. Loaded.step = "loaded" /\ Loaded.mem = row.state /\ Loaded.runtime = row.runtime
          /\ Loaded.job = "recover"
      BY DEF Loaded
    <2>3. ~Going(Loaded)
      BY <2>2 DEF Going
    <2>4. Agrees(Loaded) /\ Counts(Loaded)
      BY <2>1, <2>2, <2>3 DEF Agrees, Counts
    <2>5. faults = 0 => Remembers(Loaded)
      BY <2>1, <2>2, <2>3 DEF Remembers, Unstarted
    <2> QED
      BY <2>4, <2>5, LoadedFacts DEF Fine
  <1>2. ASSUME RecoverAfterRestart(p) PROVE Ledger'
    <2> DEFINE e == eng[p]
    <2> DEFINE folded == FoldToHeartbeat(e.runtime)
    <2>0. /\ Sound(e) /\ e.step = "loaded" /\ e.mem = row.state /\ e.runtime = row.runtime
          /\ faults = 0 => row.state \in Unstarted
          /\ e \in Engine /\ Clocked(e.runtime) /\ now \in Time /\ talked \in Nat
      <3>1. Present(p) /\ e.step = "loaded"
        BY <1>2 DEF RecoverAfterRestart
      <3> QED
        BY <3>1 DEF TypeInv, WorldOK, EnginesOK, Books, Fine, Agrees, Counts, Sound
    <2>1. /\ folded \in RuntimeState /\ folded.activeSince = Null /\ folded.activeMs <= talked
          /\ row.state \notin COUNTING => e.runtime.activeSince = Null /\ e.runtime = folded
          /\ row.state \in Before => talked = 0
      <3>1. folded \in RuntimeState /\ folded.activeSince = Null
        BY <2>0, HeartbeatFacts
      <3>2. folded.activeMs <= talked
        BY <2>0 DEF Books, RowFine, Told
      <3>3. row.state \notin COUNTING => e.runtime.activeSince = Null
        BY <2>0 DEF Books, RowFine
      <3>4. e.runtime.activeSince = Null => folded = e.runtime
        BY DEF FoldToHeartbeat
      <3> QED
        BY <3>1, <3>2, <3>3, <3>4 DEF Books, RowFine
    <2>1a. /\ Only(p, CASE e.mem = "ENDING" -> FinishesClosing(e)
             [] e.mem \in {"ACTIVE", "CONNECTING"} ->
                  Begin([e EXCEPT !.runtime = [folded EXCEPT !.disconnected = TRUE]],
                        "recover", "RECONNECTING")
             [] e.mem = "RECONNECTING" -> [Rest(e) EXCEPT !.runtime.disconnected = TRUE]
             [] OTHER -> Rest(e))
      BY <1>2, <2>0 DEF RecoverAfterRestart
    <2> HIDE DEF e, folded
    <2>2. CASE row.state = "ENDING"
      <3> DEFINE rs == [folded EXCEPT !.activeSince = now]
      <3> DEFINE x == Begin([e EXCEPT !.runtime = rs], "recover", "COMPLETED")
      <3>0. now # Null
        BY <2>0, FleetAssumption DEF Time
      <3>0a. Clocked(rs)
        BY <2>0, <2>1, FoldedFacts
      <3>0b. rs.activeSince = now /\ rs.activeMs = folded.activeMs
        BY <2>1 DEF RuntimeState
      <3>1. Clocked(rs) /\ rs.activeSince = now /\ rs.activeMs = folded.activeMs /\ now # Null
        BY <3>0, <3>0a, <3>0b
      <3>2. Sum(rs) = folded.activeMs
        BY <3>1, <2>0, <2>1, FleetAssumption DEF Sum, RuntimeState, Time
      <3>2a. x = FinishesClosing(e)
        BY DEF FinishesClosing, folded
      <3> HIDE DEF rs
      <3>3. Sound(x)
        BY <2>0, <3>1, RuntimeFacts, BeginFacts, Names
      <3>4. x.step = "cas" /\ x.mem = row.state /\ x.from = row.state /\ x.runtime = rs
        BY <2>0 DEF Begin, Engine
      <3> HIDE DEF x
      <3>5. Fine(x)
        BY <2>0, <2>1, <2>2, <3>1, <3>2, <3>4
           DEF Fine, Agrees, Counts, Going, COUNTING, Unstarted
      <3>6. Only(p, x)
        BY <2>0, <2>1a, <2>2, <3>2a
      <3> QED
        BY <3>3, <3>5, <3>6, OnlyKept
    <2>3. CASE row.state \in {"ACTIVE", "CONNECTING"}
      <3> DEFINE rs == [folded EXCEPT !.disconnected = TRUE]
      <3> DEFINE x == Begin([e EXCEPT !.runtime = rs], "recover", "RECONNECTING")
      <3>1. Clocked(rs) /\ rs.activeSince = Null /\ rs.activeMs = folded.activeMs
        BY <2>0, <2>1, FoldedFacts DEF RuntimeState
      <3>2. Sum(rs) = folded.activeMs
        BY <3>1, <2>1 DEF Sum, RuntimeState
      <3>2a. Only(p, x)
        BY <2>0, <2>1a, <2>3
      <3> HIDE DEF rs
      <3>3. Sound(x)
        BY <2>0, <3>1, RuntimeFacts, BeginFacts, Names
      <3>4. x.step = "cas" /\ x.mem = row.state /\ x.from = row.state /\ x.runtime = rs
        BY <2>0 DEF Begin, Engine
      <3> HIDE DEF x
      <3>5. Fine(x)
        BY <2>0, <2>1, <2>3, <3>1, <3>2, <3>4 DEF Fine, Agrees, Counts, Going, Unstarted
      <3> QED
        BY <3>2a, <3>3, <3>5, OnlyKept
    <2>4. CASE row.state \in {"CREATED", "READY", "PAUSED", "RECONNECTING"}
      <3> DEFINE y == [Rest(e) EXCEPT !.runtime.disconnected = TRUE]
      <3>0. PICK x : (x = Rest(e) \/ x = y) /\ Only(p, x)
        BY <2>0, <2>1a, <2>4
      <3>1. Sound(Rest(e)) /\ Sound(y)
        BY <2>0, RestFacts, FlagFacts
      <3>2. /\ Rest(e).step = "idle" /\ Rest(e).job = "none" /\ Rest(e).mem = row.state
            /\ Rest(e).runtime = e.runtime
        BY <2>0 DEF Rest, Engine
      <3>2a. /\ y.step = "idle" /\ y.job = "none" /\ y.mem = row.state
             /\ y.runtime.activeMs = e.runtime.activeMs
             /\ y.runtime.activeSince = e.runtime.activeSince
             /\ y.runtime.paused = e.runtime.paused
        BY <2>0 DEF Rest, Engine, RuntimeState
      <3> HIDE DEF y
      <3>3. /\ Sound(x) /\ x.step = "idle" /\ x.job = "none" /\ x.mem = row.state
            /\ x.runtime.activeMs = e.runtime.activeMs
            /\ x.runtime.activeSince = e.runtime.activeSince
            /\ x.runtime.paused = e.runtime.paused
        BY <3>0, <3>1, <3>2, <3>2a
      <3>4. row.state \notin COUNTING
        BY <2>4 DEF COUNTING
      <3>5. Sum(x.runtime) = folded.activeMs /\ x.runtime.activeSince = Null
        BY <2>1, <3>3, <3>4 DEF Sum, RuntimeState
      <3>6. faults = 0 => Sum(x.runtime) = talked
        BY <2>0, <2>1, <3>5 DEF Before, RuntimeState
      <3>7. Going(x)
        BY <3>3 DEF Going
      <3>8. Agrees(x) /\ Counts(x)
        BY <2>0, <2>1, <3>3, <3>4, <3>5, <3>6, <3>7 DEF Agrees, Counts
      <3>9. faults = 0 => Remembers(x)
        BY <2>0, <3>3 DEF Remembers, Unstarted
      <3>10. Fine(x)
        BY <3>8, <3>9 DEF Fine
      <3> QED
        BY <3>0, <3>3, <3>10, OnlyKept
    <2>5. row.state \in {"CREATED", "READY", "PAUSED", "RECONNECTING", "ACTIVE", "CONNECTING", "ENDING"}
      BY DEF TypeInv, WorldOK, Row, SessionStates, IsTerminal, Unstarted
    <2> QED
      BY <2>2, <2>3, <2>4, <2>5
  <1> QED
    BY <1>1, <1>2

\* A refused transition leaves the engine where it was; one that is made moves
\* the row along with it.
LEMMA LedgerCas ==
  ASSUME TypeInv, OneReliable, ~IsTerminal(row.state), Books, NEW p \in Proc
  PROVE  /\ TransitionRefused(p) => Ledger'
         /\ CasWins(p) => Ledger'
  <1> DEFINE e == eng[p]
  <1>0. ASSUME Present(p), e.step = "cas"
        PROVE  /\ Sound(e) /\ Fine(e) /\ Going(e) /\ e.mem = row.state /\ e.from = row.state
               /\ e \in Engine /\ Clocked(e.runtime) /\ now \in Time /\ talked \in Nat
               /\ row \in Row
               /\ row.state \in SessionStates /\ e.to \in SessionStates
    BY <1>0, Names DEF TypeInv, WorldOK, EnginesOK, Books, Fine, Agrees, Going, Sound, Row, Engine
  <1>1. ASSUME TransitionRefused(p) PROVE Ledger'
    <2>0. Present(p) /\ e.step = "cas" /\ ~CanTransition(e.from, e.to)
      BY <1>1 DEF TransitionRefused
    <2>1. /\ eng' = [eng EXCEPT ![p] = IF e.job = "recover" THEN NoEngine ELSE Rest(e)]
          /\ row' = row /\ now' = now /\ talked' = talked /\ faults' = faults
      BY <1>1 DEF TransitionRefused, KeepRow, KeepWorld
    <2>2. CASE e.job = "recover"
      <3>1. faults = 0 => row.state \in Unstarted
        BY <1>0, <2>0, <2>2 DEF Fine, Counts
      <3> QED
        BY <2>1, <2>2, <3>1, BooksKept
    <2>3. CASE e.job # "recover"
      <3>1. /\ Rest(e).step = "idle" /\ Rest(e).job = "none" /\ Rest(e).mem = row.state
            /\ Rest(e).runtime = e.runtime /\ Rest(e).wasPaused = e.wasPaused
        BY <1>0, <2>0 DEF Rest, Engine
      <3>2. ASSUME faults = 0
            PROVE  /\ e.runtime.paused = row.runtime.paused
                   /\ row.state = "RECONNECTING" => (e.wasPaused <=> row.runtime.paused)
        <4>1. Remembers(e)
          BY <1>0, <2>0, <3>2 DEF Fine
        <4>2. /\ e.job # "pause" /\ e.job # "resume"
              /\ row.state = "RECONNECTING" => e.job # "abandon"
          BY <1>0, <2>0, <4>1 DEF Remembers, CanTransition, SessionTransitions
        <4> QED
          BY <1>0, <2>0, <4>1, <4>2 DEF Remembers
      <3>3. Sound(Rest(e)) /\ Rest(e) # NoEngine
        BY <1>0, <2>0, RestFacts, EngineAssumption DEF Sound
      <3>4. Fine(Rest(e))
        BY <1>0, <2>0, <2>3, <3>1, <3>2, IdleFine
      <3> QED
        BY <2>1, <2>3, <3>3, <3>4, BooksKept
    <2> QED
      BY <2>2, <2>3
  <1>2. ASSUME CasWins(p) PROVE Ledger'
    <2>0. Present(p) /\ e.step = "cas" /\ CanTransition(e.from, e.to)
      BY <1>2 DEF CasWins
    <2>0a. PICK rs : rs = Account(e.runtime, e.from, e.to)
      OBVIOUS
    <2>0b. PICK to : to = e.to
      OBVIOUS
    <2>1. /\ row'.state = to /\ row'.runtime = rs
          /\ row'.duration = IF IsTerminal(to) THEN rs.activeMs ELSE row.duration
          /\ eng' = [eng EXCEPT ![p].runtime = rs, ![p].step = "reload"]
          /\ now' = now /\ talked' = talked /\ faults' = faults
      BY <1>0, <1>2, <2>0, <2>0a, <2>0b DEF CasWins, Row
    <2>2. e.runtime.activeSince # Null => e.from \in COUNTING
      BY <1>0, <2>0, <2>0a, <2>0b DEF Fine, Counts
    <2>3. /\ Sum(rs) = Sum(e.runtime) /\ rs.paused = e.runtime.paused /\ rs.heartbeatAt = now
          /\ rs.activeSince # Null => to \in COUNTING
          /\ to \in COUNTING /\ (e.from \in COUNTING => e.runtime.activeSince # Null)
               => rs.activeSince # Null
          /\ to \notin COUNTING => rs.activeMs = Sum(e.runtime)
      BY <1>0, <2>0, <2>0a, <2>0b, <2>2, AccountSum
    <2>4. Clocked(rs)
      BY <1>0, <2>0, <2>0a, <2>0b, AccountFacts
    <2>5. Sum(e.runtime) <= talked /\ (faults = 0 => Sum(e.runtime) = talked)
      BY <1>0, <2>0, <2>0a, <2>0b DEF Fine, Counts
    <2>5a. ASSUME faults = 0
           PROVE  /\ e.job # "recover"
                  /\ e.from \in COUNTING => e.runtime.activeSince # Null
      BY <1>0, <2>0, <2>0a, <2>0b, <2>5a DEF Fine, Counts
    <2>6. CASE IsTerminal(to)
      <3>1. to \notin COUNTING
        BY <2>6 DEF IsTerminal, TerminalStates, COUNTING
      <3>2. row'.duration = Sum(e.runtime)
        BY <2>1, <2>3, <2>6, <3>1
      <3> QED
        BY <2>1, <2>5, <2>6, <3>2 DEF Ledger, Paid
    <2>7. CASE ~IsTerminal(to)
      <3>0. PICK x : x = [e EXCEPT !.runtime = rs, !.step = "reload"]
        OBVIOUS
      <3>1. /\ x.step = "reload" /\ x.to = to /\ x.job = e.job /\ x.runtime = rs
            /\ x.wasPaused = e.wasPaused
        BY <1>0, <2>0, <2>0b, <3>0 DEF Engine
      <3>2. eng' = [eng EXCEPT ![p] = x]
        BY <2>1, <3>0
      <3>2a. rs \in RuntimeState
        BY <2>4 DEF Clocked
      <3>3. ASSUME NEW q \in Proc PROVE q = p /\ eng'[q] = x
        BY <3>2 DEF OneReliable, TypeInv, EnginesOK
      <3>4. x # NoEngine
        <4>1. Sound(x)
          BY <1>0, <2>0, <2>4, <3>0, RuntimeFacts, Names
        <4> QED
          BY <4>1, EngineAssumption DEF Sound
      <3> HIDE DEF e
      <3>5. Told(rs)' = Told(rs) /\ Sum(x.runtime)' = Sum(rs)
        BY <2>1, <3>1 DEF Told, FoldToHeartbeat, Fold, Sum
      <3>6. Told(rs) = Sum(rs)
        BY <1>0, <2>0, <2>3, <2>4, ToldNow DEF e
      <3>7. Agrees(x)'
        BY <2>1, <3>1 DEF Agrees, Going
      <3>8. Counts(x)'
        <4>1. /\ Sum(x.runtime)' <= talked'
              /\ x.runtime.activeSince # Null => row'.state \in COUNTING
          BY <2>1, <2>3, <2>5, <3>1, <3>5
        <4>2. ASSUME faults' = 0
              PROVE  /\ x.job # "recover"
                     /\ Sum(x.runtime)' = talked'
                     /\ row'.state \in COUNTING => x.runtime.activeSince # Null
          <5>1. faults = 0
            BY <2>1, <4>2
          <5>2. Sum(x.runtime)' = talked'
            BY <2>1, <2>3, <2>5, <3>5, <5>1
          <5>3. row'.state \in COUNTING => x.runtime.activeSince # Null
            BY <2>1, <2>3, <2>5a, <3>1, <5>1
          <5> QED
            BY <2>5a, <3>1, <5>1, <5>2, <5>3
        <4> QED
          BY <3>1, <4>1, <4>2 DEF Counts
      <3>9. ASSUME faults = 0
            PROVE  /\ to \in Before \cup {"ACTIVE"} => ~rs.paused
                   /\ to = "PAUSED" => rs.paused
                   /\ to = "RECONNECTING" => e.job = "abandon" \/ (e.job = "detach" /\ (e.wasPaused <=> rs.paused))
        <4>1. Remembers(e) /\ Going(e) /\ e.step = "cas" /\ e.from = row.state /\ e.to = to
              /\ rs.paused = e.runtime.paused
          BY <1>0, <2>0, <2>0b, <2>3, <3>9 DEF Fine, e
        <4>2. CanTransition(row.state, to)
          BY <2>0, <4>1 DEF e
        <4>3. CASE to \in Before
          <5>1. row.state \in Unstarted
            BY <4>2, <4>3, TableFacts DEF Before, Unstarted
          <5>2. e.job # "pause" /\ e.job # "resume"
            BY <4>1, <5>1 DEF Remembers, Unstarted
          <5>3. ~row.runtime.paused
            BY <3>9, <5>1 DEF Books, RowFine, Before
          <5> QED
            BY <4>1, <4>3, <5>2, <5>3 DEF Remembers, Before, Unstarted
        <4>4. CASE to = "ACTIVE"
          <5>1. CASE e.job = "attach"
            <6>1. row.state = "RECONNECTING" /\ ~e.wasPaused
              BY <4>1, <4>4, <5>1 DEF Remembers
            <6>2. ~row.runtime.paused /\ e.runtime.paused = row.runtime.paused
              BY <4>1, <5>1, <6>1 DEF Remembers
            <6> QED
              BY <4>1, <4>4, <6>2
          <5>2. CASE e.job # "attach"
            BY <4>1, <4>4, <5>2 DEF Remembers
          <5> QED
            BY <4>4, <5>1, <5>2 DEF Before, Unstarted
        <4>5. CASE to = "PAUSED"
          <5>1. CASE e.job = "attach"
            <6>1. row.state = "RECONNECTING" /\ e.wasPaused
              BY <4>1, <4>5, <5>1 DEF Remembers
            <6>2. row.runtime.paused /\ e.runtime.paused = row.runtime.paused
              BY <4>1, <5>1, <6>1 DEF Remembers
            <6> QED
              BY <4>1, <4>5, <6>2 DEF Before, Unstarted
          <5>2. CASE e.job # "attach"
            BY <4>1, <4>5, <5>2 DEF Remembers, Before, Unstarted
          <5> QED
            BY <5>1, <5>2
        <4>6. CASE to = "RECONNECTING"
          BY <4>1, <4>6 DEF Remembers, Before, Unstarted
        <4> QED
          BY <4>3, <4>4, <4>5, <4>6
      <3>10. faults' = 0 => Remembers(x)'
        <4>0. SUFFICES ASSUME faults' = 0 PROVE Remembers(x)'
          OBVIOUS
        <4>1. faults = 0
          BY <2>1, <4>0
        <4> QED
          BY <2>1, <3>1, <3>9, <4>1 DEF Remembers, Going
      <3>11. RowFine'
        <4>1. Told(row.runtime)' <= talked'
          BY <2>1, <2>3, <2>5, <3>5, <3>6
        <4>2. row'.state \notin COUNTING => row'.runtime.activeSince = Null
          BY <2>1, <2>3
        <4>3. row'.state \in Before => talked' = 0
          <5>1. to \in Before => row.state \in Before
            BY <1>0, <2>0, <2>0b, TableFacts DEF Before, Unstarted, e
          <5> QED
            BY <2>1, <5>1 DEF Books, RowFine
        <4> QED
          BY <2>1, <3>9, <4>1, <4>2, <4>3 DEF RowFine
      <3>12. Fine(x)'
        BY <3>7, <3>8, <3>10 DEF Fine
      <3>13. \A q \in Proc : (IF Present(q) THEN Fine(eng[q]) ELSE faults = 0 => row.state \in Unstarted)'
        BY <3>3, <3>4, <3>12 DEF Present
      <3>14. Books'
        BY <3>11, <3>13 DEF Books
      <3> QED
        BY <2>1, <2>7, <3>14 DEF Ledger
    <2> QED
      BY <2>6, <2>7
  <1> QED
    BY <1>1, <1>2

\* What follows a transition that is in the row.
LEMMA ContinueCases ==
  ASSUME NEW f
  PROVE  \/ f.job = "start" /\ f.to = "READY" /\ Continue(f) = Begin(f, "start", "CONNECTING")
         \/ f.job = "start" /\ f.to = "CONNECTING" /\ Continue(f) = Begin(f, "start", "ACTIVE")
         \/ f.job = "attach" /\ Continue(f) = [Rest(f) EXCEPT !.runtime.disconnected = FALSE]
         \/ f.job = "close" /\ Continue(f) = [Rest(f) EXCEPT !.closing = TRUE]
         \/ f.job \in {"closeNow", "complete"} /\ Continue(f) = Begin(f, "complete", "COMPLETED")
         \/ f.job = "closeNow" /\ Continue(f) = Begin(f, "complete", "ENDING")
         \/ f.job = "abandon" /\ Continue(f) = Begin(f, "abandon", "ABANDONED")
         \/ /\ f.job = "abandon" => f.mem # "RECONNECTING"
            /\ Continue(f) = Rest(f)
  BY DEF Continue

LEMMA LedgerReloads ==
  ASSUME TypeInv, OneReliable, ~IsTerminal(row.state), Books, NEW p \in Proc, WinnerReloads(p)
  PROVE  Ledger'
  <1> DEFINE e == eng[p]
  <1>0. /\ Sound(e) /\ Fine(e) /\ Going(e) /\ e.step = "reload" /\ e.to = row.state
        /\ e \in Engine /\ row.state \in SessionStates
    <2>1. Present(p) /\ e.step = "reload"
      BY DEF WinnerReloads
    <2> QED
      BY <2>1, Names DEF TypeInv, WorldOK, EnginesOK, Books, Fine, Agrees, Going, Sound, Row, Engine
  <1>1. PICK f : f = [e EXCEPT !.mem = row.state]
    OBVIOUS
  <1>2. /\ f.mem = row.state /\ f.to = row.state /\ f.job = e.job /\ f.runtime = e.runtime
        /\ f.wasPaused = e.wasPaused
    BY <1>0, <1>1 DEF Engine
  <1>2a. Sound(f) /\ f \in Engine /\ f.runtime \in RuntimeState
    BY <1>0, <1>1, CopyFacts DEF Sound, Engine
  <1>3. /\ eng' = [eng EXCEPT ![p] = Continue(f)]
        /\ row' = row /\ now' = now /\ talked' = talked /\ faults' = faults
    BY <1>0, <1>1, <1>2 DEF WinnerReloads, KeepWorld
  <1>3a. Sound(Continue(f)) /\ Continue(f) # NoEngine
    BY <1>2a, ContinueFacts, EngineAssumption DEF Sound
  <1> HIDE DEF e
  <1>4. ASSUME faults = 0
        PROVE  /\ e.job # "recover" /\ e.runtime.paused = row.runtime.paused
               /\ row.state = "RECONNECTING"
                    => e.job = "abandon" \/ (e.job = "detach" /\ (e.wasPaused <=> row.runtime.paused))
               /\ row.state \in Before => ~row.runtime.paused
    BY <1>0, <1>4 DEF Fine, Counts, Remembers, Books, RowFine
  <1>5. ASSUME NEW x, x.step = "idle", x.job = "none", x.mem = row.state,
               x.runtime.activeMs = e.runtime.activeMs,
               x.runtime.activeSince = e.runtime.activeSince,
               x.runtime.paused = e.runtime.paused, x.wasPaused = e.wasPaused,
               row.state = "RECONNECTING" => e.job # "abandon" \/ faults # 0
        PROVE  Fine(x)
    BY <1>0, <1>4, <1>5, IdleFine
  <1>6. ASSUME NEW job, NEW to,
               \/ job = "start" /\ to = "CONNECTING" /\ row.state = "READY" /\ e.job = "start"
               \/ job = "start" /\ to = "ACTIVE" /\ row.state = "CONNECTING" /\ e.job = "start"
               \/ job = "complete" /\ to \in {"COMPLETED", "ENDING"} /\ e.job \in {"closeNow", "complete"}
               \/ job = "abandon" /\ to = "ABANDONED" /\ e.job = "abandon"
        PROVE  Fine(Begin(f, job, to))
    <2>1. ASSUME faults = 0 PROVE Remembers(Begin(f, job, to))
      <3>1. PICK x : x = Begin(f, job, to)
        OBVIOUS
      <3>2. /\ x.step = "cas" /\ x.job = job /\ x.to = to
            /\ x.from = row.state /\ x.runtime = e.runtime /\ x.wasPaused = e.wasPaused
        BY <1>2, <1>2a, <3>1 DEF Begin, Engine
      <3>3. row.state = "RECONNECTING" => job = "abandon"
        BY <1>4, <1>6, <2>1
      <3>4. Remembers(x)
        BY <1>4, <1>6, <2>1, <3>2, <3>3 DEF Remembers, Before, Unstarted
      <3> QED
        BY <3>1, <3>4
    <2> QED
      BY <1>0, <1>2, <1>2a, <1>6, <2>1, BeginFine
  <1>7. /\ Rest(f).step = "idle" /\ Rest(f).job = "none" /\ Rest(f).mem = row.state
        /\ Rest(f).runtime = e.runtime /\ Rest(f).wasPaused = e.wasPaused
        /\ Rest(f) \in Engine
    BY <1>2, <1>2a, RestFacts DEF Rest, Engine, Sound
  <1>8. PICK g : g = Rest(f)
    OBVIOUS
  <1>9. Fine(Continue(f))
    <2>1. CASE f.job = "attach" /\ Continue(f) = [Rest(f) EXCEPT !.runtime.disconnected = FALSE]
      <3>1. PICK x : x = [g EXCEPT !.runtime.disconnected = FALSE]
        OBVIOUS
      <3>2. /\ x.step = "idle" /\ x.job = "none" /\ x.mem = row.state
            /\ x.runtime.activeMs = e.runtime.activeMs
            /\ x.runtime.activeSince = e.runtime.activeSince
            /\ x.runtime.paused = e.runtime.paused /\ x.wasPaused = e.wasPaused
        BY <1>2, <1>2a, <1>7, <1>8, <3>1 DEF Engine, RuntimeState
      <3>3. Fine(x)
        BY <1>2, <1>5, <2>1, <3>2
      <3> QED
        BY <1>8, <2>1, <3>1, <3>3
    <2>2. CASE f.job = "close" /\ Continue(f) = [Rest(f) EXCEPT !.closing = TRUE]
      <3>1. PICK x : x = [g EXCEPT !.closing = TRUE]
        OBVIOUS
      <3>2. /\ x.step = "idle" /\ x.job = "none" /\ x.mem = row.state
            /\ x.runtime = e.runtime /\ x.wasPaused = e.wasPaused
        BY <1>7, <1>8, <3>1 DEF Engine
      <3>3. Fine(x)
        BY <1>2, <1>5, <2>2, <3>2
      <3> QED
        BY <1>8, <2>2, <3>1, <3>3
    <2>3. CASE /\ f.job = "abandon" => f.mem # "RECONNECTING"
               /\ Continue(f) = Rest(f)
      <3>1. Fine(g)
        BY <1>2, <1>5, <1>7, <1>8, <2>3
      <3> QED
        BY <1>8, <2>3, <3>1
    <2>4. CASE \E job, to :
                 /\ Continue(f) = Begin(f, job, to)
                 /\ \/ job = "start" /\ to = "CONNECTING" /\ row.state = "READY" /\ e.job = "start"
                    \/ job = "start" /\ to = "ACTIVE" /\ row.state = "CONNECTING" /\ e.job = "start"
                    \/ job = "complete" /\ to \in {"COMPLETED", "ENDING"} /\ e.job \in {"closeNow", "complete"}
                    \/ job = "abandon" /\ to = "ABANDONED" /\ e.job = "abandon"
      BY <1>6, <2>4
    <2>5. \/ f.job = "start" /\ f.to = "READY" /\ Continue(f) = Begin(f, "start", "CONNECTING")
          \/ f.job = "start" /\ f.to = "CONNECTING" /\ Continue(f) = Begin(f, "start", "ACTIVE")
          \/ f.job \in {"closeNow", "complete"} /\ Continue(f) = Begin(f, "complete", "COMPLETED")
          \/ f.job = "closeNow" /\ Continue(f) = Begin(f, "complete", "ENDING")
          \/ f.job = "abandon" /\ Continue(f) = Begin(f, "abandon", "ABANDONED")
          => \E job, to :
                 /\ Continue(f) = Begin(f, job, to)
                 /\ \/ job = "start" /\ to = "CONNECTING" /\ row.state = "READY" /\ e.job = "start"
                    \/ job = "start" /\ to = "ACTIVE" /\ row.state = "CONNECTING" /\ e.job = "start"
                    \/ job = "complete" /\ to \in {"COMPLETED", "ENDING"} /\ e.job \in {"closeNow", "complete"}
                    \/ job = "abandon" /\ to = "ABANDONED" /\ e.job = "abandon"
      BY <1>2
    <2> QED
      BY <2>1, <2>2, <2>3, <2>4, <2>5, ContinueCases
  <1> QED
    BY <1>3, <1>3a, <1>9, BooksKept

\* An engine that has lost, or has ended the session, stands beside an ended row.
LEMMA NotBehind ==
  ASSUME TypeInv, OneReliable, ~IsTerminal(row.state), Books, NEW p \in Proc
  PROVE  /\ ~CasLoses(p) /\ ~LoserReloads(p) /\ ~RecordSeconds(p) /\ ~EmitTerminal(p)
         /\ ~Dispose(p) /\ ~CallFails(p)
  <1>1. Present(p) => /\ eng[p].step \in {"idle", "cas", "reload", "loaded"}
                      /\ eng[p].step = "cas" => eng[p].from = row.state
    BY DEF Books, Fine, Agrees, Going
  <1>2. p \notin Unreliable
    BY DEF OneReliable
  <1> QED
    BY <1>1, <1>2 DEF CasLoses, Unmoved, LoserReloads, RecordSeconds, EmitTerminal, Dispose, CallFails

\* The accidental writers: a save, another copy of the row, a cancellation, death.
LEMMA LedgerWrites ==
  ASSUME TypeInv, OneWinner, OneReliable, ~IsTerminal(row.state), Books, NEW p \in Proc
  PROVE  /\ Save(p) => Ledger'
         /\ SwitchRealtimeProvider(p) => Ledger'
         /\ ApiCancel(p) => Ledger'
         /\ Crash(p) => Ledger'
  <1> DEFINE e == eng[p]
  <1>0. ASSUME Present(p)
        PROVE  /\ Sound(e) /\ Fine(e) /\ e \in Engine /\ e.runtime \in RuntimeState
               /\ Clocked(e.runtime) /\ now \in Time /\ row \in Row /\ faults \in Nat
               /\ row.state \in SessionStates
    BY <1>0, Names DEF TypeInv, WorldOK, EnginesOK, Books, Sound, Row, Engine
  <1>1. ASSUME Save(p) PROVE Ledger'
    <2>0. Present(p) /\ e.step = "idle"
      BY <1>1 DEF Save, Ready, Idle, Peek
    <2>1. PICK rs : rs = [e.runtime EXCEPT !.heartbeatAt = now]
      OBVIOUS
    <2>2. /\ Clocked(rs) /\ rs.heartbeatAt = now /\ rs.activeMs = e.runtime.activeMs
          /\ rs.activeSince = e.runtime.activeSince /\ rs.paused = e.runtime.paused
      BY <1>0, <2>0, <2>1 DEF Clocked, RuntimeState
    <2>3. PICK x : x = [e EXCEPT !.runtime = rs]
      OBVIOUS
    <2>4. /\ eng' = [eng EXCEPT ![p] = x]
          /\ row'.state = row.state /\ row'.runtime = rs
          /\ now' = now /\ talked' = talked /\ faults' = faults
      BY <1>0, <1>1, <2>0, <2>1, <2>3 DEF Save, KeepWorld, Row
    <2>5. /\ x.step = "idle" /\ x.job = e.job /\ x.mem = e.mem /\ x.runtime = rs
          /\ x.wasPaused = e.wasPaused
      BY <1>0, <2>0, <2>3 DEF Engine
    <2>6. x # NoEngine
      <3>1. Sound(x)
        BY <1>0, <2>0, <2>2, <2>3, RuntimeFacts, Names
      <3> QED
        BY <3>1, EngineAssumption DEF Sound
    <2>7. ASSUME NEW q \in Proc PROVE q = p /\ eng'[q] = x
      BY <2>4 DEF OneReliable, TypeInv, EnginesOK
    <2> HIDE DEF e
    <2>8. Sum(x.runtime)' = Sum(e.runtime) /\ Told(rs)' = Sum(e.runtime)
      <3>1. Told(rs)' = Told(rs) /\ Sum(x.runtime)' = Sum(rs)
        BY <2>4, <2>5 DEF Told, FoldToHeartbeat, Fold, Sum
      <3>2. Told(rs) = Sum(rs)
        BY <1>0, <2>0, <2>2, ToldNow
      <3>3. Sum(rs) = Sum(e.runtime)
        BY <2>2 DEF Sum
      <3> QED
        BY <3>1, <3>2, <3>3
    <2>9. /\ Fine(e) /\ Going(e) /\ e.step = "idle"
      BY <1>0, <2>0 DEF Going, e
    <2>10. Agrees(x)'
      BY <2>4, <2>5, <2>9 DEF Fine, Agrees, Going
    <2>11. Counts(x)'
      BY <2>2, <2>4, <2>5, <2>8, <2>9 DEF Fine, Counts, Going
    <2>12. faults' = 0 => Remembers(x)'
      BY <2>2, <2>4, <2>5, <2>9 DEF Fine, Remembers, Going
    <2>13. RowFine'
      <3>1. Told(row.runtime)' <= talked'
        BY <2>4, <2>8, <2>9 DEF Fine, Counts
      <3>2. row'.state \notin COUNTING => row'.runtime.activeSince = Null
        BY <2>2, <2>4, <2>9 DEF Fine, Counts
      <3>3. faults = 0 => rs.paused = row.runtime.paused
        BY <2>2, <2>9 DEF Fine, Remembers
      <3> QED
        BY <2>4, <3>1, <3>2, <3>3 DEF Books, RowFine
    <2>14. \A q \in Proc : (IF Present(q) THEN Fine(eng[q]) ELSE faults = 0 => row.state \in Unstarted)'
      BY <2>6, <2>7, <2>10, <2>11, <2>12 DEF Present, Fine
    <2>15. Books'
      BY <2>13, <2>14 DEF Books
    <2> QED
      BY <2>4, <2>15 DEF Ledger
  <1>2. ASSUME SwitchRealtimeProvider(p) PROVE Ledger'
    <2>0. Present(p)
      BY <1>2 DEF SwitchRealtimeProvider, Peek
    <2>1. PICK from \in {e.from} \cup (IF e.step = "cas" THEN {row.state} ELSE {}) :
            eng' = [eng EXCEPT ![p].mem = row.state, ![p].from = from]
      BY <1>2 DEF SwitchRealtimeProvider
    <2>2. e.step = "cas" => from = row.state
      BY <1>0, <2>0 DEF Fine, Agrees
    <2>3. PICK x : x = [e EXCEPT !.mem = row.state, !.from = from]
      OBVIOUS
    <2>4. /\ eng' = [eng EXCEPT ![p] = x]
          /\ row' = row /\ now' = now /\ talked' = talked /\ faults' = faults
      BY <1>2, <2>0, <2>1, <2>3 DEF SwitchRealtimeProvider, KeepWorld, TypeInv, EnginesOK
    <2>5. /\ x.step = e.step /\ x.job = e.job /\ x.mem = row.state /\ x.from = from
          /\ x.to = e.to /\ x.runtime = e.runtime /\ x.wasPaused = e.wasPaused
      BY <1>0, <2>0, <2>3 DEF Engine
    <2>6. x # NoEngine
      <3>1. from \in SessionStates
        BY <1>0, <2>0, <2>1 DEF Engine
      <3>2. x \in Engine
        BY <1>0, <2>0, <2>3, <3>1 DEF Engine
      <3> QED
        BY <3>2, EngineAssumption
    <2>7. e.step = "cas" => e.from = from
      BY <1>0, <2>0, <2>2 DEF Fine, Agrees
    <2> HIDE DEF e
    <2>8. Agrees(x)
      BY <1>0, <2>0, <2>2, <2>5 DEF Fine, Agrees, Going
    <2>9. Counts(x)
      BY <1>0, <2>0, <2>5 DEF Fine, Counts, Going
    <2>10. faults = 0 => Remembers(x)
      BY <1>0, <2>0, <2>5, <2>7 DEF Fine, Remembers, Going
    <2>11. Fine(x)
      BY <2>8, <2>9, <2>10 DEF Fine
    <2> QED
      BY <2>4, <2>6, <2>11, BooksKept
  <1>3. ASSUME ApiCancel(p) PROVE Ledger'
    <2>1. row.state \in Before /\ row.duration = 0 /\ talked = 0
      BY <1>3 DEF ApiCancel, Before, OneWinner, BillInv, Books, RowFine
    <2>2. row'.state = "CANCELLED" /\ row'.duration = row.duration /\ talked' = talked
      BY <1>3 DEF ApiCancel, TypeInv, WorldOK, Row
    <2> QED
      BY <2>1, <2>2 DEF Ledger, Paid, IsTerminal, TerminalStates
  <1>4. ASSUME Crash(p) PROVE Ledger'
    <2>1. /\ eng' = [eng EXCEPT ![p] = NoEngine] /\ faults' = faults + 1
          /\ row' = row /\ now' = now /\ talked' = talked
      BY <1>4 DEF Crash
    <2>2. faults' # 0
      BY <2>1 DEF TypeInv, WorldOK
    <2>3. \A q \in Proc : ~Present(q)'
      BY <2>1 DEF OneReliable, TypeInv, EnginesOK, Present
    <2>4. RowFine'
      BY <2>1, <2>2 DEF Books, RowFine, Told, FoldToHeartbeat, Fold
    <2>5. Books'
      BY <2>2, <2>3, <2>4 DEF Books
    <2> QED
      BY <2>1, <2>5 DEF Ledger
  <1> QED
    BY <1>1, <1>2, <1>3, <1>4

\* A step that moves neither the row nor an engine.
LEMMA StillKept ==
  ASSUME ~IsTerminal(row.state), Books, row' = row, eng' = eng, now' = now,
         talked' = talked, faults' = faults
  PROVE  Ledger'
  BY DEF Books, RowFine, Told, FoldToHeartbeat, Fold, Sum, Present, Fine, Agrees, Counts,
         Remembers, Going, Ledger

LEMMA LedgerSweep ==
  ASSUME TypeInv, OneReliable, ~IsTerminal(row.state), Books, NEW p \in Proc,
         Sweep(p) \/ Load(p)
  PROVE  Ledger'
  <1>1. CASE SweepPick(p) \/ SweepGivesUp(p)
    BY <1>1, StillKept DEF SweepPick, SweepGivesUp, SetSweep, KeepRow, KeepWorld
  <1>2. CASE SweepVisit(p) \/ Load(p)
    <2>0. /\ row' = row /\ now' = now /\ talked' = talked /\ faults' = faults
          /\ eng' = eng \/ (~Present(p) /\ eng' = [eng EXCEPT ![p] = Loaded])
      BY <1>2 DEF SweepVisit, Load, Only, SetSweep, KeepRow, KeepWorld
    <2>1. CASE eng' = eng
      BY <2>0, <2>1, StillKept
    <2>2. CASE ~Present(p) /\ eng' = [eng EXCEPT ![p] = Loaded]
      <3>1. PICK x : x = Loaded
        OBVIOUS
      <3>2. Fine(x) /\ x # NoEngine
        BY <2>2, <3>1, LedgerLoads, EngineAssumption DEF Sound
      <3> QED
        BY <2>0, <2>2, <3>1, <3>2, BooksKept
    <2> QED
      BY <2>0, <2>1, <2>2
  <1>3. CASE SweepAbandons(p)
    <2> DEFINE e == eng[p]
    <2>0. /\ Sound(e) /\ Fine(e) /\ e.step = "idle" /\ e.job = "none" /\ e.mem = row.state /\ Going(e)
          /\ e \in Engine
      <3>1. Present(p) /\ e.step \in {"idle", "done"}
        BY <1>3 DEF SweepAbandons, Peek
      <3> QED
        BY <3>1 DEF TypeInv, EnginesOK, Books, Fine, Agrees, Going, Sound
    <2>1. /\ eng' = [eng EXCEPT ![p] = Abandon(e)]
          /\ row' = row /\ now' = now /\ talked' = talked /\ faults' = faults
      BY <1>3 DEF SweepAbandons, SetSweep, KeepRow, KeepWorld
    <2>2. \/ Abandon(e) = e
          \/ Abandon(e) = Begin(e, "complete", "COMPLETED")
          \/ Abandon(e) = Begin(e, "expire", "EXPIRED")
          \/ row.state \in {"ACTIVE", "CONNECTING"} /\ Abandon(e) = Begin(e, "abandon", "RECONNECTING")
          \/ row.state \in {"RECONNECTING", "PAUSED"} /\ Abandon(e) = Begin(e, "abandon", "ABANDONED")
      BY <2>0 DEF Abandon
    <2> HIDE DEF e
    <2>3. Fine(Begin(e, "complete", "COMPLETED")) /\ Sound(Begin(e, "complete", "COMPLETED"))
      BY <2>0, PlainFine, Names DEF Plain
    <2>4. Fine(Begin(e, "expire", "EXPIRED")) /\ Sound(Begin(e, "expire", "EXPIRED"))
      BY <2>0, PlainFine, Names DEF Plain
    <2>5. ASSUME NEW to \in {"RECONNECTING", "ABANDONED"},
                 to = "RECONNECTING" => row.state \in {"ACTIVE", "CONNECTING"}
          PROVE  Fine(Begin(e, "abandon", to)) /\ Sound(Begin(e, "abandon", to))
      <3>1. ASSUME faults = 0 PROVE Remembers(Begin(e, "abandon", to))
        <4>1. PICK x : x = Begin(e, "abandon", to)
          OBVIOUS
        <4>2. /\ x.step = "cas" /\ x.job = "abandon" /\ x.to = to /\ x.from = row.state
              /\ x.runtime = e.runtime /\ x.wasPaused = e.wasPaused
          BY <2>0, <4>1 DEF Begin, Engine
        <4>3. e.runtime.paused = row.runtime.paused
          BY <2>0, <3>1 DEF Fine, Remembers
        <4>4. Remembers(x)
          BY <2>5, <4>2, <4>3 DEF Remembers
        <4> QED
          BY <4>1, <4>4
      <3>2. Fine(Begin(e, "abandon", to))
        BY <2>0, <3>1, BeginFine
      <3> QED
        BY <2>0, <3>2, BeginFacts, Names
    <2>6. Fine(Abandon(e)) /\ Sound(Abandon(e))
      BY <2>0, <2>2, <2>3, <2>4, <2>5
    <2>7. PICK x : x = Abandon(e)
      OBVIOUS
    <2>8. Fine(x) /\ x # NoEngine
      BY <2>6, <2>7, EngineAssumption DEF Sound
    <2> QED
      BY <2>1, <2>7, <2>8, BooksKept
  <1> QED
    BY <1>1, <1>2, <1>3 DEF Sweep

\* A minute more counts for the engine and for the talk, or for neither.
LEMMA LedgerElapse ==
  ASSUME TypeInv, OneReliable, ~IsTerminal(row.state), Books, Elapse
  PROVE  Ledger'
  <1>0. /\ row' = row /\ eng' = eng /\ faults' = faults /\ now' = now + 1
        /\ now \in Nat /\ talked \in Nat
        /\ talked' = IF row.state \in COUNTING /\ \E p \in Proc : Peek(p) THEN talked + 1 ELSE talked
    BY FleetAssumption DEF Elapse, TypeInv, WorldOK, Time
  <1>1. talked' \in Nat /\ talked <= talked'
    BY <1>0
  <1>2. RowFine'
    <2>1. Told(row.runtime)' = Told(row.runtime)
      BY <1>0 DEF Told, FoldToHeartbeat, Fold
    <2>2. Told(row.runtime) \in Nat
      BY HeartbeatFacts DEF TypeInv, WorldOK, Told, RuntimeState
    <2>3. row.state \in Before => talked' = talked
      BY <1>0 DEF Before, Unstarted, COUNTING
    <2> QED
      BY <1>0, <1>1, <2>1, <2>2, <2>3 DEF Books, RowFine
  <1>3. ASSUME NEW p \in Proc, Present(p) PROVE Fine(eng[p])'
    <2>1. PICK e : e = eng[p]
      OBVIOUS
    <2>2. /\ Fine(e) /\ e.step = "idle" /\ e.job = "none" /\ Going(e)
          /\ Clocked(e.runtime)
      <3>1. e.step \in {"idle", "done"}
        BY <1>3, <2>1 DEF Elapse, Settled
      <3> QED
        BY <1>3, <2>1, <3>1 DEF Books, Fine, Agrees, Going, TypeInv, EnginesOK, Sound
    <2>3. Peek(p)
      BY <1>3, <2>1, <2>2 DEF Peek
    <2>4. talked' = IF row.state \in COUNTING THEN talked + 1 ELSE talked
      BY <1>0, <2>3
    <2>5. PICK rs : rs = e.runtime
      OBVIOUS
    <2>6. rs.activeMs \in Nat /\ rs.activeSince \in Nat \cup {Null}
          /\ (rs.activeSince # Null => rs.activeSince <= now)
      BY <2>2, <2>5, FleetAssumption DEF Clocked, RuntimeState, Time
    <2>7. Sum(rs)' = IF rs.activeSince = Null THEN Sum(rs) ELSE Sum(rs) + 1
      BY <1>0, <2>6 DEF Sum
    <2>8. Sum(rs) \in Nat
      BY <1>0, <2>6 DEF Sum
    <2>9. /\ Sum(rs) <= talked /\ (rs.activeSince # Null => row.state \in COUNTING)
          /\ faults = 0 => Sum(rs) = talked /\ (row.state \in COUNTING => rs.activeSince # Null)
      BY <2>2, <2>5 DEF Fine, Counts
    <2>10. /\ Sum(rs)' <= talked'
           /\ faults = 0 => Sum(rs)' = talked'
      <3>1. CASE rs.activeSince = Null
        BY <1>0, <2>4, <2>7, <2>8, <2>9, <3>1
      <3>2. CASE rs.activeSince # Null
        BY <1>0, <2>4, <2>7, <2>8, <2>9, <3>2
      <3> QED
        BY <3>1, <3>2
    <2>11. Sum(e.runtime)' = Sum(rs)'
      BY <2>5
    <2>12. Counts(e)'
      BY <1>0, <2>2, <2>5, <2>9, <2>10, <2>11 DEF Counts, Going
    <2>13. Agrees(e)' /\ (faults = 0 => Remembers(e)')
      BY <1>0, <2>2 DEF Fine, Agrees, Remembers, Going
    <2>14. Fine(e)'
      BY <1>0, <2>12, <2>13 DEF Fine
    <2> QED
      BY <1>0, <2>1, <2>14
  <1>4. \A p \in Proc : (IF Present(p) THEN Fine(eng[p]) ELSE faults = 0 => row.state \in Unstarted)'
    BY <1>0, <1>3 DEF Books, Present
  <1>5. Books'
    BY <1>2, <1>4 DEF Books
  <1> QED
    BY <1>0, <1>5 DEF Ledger

\* Nothing is added to an ended session or taken from it.
LEMMA PaidStays ==
  ASSUME TypeInv, IsTerminal(row.state), Paid, [FleetNext]_fleetVars
  PROVE  IsTerminal(row.state)' /\ Paid'
  <1>0. /\ row.state \notin COUNTING /\ row.state \notin Unstarted \cup {"CONNECTING"}
        /\ faults \in Nat
    BY DEF IsTerminal, TerminalStates, COUNTING, Unstarted, TypeInv, WorldOK
  <1> SUFFICES /\ row'.state = row.state /\ row'.duration = row.duration /\ talked' = talked
               /\ faults' = faults \/ faults' = faults + 1
    BY <1>0 DEF Paid
  <1>1. CASE UNCHANGED fleetVars
    BY <1>1 DEF fleetVars
  <1>2. ASSUME NEW p \in Proc, Work(p) PROVE /\ row' = row /\ talked' = talked /\ faults' = faults
    <2>1. ~CasWins(p)
      BY TableFacts DEF CasWins, Unmoved
    <2> QED
      BY <1>2, <2>1 DEF Work, RecoverAfterRestart, TransitionRefused, CasLoses, LoserReloads,
            WinnerReloads, RecordSeconds, EmitTerminal, Only, KeepRow, KeepWorld
  <1>3. ASSUME NEW p \in Proc, Timers(p) \/ Request(p)
        PROVE /\ row' = row /\ talked' = talked /\ faults' = faults
    BY <1>0, <1>3 DEF Timers, TimedOut, CloseFinished, Request, Load, Attach, Detach, RecordConsent,
          Start, Pause, Resume, Close, Fail, SwitchRealtimeProvider, ApiCancel, Only, KeepRow, KeepWorld
  <1>4. ASSUME NEW p \in Proc, Sweep(p) \/ Dispose(p) \/ ApiCancelEmits(p) \/ Crash(p) \/ CallFails(p)
        PROVE /\ row' = row /\ talked' = talked
              /\ faults' = faults \/ faults' = faults + 1
    BY <1>4 DEF Sweep, SweepPick, SweepVisit, SweepGivesUp, SweepAbandons, SetSweep, Dispose,
          ApiCancelEmits, Crash, CallFails, Only, KeepRow, KeepWorld
  <1>5. ASSUME NEW p \in Proc, Save(p)
        PROVE /\ row'.state = row.state /\ row'.duration = row.duration
              /\ talked' = talked /\ faults' = faults
    BY <1>5 DEF Save, KeepWorld, TypeInv, WorldOK, Row
  <1>6. CASE GoStale \/ Age \/ Elapse
    BY <1>0, <1>6 DEF GoStale, Age, Elapse, KeepWorld
  <1> QED
    BY <1>1, <1>2, <1>3, <1>4, <1>5, <1>6 DEF FleetNext

LEMMA LedgerInit == ASSUME FleetInit PROVE Ledger
  <1>1. /\ row.state \in Unstarted /\ row.runtime = InitialRuntime
        /\ talked = 0 /\ faults = 0 /\ \A p \in Proc : ~Present(p)
    BY DEF FleetInit, Present
  <1>2. Told(InitialRuntime) = 0 /\ InitialRuntime.activeSince = Null /\ ~InitialRuntime.paused
    BY DEF Told, FoldToHeartbeat, InitialRuntime
  <1>3. RowFine
    BY <1>1, <1>2 DEF RowFine, Unstarted
  <1> QED
    BY <1>1, <1>3 DEF Ledger, Books, IsTerminal, TerminalStates, Unstarted

LEMMA LedgerStep ==
  ASSUME TypeInv, OneWinner, OneReliable, Ledger, [FleetNext]_fleetVars
  PROVE  Ledger'
  <1>1. CASE IsTerminal(row.state)
    BY <1>1, PaidStays DEF Ledger
  <1>2. CASE ~IsTerminal(row.state)
    <2>0. Books
      BY <1>2 DEF Ledger
    <2>1. CASE UNCHANGED fleetVars
      BY <1>2, <2>0, <2>1, StillKept DEF fleetVars
    <2>2. ASSUME NEW p \in Proc, Work(p) PROVE Ledger'
      BY <1>2, <2>0, <2>2, LedgerLoads, LedgerCas, LedgerReloads, NotBehind DEF Work
    <2>3. ASSUME NEW p \in Proc, Timers(p) \/ Request(p) PROVE Ledger'
      BY <1>2, <2>0, <2>3, LedgerTasks, LedgerWrites, LedgerSweep DEF Request
    <2>4. ASSUME NEW p \in Proc,
                 Sweep(p) \/ Save(p) \/ Dispose(p) \/ ApiCancelEmits(p) \/ Crash(p) \/ CallFails(p)
          PROVE  Ledger'
      <3>1. CASE ApiCancelEmits(p)
        BY <1>2, <2>0, <3>1, StillKept DEF ApiCancelEmits
      <3> QED
        BY <1>2, <2>0, <2>4, <3>1, LedgerWrites, LedgerSweep, NotBehind
    <2>5. CASE GoStale \/ Age
      BY <1>2, <2>0, <2>5, StillKept DEF GoStale, Age, KeepWorld
    <2>6. CASE Elapse
      BY <1>2, <2>0, <2>6, LedgerElapse
    <2> QED
      BY <2>1, <2>2, <2>3, <2>4, <2>5, <2>6 DEF FleetNext
  <1> QED
    BY <1>1, <1>2

\* With one process whose database calls succeed, the duration charged is never
\* more than the time talked, whatever dies, and exactly that when nothing does.
THEOREM BillsWhatWasTalked ==
  ASSUME OneReliable
  PROVE  FleetSpec => []BilledAsTalked
  <1>1. TypeInv /\ OneWinner /\ Ledger => BilledAsTalked
    <2>1. ~IsTerminal(row.state) /\ OneWinner => row.duration = 0
      BY DEF OneWinner, BillInv
    <2> QED
      BY <2>1 DEF TypeInv, WorldOK, Ledger, Paid, BilledAsTalked
  <1>2. FleetInit => TypeInv /\ OneWinner /\ Ledger
    BY TypeInit, WinnerInit, LedgerInit
  <1>3. TypeInv /\ OneWinner /\ Ledger /\ [FleetNext]_fleetVars
          => (TypeInv /\ OneWinner /\ Ledger)'
    BY TypeStep, WinnerStep, LedgerStep
  <1> QED
    BY <1>1, <1>2, <1>3, PTL DEF FleetSpec

\* The state of the row moves by a compare-and-set only.
LEMMA RowMoves ==
  ASSUME TypeInv, [FleetNext]_fleetVars, row'.state # row.state
  PROVE  \E p \in Proc : CasWins(p) \/ ApiCancel(p)
  <1>1. CASE UNCHANGED fleetVars
    BY <1>1 DEF fleetVars
  <1>2. ASSUME NEW p \in Proc, Work(p), ~CasWins(p) PROVE FALSE
    BY <1>2 DEF Work, RecoverAfterRestart, TransitionRefused, CasLoses, LoserReloads,
          WinnerReloads, RecordSeconds, EmitTerminal, Only, KeepRow, KeepWorld
  <1>3. ASSUME NEW p \in Proc, Timers(p) \/ Request(p), ~ApiCancel(p) PROVE FALSE
    BY <1>3 DEF Timers, TimedOut, CloseFinished, Request, Load, Attach, Detach, RecordConsent,
          Start, Pause, Resume, Close, Fail, SwitchRealtimeProvider, Only, KeepRow, KeepWorld
  <1>4. ASSUME NEW p \in Proc,
               Sweep(p) \/ Dispose(p) \/ ApiCancelEmits(p) \/ Crash(p) \/ CallFails(p) \/ Save(p)
        PROVE  FALSE
    BY <1>4 DEF Sweep, SweepPick, SweepVisit, SweepGivesUp, SweepAbandons, SetSweep, Dispose,
          ApiCancelEmits, Crash, CallFails, Only, KeepRow, KeepWorld, Save, TypeInv, WorldOK, Row
  <1>5. CASE GoStale \/ Age \/ Elapse
    BY <1>5 DEF GoStale, Age, Elapse, KeepWorld
  <1> QED
    BY <1>1, <1>2, <1>3, <1>4, <1>5 DEF FleetNext

\* Such a process makes a session active again only when its participant had not
\* paused it before the connection was lost.
THEOREM PausesOutlive ==
  ASSUME OneReliable
  PROVE  FleetSpec => PauseOutlives
  <1>1. ASSUME TypeInv, Ledger, [FleetNext]_fleetVars
        PROVE  [row.state = "RECONNECTING" /\ row'.state = "ACTIVE" /\ faults = 0
                  => ~row.runtime.paused]_row
    <2> SUFFICES ASSUME row.state = "RECONNECTING", row'.state = "ACTIVE", faults = 0
                 PROVE  ~row.runtime.paused
      OBVIOUS
    <2>1. PICK p \in Proc : CasWins(p) \/ ApiCancel(p)
      BY <1>1, RowMoves
    <2>2. ~ApiCancel(p)
      BY DEF ApiCancel, Unstarted
    <2>3. PICK e : e = eng[p]
      OBVIOUS
    <2>4. /\ Present(p) /\ e.step = "cas" /\ e.to = "ACTIVE" /\ e.from = "RECONNECTING"
      BY <1>1, <2>1, <2>2, <2>3 DEF CasWins, Unmoved, TypeInv, WorldOK, Row
    <2>5. Remembers(e)
      BY <1>1, <2>3, <2>4 DEF Ledger, Books, Fine, IsTerminal, TerminalStates
    <2>6. e.job = "attach" /\ ~e.wasPaused
      BY <2>4, <2>5 DEF Remembers
    <2> QED
      BY <2>4, <2>5, <2>6 DEF Remembers
  <1>2. FleetInit => TypeInv /\ OneWinner /\ Ledger
    BY TypeInit, WinnerInit, LedgerInit
  <1>3. TypeInv /\ OneWinner /\ Ledger /\ [FleetNext]_fleetVars
          => (TypeInv /\ OneWinner /\ Ledger)'
    BY TypeStep, WinnerStep, LedgerStep
  <1> QED
    BY <1>1, <1>2, <1>3, PTL DEF FleetSpec, PauseOutlives
=============================================================================
