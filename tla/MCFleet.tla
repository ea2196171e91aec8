------------------------------ MODULE MCFleet -------------------------------
(***************************************************************************)
(* EngineFleet for TLC: the liveness properties, and what comments and the *)
(* workstream documents say of sessions that the code does not keep.  The  *)
(* constants are in the .cfg files: FleetSingle is the default deployment  *)
(* (one API process that also runs the sweeper), FleetProd that of         *)
(* docker-compose.prod.yml (the sweeper runs in a separate worker).        *)
(***************************************************************************)
EXTENDS EngineFleet

\* A participant's connection is attached to an engine somewhere.
Attended == \E p \in Proc : Peek(p) /\ eng[p].conn

\* Once participants stay away for good, a session that had started reaches a
\* final state: by the grace period, the pause limit, the closing timer, or the
\* sweeper when the process that ran it died.  One that is closing ends whoever
\* is connected, also when its process dies after the closing words.
EventuallyFinal ==
  /\ <>[]~Attended => <>[](IsTerminal(row.state) \/ row.state \in Unstarted)
  /\ row.state = "ENDING" ~> IsTerminal(row.state)

\* As long as no process dies, the end of every session is announced: by the
\* engine or the cancel call that ended it.
AnnouncedUnlessCrash == IsTerminal(row.state) ~> announced = 1 \/ faults > 0

-----------------------------------------------------------------------------
(* Said of the program, and not so *)

\* docs/workstreams/B-runtime.md: the sweeper "expires CREATED/READY older than
\* 24 h".  sweep() skips a session whose engine is in its process, and that
\* engine has no timer for a session that was never started.
UnstartedExpires == <>[]~Attended => <>(row.state \notin Unstarted)

\* docs/workstreams/B-runtime.md: `session.started` is emitted at the "first
\* ACTIVE"; startedAt is written with it.  A process that dies between the two
\* transitions of onStart leaves CONNECTING, which a reconnection makes ACTIVE
\* without either.
ActiveWasStarted == row.state = "ACTIVE" => row.started

\* session-engine.ts: the engine "persists everything needed to rebuild itself
\* from the database".  Whether the participant had paused before the connection
\* was lost is kept in memory only.
PauseSurvivesRestart ==
  [][row.state = "RECONNECTING" /\ row'.state = "ACTIVE" => ~row.runtime.paused]_row
=============================================================================
