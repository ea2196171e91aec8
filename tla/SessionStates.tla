--------------------------- MODULE SessionStates ---------------------------
(***************************************************************************)
(* The states of a session and the pairs SESSION_TRANSITIONS allows        *)
(* (shared/session-state.ts); the frontend renders the same table.         *)
(***************************************************************************)
TerminalStates == {"COMPLETED", "FAILED", "CANCELLED", "EXPIRED", "ABANDONED"}

Unstarted == {"CREATED", "READY"}

SessionStates ==
  Unstarted \cup TerminalStates
    \cup {"CONNECTING", "ACTIVE", "PAUSED", "RECONNECTING", "ENDING"}

\* The pairs of SESSION_TRANSITIONS.
SessionTransitions ==
       {"CREATED"} \X {"READY", "CANCELLED", "EXPIRED", "FAILED"}
  \cup {"READY"} \X {"CONNECTING", "CANCELLED", "EXPIRED", "FAILED"}
  \cup {"CONNECTING"} \X {"ACTIVE", "RECONNECTING", "FAILED", "CANCELLED", "ENDING"}
  \cup {"ACTIVE"} \X {"PAUSED", "RECONNECTING", "ENDING", "FAILED"}
  \cup {"PAUSED"} \X {"ACTIVE", "ENDING", "RECONNECTING", "FAILED", "ABANDONED"}
  \cup {"RECONNECTING"} \X {"ACTIVE", "PAUSED", "ENDING", "FAILED", "ABANDONED"}
  \cup {"ENDING"} \X {"COMPLETED", "FAILED"}

IsTerminal(s) == s \in TerminalStates

CanTransition(from, to) == <<from, to>> \in SessionTransitions
=============================================================================
