-------------------------- MODULE SessionLifecycle --------------------------
(***************************************************************************)
(* What the platform promises about one session, whoever drives it: its    *)
(* state moves only along SESSION_TRANSITIONS, a terminal state is final,  *)
(* and the end of the session is announced (session.terminal) at most once *)
(* and only after it happened.  The modules that model the writers of      *)
(* Session.state are shown to implement this specification.                *)
(***************************************************************************)
EXTENDS Naturals, SessionStates

VARIABLES
  state,      \* Session.state
  announced   \* number of session.terminal events emitted

vars == <<state, announced>>

TypeOK ==
  /\ state \in SessionStates
  /\ announced \in 0..1

Init ==
  /\ state \in Unstarted
  /\ announced = 0

Transition(to) ==
  /\ CanTransition(state, to)
  /\ state' = to
  /\ UNCHANGED announced

Announce ==
  /\ IsTerminal(state)
  /\ announced = 0
  /\ announced' = 1
  /\ UNCHANGED state

Next == Announce \/ \E to \in SessionStates : Transition(to)

Spec == Init /\ [][Next]_vars
=============================================================================
