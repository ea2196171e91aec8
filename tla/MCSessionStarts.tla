--------------------------- MODULE MCSessionStarts ---------------------------
(***************************************************************************)
(* SessionStarts for TLC.                                                  *)
(***************************************************************************)
EXTENDS SessionStarts, TLC

\* The requests are alike.
Requests == Permutations(Request)
=============================================================================
