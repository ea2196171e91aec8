--------------------------- MODULE MCConversation ---------------------------
(***************************************************************************)
(* Conversation for TLC, and what the workstream document says of a        *)
(* disconnection.                                                          *)
(***************************************************************************)
EXTENDS Conversation

\* docs/workstreams/B-runtime.md: "on resume an unanswered participant turn is
\* answered".  needsResponse() looks at the last turn only; the interrupted text
\* of a superseded reply is written after the turn that superseded it.
AnsweredOnResume ==
  engine.st = "ACTIVE" /\ engine.connected /\ Resting =>
    \A j \in DOMAIN engine.turns : engine.turns[j].who = "participant" =>
      \E i \in DOMAIN engine.turns :
        /\ engine.turns[i].reply # 0
        /\ j <= engine.reply[engine.turns[i].reply].seen
=============================================================================
