----------------------------- MODULE MCLiveLink -----------------------------
(***************************************************************************)
(* LiveLink for TLC, and what comments and documents say of it that does   *)
(* not hold.                                                               *)
(***************************************************************************)
EXTENDS LiveLink, TLC

\* The tabs are alike, in a configuration with several.
TabsAlike == Permutations(Tabs)

\* connection.ts: durable messages are those "that must not be lost across a
\* reconnect".  They are queued while disconnected; one sent into a socket that is
\* already dead, or before attach() has returned, is not sent again.
DurablesNotLost ==
  Rest => \A n \in DOMAIN history.sent :
            tab[history.sent[n].tab].welcomed => n \in Member(history.handled)

\* docs/workstreams/B-runtime.md: "a newer `hello` sends `error{code:'superseded'}`
\* to the old socket".  The order is that of attach(), after the token was checked:
\* a tab that reconnects in the meantime is closed by its own older hello.
NewerSupersedes ==
  \A s \in Sockets : socket[s].code = "superseded" =>
    \E later \in Sockets : later > s /\ socket[later].phase \in {"queued", "ready"}

\* connection.ts: "at-least-once delivery of committed participant turns".  A turn
\* turned away (the session was paused, or attach() had not returned) is sent again
\* only after the next welcome, which a connection that stays up never brings.
AtLeastOnce == Rest => \A t \in Tabs : tab[t].welcomed => tab[t].pending = << >>
=============================================================================
