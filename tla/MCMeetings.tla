----------------------------- MODULE MCMeetings ------------------------------
(***************************************************************************)
(* Meetings for TLC, and what the workstream document says of who ends a   *)
(* meeting's session.                                                      *)
(***************************************************************************)
EXTENDS Meetings, TLC

\* docs/workstreams/H-developer-channels.md: "Meeting sessions are passive (no AI
\* speaks), so their lifecycle is driven by `meeting-session.ts`".  The sweeper
\* of the runtime ends one in which nobody has spoken for three minutes, with
\* the bot still in the call.
DrivenByTheMeeting == row.state = "ABANDONED" => call # "in"
=============================================================================
