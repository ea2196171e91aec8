--------------------------- MODULE MCCourseProgress ---------------------------
(***************************************************************************)
(* CourseProgress for TLC: something to read and a practice that is        *)
(* scored, or a practice a reviewer marks and something to read.           *)
(***************************************************************************)
EXTENDS CourseProgress, TLC

Practice(rule) == [rule |-> rule, scenario |-> TRUE, required |-> TRUE]
Reading == [rule |-> "viewed", scenario |-> FALSE, required |-> TRUE]

TwoItems == {<<Reading, Practice("min_score")>>, <<Practice("manual"), Reading>>}

\* course-progress.service.ts:10-14 keeps attempts "in sync with sessions" by durable
\* jobs, computed from the rows, "so duplicate or out-of-order events are harmless": at
\* rest every failure would be what the rows say.
InSync == AtRest => \A a \in Attempt : attempt[a].status = "FAILED" => Decision(a) = "FAILED"

\* The handlers are alike.
Handlers == Permutations(Handler)
=============================================================================
