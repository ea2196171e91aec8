----------------------- MODULE CourseProgress_proofs ------------------------
(***************************************************************************)
(* For any courses, any number of handlers, attempts, generations,         *)
(* evaluations and deaths: a completed course is earned, items are taken   *)
(* in order, and when nothing is in progress every judgement and every     *)
(* completion that was due has been made.                                  *)
(***************************************************************************)
EXTENDS CourseProgress, WellFoundedInduction, TLAPS

-----------------------------------------------------------------------------
(* The inductive invariant *)

Kinds == {"none", "start", "complete", "mark", "over", "drop", "job", "open"}
Steps == {"idle", "enroll", "check", "create", "session", "delete", "mark", "over", "drop",
          "load", "judge", "write", "fresh", "count", "cas"}
Enrollments == {"NONE", "ACTIVE", "COMPLETED", "DROPPED"}
Outcomes == {"none", "STARTED", "COMPLETED", "FAILED"}

Task == [kind : Kinds, step : Steps, item : Item \cup {0}, gen : Nat, on : Nat,
         got : Enrollments \cup Outcomes, todo : SUBSET Attempt]
Row == [item : Item \cup {0}, gen : Nat, status : Outcomes, linked : BOOLEAN, learner : BOOLEAN]

World ==
  /\ enrollment \in [status : Enrollments, generation : Nat]
  /\ attempt \in [Attempt -> Row] /\ made \in Nat /\ erased \in BOOLEAN

\* What a task has found out, and will act on.
TaskInv(t) ==
  /\ t \in Task
  /\ t.step \in {"load", "judge", "write"} => t.got \in Outcomes
  /\ t.step = "create" /\ t.kind # "mark" /\ ~erased => ~Locked(t.item, t.gen)
  /\ t.step = "cas" /\ ~erased => Complete(t.gen)

\* Rows are created one after another; a learner's item was unlocked.
RowInv(a) ==
  attempt[a].status # "none" =>
    /\ a <= made
    /\ attempt[a].learner /\ ~erased => ~Locked(attempt[a].item, attempt[a].gen)

Base ==
  /\ World /\ task \in [Handler -> Task]
  /\ \A a \in Attempt : RowInv(a)
  /\ \A h \in Handler : TaskInv(task[h])

Inv == Base /\ CompletedIsEarned

-----------------------------------------------------------------------------
(* What is done stays done *)

\* No step takes a completed attempt away, unless it says so.
Forward ==
  /\ course' = course
  /\ erased => erased'
  /\ \A a \in Attempt : attempt[a].status = "COMPLETED" /\ ~erased' =>
       /\ attempt'[a].status = "COMPLETED"
       /\ attempt'[a].item = attempt[a].item /\ attempt'[a].gen = attempt[a].gen

LEMMA DoneStays ==
  ASSUME Forward, ~erased', NEW i, NEW g, Done(i, g)
  PROVE  Done(i, g)'
  <1>1. PICK a \in Attempt :
          attempt[a].status = "COMPLETED" /\ attempt[a].item = i /\ attempt[a].gen = g
    BY DEF Done, Rows
  <1>2. attempt'[a].status = "COMPLETED" /\ attempt'[a].item = i /\ attempt'[a].gen = g
    BY <1>1 DEF Forward
  <1>3. Attempt' = Attempt
    BY DEF Attempt
  <1>4. a \in Rows(i, g)'
    BY <1>1, <1>2, <1>3 DEF Rows
  <1> QED
    BY <1>2, <1>4 DEF Done

LEMMA CompleteStays ==
  ASSUME Forward, ~erased', NEW g, Complete(g)
  PROVE  Complete(g)'
  <1>1. Counted' = Counted
    BY DEF Counted, Item, Forward
  <1>2. \A i : Done(i, g) => Done(i, g)'
    BY DoneStays
  <1> QED
    BY <1>1, <1>2 DEF Complete

LEMMA UnlockedStays ==
  ASSUME Forward, ~erased', NEW i, NEW g, ~Locked(i, g)
  PROVE  ~Locked(i, g)'
  <1>1. course' = course
    BY DEF Forward
  <1>2. \A j : Done(j, g) => Done(j, g)'
    BY DoneStays
  <1> QED
    BY <1>1, <1>2 DEF Locked, Item

\* A task that does nothing keeps what it knows.
LEMMA TaskStays ==
  ASSUME Forward, NEW t, TaskInv(t)
  PROVE  TaskInv(t)'
  <1>1. t \in Task' /\ (t.step \in {"load", "judge", "write"} => t.got \in Outcomes)
    BY DEF TaskInv, Task, Item, Attempt, Forward
  <1>2. t.step = "create" /\ t.kind # "mark" /\ ~erased' => ~Locked(t.item, t.gen)'
    BY UnlockedStays DEF TaskInv, Forward
  <1>3. t.step = "cas" /\ ~erased' => Complete(t.gen)'
    BY CompleteStays DEF TaskInv, Forward
  <1> QED
    BY <1>1, <1>2, <1>3 DEF TaskInv

\* A row that is what it was, or gone.
Kept(a) ==
  attempt'[a].status # "none" =>
    /\ attempt[a].status # "none" /\ attempt'[a].learner = attempt[a].learner
    /\ attempt'[a].item = attempt[a].item /\ attempt'[a].gen = attempt[a].gen

LEMMA RowStays ==
  ASSUME Base, Forward, made' \in Nat, made' >= made, NEW a \in Attempt, Kept(a)
  PROVE  RowInv(a)'
  <1>1. attempt'[a].status # "none" => a <= made'
    BY CourseAssumption DEF Base, World, RowInv, Kept, Attempt
  <1>2. PICK i, g : i = attempt[a].item /\ g = attempt[a].gen
    OBVIOUS
  <1>3. attempt[a].status # "none" /\ attempt[a].learner /\ ~erased' => ~Locked(i, g)'
    BY <1>2, UnlockedStays DEF Base, RowInv, Forward
  <1>4. attempt'[a].status # "none" /\ attempt'[a].learner /\ ~erased' => ~Locked(attempt[a].item, attempt[a].gen)'
    BY <1>2, <1>3 DEF Kept
  <1> QED
    BY <1>1, <1>4 DEF RowInv

\* The course stays earned.
LEMMA EarnedStays ==
  ASSUME CompletedIsEarned, Forward,
         enrollment'.status = "COMPLETED" => enrollment' = enrollment
  PROVE  CompletedIsEarned'
  BY CompleteStays DEF CompletedIsEarned, Forward

-----------------------------------------------------------------------------
(* Steps that leave the attempts alone *)

Kept0 == <<course, attempt, made, erased>>

\* Such a step has to answer for its own task and for the enrollment only.
LEMMA Quietly ==
  ASSUME Inv, UNCHANGED Kept0, enrollment' \in [status : Enrollments, generation : Nat],
         NEW h \in Handler, NEW t, TaskInv(t), task' = [task EXCEPT ![h] = t],
         enrollment'.status = "COMPLETED" => enrollment' = enrollment
  PROVE  Inv'
  <1>1. Forward
    BY DEF Kept0, Forward
  <1>2. World'
    BY DEF Inv, Base, Kept0, World, Row, Item, Attempt
  <1>3. task' \in [Handler -> Task]' /\ \A k \in Handler : TaskInv(task[k])'
    <2>1. \A k \in Handler : TaskInv(task'[k])
      BY DEF Inv, Base
    <2>2. \A k \in Handler : TaskInv(task[k])'
      BY <1>1, <2>1, TaskStays
    <2> QED
      BY <2>2 DEF TaskInv, Inv, Base
  <1>4. ASSUME NEW a \in Attempt PROVE RowInv(a)'
    BY <1>1, RowStays DEF Kept0, Kept, Inv, Base, World
  <1>5. CompletedIsEarned'
    BY <1>1, EarnedStays DEF Inv
  <1> QED
    BY <1>2, <1>3, <1>4, <1>5 DEF Inv, Base, Attempt

\* The tasks that handlers leave behind.
LEMMA IdleInv == TaskInv(Idle) /\ Idle \in Task
  BY DEF TaskInv, Task, Idle, Kinds, Steps, Outcomes, Enrollments

LEMMA RestInv ==
  ASSUME NEW t, TaskInv(t)
  PROVE  TaskInv(Rest(t))
  <1>1. CASE t.todo = {}
    BY <1>1, IdleInv DEF Rest
  <1>2. CASE t.todo # {}
    <2>1. Rest(t) = [kind |-> t.kind, step |-> "load", item |-> 0, gen |-> 0, on |-> 0,
                     got |-> "none", todo |-> t.todo]
      BY <1>2 DEF Rest, Idle
    <2>2. t.kind \in Kinds /\ t.todo \in SUBSET Attempt
      BY DEF TaskInv, Task
    <2> QED
      BY <2>1, <2>2 DEF TaskInv, Task, Steps, Outcomes, Enrollments
  <1> QED
    BY <1>1, <1>2

LEMMA ThenInv ==
  ASSUME NEW t \in Task, NEW step \in {"fresh", "mark", "session"}
  PROVE  /\ TaskInv(Then(t, step)) /\ Then(t, step) \in Task
         /\ Then(t, step).step = step
  <1>1. Idle \in Task
    BY IdleInv
  <1> HIDE DEF Idle
  <1>2. Then(t, step) \in Task /\ Then(t, step).step = step
    BY <1>1 DEF Then, Task, Steps
  <1> QED
    BY <1>2 DEF TaskInv

LEMMA RefreshInv ==
  ASSUME NEW t \in Task
  PROVE  TaskInv(Refresh(t))
  <1>1. Then(t, "fresh") \in Task /\ Then(t, "fresh").step = "fresh"
    BY ThenInv
  <1>2. Refresh(t) \in Task /\ Refresh(t).step = "fresh"
    BY <1>1 DEF Refresh, Task
  <1> QED
    BY <1>2 DEF TaskInv

\* Attempts are numbers: a set of them that is not empty has a last one.
LEMMA Latest ==
  ASSUME NEW S \in SUBSET Attempt, S # {}
  PROVE  (CHOOSE a \in S : \A b \in S : b <= a) \in S
  <1> DEFINE T == {MaxAttempts - a : a \in S}
  <1>1. T \in SUBSET Nat /\ T # {}
    <2>1. \A a \in S : MaxAttempts - a \in Nat
      BY CourseAssumption DEF Attempt
    <2> QED
      BY <2>1
  <1>2. PICK x \in T : \A y \in T : ~(<<y, x>> \in OpToRel(<, Nat))
    BY <1>1, WFMin, NatLessThanWellFounded
  <1>3. \A y \in T : ~(y < x)
    BY <1>1, <1>2, Zenon DEF OpToRel
  <1>4. PICK a \in S : x = MaxAttempts - a
    OBVIOUS
  <1>5. ASSUME NEW b \in S PROVE b <= a
    <2>1. MaxAttempts - b \in T /\ ~(MaxAttempts - b < x)
      BY <1>3
    <2> QED
      BY <1>4, <2>1, CourseAssumption DEF Attempt
  <1> QED
    BY <1>5

\* Requests that begin: visits, a reviewer's mark, starting over, leaving.
LEMMA Begins ==
  ASSUME Inv, NEW h \in Handler, NEW kind \in {"start", "complete", "over", "drop"},
         \/ \E i \in Item : Visit(h, kind, i) \/ Mark(h, i)
         \/ kind \in {"over", "drop"} /\ Call(h, kind)
  PROVE  Inv'
  <1>1. enrollment \in [status : Enrollments, generation : Nat] /\ Idle \in Task
    BY IdleInv DEF Inv, Base, World
  <1>2. ASSUME NEW u \in Task, u.step \in {"enroll", "check", "over", "drop"},
               Becomes(h, u), UNCHANGED <<Kept0, enrollment>>
        PROVE  Inv'
    <2>1. TaskInv(u)
      BY <1>2 DEF TaskInv
    <2> QED
      BY <1>1, <1>2, <2>1, Quietly DEF Becomes
  <1>3. ASSUME NEW i \in Item, Visit(h, kind, i) PROVE Inv'
    <2> DEFINE u == [Idle EXCEPT !.kind = kind, !.item = i, !.gen = enrollment.generation,
                             !.got = IF Enrolled THEN "none" ELSE enrollment.status,
                             !.step = IF Enrolled THEN "check" ELSE "enroll"]
    <2>1. u \in Task /\ u.step \in {"enroll", "check"}
      <3>1. CASE Enrolled
        BY <1>1, <3>1 DEF Task, Kinds, Steps, Outcomes
      <3>2. CASE ~Enrolled
        BY <1>1, <3>2 DEF Task, Kinds, Steps, Outcomes
      <3> QED
        BY <3>1, <3>2
    <2>2. Becomes(h, u) /\ UNCHANGED <<Kept0, enrollment>>
      BY <1>3 DEF Visit, Kept0, history
    <2> HIDE DEF u
    <2> QED
      BY <1>2, <2>1, <2>2
  <1>4. ASSUME NEW i \in Item, Mark(h, i) PROVE Inv'
    <2> DEFINE u == [Idle EXCEPT !.kind = "mark", !.item = i, !.gen = enrollment.generation, !.step = "check"]
    <2>1. u \in Task /\ u.step = "check"
      BY <1>1 DEF Task, Kinds, Steps
    <2>2. Becomes(h, u) /\ UNCHANGED <<Kept0, enrollment>>
      BY <1>4 DEF Mark, Kept0, history
    <2> HIDE DEF u
    <2> QED
      BY <1>2, <2>1, <2>2
  <1>5. CASE kind \in {"over", "drop"} /\ Call(h, kind)
    <2> DEFINE u == [Idle EXCEPT !.kind = kind, !.step = kind]
    <2>1. u \in Task /\ u.step = kind
      BY <1>1, <1>5 DEF Task, Kinds, Steps
    <2>2. Becomes(h, u) /\ UNCHANGED <<Kept0, enrollment>>
      BY <1>5 DEF Call, Kept0, history
    <2> HIDE DEF u
    <2> QED
      BY <1>2, <1>5, <2>1, <2>2
  <1> QED
    BY <1>3, <1>4, <1>5

\* A step that ends, and leaves enrollment as it was or not completed.
LEMMA EndsWell ==
  ASSUME Inv, UNCHANGED Kept0, enrollment' \in [status : Enrollments, generation : Nat],
         enrollment'.status = "COMPLETED" => enrollment' = enrollment,
         NEW h \in Handler, Ends(h)
  PROVE  Inv'
  <1>1. TaskInv(Rest(task[h]))
    BY RestInv DEF Inv, Base
  <1> QED
    BY <1>1, Quietly DEF Ends, Becomes

\* Enrolling, starting over and leaving.
LEMMA Enrolls ==
  ASSUME Inv, NEW h \in Handler, Enroll(h) \/ StartOver(h) \/ Unenroll(h)
  PROVE  Inv'
  <1>1. enrollment \in [status : Enrollments, generation : Nat] /\ TaskInv(task[h]) /\ task[h] \in Task
    BY DEF Inv, Base, World
  <1>2. CASE Enroll(h)
    <2>1. UNCHANGED Kept0
      BY <1>2 DEF Enroll, Kept0, history
    <2>2. /\ enrollment' \in [status : Enrollments, generation : Nat]
          /\ enrollment'.status = "COMPLETED" => enrollment' = enrollment
      BY <1>1, <1>2 DEF Enroll, Enrollments
    <2> DEFINE t == [task[h] EXCEPT !.step = "check", !.got = "none", !.gen = enrollment'.generation]
    <2>3. task' = [task EXCEPT ![h] = t]
      BY <1>2 DEF Enroll, Becomes
    <2>4. TaskInv(t)
      BY <1>1, <2>2 DEF TaskInv, Task, Steps, Outcomes
    <2> HIDE DEF t
    <2> QED
      BY <2>1, <2>2, <2>3, <2>4, Quietly
  <1>3. CASE StartOver(h)
    <2>1. UNCHANGED Kept0 /\ Ends(h)
      BY <1>3 DEF StartOver, Kept0, history
    <2>2. /\ enrollment' \in [status : Enrollments, generation : Nat]
          /\ enrollment'.status = "COMPLETED" => enrollment' = enrollment
      BY <1>1, <1>3 DEF StartOver, Enrollments
    <2> QED
      BY <2>1, <2>2, EndsWell
  <1>4. CASE Unenroll(h)
    <2>1. UNCHANGED Kept0 /\ Ends(h)
      BY <1>4 DEF Unenroll, Kept0, history
    <2>2. /\ enrollment' \in [status : Enrollments, generation : Nat]
          /\ enrollment'.status = "COMPLETED" => enrollment' = enrollment
      BY <1>1, <1>4 DEF Unenroll, Enrollments
    <2> QED
      BY <2>1, <2>2, EndsWell
  <1> QED
    BY <1>2, <1>3, <1>4

\* The attempts are read: a learner goes on with an unlocked item only.
LEMMA Checks ==
  ASSUME Inv, NEW h \in Handler, Check(h)
  PROVE  Inv'
  <1> DEFINE t == task[h]
             mine == Rows(t.item, t.gen)
             last == CHOOSE a \in mine : \A b \in mine : b <= a
  <1>1. /\ enrollment \in [status : Enrollments, generation : Nat]
        /\ TaskInv(t) /\ t \in Task
    BY DEF Inv, Base, World
  <1>2. UNCHANGED <<Kept0, enrollment>>
    BY DEF Check, Kept0, history
  <1>3. ASSUME NEW u, TaskInv(u), Becomes(h, u) PROVE Inv'
    BY <1>1, <1>2, <1>3, Quietly DEF Becomes
  <1>4. CASE t.kind # "mark" /\ Locked(t.item, t.gen)
    <2>1. Ends(h)
      BY <1>4 DEF Check
    <2> QED
      BY <1>1, <1>2, <2>1, EndsWell
  <1>5. CASE t.kind # "start" /\ Done(t.item, t.gen) /\ ~(t.kind # "mark" /\ Locked(t.item, t.gen))
    <2>1. Becomes(h, Refresh(t))
      BY <1>5 DEF Check
    <2> QED
      BY <1>1, <1>3, <2>1, RefreshInv
  <1>6. CASE t.kind = "mark" /\ mine # {} /\ ~Done(t.item, t.gen)
    <2>1. Becomes(h, Then([t EXCEPT !.on = last], "mark"))
      BY <1>6 DEF Check
    <2>2. last \in Attempt
      BY <1>6, Latest DEF Rows
    <2>3. [t EXCEPT !.on = last] \in Task
      <3> HIDE DEF last
      <3> QED
        BY <1>1, <2>2, CourseAssumption DEF Task, Attempt
    <2>4. TaskInv(Then([t EXCEPT !.on = last], "mark"))
      BY <2>3, ThenInv
    <2> HIDE DEF last
    <2> QED
      BY <1>3, <2>1, <2>4
  <1>7. CASE /\ ~(t.kind # "mark" /\ Locked(t.item, t.gen))
             /\ ~(t.kind # "start" /\ Done(t.item, t.gen))
             /\ ~(t.kind = "mark" /\ mine # {})
    <2>1. Becomes(h, [t EXCEPT !.step = "create"])
      BY <1>7 DEF Check, Goes
    <2>2. TaskInv([t EXCEPT !.step = "create"])
      BY <1>1, <1>7 DEF TaskInv, Task, Steps
    <2> QED
      BY <1>3, <2>1, <2>2
  <1> QED
    BY <1>4, <1>5, <1>6, <1>7

\* Attempts are loaded and judged; progress is counted.
LEMMA Reads ==
  ASSUME Inv, NEW h \in Handler,
         TakeJob(h) \/ Open(h) \/ Load(h) \/ Judge(h) \/ Fresh(h) \/ Count(h) \/ Crash(h)
  PROVE  Inv'
  <1> DEFINE t == task[h]
  <1>1. /\ enrollment \in [status : Enrollments, generation : Nat]
        /\ TaskInv(t) /\ t \in Task
    BY DEF Inv, Base, World
  <1>2. UNCHANGED <<Kept0, enrollment>>
    BY DEF TakeJob, Open, TakesUp, Load, Judge, Fresh, Count, Crash, Kept0, history
  <1>3. ASSUME NEW u, TaskInv(u), Becomes(h, u) PROVE Inv'
    BY <1>1, <1>2, <1>3, Quietly DEF Becomes
  <1>4. CASE Ends(h)
    BY <1>1, <1>2, <1>4, EndsWell
  <1>5. ASSUME NEW k \in {"job", "open"}, NEW S \in SUBSET Attempt,
               Becomes(h, [Idle EXCEPT !.kind = k, !.step = "load", !.todo = S])
        PROVE  Inv'
    <2>1. TaskInv([Idle EXCEPT !.kind = k, !.step = "load", !.todo = S])
      BY DEF TaskInv, Task, Idle, Kinds, Steps, Outcomes, Enrollments
    <2> QED
      BY <1>3, <1>5, <2>1
  <1>6. CASE TakeJob(h)
    <2>1. PICK a \in Attempt : Becomes(h, Job(a))
      BY <1>6 DEF TakeJob
    <2> QED
      BY <1>5, <2>1 DEF Job
  <1>7. CASE Open(h)
    <2>1. Waiting \in SUBSET Attempt
      BY DEF Waiting
    <2> QED
      BY <1>5, <1>7, <2>1 DEF Open
  <1>8. CASE Load(h)
    <2>1. PICK a \in t.todo : LET u == [t EXCEPT !.todo = @ \ {a}, !.on = a,
                                                 !.gen = IF enrollment.status = "DROPPED" THEN 0 ELSE 1]
                              IN  Becomes(h, Refresh(u)) \/ Becomes(h, [u EXCEPT !.step = "judge"])
                                  \/ Becomes(h, Rest(u))
      BY <1>8 DEF Load
    <2> DEFINE u == [t EXCEPT !.todo = @ \ {a}, !.on = a,
                              !.gen = IF enrollment.status = "DROPPED" THEN 0 ELSE 1]
    <2>2. t.step = "load"
      BY <1>8 DEF Load
    <2>3. a \in Nat
      BY <1>1, CourseAssumption DEF Task, Attempt
    <2>4. /\ u \in Task /\ u.step = "load" /\ u.got = t.got
      BY <1>1, <2>2, <2>3 DEF Task
    <2>5. Becomes(h, Refresh(u)) \/ Becomes(h, [u EXCEPT !.step = "judge"]) \/ Becomes(h, Rest(u))
      BY <2>1
    <2> HIDE DEF u
    <2>6. TaskInv(u)
      BY <1>1, <2>2, <2>4 DEF TaskInv
    <2>7. TaskInv([u EXCEPT !.step = "judge"])
      BY <2>4, <2>6 DEF TaskInv, Task, Steps
    <2> QED
      BY <1>3, <2>4, <2>5, <2>6, <2>7, RefreshInv, RestInv
  <1>9. CASE Judge(h)
    <2>1. \E d \in Outcomes : Becomes(h, [t EXCEPT !.step = "write", !.got = d])
      <3>1. CASE attempt[t.on].status = "none"
        <4>1. Becomes(h, [t EXCEPT !.step = "write"]) /\ t.got \in Outcomes
          BY <1>1, <1>9, <3>1 DEF Judge, TaskInv
        <4>2. [t EXCEPT !.step = "write"] = [t EXCEPT !.step = "write", !.got = t.got]
          BY <1>1 DEF Task
        <4> QED
          BY <4>1, <4>2
      <3>2. CASE attempt[t.on].status # "none"
        <4>1. Decision(t.on) \in Outcomes
          BY DEF Decision, Outcomes
        <4> QED
          BY <1>9, <3>2, <4>1 DEF Judge
      <3> QED
        BY <3>1, <3>2
    <2>2. PICK d \in Outcomes : Becomes(h, [t EXCEPT !.step = "write", !.got = d])
      BY <2>1
    <2>3. TaskInv([t EXCEPT !.step = "write", !.got = d])
      BY <1>1 DEF TaskInv, Task, Steps
    <2> QED
      BY <1>3, <2>2, <2>3
  <1>10. CASE Fresh(h)
    <2>1. CASE enrollment.status = "DROPPED"
      BY <1>4, <1>10, <2>1 DEF Fresh
    <2>2. CASE enrollment.status # "DROPPED"
      <3> DEFINE u == [t EXCEPT !.step = "count", !.gen = enrollment.generation, !.got = enrollment.status]
      <3>1. Becomes(h, u)
        BY <1>10, <2>2 DEF Fresh
      <3>2. TaskInv(u)
        BY <1>1 DEF TaskInv, Task, Steps
      <3> QED
        BY <1>3, <3>1, <3>2
    <2> QED
      BY <2>1, <2>2
  <1>11. CASE Count(h)
    <2>1. CASE Complete(t.gen) /\ t.got # "COMPLETED"
      <3>1. Becomes(h, [t EXCEPT !.step = "cas"])
        BY <1>11, <2>1 DEF Count, Goes
      <3>2. TaskInv([t EXCEPT !.step = "cas"])
        BY <1>1, <2>1 DEF TaskInv, Task, Steps
      <3> QED
        BY <1>3, <3>1, <3>2
    <2>2. CASE ~(Complete(t.gen) /\ t.got # "COMPLETED")
      BY <1>4, <1>11, <2>2 DEF Count
    <2> QED
      BY <2>1, <2>2
  <1>12. CASE Crash(h)
    BY <1>3, <1>12, IdleInv DEF Crash
  <1> QED
    BY <1>6, <1>7, <1>8, <1>9, <1>10, <1>11, <1>12

\* The update names the generation that was counted.
LEMMA Completes ==
  ASSUME Inv, NEW h \in Handler, CompleteEnrollment(h)
  PROVE  Inv'
  <1>1. /\ UNCHANGED Kept0 /\ Ends(h) /\ task[h].step = "cas"
        /\ enrollment \in [status : Enrollments, generation : Nat] /\ TaskInv(task[h])
    BY DEF CompleteEnrollment, Kept0, history, Inv, Base, World
  <1>2. CASE enrollment # [status |-> "ACTIVE", generation |-> task[h].gen]
    BY <1>1, <1>2, EndsWell DEF CompleteEnrollment
  <1>3. CASE enrollment = [status |-> "ACTIVE", generation |-> task[h].gen]
    <2>1. /\ enrollment' \in [status : Enrollments, generation : Nat]
          /\ enrollment'.generation = task[h].gen
      BY <1>1, <1>3 DEF CompleteEnrollment, Enrollments
    <2>2. Forward
      BY <1>1 DEF Kept0, Forward
    <2>3. PICK g : g = task[h].gen
      OBVIOUS
    <2>4. CompletedIsEarned'
      <3>1. ~erased' => Complete(g)'
        BY <1>1, <2>2, <2>3, CompleteStays DEF TaskInv, Forward
      <3> QED
        BY <2>1, <2>3, <3>1 DEF CompletedIsEarned
    <2>5. TaskInv(Rest(task[h]))
      BY <1>1, RestInv
    <2>6. task' \in [Handler -> Task]' /\ \A k \in Handler : TaskInv(task[k])'
      <3>1. \A k \in Handler : TaskInv(task'[k])
        BY <1>1, <2>5 DEF Inv, Base, Ends, Becomes
      <3>2. \A k \in Handler : TaskInv(task[k])'
        BY <2>2, <3>1, TaskStays
      <3> QED
        BY <1>1, <3>2 DEF TaskInv, Inv, Base, Ends, Becomes
    <2>7. World'
      BY <1>1, <2>1 DEF Inv, Base, Kept0, World, Row, Item, Attempt
    <2>8. ASSUME NEW a \in Attempt PROVE RowInv(a)'
      BY <1>1, <2>2, RowStays DEF Kept0, Kept, Inv, Base, World
    <2> QED
      BY <2>4, <2>6, <2>7, <2>8 DEF Inv, Base, Attempt
  <1> QED
    BY <1>2, <1>3

-----------------------------------------------------------------------------
(* Steps that change an attempt *)

\* Such a step has to answer for the rows as well.
LEMMA Loudly ==
  ASSUME Inv, Forward, UNCHANGED enrollment, attempt' \in [Attempt -> Row], made' \in Nat, erased' \in BOOLEAN,
         \A a \in Attempt : RowInv(a)',
         NEW h \in Handler, NEW t, TaskInv(t), task' = [task EXCEPT ![h] = t]
  PROVE  Inv'
  <1>1. Item' = Item /\ Attempt' = Attempt /\ Row' = Row
    BY DEF Forward, Item, Attempt, Row
  <1>2. World'
    BY <1>1 DEF Inv, Base, World
  <1>3. task' \in [Handler -> Task]' /\ \A k \in Handler : TaskInv(task[k])'
    <2>1. \A k \in Handler : TaskInv(task'[k])
      BY DEF Inv, Base
    <2>2. \A k \in Handler : TaskInv(task[k])'
      BY <2>1, TaskStays
    <2> QED
      BY <2>2 DEF TaskInv, Inv, Base
  <1>4. CompletedIsEarned'
    BY EarnedStays DEF Inv
  <1> QED
    BY <1>1, <1>2, <1>3, <1>4 DEF Inv, Base

\* A row changes, but not its item, generation and learner, and not from COMPLETED
\* unless the step says so.
LEMMA Rewrites ==
  ASSUME Inv, UNCHANGED <<course, enrollment, made>>, erased' \in BOOLEAN, erased => erased',
         NEW n, NEW r \in Row, attempt' = [attempt EXCEPT ![n] = r],
         n \in Attempt =>
           /\ r.status # "none" => /\ attempt[n].status # "none" /\ r.learner = attempt[n].learner
                                   /\ r.item = attempt[n].item /\ r.gen = attempt[n].gen
           /\ attempt[n].status = "COMPLETED" /\ ~erased' => r.status = "COMPLETED",
         NEW h \in Handler, NEW t, TaskInv(t), task' = [task EXCEPT ![h] = t]
  PROVE  Inv'
  <1>1. attempt \in [Attempt -> Row] /\ made \in Nat /\ Base
    BY DEF Inv, Base, World
  <1>2. attempt' \in [Attempt -> Row] /\ \A a \in Attempt : attempt'[a] = IF a = n THEN r ELSE attempt[a]
    BY <1>1
  <1>3. Forward
    BY <1>2 DEF Forward
  <1>4. ASSUME NEW a \in Attempt PROVE RowInv(a)'
    <2>1. Kept(a)
      BY <1>2 DEF Kept
    <2> QED
      BY <1>1, <1>3, <2>1, RowStays
  <1> QED
    BY <1>1, <1>2, <1>3, <1>4, Loudly

LEMMA Creates ==
  ASSUME Inv, NEW h \in Handler, Create(h)
  PROVE  Inv'
  <1> DEFINE t == task[h]
             r == [item |-> t.item, gen |-> t.gen, linked |-> FALSE, learner |-> t.kind # "mark",
                   status |-> IF t.kind = "start" THEN "STARTED" ELSE "COMPLETED"]
  <1>1. /\ attempt \in [Attempt -> Row] /\ made \in Nat /\ Base /\ erased \in BOOLEAN
        /\ TaskInv(t) /\ t \in Task
    BY DEF Inv, Base, World
  <1>2. /\ t.step = "create" /\ made' = made + 1 /\ attempt' = [attempt EXCEPT ![made + 1] = r]
        /\ UNCHANGED <<course, enrollment, erased>>
    BY DEF Create, history
  <1>3. r \in Row
    <2>1. (t.kind # "mark") \in BOOLEAN
      OBVIOUS
    <2> QED
      BY <1>1, <2>1 DEF Row, Task, Outcomes
  <1>4. /\ r.item = t.item /\ r.gen = t.gen /\ (r.learner => t.kind # "mark")
    OBVIOUS
  <1> HIDE DEF r
  <1>5. attempt' \in [Attempt -> Row] /\ \A a \in Attempt : attempt'[a] = IF a = made + 1 THEN r ELSE attempt[a]
    BY <1>1, <1>2, <1>3
  <1>6. \A a \in Attempt : a = made + 1 => attempt[a].status = "none"
    BY <1>1 DEF Base, RowInv
  <1>7. Forward
    BY <1>2, <1>5, <1>6 DEF Forward
  <1>8. ASSUME NEW a \in Attempt PROVE RowInv(a)'
    <2>1. CASE a # made + 1
      <3>1. Kept(a)
        BY <1>5, <2>1 DEF Kept
      <3> QED
        BY <1>1, <1>2, <1>7, <3>1, RowStays
    <2>2. CASE a = made + 1
      <3>1. attempt'[a] = r /\ a <= made'
        BY <1>1, <1>2, <1>5, <2>2
      <3>2. PICK i, g : i = t.item /\ g = t.gen
        OBVIOUS
      <3>3. r.learner /\ ~erased' => ~Locked(i, g)'
        BY <1>1, <1>2, <1>4, <1>7, <3>2, UnlockedStays DEF TaskInv, Forward
      <3> QED
        BY <1>4, <3>1, <3>2, <3>3 DEF RowInv
    <2> QED
      BY <2>1, <2>2
  <1>9. \E u : TaskInv(u) /\ task' = [task EXCEPT ![h] = u]
    <2>1. CASE t.kind = "start"
      <3>1. [t EXCEPT !.on = made + 1] \in Task
        BY <1>1 DEF Task
      <3>2. TaskInv(Then([t EXCEPT !.on = made + 1], "session"))
        BY <3>1, ThenInv
      <3> QED
        BY <2>1, <3>2 DEF Create, Becomes
    <2>2. CASE t.kind # "start"
      <3>1. TaskInv(Refresh(t))
        BY <1>1, RefreshInv
      <3> QED
        BY <2>2, <3>1 DEF Create, Becomes
    <2> QED
      BY <2>1, <2>2
  <1>10. made' \in Nat /\ erased' \in BOOLEAN
    BY <1>1, <1>2
  <1> QED
    BY <1>2, <1>5, <1>7, <1>8, <1>9, <1>10, Loudly

\* The session of a start, its failure, a reviewer's mark, a decision.
LEMMA Changes ==
  ASSUME Inv, NEW h \in Handler,
         CreateSession(h) \/ Delete(h) \/ MarkAttempt(h) \/ Write(h)
  PROVE  Inv'
  <1> DEFINE t == task[h]
             n == t.on
  <1>1. /\ attempt \in [Attempt -> Row] /\ made \in Nat /\ erased \in BOOLEAN
        /\ TaskInv(t) /\ t \in Task /\ enrollment \in [status : Enrollments, generation : Nat]
    BY DEF Inv, Base, World
  <1>2. UNCHANGED <<course, enrollment, made>>
    BY DEF CreateSession, Delete, MarkAttempt, Write
  <1>3. ASSUME UNCHANGED <<attempt, erased>>, NEW u, TaskInv(u), Becomes(h, u) PROVE Inv'
    BY <1>1, <1>2, <1>3, Quietly DEF Becomes, Kept0
  <1>4. TaskInv(Rest(t)) /\ TaskInv(Refresh(t))
    BY <1>1, RestInv, RefreshInv
  <1>5. ASSUME attempt' = [attempt EXCEPT ![n].status = "COMPLETED"] \/ attempt' = [attempt EXCEPT ![n].linked = TRUE],
               attempt[n].status # "none" \/ attempt' = [attempt EXCEPT ![n].linked = TRUE],
               UNCHANGED erased, NEW u, TaskInv(u), Becomes(h, u)
        PROVE  Inv'
    <2>1. CASE n \notin Attempt
      <3>1. UNCHANGED attempt
        BY <1>1, <1>5, <2>1
      <3> QED
        BY <1>3, <1>5, <3>1
    <2>2. CASE n \in Attempt /\ attempt' = [attempt EXCEPT ![n].linked = TRUE]
      <3> DEFINE r == [attempt[n] EXCEPT !.linked = TRUE]
      <3>1. /\ r \in Row /\ r.status = attempt[n].status /\ r.learner = attempt[n].learner
            /\ r.item = attempt[n].item /\ r.gen = attempt[n].gen
        BY <1>1, <2>2 DEF Row
      <3>2. attempt' = [attempt EXCEPT ![n] = r]
        BY <2>2
      <3> HIDE DEF r
      <3> QED
        BY <1>1, <1>2, <1>5, <2>2, <3>1, <3>2, Rewrites DEF Becomes
    <2>3. CASE n \in Attempt /\ attempt' = [attempt EXCEPT ![n].status = "COMPLETED"] /\ attempt[n].status # "none"
      <3> DEFINE r == [attempt[n] EXCEPT !.status = "COMPLETED"]
      <3>1. /\ r \in Row /\ r.status = "COMPLETED" /\ r.learner = attempt[n].learner
            /\ r.item = attempt[n].item /\ r.gen = attempt[n].gen
        BY <1>1, <2>3 DEF Row, Outcomes
      <3>2. attempt' = [attempt EXCEPT ![n] = r]
        BY <2>3
      <3> HIDE DEF r
      <3> QED
        BY <1>1, <1>2, <1>5, <2>3, <3>1, <3>2, Rewrites DEF Becomes
    <2> QED
      BY <1>5, <2>1, <2>2, <2>3
  <1>6. CASE CreateSession(h)
    <2>1. CASE UNCHANGED <<session, attempt>> /\ Goes(h, "delete")
      <3>1. TaskInv([t EXCEPT !.step = "delete"])
        BY <1>1 DEF TaskInv, Task, Steps
      <3> QED
        BY <1>3, <1>6, <2>1, <3>1 DEF CreateSession, Goes, history
    <2>2. CASE attempt' = [attempt EXCEPT ![n].linked = TRUE] /\ Ends(h)
      BY <1>4, <1>5, <1>6, <2>2 DEF CreateSession, Ends, history
    <2> QED
      BY <1>6, <2>1, <2>2 DEF CreateSession
  <1>7. CASE Delete(h)
    <2>1. CASE UNCHANGED <<attempt, erased>>
      BY <1>3, <1>4, <1>7, <2>1 DEF Delete, Ends
    <2>2. CASE /\ attempt' = [attempt EXCEPT ![n] = NoRow]
               /\ erased' = (erased \/ attempt[n].status = "COMPLETED")
      <3>1. NoRow \in Row /\ NoRow.status = "none"
        BY DEF NoRow, Row, Outcomes
      <3>2. erased' \in BOOLEAN /\ (erased => erased')
        BY <1>1, <2>2
      <3>3. attempt[n].status = "COMPLETED" => erased'
        BY <2>2
      <3>4. task' = [task EXCEPT ![h] = Rest(t)]
        BY <1>7 DEF Delete, Ends, Becomes
      <3> QED
        BY <1>2, <1>4, <2>2, <3>1, <3>2, <3>3, <3>4, Rewrites
    <2> QED
      BY <1>7, <2>1, <2>2 DEF Delete
  <1>8. CASE MarkAttempt(h)
    <2>1. CASE attempt[n].status = "none"
      BY <1>3, <1>4, <1>8, <2>1 DEF MarkAttempt, Ends, history
    <2>2. CASE attempt[n].status # "none"
      BY <1>4, <1>5, <1>8, <2>2 DEF MarkAttempt, history
    <2> QED
      BY <2>1, <2>2
  <1>9. CASE Write(h)
    <2>1. PICK u : TaskInv(u) /\ Becomes(h, u)
      BY <1>4, <1>9 DEF Write
    <2>2. UNCHANGED erased
      BY <1>9 DEF Write, history
    <2>3. CASE attempt[n].status \in {"none", "COMPLETED"} \/ n \notin Attempt
      <3>1. UNCHANGED attempt
        BY <1>1, <1>9, <2>3 DEF Write
      <3> QED
        BY <1>3, <2>1, <2>2, <3>1
    <2>4. CASE attempt[n].status \notin {"none", "COMPLETED"} /\ n \in Attempt
      <3> DEFINE r == [attempt[n] EXCEPT !.status = t.got, !.linked = TRUE]
      <3>1. t.got \in Outcomes
        BY <1>1, <1>9 DEF Write, TaskInv
      <3>2. /\ r \in Row /\ r.learner = attempt[n].learner
            /\ r.item = attempt[n].item /\ r.gen = attempt[n].gen
        BY <1>1, <2>4, <3>1 DEF Row
      <3>3. attempt' = [attempt EXCEPT ![n] = r]
        BY <1>1, <1>9, <2>4 DEF Write
      <3> HIDE DEF r
      <3> QED
        BY <1>1, <1>2, <2>1, <2>2, <2>4, <3>2, <3>3, Rewrites DEF Becomes
    <2> QED
      BY <2>3, <2>4
  <1> QED
    BY <1>6, <1>7, <1>8, <1>9

-----------------------------------------------------------------------------
(* The theorems *)

LEMMA InvInit == Init => Inv
  <1> SUFFICES ASSUME Init PROVE Inv
    OBVIOUS
  <1>1. World
    BY DEF Init, World, Row, NoRow, Outcomes, Enrollments
  <1>2. \A h \in Handler : TaskInv(task[h]) /\ task[h] \in Task
    BY IdleInv DEF Init, TaskInv
  <1>3. \A a \in Attempt : RowInv(a)
    BY DEF Init, RowInv, NoRow
  <1>4. CompletedIsEarned
    BY DEF Init, CompletedIsEarned
  <1>5. task \in [Handler -> Task]
    BY <1>2 DEF Init
  <1> QED
    BY <1>1, <1>2, <1>3, <1>4, <1>5 DEF Inv, Base

\* Sessions end and are analysed beside all this.
LEMMA Elsewhere ==
  ASSUME Inv, UNCHANGED <<Kept0, enrollment, task>>
  PROVE  Inv'
  BY DEF Inv, Base, World, Kept0, TaskInv, Task, Row, RowInv, CompletedIsEarned, Complete, Counted,
         Done, Rows, Locked, Item, Attempt

LEMMA InvStep == Inv /\ [Next]_vars => Inv'
  <1> SUFFICES ASSUME Inv, [Next]_vars PROVE Inv'
    OBVIOUS
  <1>1. ASSUME NEW h \in Handler, Works(h) PROVE Inv'
    BY <1>1, Enrolls, Checks, Creates, Changes, Reads, Completes DEF Works
  <1>2. ASSUME NEW h \in Handler, TakeJob(h) \/ Open(h) \/ Crash(h) PROVE Inv'
    BY <1>2, Reads
  <1>3. ASSUME NEW h \in Handler, NEW i \in Item,
               Visit(h, "start", i) \/ Visit(h, "complete", i) \/ Mark(h, i)
        PROVE  Inv'
    BY <1>3, Begins
  <1>4. ASSUME NEW h \in Handler, Call(h, "over") \/ Call(h, "drop") PROVE Inv'
    BY <1>4, Begins
  <1>5. ASSUME NEW a \in Attempt, SessionEnds(a) \/ Scored(a) \/ Announced(a) PROVE Inv'
    <2>1. UNCHANGED <<Kept0, enrollment, task>>
      BY <1>5 DEF SessionEnds, Scored, Announced, Tells, history, Kept0
    <2> QED
      BY <2>1, Elsewhere
  <1>6. CASE UNCHANGED vars
    BY <1>6, Elsewhere DEF vars, Kept0
  <1> QED
    BY <1>1, <1>2, <1>3, <1>4, <1>5, <1>6 DEF Next

LEMMA InvAlways == Spec => []Inv
  BY InvInit, InvStep, PTL DEF Spec

\* A course that is recorded as completed has its required items completed since
\* the learner last started over or enrolled, whatever ran beside its completion.
THEOREM CompletedIsEarnedAlways == Spec => []CompletedIsEarned
  <1>1. Inv => CompletedIsEarned
    BY DEF Inv
  <1> QED
    BY <1>1, InvAlways, PTL

\* Every attempt of the learner's stands behind the required items before it.
THEOREM InOrderAlways == Spec => []InOrder
  <1>1. Inv => InOrder
    BY DEF Inv, Base, RowInv, InOrder
  <1> QED
    BY <1>1, InvAlways, PTL

-----------------------------------------------------------------------------
(* What is owed: a judgement of an attempt, a look at the whole course *)

Judging == {"judge", "write"}
Refreshing == {"fresh", "count", "cas"}
Beginning == {"session", "delete"}

\* A task works on attempts whose sessions are over.
AimInv(t) ==
  /\ \A a \in t.todo : session[a] \in Ended
  /\ t.step \in Judging \/ (t.kind = "job" /\ t.step \in Refreshing)
       => t.on \in Attempt /\ session[t.on] \in Ended
  /\ t.step = "load" => t.on = 0
  /\ t.kind = "job" => t.step \in {"load"} \cup Judging \cup Refreshing

\* Generations only pass: the attempt of a learner who has left belongs to the past
\* when he is back.
PastInv(t) ==
  /\ t.step \in {"check", "create", "count", "cas"} => t.gen <= enrollment.generation
  /\ t.step \in Judging /\ t.gen = 0 /\ attempt[t.on].status # "none" =>
       attempt[t.on].gen < enrollment.generation \/ enrollment.status = "DROPPED"

\* A failure was decided once there was something to judge.
VerdictInv(t) ==
  t.step = "write" /\ t.got = "FAILED" /\ attempt[t.on].status # "none" =>
    Decision(t.on) # "STARTED"

\* The attempt that is being started has no session yet.
FirstInv(t) ==
  t.step \in Beginning => t.on <= made /\ (t.on \in Attempt => session[t.on] = "none")

\* The task that starts an attempt is alone with it.
Alone ==
  \A h, k \in Handler :
    h # k /\ task[h].step \in Beginning /\ task[k].step \in Beginning => task[h].on # task[k].on

\* A job of attempt a is left, or one was given up.
Left(a) == jobs[a] > 0 \/ a \in dropped

DutyInv(a) ==
  /\ a > made => session[a] = "none"
  /\ Left(a) \/ a \in due => session[a] \in Ended
  /\ attempt[a].status # "none" => attempt[a].gen <= enrollment.generation
  /\ attempt[a].status = "FAILED" => session[a] \in Ended /\ Decision(a) # "STARTED"

DutyTypes ==
  /\ session \in [Attempt -> {"none", "live"} \cup Ended]
  /\ evaluation \in [Attempt -> {"none", "low", "pass"}]
  /\ jobs \in [Attempt -> Nat]

Duties ==
  /\ DutyTypes /\ Alone
  /\ \A h \in Handler :
       AimInv(task[h]) /\ PastInv(task[h]) /\ VerdictInv(task[h]) /\ FirstInv(task[h])
  /\ \A a \in Attempt : DutyInv(a)

\* A task will judge attempt a, or has just judged it.
Holds(t, a) ==
  \/ a \in t.todo
  \/ t.on = a /\ t.step = "judge"
  \/ t.on = a /\ t.step = "write" /\ t.got = Decision(a)

\* Attempt a is to be judged, or should be.
Waits(a) == Left(a) \/ a \in due \cup ignored

Pending(a) == Waits(a) \/ \E h \in Handler : Holds(task[h], a)

debts == <<jobs, due, ignored, dropped>>

\* Attempt a has failed, or is about to, by a decision that is out of date.
Fails(t, a) == t.step = "write" /\ t.on = a /\ t.got = "FAILED"
Stale(a) ==
  /\ attempt[a].status \in {"STARTED", "FAILED"} /\ Decision(a) # "FAILED"
  /\ attempt[a].status = "FAILED" \/ \E h \in Handler : Fails(task[h], a)

\* A task will count the progress of the present generation; a job that dies comes
\* back to the count if its attempt is completed.
Counts(t) ==
  \/ /\ \/ t.step = "fresh"
        \/ t.step = "count" /\ t.gen = enrollment.generation /\ t.got # "COMPLETED"
        \/ t.step = "cas" /\ t.gen = enrollment.generation
     /\ t.kind = "job" => attempt[t.on].status = "COMPLETED"
  \/ \E a \in t.todo : attempt[a].status = "COMPLETED"

Counting ==
  \/ \E h \in Handler : Counts(task[h])
  \/ \E a \in Attempt : Left(a) /\ attempt[a].status = "COMPLETED"

Earned == enrollment.status = "ACTIVE" /\ Complete(enrollment.generation)

StaleInv == \A a \in Attempt : Stale(a) => Pending(a)
CountInv == Earned => Counting

DebtInv == Duties /\ StaleInv /\ CountInv

-----------------------------------------------------------------------------
(* What no step takes back *)

\* Nothing that a task relies on is undone.
Onward ==
  /\ course' = course /\ made' \in Nat /\ made <= made'
  /\ enrollment.generation <= enrollment'.generation
  /\ enrollment.status = "DROPPED" =>
       enrollment'.status = "DROPPED" \/ enrollment.generation < enrollment'.generation
  /\ \A a \in Attempt :
       /\ session[a] \in Ended => session'[a] = session[a] /\ Kept(a)
       /\ evaluation'[a] = evaluation[a] \/ Decision(a)' # "STARTED"

LEMMA DecisionStays ==
  ASSUME NEW a, course' = course, session'[a] = session[a], evaluation'[a] = evaluation[a],
         attempt'[a].item = attempt[a].item
  PROVE  Decision(a)' = Decision(a)
  BY DEF Decision

\* A task that does nothing has its aim, its past and its verdict still.
LEMMA AimStays ==
  ASSUME Inv, Inv', Duties, Onward, NEW t \in Task, AimInv(t), PastInv(t), VerdictInv(t)
  PROVE  AimInv(t)' /\ PastInv(t)' /\ VerdictInv(t)'
  <1>1. /\ enrollment.generation \in Nat /\ enrollment'.generation \in Nat /\ Attempt' = Attempt
        /\ \A a \in Attempt : attempt[a].gen \in Nat /\ attempt'[a].gen \in Nat
    BY DEF Inv, Base, World, Row, Attempt
  <1>2. t.todo \in SUBSET Attempt /\ t.gen \in Nat
    BY DEF Task
  <1>3. AimInv(t)'
    BY <1>1, <1>2 DEF AimInv, Onward
  <1>4. ASSUME t.step \in Judging, attempt'[t.on].status # "none"
        PROVE  /\ t.on \in Attempt /\ session'[t.on] = session[t.on]
               /\ attempt[t.on].status # "none"
               /\ attempt'[t.on].item = attempt[t.on].item /\ attempt'[t.on].gen = attempt[t.on].gen
    <2>1. t.on \in Attempt /\ session[t.on] \in Ended
      BY <1>4 DEF AimInv
    <2>2. session'[t.on] = session[t.on] /\ Kept(t.on)
      BY <2>1 DEF Onward
    <2> QED
      BY <1>4, <2>1, <2>2 DEF Kept
  <1>5. PastInv(t)'
    <2>1. t.step \in {"check", "create", "count", "cas"} => t.gen <= enrollment'.generation
      BY <1>1, <1>2 DEF PastInv, Onward
    <2>2. ASSUME t.step \in Judging, t.gen = 0, attempt'[t.on].status # "none"
          PROVE  attempt'[t.on].gen < enrollment'.generation \/ enrollment'.status = "DROPPED"
      <3>1. /\ t.on \in Attempt /\ attempt[t.on].status # "none"
            /\ attempt'[t.on].gen = attempt[t.on].gen
        BY <1>4, <2>2
      <3>2. attempt[t.on].gen <= enrollment.generation
        BY <3>1 DEF Duties, DutyInv
      <3>3. attempt[t.on].gen < enrollment.generation \/ enrollment.status = "DROPPED"
        BY <2>2, <3>1 DEF PastInv
      <3> QED
        BY <1>1, <3>1, <3>2, <3>3 DEF Onward
    <2> QED
      BY <2>1, <2>2 DEF PastInv
  <1>6. VerdictInv(t)'
    <2> SUFFICES ASSUME t.step = "write", t.got = "FAILED", attempt'[t.on].status # "none"
                 PROVE  Decision(t.on)' # "STARTED"
      BY DEF VerdictInv
    <2>1. /\ t.on \in Attempt /\ attempt[t.on].status # "none"
          /\ session'[t.on] = session[t.on] /\ attempt'[t.on].item = attempt[t.on].item
      BY <1>4 DEF Judging
    <2>2. Decision(t.on) # "STARTED"
      BY <2>1 DEF VerdictInv
    <2>3. CASE evaluation'[t.on] = evaluation[t.on]
      BY <2>1, <2>2, <2>3, DecisionStays DEF Onward
    <2>4. CASE evaluation'[t.on] # evaluation[t.on]
      BY <2>1, <2>4 DEF Onward
    <2> QED
      BY <2>3, <2>4
  <1> QED
    BY <1>3, <1>5, <1>6

Fit(t) == AimInv(t) /\ PastInv(t) /\ VerdictInv(t) /\ FirstInv(t)

\* A step answers for its own task, and for the attempts.
LEMMA DutySteps ==
  ASSUME Inv, Inv', Duties, Onward, NEW h \in Handler, NEW u, Fit(u)',
         task' = [task EXCEPT ![h] = u],
         u.step \in Beginning =>
           \A k \in Handler \ {h} : task[k].step \in Beginning => task[k].on # u.on,
         \A a \in Attempt : session[a] = "none" /\ session'[a] # "none" =>
           \A k \in Handler \ {h} : task[k].step \in Beginning => task[k].on # a,
         DutyTypes', \A a \in Attempt : DutyInv(a)'
  PROVE  Duties'
  <1>1. /\ task \in [Handler -> Task] /\ Attempt' = Attempt
        /\ task'[h] = u /\ \A k \in Handler \ {h} : task'[k] = task[k] /\ task[k] \in Task
    BY DEF Inv, Base, Attempt
  <1>2. Alone'
    BY <1>1 DEF Alone, Duties
  <1>3. ASSUME NEW k \in Handler \ {h}, NEW t \in Task, t = task[k]
        PROVE  AimInv(t)' /\ PastInv(t)' /\ VerdictInv(t)' /\ FirstInv(t)'
    <2>1. AimInv(t) /\ PastInv(t) /\ VerdictInv(t) /\ FirstInv(t)
      BY <1>3 DEF Duties
    <2>2. AimInv(t)' /\ PastInv(t)' /\ VerdictInv(t)'
      BY <2>1, AimStays
    <2>3. FirstInv(t)'
      <3> SUFFICES ASSUME t.step \in Beginning
                   PROVE  t.on <= made' /\ (t.on \in Attempt => session'[t.on] = "none")
        BY <1>1 DEF FirstInv
      <3>1. t.on <= made /\ (t.on \in Attempt => session[t.on] = "none")
        BY <2>1 DEF FirstInv
      <3>2. t.on <= made'
        BY <3>1 DEF Onward, Inv, Base, World, Task
      <3>3. t.on \in Attempt => session'[t.on] = "none"
        BY <1>3, <3>1
      <3> QED
        BY <3>2, <3>3
    <2> QED
      BY <2>2, <2>3
  <1>4. ASSUME NEW k \in Handler
        PROVE  AimInv(task[k])' /\ PastInv(task[k])' /\ VerdictInv(task[k])' /\ FirstInv(task[k])'
    <2>1. CASE k = h
      <3>1. task'[k] = u
        BY <1>1, <2>1
      <3> QED
        BY <3>1 DEF Fit, AimInv, PastInv, VerdictInv, FirstInv, Decision
    <2>2. CASE k # h
      <3>1. PICK t \in Task : t = task[k]
        BY <1>1, <2>2
      <3>2. AimInv(t)' /\ PastInv(t)' /\ VerdictInv(t)' /\ FirstInv(t)'
        BY <1>3, <2>2, <3>1
      <3>3. task'[k] = t
        BY <1>1, <2>2, <3>1
      <3> QED
        BY <3>2, <3>3 DEF AimInv, PastInv, VerdictInv, FirstInv, Decision
    <2> QED
      BY <2>1, <2>2
  <1> QED
    BY <1>1, <1>2, <1>4 DEF Duties

\* The attempt that is judged anew, and the task that does it.
LEMMA StaleSteps ==
  ASSUME NEW h \in Handler, NEW u, task \in [Handler -> Task], task' = [task EXCEPT ![h] = u],
         NEW a \in Attempt, Stale(a) => Pending(a), Stale(a)' => Stale(a),
         Waits(a) /\ Stale(a)' => Waits(a)' \/ Holds(u, a)',
         Stale(a)' => Decision(a)' = Decision(a),
         Stale(a)' /\ Holds(task[h], a) => Waits(a)' \/ Holds(u, a)'
  PROVE  Stale(a)' => Pending(a)'
  <1> SUFFICES ASSUME Stale(a)' PROVE Pending(a)'
    OBVIOUS
  <1>1. task'[h] = u /\ \A k \in Handler \ {h} : task'[k] = task[k]
    OBVIOUS
  <1>2. CASE Waits(a)
    BY <1>1, <1>2 DEF Pending, Holds, Decision
  <1>3. ASSUME NEW k \in Handler, Holds(task[k], a) PROVE Pending(a)'
    <2>1. CASE k = h
      BY <1>1, <1>3, <2>1 DEF Pending, Holds, Decision
    <2>2. CASE k # h
      <3>1. Holds(task[k], a)'
        BY <1>1, <1>3, <2>2 DEF Holds
      <3> QED
        BY <3>1 DEF Pending
    <2> QED
      BY <2>1, <2>2
  <1> QED
    BY <1>2, <1>3 DEF Pending

\* Who counts goes on to count, or another does.
LEMMA CountSteps ==
  ASSUME NEW h \in Handler, NEW u, task \in [Handler -> Task], task' = [task EXCEPT ![h] = u],
         CountInv, Earned' => Earned,
         enrollment' = enrollment \/ ~Earned',
         \A a \in Attempt : attempt[a].status = "COMPLETED" /\ (session[a] \in Ended)
                              => attempt'[a].status = "COMPLETED",
         Duties,
         \A a \in Attempt : Left(a) => Left(a)' \/ a \in u.todo,
         Earned' /\ Counts(task[h]) =>
           Counts(u)' \/ \E a \in Attempt : Left(a)' /\ attempt'[a].status = "COMPLETED"
  PROVE  CountInv'
  <1> SUFFICES ASSUME Earned' PROVE Counting'
    BY DEF CountInv
  <1>1. task'[h] = u /\ \A k \in Handler \ {h} : task'[k] = task[k]
    OBVIOUS
  <1>2. Attempt' = Attempt /\ enrollment' = enrollment
    BY DEF Attempt
  <1>3. ASSUME NEW t, AimInv(t), Counts(t), t.todo \subseteq Attempt PROVE Counts(t)'
    <2>1. CASE \E a \in t.todo : attempt[a].status = "COMPLETED"
      BY <1>3, <2>1 DEF Counts, AimInv
    <2>2. CASE ~ \E a \in t.todo : attempt[a].status = "COMPLETED"
      BY <1>2, <1>3, <2>2 DEF Counts, AimInv, Refreshing
    <2> QED
      BY <2>1, <2>2
  <1>4. CASE \E a \in Attempt : Left(a) /\ attempt[a].status = "COMPLETED"
    <2>1. PICK a \in Attempt : Left(a) /\ attempt[a].status = "COMPLETED"
      BY <1>4
    <2>2. attempt'[a].status = "COMPLETED"
      BY <2>1 DEF Duties, DutyInv
    <2>3. CASE Left(a)'
      BY <1>2, <2>2, <2>3 DEF Counting
    <2>4. CASE a \in u.todo
      <3>1. Counts(task[h])'
        BY <1>1, <2>2, <2>4 DEF Counts
      <3> QED
        BY <3>1 DEF Counting
    <2> QED
      BY <2>1, <2>3, <2>4
  <1>5. ASSUME NEW k \in Handler, Counts(task[k]) PROVE Counting'
    <2>1. CASE k = h
      <3>1. CASE Counts(u)'
        <4>1. Counts(task[h])'
          BY <1>1, <3>1 DEF Counts
        <4> QED
          BY <4>1 DEF Counting
      <3>2. CASE \E a \in Attempt : Left(a)' /\ attempt'[a].status = "COMPLETED"
        BY <1>2, <3>2 DEF Counting
      <3> QED
        BY <1>5, <2>1, <3>1, <3>2
    <2>2. CASE k # h
      <3>1. PICK t \in Task : t = task[k]
        OBVIOUS
      <3>2. AimInv(t) /\ Counts(t) /\ t.todo \subseteq Attempt
        BY <1>5, <3>1 DEF Duties, Task
      <3>3. Counts(t)' /\ task'[k] = t
        BY <1>1, <1>3, <2>2, <3>1, <3>2
      <3>4. Counts(task[k])'
        BY <3>3 DEF Counts
      <3> QED
        BY <3>4 DEF Counting
    <2> QED
      BY <2>1, <2>2
  <1> QED
    BY <1>4, <1>5 DEF CountInv, Counting

-----------------------------------------------------------------------------
(* The tasks that steps leave behind *)

LEMMA IdleFit == Idle \in Task /\ Fit(Idle) /\ Idle.todo = {} /\ Idle.step = "idle"
  <1>1. Idle \in Task /\ Idle.todo = {} /\ Idle.step = "idle" /\ Idle.kind = "none"
    BY IdleInv DEF Idle
  <1> HIDE DEF Idle
  <1> QED
    BY <1>1 DEF Fit, AimInv, PastInv, VerdictInv, FirstInv, Judging, Refreshing, Beginning

LEMMA RestFit ==
  ASSUME NEW t \in Task, AimInv(t)
  PROVE  /\ Rest(t) \in Task /\ Fit(Rest(t)) /\ Rest(t).todo = t.todo
         /\ Rest(t).step \in {"idle", "load"}
  <1>1. CASE t.todo = {}
    BY <1>1, IdleFit DEF Rest
  <1>2. CASE t.todo # {}
    <2>1. Rest(t) = [kind |-> t.kind, step |-> "load", item |-> 0, gen |-> 0, on |-> 0,
                     got |-> "none", todo |-> t.todo]
      BY <1>2 DEF Rest, Idle
    <2>2. /\ Rest(t) \in Task /\ Rest(t).todo = t.todo /\ Rest(t).step = "load" /\ Rest(t).on = 0
      BY <2>1 DEF Task, Steps, Outcomes
    <2>3. Fit(Rest(t))
      <3> HIDE DEF Rest
      <3> QED
        BY <2>2 DEF Fit, AimInv, PastInv, VerdictInv, FirstInv, Judging, Refreshing, Beginning
    <2> QED
      BY <2>2, <2>3
  <1> QED
    BY <1>1, <1>2

LEMMA ThenFields ==
  ASSUME NEW t \in Task, NEW step \in Steps
  PROVE  /\ Then(t, step) \in Task /\ Then(t, step).step = step /\ Then(t, step).todo = t.todo
         /\ Then(t, step).on = t.on /\ Then(t, step).kind = t.kind
  <1>1. Idle \in Task
    BY IdleInv
  <1> HIDE DEF Idle
  <1> QED
    BY <1>1 DEF Then, Task

LEMMA RefreshFields ==
  ASSUME NEW t \in Task
  PROVE  /\ Refresh(t) \in Task /\ Refresh(t).step = "fresh" /\ Refresh(t).todo = t.todo
         /\ Refresh(t).kind = t.kind /\ (t.kind = "job" => Refresh(t).on = t.on)
  <1>1. /\ Then(t, "fresh") \in Task /\ Then(t, "fresh").step = "fresh"
        /\ Then(t, "fresh").todo = t.todo
        /\ Then(t, "fresh").on = t.on /\ Then(t, "fresh").kind = t.kind
    BY ThenFields DEF Steps
  <1> HIDE DEF Then
  <1> QED
    BY <1>1 DEF Refresh, Task

LEMMA RefreshFit ==
  ASSUME NEW t \in Task, \A a \in t.todo : session[a] \in Ended,
         t.kind = "job" => t.on \in Attempt /\ session[t.on] \in Ended
  PROVE  Fit(Refresh(t))
  <1>1. /\ Refresh(t).step = "fresh" /\ Refresh(t).todo = t.todo
        /\ Refresh(t).kind = t.kind /\ (t.kind = "job" => Refresh(t).on = t.on)
    BY RefreshFields
  <1> HIDE DEF Refresh
  <1> QED
    BY <1>1 DEF Fit, AimInv, PastInv, VerdictInv, FirstInv, Judging, Refreshing, Beginning

\* What a task is fit for it stays fit for, but for the attempt it is starting.
LEMMA FitStays ==
  ASSUME Inv, Inv', Duties, Onward, NEW u \in Task, Fit(u), u.step \notin Beginning
  PROVE  Fit(u)'
  <1>1. AimInv(u)' /\ PastInv(u)' /\ VerdictInv(u)'
    BY AimStays DEF Fit
  <1> QED
    BY <1>1 DEF Fit, FirstInv

-----------------------------------------------------------------------------
(* Steps of which only the task shows *)

Still == <<course, enrollment, attempt, made, practice, debts>>

\* Task u owes what t owed.
Succeeds(t, u) ==
  /\ Fit(u)
  /\ u.step \in Beginning => t.step \in Beginning /\ u.on = t.on
  /\ \A a \in Attempt : Fails(u, a) => Decision(a) = "FAILED" \/ attempt[a].status = "none"
  /\ \A a \in Attempt :
       /\ attempt[a].status \in {"STARTED", "FAILED"} /\ Decision(a) # "FAILED"
       /\ Holds(t, a)
       => Holds(u, a)
  /\ Earned /\ Counts(t) => Counts(u)

LEMMA QuietDebt ==
  ASSUME Inv, Inv', DebtInv, UNCHANGED Still, NEW h \in Handler, NEW u,
         Succeeds(task[h], u), Becomes(h, u)
  PROVE  DebtInv'
  <1> task' = [task EXCEPT ![h] = u]
    BY DEF Becomes
  <1> USE DEF Succeeds
  <1>1. /\ task \in [Handler -> Task] /\ made \in Nat /\ enrollment.generation \in Nat
        /\ Attempt' = Attempt /\ Duties /\ StaleInv /\ CountInv
    BY DEF Inv, Base, World, Attempt, DebtInv
  <1>2. Onward
    BY <1>1 DEF Onward, Still, practice, Kept
  <1>3. \A a \in Attempt : Decision(a)' = Decision(a)
    BY DEF Decision, Still, practice
  <1>4. Fit(u)'
    BY <1>1 DEF Fit, AimInv, PastInv, VerdictInv, FirstInv, Decision, Still, practice
  <1>5. \A k \in Handler \ {h} : u.step \in Beginning /\ task[k].step \in Beginning => task[k].on # u.on
    BY <1>1 DEF Duties, Alone
  <1>6. DutyTypes' /\ \A a \in Attempt : DutyInv(a)'
    BY <1>1, <1>3 DEF Duties, DutyTypes, DutyInv, Left, Still, debts, practice
  <1>7. \A a \in Attempt : session'[a] = session[a]
    BY DEF Still, practice
  <1>8. Duties'
    BY <1>1, <1>2, <1>4, <1>5, <1>6, <1>7, DutySteps
  <1>9. ASSUME NEW a \in Attempt PROVE Stale(a)' => Pending(a)'
    <2>1. task'[h] = u /\ \A k \in Handler \ {h} : task'[k] = task[k]
      BY <1>1
    <2>2. Stale(a)' => Stale(a) /\ attempt[a].status \in {"STARTED", "FAILED"} /\ Decision(a) # "FAILED"
      <3> SUFFICES ASSUME Stale(a)' PROVE Stale(a)
        BY <1>3 DEF Stale, Still
      <3>1. attempt[a].status \in {"STARTED", "FAILED"} /\ Decision(a) # "FAILED"
        BY <1>3 DEF Stale, Still
      <3>2. CASE attempt[a].status = "FAILED"
        BY <3>1, <3>2 DEF Stale
      <3>3. CASE attempt[a].status # "FAILED"
        <4>1. PICK k \in Handler : Fails(task'[k], a)
          BY <3>3 DEF Stale, Still, Fails
        <4>2. k # h
          BY <2>1, <3>1, <4>1
        <4> QED
          BY <2>1, <3>1, <4>1, <4>2 DEF Stale
      <3> QED
        BY <3>2, <3>3
    <2>3. Holds(u, a) => Holds(u, a)'
      BY <1>3 DEF Holds
    <2>4. Waits(a)' = Waits(a)
      BY DEF Waits, Left, Still, debts
    <2>5. Stale(a) => Pending(a)
      BY <1>1 DEF StaleInv
    <2> QED
      BY <1>1, <1>3, <2>2, <2>3, <2>4, <2>5, StaleSteps
  <1>10. CountInv'
    <2>1. Earned' = Earned
      BY DEF Earned, Complete, Counted, Done, Rows, Item, Attempt, Still
    <2>2. Counts(u) => Counts(u)'
      BY DEF Counts, Still
    <2>3. enrollment' = enrollment /\ attempt' = attempt /\ \A a \in Attempt : Left(a)' = Left(a)
      BY DEF Left, Still, debts
    <2> QED
      BY <1>1, <2>1, <2>2, <2>3, CountSteps
  <1> QED
    BY <1>1, <1>8, <1>9, <1>10 DEF DebtInv, StaleInv

\* Requests that begin.
LEMMA BeginsDebt ==
  ASSUME Inv, Inv', DebtInv, NEW h \in Handler, NEW kind \in {"start", "complete", "over", "drop"},
         \/ \E i \in Item : Visit(h, kind, i) \/ Mark(h, i)
         \/ kind \in {"over", "drop"} /\ Call(h, kind)
  PROVE  DebtInv'
  <1>1. UNCHANGED Still /\ task[h] = Idle
    BY DEF Visit, Mark, Call, Still, debts, practice, history
  <1>2. /\ Idle \in Task /\ Fit(Idle) /\ Idle.todo = {} /\ Idle.step = "idle"
        /\ enrollment.generation \in Nat /\ enrollment.status \in Enrollments
    BY IdleFit DEF Inv, Base, World
  <1>3. ASSUME NEW u, Fit(u), Becomes(h, u), u.step \notin Beginning \cup Judging PROVE DebtInv'
    <2>1. \A a \in Attempt : ~Fails(u, a) /\ ~Holds(task[h], a)
      BY <1>1, <1>2, <1>3 DEF Fails, Holds, Judging
    <2>2. ~Counts(task[h])
      BY <1>1, <1>2 DEF Counts
    <2>3. Succeeds(task[h], u)
      BY <1>3, <2>1, <2>2 DEF Succeeds
    <2> QED
      BY <1>1, <1>3, <2>3, QuietDebt
  <1>4. ASSUME NEW u, Becomes(h, u), u.step \in {"enroll", "check", "over", "drop"},
               u.todo = {}, u.kind # "job", u.gen = enrollment.generation \/ u.step # "check"
        PROVE  DebtInv'
    <2>1. Fit(u)
      BY <1>2, <1>4 DEF Fit, AimInv, PastInv, VerdictInv, FirstInv, Judging, Refreshing, Beginning
    <2> QED
      BY <1>3, <1>4, <2>1 DEF Judging, Beginning
  <1>5. ASSUME NEW i \in Item, Visit(h, kind, i) PROVE DebtInv'
    <2> DEFINE u == [Idle EXCEPT !.kind = kind, !.item = i, !.gen = enrollment.generation,
                             !.got = IF Enrolled THEN "none" ELSE enrollment.status,
                             !.step = IF Enrolled THEN "check" ELSE "enroll"]
    <2>1. /\ u.step \in {"enroll", "check"} /\ u.todo = {} /\ u.kind = kind
          /\ u.gen = enrollment.generation
      BY DEF Idle
    <2>2. Becomes(h, u)
      BY <1>5 DEF Visit
    <2> HIDE DEF u
    <2> QED
      BY <1>4, <2>1, <2>2
  <1>6. ASSUME NEW i \in Item, Mark(h, i) PROVE DebtInv'
    <2> DEFINE u == [Idle EXCEPT !.kind = "mark", !.item = i, !.gen = enrollment.generation, !.step = "check"]
    <2>1. u.step = "check" /\ u.todo = {} /\ u.kind = "mark" /\ u.gen = enrollment.generation
      BY DEF Idle
    <2>2. Becomes(h, u)
      BY <1>6 DEF Mark
    <2> HIDE DEF u
    <2> QED
      BY <1>4, <2>1, <2>2
  <1>7. CASE kind \in {"over", "drop"} /\ Call(h, kind)
    <2> DEFINE u == [Idle EXCEPT !.kind = kind, !.step = kind]
    <2>1. u.step = kind /\ u.todo = {} /\ u.kind = kind
      BY DEF Idle
    <2>2. Becomes(h, u)
      BY <1>7 DEF Call
    <2> HIDE DEF u
    <2> QED
      BY <1>4, <1>7, <2>1, <2>2
  <1> QED
    BY <1>5, <1>6, <1>7

\* The attempts are read, and what is done is not done again.
LEMMA ChecksDebt ==
  ASSUME Inv, Inv', DebtInv, NEW h \in Handler, Check(h)
  PROVE  DebtInv'
  <1> DEFINE t == task[h]
             mine == Rows(t.item, t.gen)
             last == CHOOSE a \in mine : \A b \in mine : b <= a
  <1>1. UNCHANGED Still /\ t.step = "check"
    BY DEF Check, Still, debts, practice, history
  <1>2. t \in Task /\ AimInv(t) /\ PastInv(t) /\ t.kind # "job"
    BY <1>1 DEF Inv, Base, DebtInv, Duties, AimInv, Judging, Refreshing
  <1>3. ASSUME NEW u, Fit(u), Becomes(h, u), u.todo = t.todo, u.step \notin Beginning \cup Judging
        PROVE  DebtInv'
    <2>1. \A a \in Attempt : ~Fails(u, a) /\ (Holds(t, a) => Holds(u, a))
      BY <1>1, <1>3 DEF Fails, Holds, Judging
    <2>2. Counts(t) => Counts(u)
      BY <1>1, <1>3 DEF Counts
    <2>3. Succeeds(task[h], u)
      BY <1>3, <2>1, <2>2 DEF Succeeds
    <2> QED
      BY <1>1, <1>3, <2>3, QuietDebt
  <1>4. CASE t.kind # "mark" /\ Locked(t.item, t.gen)
    <2>1. Becomes(h, Rest(t))
      BY <1>4 DEF Check, Ends
    <2>2. Fit(Rest(t)) /\ Rest(t).todo = t.todo /\ Rest(t).step \in {"idle", "load"}
      BY <1>2, RestFit
    <2> QED
      BY <1>3, <2>1, <2>2 DEF Judging, Beginning
  <1>5. CASE t.kind # "start" /\ Done(t.item, t.gen) /\ ~(t.kind # "mark" /\ Locked(t.item, t.gen))
    <2>1. Becomes(h, Refresh(t))
      BY <1>5 DEF Check
    <2>2. Fit(Refresh(t)) /\ Refresh(t).todo = t.todo /\ Refresh(t).step = "fresh"
      BY <1>2, RefreshFit, RefreshFields DEF AimInv
    <2> QED
      BY <1>3, <2>1, <2>2 DEF Judging, Beginning
  <1>6. CASE t.kind = "mark" /\ mine # {} /\ ~Done(t.item, t.gen)
    <2>1. Becomes(h, Then([t EXCEPT !.on = last], "mark"))
      BY <1>6 DEF Check
    <2>2. last \in Attempt
      BY <1>6, Latest DEF Rows
    <2> HIDE DEF last
    <2>3. PICK s : s = [t EXCEPT !.on = last]
      OBVIOUS
    <2>4. s \in Task /\ s.todo = t.todo /\ s.kind = t.kind
      BY <1>2, <2>2, <2>3, CourseAssumption DEF Task, Attempt
    <2>5. PICK u : u = Then(s, "mark")
      OBVIOUS
    <2>6. u.step = "mark" /\ u.todo = t.todo /\ u.kind = t.kind
      BY <2>4, <2>5, ThenFields DEF Steps
    <2>7. Fit(u)
      BY <1>2, <2>6 DEF Fit, AimInv, PastInv, VerdictInv, FirstInv, Judging, Refreshing, Beginning
    <2> QED
      BY <1>3, <2>1, <2>3, <2>5, <2>6, <2>7 DEF Judging, Beginning
  <1>7. CASE /\ ~(t.kind # "mark" /\ Locked(t.item, t.gen))
             /\ ~(t.kind # "start" /\ Done(t.item, t.gen))
             /\ ~(t.kind = "mark" /\ mine # {})
    <2>1. PICK u : u = [t EXCEPT !.step = "create"]
      OBVIOUS
    <2>2. Becomes(h, u)
      BY <1>7, <2>1 DEF Check, Goes
    <2>3. u.step = "create" /\ u.todo = t.todo /\ u.kind = t.kind /\ u.gen = t.gen
      BY <1>2, <2>1 DEF Task
    <2>4. Fit(u)
      BY <1>1, <1>2, <2>3 DEF Fit, AimInv, PastInv, VerdictInv, FirstInv, Judging, Refreshing, Beginning
    <2> QED
      BY <1>3, <2>2, <2>3, <2>4 DEF Judging, Beginning
  <1> QED
    BY <1>4, <1>5, <1>6, <1>7

\* An attempt that is owed a judgement is taken up, judged, and counted.
LEMMA LoadsDebt ==
  ASSUME Inv, Inv', DebtInv, NEW h \in Handler, Load(h)
  PROVE  DebtInv'
  <1>1. PICK t \in Task : t = task[h]
    BY DEF Inv, Base
  <1>2. UNCHANGED Still /\ t.step = "load" /\ AimInv(t)
    BY <1>1 DEF Load, Still, debts, practice, history, DebtInv, Duties
  <1>3. PICK a \in t.todo :
          LET s == [t EXCEPT !.todo = @ \ {a}, !.on = a,
                             !.gen = IF enrollment.status = "DROPPED" THEN 0 ELSE 1]
          IN Becomes(h,
               CASE attempt[a].status = "COMPLETED" /\ s.gen > 0 -> Refresh(s)
                 [] attempt[a].status \in {"STARTED", "FAILED"} /\ session[a] \in Ended ->
                      [s EXCEPT !.step = "judge"]
                 [] OTHER -> Rest(s))
    BY <1>1 DEF Load
  <1>4. PICK s : s = [t EXCEPT !.todo = @ \ {a}, !.on = a,
                               !.gen = IF enrollment.status = "DROPPED" THEN 0 ELSE 1]
    OBVIOUS
  <1>5. /\ a \in Attempt /\ session[a] \in Ended /\ a \in Nat
        /\ \A b \in t.todo : session[b] \in Ended /\ b \in Attempt
    BY <1>2, CourseAssumption DEF AimInv, Task, Attempt
  <1>6. /\ s \in Task /\ s.todo = t.todo \ {a} /\ s.on = a /\ s.kind = t.kind /\ s.step = "load"
        /\ s.gen = IF enrollment.status = "DROPPED" THEN 0 ELSE 1
    BY <1>2, <1>4, <1>5 DEF Task
  <1>7. ASSUME NEW u, Fit(u), Becomes(h, u), u.todo = s.todo,
               u.step \notin Beginning \cup {"write"},
               attempt[a].status \in {"STARTED", "FAILED"} => u.step = "judge" /\ u.on = a,
               Earned /\ attempt[a].status = "COMPLETED" => Counts(u)
        PROVE  DebtInv'
    <2>1. \A b \in Attempt : ~Fails(u, b)
      BY <1>7 DEF Fails
    <2>2. \A b \in Attempt : attempt[b].status \in {"STARTED", "FAILED"} /\ Holds(t, b) => Holds(u, b)
      BY <1>2, <1>6, <1>7 DEF Holds
    <2>3. Earned /\ Counts(t) => Counts(u)
      BY <1>2, <1>6, <1>7 DEF Counts
    <2>4. Succeeds(t, u)
      BY <1>7, <2>1, <2>2, <2>3 DEF Succeeds
    <2> QED
      BY <1>1, <1>2, <1>7, <2>4, QuietDebt
  <1>8. CASE attempt[a].status = "COMPLETED" /\ s.gen > 0
    <2>1. PICK u : u = Refresh(s)
      OBVIOUS
    <2>2. Becomes(h, u)
      BY <1>3, <1>4, <1>8, <2>1
    <2>3. /\ Fit(u) /\ u.step = "fresh" /\ u.todo = s.todo
          /\ u.kind = s.kind /\ (s.kind = "job" => u.on = a)
      BY <1>5, <1>6, <2>1, RefreshFit, RefreshFields
    <2>4. Counts(u)
      BY <1>6, <1>8, <2>3 DEF Counts
    <2> QED
      BY <1>7, <1>8, <2>2, <2>3, <2>4 DEF Beginning
  <1>9. CASE attempt[a].status \in {"STARTED", "FAILED"}
    <2>1. PICK u : u = [s EXCEPT !.step = "judge"]
      OBVIOUS
    <2>2. Becomes(h, u)
      BY <1>3, <1>4, <1>5, <1>9, <2>1
    <2>3. /\ u.step = "judge" /\ u.todo = s.todo /\ u.kind = s.kind /\ u.on = a /\ u.gen = s.gen
      BY <1>6, <2>1 DEF Task
    <2>4. Fit(u)
      BY <1>5, <1>6, <2>3 DEF Fit, AimInv, PastInv, VerdictInv, FirstInv, Judging, Refreshing, Beginning
    <2> QED
      BY <1>7, <1>9, <2>2, <2>3, <2>4 DEF Beginning
  <1>10. CASE /\ attempt[a].status \notin {"STARTED", "FAILED"}
              /\ ~(attempt[a].status = "COMPLETED" /\ s.gen > 0)
    <2>1. PICK u : u = Rest(s)
      OBVIOUS
    <2>2. Becomes(h, u)
      BY <1>3, <1>4, <1>10, <2>1
    <2>3. PICK r \in Task : r = [s EXCEPT !.on = 0]
      BY <1>6 DEF Task
    <2>4. Rest(r) = Rest(s)
      <3>1. r.kind = s.kind /\ r.todo = s.todo
        BY <1>6, <2>3 DEF Task
      <3> QED
        BY <3>1 DEF Rest
    <2>5. AimInv(r)
      <3>1. r.kind = s.kind /\ r.todo = s.todo /\ r.step = "load" /\ r.on = 0
        BY <1>6, <2>3 DEF Task
      <3> QED
        BY <1>5, <1>6, <3>1 DEF AimInv, Judging, Refreshing
    <2>6. Fit(u) /\ u.todo = s.todo /\ u.step \in {"idle", "load"}
      <3>1. r.todo = s.todo
        BY <1>6, <2>3 DEF Task
      <3> QED
        BY <2>1, <2>4, <2>5, <3>1, RestFit
    <2>7. ~(Earned /\ attempt[a].status = "COMPLETED")
      BY <1>6, <1>10 DEF Earned
    <2> QED
      BY <1>7, <1>10, <2>2, <2>6, <2>7 DEF Beginning
  <1> QED
    BY <1>8, <1>9, <1>10

LEMMA JudgesDebt ==
  ASSUME Inv, Inv', DebtInv, NEW h \in Handler, Judge(h)
  PROVE  DebtInv'
  <1>1. PICK t \in Task : t = task[h]
    BY DEF Inv, Base
  <1>2. /\ UNCHANGED Still /\ t.step = "judge"
        /\ AimInv(t) /\ PastInv(t) /\ t.on \in Attempt
    BY <1>1 DEF Judge, Still, debts, practice, history, DebtInv, Duties, AimInv, Judging
  <1>3. PICK u : /\ Becomes(h, u)
                 /\ u = IF attempt[t.on].status = "none" THEN [t EXCEPT !.step = "write"]
                        ELSE [t EXCEPT !.step = "write", !.got = Decision(t.on)]
    BY <1>1 DEF Judge
  <1>4. /\ u.step = "write" /\ u.on = t.on /\ u.kind = t.kind /\ u.todo = t.todo /\ u.gen = t.gen
        /\ attempt[t.on].status # "none" => u.got = Decision(t.on)
    <2>1. CASE attempt[t.on].status = "none"
      BY <1>3, <2>1 DEF Task
    <2>2. CASE attempt[t.on].status # "none"
      <3>1. PICK d : d = Decision(t.on)
        OBVIOUS
      <3>2. u = [t EXCEPT !.step = "write", !.got = d]
        BY <1>3, <2>2, <3>1
      <3>3. /\ u.step = "write" /\ u.on = t.on /\ u.kind = t.kind /\ u.todo = t.todo
            /\ u.gen = t.gen /\ u.got = d
        BY <3>2 DEF Task
      <3> QED
        BY <3>1, <3>3
    <2> QED
      BY <2>1, <2>2
  <1>5. Fit(u)
    <2>1. AimInv(u) /\ PastInv(u)
      BY <1>2, <1>4 DEF AimInv, PastInv, Judging, Refreshing
    <2>2. VerdictInv(u) /\ FirstInv(u)
      BY <1>4 DEF VerdictInv, FirstInv, Beginning
    <2> QED
      BY <2>1, <2>2 DEF Fit
  <1>6. ASSUME NEW a \in Attempt
        PROVE  Fails(u, a) => Decision(a) = "FAILED" \/ attempt[a].status = "none"
    BY <1>4 DEF Fails
  <1>7. ASSUME NEW a \in Attempt, attempt[a].status \in {"STARTED", "FAILED"}, Holds(t, a)
        PROVE  Holds(u, a)
    BY <1>2, <1>4, <1>7 DEF Holds
  <1>8. Counts(t) => Counts(u)
    BY <1>2, <1>4 DEF Counts
  <1>9. u.step \notin Beginning
    BY <1>4 DEF Beginning
  <1>10. Succeeds(t, u)
    BY <1>5, <1>6, <1>7, <1>8, <1>9 DEF Succeeds
  <1> QED
    BY <1>1, <1>2, <1>3, <1>10, QuietDebt

\* The enrollment is read again, and its attempts; nobody gives up counting while
\* the course is complete.
LEMMA LooksDebt ==
  ASSUME Inv, Inv', DebtInv, NEW h \in Handler, Fresh(h) \/ Count(h)
  PROVE  DebtInv'
  <1>1. PICK t \in Task : t = task[h]
    BY DEF Inv, Base
  <1>2. /\ UNCHANGED Still /\ t.step \in {"fresh", "count"} /\ AimInv(t) /\ PastInv(t)
        /\ enrollment.generation \in Nat
    BY <1>1 DEF Fresh, Count, Still, debts, practice, history, DebtInv, Duties, Inv, Base, World
  <1>3. ASSUME NEW u, Fit(u), Becomes(h, u), u.todo = t.todo, u.step \in {"idle", "load", "count", "cas"},
               Earned /\ Counts(t) => Counts(u)
        PROVE  DebtInv'
    <2>1. \A a \in Attempt : ~Fails(u, a) /\ (Holds(t, a) => Holds(u, a))
      BY <1>2, <1>3 DEF Fails, Holds
    <2>2. u.step \notin Beginning
      BY <1>3 DEF Beginning
    <2>3. Succeeds(t, u)
      BY <1>3, <2>1, <2>2 DEF Succeeds
    <2> QED
      BY <1>1, <1>2, <1>3, <2>3, QuietDebt
  <1>4. ASSUME Ends(h),
               Earned => t.step = "count" /\ ~(t.gen = enrollment.generation /\ t.got # "COMPLETED")
        PROVE  DebtInv'
    <2>1. PICK u : u = Rest(t)
      OBVIOUS
    <2>2. Fit(u) /\ u.todo = t.todo /\ u.step \in {"idle", "load"} /\ Becomes(h, u)
      BY <1>1, <1>2, <1>4, <2>1, RestFit DEF Ends
    <2>3. Earned /\ Counts(t) => Counts(u)
      BY <1>4, <2>2 DEF Counts
    <2> QED
      BY <1>3, <2>2, <2>3
  <1>5. CASE Fresh(h)
    <2>1. CASE enrollment.status = "DROPPED"
      BY <1>4, <1>5, <2>1 DEF Fresh, Earned
    <2>2. CASE enrollment.status # "DROPPED"
      <3>1. PICK u : u = [t EXCEPT !.step = "count", !.gen = enrollment.generation, !.got = enrollment.status]
        OBVIOUS
      <3>2. Becomes(h, u) /\ t.step = "fresh"
        BY <1>1, <1>5, <2>2, <3>1 DEF Fresh
      <3>3. /\ u.step = "count" /\ u.gen = enrollment.generation /\ u.got = enrollment.status
            /\ u.kind = t.kind /\ u.on = t.on /\ u.todo = t.todo
        BY <3>1 DEF Task
      <3>4. Fit(u)
        BY <1>2, <3>2, <3>3 DEF Fit, AimInv, PastInv, VerdictInv, FirstInv, Judging, Refreshing, Beginning
      <3>5. Earned /\ Counts(t) => Counts(u)
        BY <3>2, <3>3 DEF Counts, Earned
      <3> QED
        BY <1>3, <3>2, <3>3, <3>4, <3>5
    <2> QED
      BY <2>1, <2>2
  <1>6. CASE Count(h)
    <2>1. CASE Complete(t.gen) /\ t.got # "COMPLETED"
      <3>1. PICK u : u = [t EXCEPT !.step = "cas"]
        OBVIOUS
      <3>2. Becomes(h, u) /\ t.step = "count"
        BY <1>1, <1>6, <2>1, <3>1 DEF Count, Goes
      <3>3. /\ u.step = "cas" /\ u.gen = t.gen
            /\ u.kind = t.kind /\ u.on = t.on /\ u.todo = t.todo
        BY <3>1 DEF Task
      <3>4. Fit(u)
        BY <1>2, <3>2, <3>3 DEF Fit, AimInv, PastInv, VerdictInv, FirstInv, Judging, Refreshing, Beginning
      <3>5. Counts(t) => Counts(u)
        BY <3>2, <3>3 DEF Counts
      <3> QED
        BY <1>3, <3>2, <3>3, <3>4, <3>5
    <2>2. CASE ~(Complete(t.gen) /\ t.got # "COMPLETED")
      <3>1. Ends(h) /\ t.step = "count"
        BY <1>1, <1>6, <2>2 DEF Count
      <3>2. Earned => ~(t.gen = enrollment.generation /\ t.got # "COMPLETED")
        BY <2>2 DEF Earned
      <3> QED
        BY <1>4, <3>1, <3>2
    <2> QED
      BY <2>1, <2>2
  <1> QED
    BY <1>5, <1>6

-----------------------------------------------------------------------------
(* The enrollment *)

\* A generation that has just begun is not complete.
LEMMA NewGeneration ==
  ASSUME Inv, Duties, course' = course, attempt' = attempt, enrollment'.generation = enrollment.generation + 1
  PROVE  ~Earned'
  <1>1. /\ enrollment.generation \in Nat /\ Attempt' = Attempt
        /\ \A a \in Attempt : attempt[a].gen \in Nat
    BY DEF Inv, Base, World, Row, Attempt
  <1>2. \A a \in Attempt : attempt[a].status # "none" => attempt[a].gen <= enrollment.generation
    BY DEF Duties, DutyInv
  <1>3. ASSUME NEW i PROVE ~Done(i, enrollment.generation)'
    BY <1>1, <1>2 DEF Done, Rows
  <1>4. ~Complete(enrollment.generation)'
    BY <1>3 DEF Complete
  <1> QED
    BY <1>4 DEF Earned

\* The enrollment changes, and a task with it; whoever counts is not needed, or
\* counts the same.
LEMMA EnrollmentDebt ==
  ASSUME Inv, Inv', DebtInv, UNCHANGED <<course, attempt, made, practice, debts>>,
         enrollment.generation <= enrollment'.generation,
         enrollment.status = "DROPPED" =>
           enrollment'.status = "DROPPED" \/ enrollment.generation < enrollment'.generation,
         enrollment' = enrollment \/ ~Earned',
         NEW h \in Handler, NEW u \in Task, Becomes(h, u), Fit(u)', u.todo = task[h].todo,
         u.step \in {"check", "idle", "load"},
         task[h].step \notin Judging,
         Earned' /\ Counts(task[h]) => Counts(u)'
  PROVE  DebtInv'
  <1>1. /\ task \in [Handler -> Task] /\ made \in Nat /\ enrollment.generation \in Nat
        /\ enrollment'.generation \in Nat
        /\ Attempt' = Attempt /\ Duties /\ StaleInv /\ CountInv /\ task' = [task EXCEPT ![h] = u]
        /\ \A a \in Attempt : attempt[a].gen \in Nat
    BY DEF Inv, Base, World, Attempt, DebtInv, Becomes, Row
  <1>2. course' = course /\ attempt' = attempt /\ made' = made /\ session' = session
        /\ evaluation' = evaluation /\ jobs' = jobs /\ due' = due
        /\ \A a \in Attempt : Left(a)' = Left(a) /\ Waits(a)' = Waits(a)
    BY DEF practice, debts, Left, Waits
  <1>3. Onward
    BY <1>1, <1>2 DEF Onward, Kept
  <1>4. \A a \in Attempt : Decision(a)' = Decision(a)
    BY <1>2 DEF Decision
  <1>5. DutyTypes' /\ \A a \in Attempt : DutyInv(a)'
    BY <1>1, <1>2, <1>4 DEF Duties, DutyTypes, DutyInv
  <1>6. u.step \notin Beginning /\ \A a \in Attempt : session'[a] = session[a]
    BY <1>2 DEF Beginning
  <1>7. Duties'
    BY <1>1, <1>3, <1>5, <1>6, DutySteps
  <1>8. ASSUME NEW a \in Attempt PROVE Stale(a)' => Pending(a)'
    <2>1. task'[h] = u /\ \A k \in Handler \ {h} : task'[k] = task[k]
      BY <1>1
    <2>2. Stale(a)' => Stale(a)
      <3> SUFFICES ASSUME Stale(a)' PROVE Stale(a)
        OBVIOUS
      <3>1. attempt[a].status \in {"STARTED", "FAILED"} /\ Decision(a) # "FAILED"
        BY <1>2, <1>4 DEF Stale
      <3>2. CASE attempt[a].status = "FAILED"
        BY <3>1, <3>2 DEF Stale
      <3>3. CASE attempt[a].status # "FAILED"
        <4>1. PICK k \in Handler : Fails(task'[k], a)
          BY <1>2, <3>3 DEF Stale, Fails
        <4>2. k # h
          BY <2>1, <4>1 DEF Fails
        <4> QED
          BY <2>1, <3>1, <4>1, <4>2 DEF Stale
      <3> QED
        BY <3>2, <3>3
    <2>3. Holds(task[h], a) => Holds(u, a)'
      BY DEF Holds, Judging
    <2>4. Stale(a) => Pending(a)
      BY <1>1 DEF StaleInv
    <2> QED
      BY <1>1, <1>2, <1>4, <2>2, <2>3, <2>4, StaleSteps
  <1>9. CountInv'
    <2>1. Earned' => Earned
      BY <1>1, <1>2 DEF Earned, Complete, Counted, Done, Rows, Item
    <2> QED
      BY <1>1, <1>2, <2>1, CountSteps
  <1> QED
    BY <1>1, <1>7, <1>8, <1>9 DEF DebtInv, StaleInv

LEMMA EnrollsDebt ==
  ASSUME Inv, Inv', DebtInv, NEW h \in Handler,
         Enroll(h) \/ StartOver(h) \/ Unenroll(h) \/ CompleteEnrollment(h)
  PROVE  DebtInv'
  <1>1. PICK t \in Task : t = task[h]
    BY DEF Inv, Base
  <1>2. /\ enrollment \in [status : Enrollments, generation : Nat]
        /\ enrollment' \in [status : Enrollments, generation : Nat]
        /\ AimInv(t) /\ PastInv(t) /\ Duties /\ t.gen \in Nat
    BY <1>1 DEF Inv, Base, World, DebtInv, Duties, Task
  <1>3. /\ UNCHANGED <<course, attempt, made, practice, debts>>
        /\ t.step \in {"enroll", "over", "drop", "cas"}
    BY <1>1 DEF Enroll, StartOver, Unenroll, CompleteEnrollment, debts, practice, history
  <1>4. PICK r : r = Rest(t)
    OBVIOUS
  <1>5. r \in Task /\ Fit(r) /\ r.todo = t.todo /\ r.step \in {"idle", "load"}
    BY <1>2, <1>4, RestFit
  <1>6. course' = course /\ attempt' = attempt
    BY <1>3
  <1>7. ASSUME enrollment'.generation = enrollment.generation + 1
        PROVE  /\ enrollment.generation <= enrollment'.generation
               /\ enrollment.generation < enrollment'.generation /\ ~Earned'
    BY <1>2, <1>6, <1>7, NewGeneration
  <1>8. ASSUME NEW u \in Task, Fit(u), u.step \notin Beginning, UNCHANGED enrollment
        PROVE  Fit(u)'
    <2>1. Onward
      BY <1>2, <1>3, <1>8 DEF Onward, Kept, practice, Inv, Base, World
    <2> QED
      BY <1>2, <1>8, <2>1, FitStays
  <1>9. CASE Enroll(h)
    <2>1. PICK u : /\ u = [t EXCEPT !.step = "check", !.got = "none", !.gen = enrollment'.generation]
                   /\ Becomes(h, u) /\ t.step = "enroll"
      BY <1>1, <1>9 DEF Enroll
    <2>2. /\ u.step = "check" /\ u.gen = enrollment'.generation
          /\ u.kind = t.kind /\ u.on = t.on /\ u.todo = t.todo
      BY <2>1 DEF Task
    <2>3. u \in Task
      BY <1>2, <2>1 DEF Task, Steps, Outcomes
    <2>4. t.kind # "job"
      BY <1>2, <2>1 DEF AimInv, Judging, Refreshing
    <2>5. \A a \in u.todo : session'[a] \in Ended
      BY <1>2, <1>3, <2>2 DEF AimInv, practice
    <2>6. Fit(u)'
      BY <1>2, <2>2, <2>4, <2>5 DEF Fit, AimInv, PastInv, VerdictInv, FirstInv, Judging, Refreshing, Beginning
    <2>7. Counts(t) => Counts(u)'
      BY <1>6, <2>1, <2>2 DEF Counts
    <2>8. CASE enrollment'.generation = enrollment.generation + 1
      BY <1>1, <1>2, <1>3, <1>7, <2>1, <2>2, <2>3, <2>6, <2>7, <2>8, EnrollmentDebt DEF Judging
    <2>9. CASE enrollment' = enrollment
      <3>1. /\ enrollment.generation <= enrollment'.generation
            /\ enrollment.status = "DROPPED" => enrollment'.status = "DROPPED"
        BY <1>2, <2>9
      <3>2. u.todo = task[h].todo /\ task[h].step \notin Judging /\ u.step = "check"
            /\ (Earned' /\ Counts(task[h]) => Counts(u)')
        BY <1>1, <2>1, <2>2, <2>7 DEF Judging
      <3> QED
        BY <1>3, <2>1, <2>3, <2>6, <2>9, <3>1, <3>2, EnrollmentDebt
    <2> QED
      BY <1>9, <2>8, <2>9 DEF Enroll
  <1>10. ASSUME Ends(h), ~Earned', enrollment.generation <= enrollment'.generation,
                enrollment.status = "DROPPED" =>
                  enrollment'.status = "DROPPED" \/ enrollment.generation < enrollment'.generation
         PROVE  DebtInv'
    <2>1. Becomes(h, r)
      BY <1>1, <1>4, <1>10 DEF Ends
    <2>2. Onward
      BY <1>2, <1>3, <1>10 DEF Onward, Kept, practice, Inv, Base, World
    <2>3. Fit(r)'
      BY <1>2, <1>5, <2>2, FitStays DEF Beginning
    <2> QED
      BY <1>1, <1>3, <1>5, <1>10, <2>1, <2>3, EnrollmentDebt DEF Judging
  <1>11. CASE StartOver(h)
    BY <1>7, <1>10, <1>11 DEF StartOver
  <1>12. CASE Unenroll(h)
    <2>1. /\ enrollment'.status = "DROPPED" /\ enrollment'.generation = enrollment.generation
          /\ Ends(h)
      BY <1>2, <1>12 DEF Unenroll
    <2>2. ~Earned'
      BY <2>1 DEF Earned
    <2> QED
      BY <1>2, <1>10, <2>1, <2>2
  <1>13. CASE CompleteEnrollment(h)
    <2>1. CASE enrollment = [status |-> "ACTIVE", generation |-> t.gen]
      <3>1. /\ enrollment'.status = "COMPLETED" /\ enrollment'.generation = enrollment.generation
            /\ Ends(h) /\ enrollment.status = "ACTIVE"
        BY <1>1, <1>2, <1>13, <2>1 DEF CompleteEnrollment
      <3>2. ~Earned'
        BY <3>1 DEF Earned
      <3> QED
        BY <1>2, <1>10, <3>1, <3>2
    <2>2. CASE enrollment # [status |-> "ACTIVE", generation |-> t.gen]
      <3>1. enrollment' = enrollment /\ Becomes(h, r) /\ t.step = "cas"
        BY <1>1, <1>4, <1>13, <2>2 DEF CompleteEnrollment, Ends
      <3>2. Fit(r)'
        BY <1>5, <1>8, <3>1 DEF Beginning
      <3>3. ~(enrollment.status = "ACTIVE" /\ t.gen = enrollment.generation)
        BY <1>2, <2>2
      <3>4. Earned' /\ Counts(t) => Counts(r)'
        BY <1>5, <1>6, <3>1, <3>3 DEF Counts, Earned
      <3> QED
        BY <1>1, <1>2, <1>3, <1>5, <3>1, <3>2, <3>4, EnrollmentDebt DEF Judging
    <2> QED
      BY <2>1, <2>2
  <1> QED
    BY <1>9, <1>11, <1>12, <1>13

-----------------------------------------------------------------------------
(* Jobs *)

\* A job is taken, or dies and goes back with all that it had in hand.
LEMMA JobsDebt ==
  ASSUME Inv, Inv', DebtInv, NEW h \in Handler, TakeJob(h) \/ Open(h) \/ Crash(h)
  PROVE  DebtInv'
  <1>1. /\ task \in [Handler -> Task] /\ made \in Nat /\ enrollment.generation \in Nat
        /\ Attempt' = Attempt /\ Duties /\ StaleInv /\ CountInv
        /\ jobs \in [Attempt -> Nat] /\ task[h] \in Task /\ AimInv(task[h])
    BY DEF Inv, Base, World, Attempt, DebtInv, Duties, DutyTypes
  <1>2. /\ course' = course /\ enrollment' = enrollment /\ attempt' = attempt /\ made' = made
        /\ session' = session /\ evaluation' = evaluation /\ due' = due
    BY DEF TakeJob, Open, Crash, practice
  <1>3. Onward
    BY <1>1, <1>2 DEF Onward, Kept
  <1>4. \A a \in Attempt : Decision(a)' = Decision(a)
    BY <1>2 DEF Decision
  <1>5. ASSUME NEW u, u \in Task, Fit(u), Becomes(h, u), u.step \notin Beginning \cup Judging,
               jobs' \in [Attempt -> Nat],
               \A a \in Attempt : Left(a)' => session[a] \in Ended,
               \A a \in Attempt : Left(a) => Left(a)' \/ a \in u.todo,
               \A a \in Attempt : Waits(a) => Waits(a)' \/ a \in u.todo,
               \A a \in Attempt : Holds(task[h], a) => Left(a)',
               Counts(task[h]) => \E a \in Attempt : Left(a)' /\ attempt[a].status = "COMPLETED"
        PROVE  DebtInv'
    <2>1. task' = [task EXCEPT ![h] = u]
      BY <1>5 DEF Becomes
    <2>2. Fit(u)' /\ u.step \notin Beginning
      BY <1>1, <1>3, <1>5, FitStays
    <2>3. DutyTypes' /\ \A a \in Attempt : DutyInv(a)'
      BY <1>1, <1>2, <1>4, <1>5 DEF Duties, DutyTypes, DutyInv
    <2>4. Duties'
      BY <1>1, <1>2, <1>3, <2>1, <2>2, <2>3, DutySteps
    <2>5. ASSUME NEW a \in Attempt PROVE Stale(a)' => Pending(a)'
      <3>1. task'[h] = u /\ \A k \in Handler \ {h} : task'[k] = task[k]
        BY <1>1, <2>1
      <3>2. Stale(a)' => Stale(a)
        <4> SUFFICES ASSUME Stale(a)' PROVE Stale(a)
          OBVIOUS
        <4>1. attempt[a].status \in {"STARTED", "FAILED"} /\ Decision(a) # "FAILED"
          BY <1>2, <1>4 DEF Stale
        <4>2. CASE attempt[a].status = "FAILED"
          BY <4>1, <4>2 DEF Stale
        <4>3. CASE attempt[a].status # "FAILED"
          <5>1. PICK k \in Handler : Fails(task'[k], a)
            BY <1>2, <4>3 DEF Stale, Fails
          <5>2. k # h
            BY <1>5, <3>1, <5>1 DEF Fails, Judging
          <5> QED
            BY <3>1, <4>1, <5>1, <5>2 DEF Stale
        <4> QED
          BY <4>2, <4>3
      <3>3. a \in u.todo => Holds(u, a)'
        BY DEF Holds
      <3>4. Stale(a) => Pending(a)
        BY <1>1 DEF StaleInv
      <3>5. Waits(a) => Waits(a)' \/ Holds(u, a)'
        BY <1>5, <3>3
      <3>6. Holds(task[h], a) => Waits(a)'
        <4>1. Left(a)' => Waits(a)'
          BY DEF Waits
        <4> QED
          BY <1>5, <4>1
      <3> QED
        BY <1>1, <1>4, <2>1, <3>2, <3>4, <3>5, <3>6, StaleSteps
    <2>6. CountInv'
      <3>1. Earned' = Earned
        BY <1>1, <1>2 DEF Earned, Complete, Counted, Done, Rows, Item
      <3>2. Counts(task[h]) => \E a \in Attempt : Left(a)' /\ attempt'[a].status = "COMPLETED"
        BY <1>2, <1>5
      <3>3. \A a \in Attempt : attempt[a].status = "COMPLETED" /\ session[a] \in Ended
                                 => attempt'[a].status = "COMPLETED"
        BY <1>2
      <3>4. \A a \in Attempt : Left(a) => Left(a)' \/ a \in u.todo
        BY <1>5
      <3> QED
        BY <1>1, <1>2, <2>1, <3>1, <3>2, <3>3, <3>4, CountSteps
    <2> QED
      BY <1>1, <2>4, <2>5, <2>6 DEF DebtInv, StaleInv
  <1>6. ASSUME NEW S \in SUBSET Attempt, \A a \in S : session[a] \in Ended,
               NEW kind \in {"job", "open"}, task[h] = Idle,
               Becomes(h, [Idle EXCEPT !.kind = kind, !.step = "load", !.todo = S]),
               jobs' \in [Attempt -> Nat], \A a \in Attempt : jobs'[a] <= jobs[a],
               \A a \in Attempt \ S : jobs'[a] = jobs[a], TakesUp(S)
        PROVE  DebtInv'
    <2>1. PICK u : u = [Idle EXCEPT !.kind = kind, !.step = "load", !.todo = S]
      OBVIOUS
    <2>2. /\ u \in Task /\ u.kind = kind /\ u.step = "load" /\ u.todo = S /\ u.on = 0
      <3>1. u = [kind |-> kind, step |-> "load", item |-> 0, gen |-> 0, on |-> 0,
                 got |-> "none", todo |-> S]
        BY <2>1 DEF Idle
      <3> QED
        BY <3>1 DEF Task, Kinds, Steps, Outcomes
    <2>3. Fit(u)
      BY <1>6, <2>2 DEF Fit, AimInv, PastInv, VerdictInv, FirstInv, Judging, Refreshing, Beginning
    <2>4. ignored' = ignored \ S /\ dropped' = dropped \ S
      BY <1>6 DEF TakesUp
    <2>5. \A a \in Attempt : Left(a)' => session[a] \in Ended
      <3>1. \A a \in Attempt : Left(a) => session[a] \in Ended
        BY <1>1 DEF Duties, DutyInv
      <3>2. ASSUME NEW a \in Attempt, Left(a)' PROVE Left(a)
        <4>1. jobs'[a] \in Nat /\ jobs[a] \in Nat /\ jobs'[a] <= jobs[a]
          BY <1>1, <1>6
        <4> QED
          BY <2>4, <3>2, <4>1 DEF Left
      <3> QED
        BY <3>1, <3>2
    <2>6. \A a \in Attempt : Left(a) => Left(a)' \/ a \in u.todo
      BY <1>6, <2>2, <2>4 DEF Left
    <2>7. \A a \in Attempt : Waits(a) => Waits(a)' \/ a \in u.todo
      BY <1>2, <2>2, <2>4, <2>6 DEF Waits
    <2>8. ~Counts(task[h]) /\ \A a \in Attempt : ~Holds(task[h], a)
      BY <1>6, IdleFit DEF Counts, Holds
    <2>9. u.step \notin Beginning \cup Judging
      BY <2>2 DEF Beginning, Judging
    <2>10. Becomes(h, u)
      BY <1>6, <2>1
    <2> QED
      BY <1>5, <1>6, <2>2, <2>3, <2>5, <2>6, <2>7, <2>8, <2>9, <2>10
  <1>7. CASE TakeJob(h)
    <2>1. PICK a \in Attempt : /\ jobs[a] > 0 /\ jobs' = [jobs EXCEPT ![a] = @ - 1]
                               /\ Becomes(h, Job(a)) /\ task[h] = Idle /\ TakesUp({a})
      BY <1>7 DEF TakeJob
    <2>2. session[a] \in Ended
      BY <1>1, <2>1 DEF Duties, DutyInv, Left
    <2>3. /\ jobs' \in [Attempt -> Nat] /\ \A b \in Attempt : jobs'[b] <= jobs[b]
          /\ \A b \in Attempt \ {a} : jobs'[b] = jobs[b]
      BY <1>1, <2>1
    <2>4. Becomes(h, [Idle EXCEPT !.kind = "job", !.step = "load", !.todo = {a}])
      BY <2>1 DEF Job
    <2>5. {a} \in SUBSET Attempt /\ \A b \in {a} : session[b] \in Ended
      BY <2>2
    <2> QED
      BY <1>6, <2>1, <2>3, <2>4, <2>5
  <1>8. CASE Open(h)
    <2>1. /\ Waiting \in SUBSET Attempt /\ \A a \in Waiting : session[a] \in Ended
      BY DEF Waiting
    <2>2. /\ task[h] = Idle /\ TakesUp(Waiting) /\ jobs' = jobs
          /\ Becomes(h, [Idle EXCEPT !.kind = "open", !.step = "load", !.todo = Waiting])
      BY <1>8 DEF Open
    <2>3. jobs' \in [Attempt -> Nat] /\ \A a \in Attempt : jobs'[a] <= jobs[a] /\ jobs'[a] = jobs[a]
      BY <1>1, <2>2
    <2> QED
      BY <1>6, <2>1, <2>2, <2>3
  <1>9. CASE Crash(h)
    <2> DEFINE t == task[h]
               lost == t.todo \cup ({t.on} \ {0})
    <2>1. /\ \/ jobs' = [a \in Attempt |-> jobs[a] + IF a \in lost THEN 1 ELSE 0] /\ dropped' = dropped
             \/ dropped' = dropped \cup lost /\ jobs' = jobs
          /\ Becomes(h, Idle) /\ t.kind = "job" /\ ignored' = ignored
      BY <1>9 DEF Crash
    <2>2. /\ jobs' \in [Attempt -> Nat]
          /\ \A a \in Attempt : /\ Left(a) => Left(a)'
                                /\ a \in lost => Left(a)'
                                /\ Left(a)' => Left(a) \/ a \in lost
      <3>1. CASE jobs' = [a \in Attempt |-> jobs[a] + IF a \in lost THEN 1 ELSE 0] /\ dropped' = dropped
        <4>1. /\ jobs' \in [Attempt -> Nat]
              /\ \A a \in Attempt : /\ jobs[a] > 0 => jobs'[a] > 0
                                    /\ a \in lost => jobs'[a] > 0
                                    /\ jobs'[a] > 0 => jobs[a] > 0 \/ a \in lost
          BY <1>1, <3>1
        <4> HIDE DEF lost
        <4> QED
          BY <3>1, <4>1 DEF Left
      <3>2. CASE dropped' = dropped \cup lost /\ jobs' = jobs
        BY <1>1, <3>2 DEF Left
      <3> QED
        BY <2>1, <3>1, <3>2
    <2>3. ASSUME NEW a \in Attempt PROVE (a \in t.todo \/ a = t.on) <=> a \in lost
      <3>1. 0 \notin Attempt
        BY DEF Attempt
      <3> QED
        BY <2>3, <3>1
    <2>4. ASSUME NEW a \in Attempt, a \in lost PROVE session[a] \in Ended
      <3>1. 0 \notin Attempt
        BY DEF Attempt
      <3> QED
        BY <1>1, <2>1, <2>3, <2>4, <3>1 DEF AimInv
    <2> HIDE DEF lost
    <2>5. \A a \in Attempt : Left(a)' => session[a] \in Ended
      BY <1>1, <2>2, <2>4 DEF Duties, DutyInv
    <2>6. \A a \in Attempt : Holds(t, a) => Left(a)'
      BY <2>2, <2>3 DEF Holds
    <2>7. Counts(t) => \E a \in Attempt : Left(a)' /\ attempt[a].status = "COMPLETED"
      <3>1. CASE \E a \in t.todo : attempt[a].status = "COMPLETED"
        <4>1. t.todo \in SUBSET Attempt
          BY <1>1 DEF Task
        <4> QED
          BY <2>2, <2>3, <3>1, <4>1
      <3>2. CASE Counts(t) /\ ~ \E a \in t.todo : attempt[a].status = "COMPLETED"
        <4>1. attempt[t.on].status = "COMPLETED" /\ t.step \in Refreshing
          BY <2>1, <3>2 DEF Counts, Refreshing
        <4>2. t.on \in Attempt
          BY <1>1, <2>1, <4>1 DEF AimInv
        <4> QED
          BY <2>2, <2>3, <4>1, <4>2
      <3> QED
        BY <3>1, <3>2
    <2>8. Idle \in Task /\ Fit(Idle) /\ Idle.step \notin Beginning \cup Judging
      BY IdleFit DEF Beginning, Judging
    <2>9. \A a \in Attempt : Waits(a) => Waits(a)'
      BY <1>2, <2>1, <2>2 DEF Waits
    <2> HIDE DEF t
    <2> QED
      BY <1>5, <2>1, <2>2, <2>5, <2>6, <2>7, <2>8, <2>9 DEF t
  <1> QED
    BY <1>7, <1>8, <1>9

-----------------------------------------------------------------------------
(* One attempt *)

LEMMA EarnedBefore ==
  ASSUME course' = course, enrollment' = enrollment,
         \A a \in Attempt : attempt'[a].status = "COMPLETED" /\ attempt'[a].gen = enrollment.generation
           => /\ attempt[a].status = "COMPLETED"
              /\ attempt[a].item = attempt'[a].item /\ attempt[a].gen = attempt'[a].gen,
         Earned'
  PROVE  Earned
  <1>1. Attempt' = Attempt
    BY DEF Attempt
  <1>2. ASSUME NEW i, Done(i, enrollment.generation)' PROVE Done(i, enrollment.generation)
    <2>1. PICK a \in Attempt :
            /\ attempt'[a].status = "COMPLETED" /\ attempt'[a].item = i
            /\ attempt'[a].gen = enrollment.generation
      BY <1>1, <1>2 DEF Done, Rows
    <2>2. attempt[a].status = "COMPLETED" /\ attempt[a].item = i /\ attempt[a].gen = enrollment.generation
      BY <2>1
    <2> QED
      BY <2>2 DEF Done, Rows
  <1>3. Counted' = Counted
    BY DEF Counted, Item
  <1> QED
    BY <1>2, <1>3 DEF Earned, Complete

\* A step changes attempt n or its session, and answers for it.
LEMMA LoudDebt ==
  ASSUME Inv, Inv', DebtInv, Onward, UNCHANGED <<course, enrollment, evaluation, debts>>, NEW n,
         \A a \in Attempt \ {n} : attempt'[a] = attempt[a] /\ session'[a] = session[a],
         session' \in [Attempt -> {"none", "live"} \cup Ended],
         n \in Attempt => DutyInv(n)',
         NEW h \in Handler, NEW t \in Task, t = task[h], NEW u \in Task, Becomes(h, u), Fit(u)',
         u.todo = t.todo, u.step \notin Judging,
         t.step \in Judging => t.on = n,
         u.step \in Beginning =>
           \A k \in Handler \ {h} : task[k].step \in Beginning => task[k].on # u.on,
         n \in Attempt => session'[n] = session[n]
                          \/ \A k \in Handler \ {h} : task[k].step \in Beginning => task[k].on # n,
         n \in Attempt /\ Stale(n)' =>
           Stale(n) /\ Decision(n)' = Decision(n) /\ (Holds(t, n) => n \in t.todo),
         n \in Attempt /\ attempt[n].status = "COMPLETED" /\ session[n] \in Ended
           => attempt'[n].status = "COMPLETED",
         Earned' => Earned \/ Counts(u)',
         Earned' /\ Counts(t) => Counts(u)'
  PROVE  DebtInv'
  <1>1. /\ task \in [Handler -> Task] /\ made \in Nat /\ enrollment.generation \in Nat
        /\ Attempt' = Attempt /\ Duties /\ StaleInv /\ CountInv /\ task' = [task EXCEPT ![h] = u]
    BY DEF Inv, Base, World, Attempt, DebtInv, Becomes
  <1>2. /\ task'[h] = u /\ \A k \in Handler \ {h} : task'[k] = task[k]
    BY <1>1
  <1>3. /\ \A a \in Attempt \ {n} : Decision(a)' = Decision(a)
        /\ jobs' = jobs /\ due' = due
        /\ \A a \in Attempt : Left(a)' = Left(a) /\ Waits(a)' = Waits(a)
    BY DEF Decision, debts, Left, Waits
  <1>4. DutyTypes' /\ \A a \in Attempt : DutyInv(a)'
    <2>1. DutyTypes'
      BY <1>1, <1>3 DEF Duties, DutyTypes
    <2>2. ASSUME NEW a \in Attempt, a # n PROVE DutyInv(a)'
      <3>1. /\ a > made => session[a] = "none"
            /\ Left(a) \/ a \in due => session[a] \in Ended
            /\ attempt[a].status # "none" => attempt[a].gen <= enrollment.generation
            /\ attempt[a].status = "FAILED" => session[a] \in Ended /\ Decision(a) # "STARTED"
        BY <1>1 DEF Duties, DutyInv
      <3>2. a > made' => a > made
        BY <1>1, CourseAssumption DEF Onward, Attempt
      <3> QED
        BY <1>3, <2>2, <3>1, <3>2 DEF DutyInv
    <2> QED
      BY <2>1, <2>2
  <1>5. \A a \in Attempt : session[a] = "none" /\ session'[a] # "none" =>
          \A k \in Handler \ {h} : task[k].step \in Beginning => task[k].on # a
    OBVIOUS
  <1>6. Duties'
    BY <1>1, <1>4, <1>5, DutySteps
  <1>7. ASSUME NEW a \in Attempt PROVE Stale(a)' => Pending(a)'
    <2>1. Stale(a)' => Stale(a) /\ Decision(a)' = Decision(a)
      <3>1. CASE a = n
        BY <3>1
      <3>2. CASE a # n
        <4> SUFFICES ASSUME Stale(a)' PROVE Stale(a)
          BY <1>3, <3>2
        <4>1. attempt[a].status \in {"STARTED", "FAILED"} /\ Decision(a) # "FAILED"
          BY <1>3, <3>2 DEF Stale
        <4>2. CASE attempt[a].status = "FAILED"
          BY <4>1, <4>2 DEF Stale
        <4>3. CASE attempt[a].status # "FAILED"
          <5>1. PICK k \in Handler : Fails(task'[k], a)
            BY <3>2, <4>3 DEF Stale, Fails
          <5>2. k # h
            BY <1>2, <5>1 DEF Fails, Judging
          <5> QED
            BY <1>2, <4>1, <5>1, <5>2 DEF Stale
        <4> QED
          BY <4>2, <4>3
      <3> QED
        BY <3>1, <3>2
    <2>2. Stale(a)' /\ Holds(t, a) => a \in t.todo
      <3>1. CASE a = n
        BY <3>1
      <3>2. CASE a # n
        BY <3>2 DEF Holds, Judging
      <3> QED
        BY <3>1, <3>2
    <2>3. a \in u.todo => Holds(u, a)'
      BY DEF Holds
    <2>4. Stale(a) => Pending(a)
      BY <1>1 DEF StaleInv
    <2>5. Stale(a)' /\ Holds(task[h], a) => Holds(u, a)'
      BY <2>2, <2>3
    <2>6. Waits(a)' = Waits(a)
      BY <1>3
    <2> QED
      BY <1>1, <2>1, <2>4, <2>5, <2>6, StaleSteps
  <1>8. CountInv'
    <2>1. CASE Earned' /\ Counts(u)'
      <3>1. Counts(task[h])'
        BY <1>2, <2>1 DEF Counts
      <3> QED
        BY <3>1 DEF CountInv, Counting
    <2>2. CASE ~(Earned' /\ Counts(u)')
      <3>1. \A a \in Attempt : attempt[a].status = "COMPLETED" /\ session[a] \in Ended
                                 => attempt'[a].status = "COMPLETED"
        OBVIOUS
      <3>2. Earned' => Earned
        BY <2>2
      <3>3. \A a \in Attempt : Left(a) => Left(a)' \/ a \in u.todo
        BY <1>3
      <3>4. Earned' /\ Counts(task[h]) => Counts(u)'
        OBVIOUS
      <3> QED
        BY <1>1, <3>1, <3>2, <3>3, <3>4, CountSteps
    <2> QED
      BY <2>1, <2>2
  <1> QED
    BY <1>1, <1>6, <1>7, <1>8 DEF DebtInv, StaleInv

\* A new row: the session of its attempt is to come, or the course is to be counted.
LEMMA CreatesDebt ==
  ASSUME Inv, Inv', DebtInv, NEW h \in Handler, Create(h)
  PROVE  DebtInv'
  <1>1. PICK t \in Task : t = task[h]
    BY DEF Inv, Base
  <1>2. PICK n : n = made + 1
    OBVIOUS
  <1>3. PICK r : r = [item |-> t.item, gen |-> t.gen, linked |-> FALSE, learner |-> t.kind # "mark",
                      status |-> IF t.kind = "start" THEN "STARTED" ELSE "COMPLETED"]
    OBVIOUS
  <1>4. /\ t.step = "create" /\ made' = made + 1 /\ attempt' = [attempt EXCEPT ![n] = r]
        /\ UNCHANGED <<course, enrollment, practice, debts>>
        /\ Becomes(h, IF t.kind = "start" THEN Then([t EXCEPT !.on = made + 1], "session") ELSE Refresh(t))
    BY <1>1, <1>2, <1>3 DEF Create, debts, practice, history
  <1>5. /\ attempt \in [Attempt -> Row] /\ made \in Nat /\ n \in Nat /\ enrollment.generation \in Nat
        /\ AimInv(t) /\ PastInv(t) /\ t.kind # "job" /\ Duties /\ t.gen \in Nat
        /\ session \in [Attempt -> {"none", "live"} \cup Ended]
        /\ t.todo \in SUBSET Attempt
    BY <1>1, <1>2, <1>4 DEF Inv, Base, World, DebtInv, Duties, DutyTypes, AimInv, Judging, Refreshing, Task
  <1>6. r.gen = t.gen /\ r.status = IF t.kind = "start" THEN "STARTED" ELSE "COMPLETED"
    BY <1>3
  <1>7. /\ \A a \in Attempt \ {n} : attempt'[a] = attempt[a]
        /\ n \in Attempt => attempt'[n] = r
        /\ session' = session /\ evaluation' = evaluation /\ Attempt' = Attempt
    BY <1>4, <1>5 DEF practice, Attempt
  <1>8. n \in Attempt => session[n] = "none"
    BY <1>2, <1>5 DEF Duties, DutyInv
  <1>9. "none" \notin Ended
    BY DEF Ended
  <1>10. Onward
    <2>1. ASSUME NEW a \in Attempt, session[a] \in Ended PROVE Kept(a)
      BY <1>7, <1>8, <1>9, <2>1 DEF Kept
    <2> QED
      BY <1>2, <1>4, <1>5, <1>7, <2>1 DEF Onward
  <1>11. n \in Attempt => DutyInv(n)'
    <2> SUFFICES ASSUME n \in Attempt PROVE DutyInv(n)'
      OBVIOUS
    <2>1. n <= made' /\ Left(n)' = Left(n) /\ due' = due
      BY <1>2, <1>4, <1>5 DEF Left, debts
    <2>2. attempt'[n].gen <= enrollment'.generation /\ attempt'[n].status # "FAILED"
      BY <1>4, <1>5, <1>6, <1>7 DEF PastInv
    <2>3. Left(n) \/ n \in due => session[n] \in Ended
      BY <1>5 DEF Duties, DutyInv
    <2> QED
      BY <1>2, <1>4, <1>5, <1>7, <2>1, <2>2, <2>3 DEF DutyInv
  <1>12. n \in Attempt => ~Stale(n)'
    <2>1. n \in Attempt => Decision(n)' = "FAILED"
      BY <1>7, <1>8 DEF Decision
    <2> QED
      BY <2>1 DEF Stale
  <1>13. ASSUME NEW u, u.todo = t.todo, Counts(t) PROVE Counts(u)'
    <2>1. PICK a \in t.todo : attempt[a].status = "COMPLETED"
      BY <1>4, <1>13 DEF Counts
    <2>2. a # n /\ a \in Attempt
      BY <1>5, <1>8, <1>9 DEF AimInv
    <2> QED
      BY <1>7, <1>13, <2>1, <2>2 DEF Counts
  <1>14. UNCHANGED <<course, enrollment, evaluation, debts>>
    BY <1>4 DEF practice
  <1>15. ASSUME NEW u \in Task, Becomes(h, u), Fit(u)', u.todo = t.todo, u.step \in {"session", "fresh"},
                u.step = "session" => u.on = n,
                Earned' => Earned \/ Counts(u)'
         PROVE  DebtInv'
    <2>1. u.step \notin Judging /\ t.step \notin Judging
      BY <1>4, <1>15 DEF Judging
    <2>2. u.step \in Beginning =>
            \A k \in Handler \ {h} : task[k].step \in Beginning => task[k].on # u.on
      <3>1. u.step \in Beginning => u.on = n
        BY <1>15 DEF Beginning
      <3>2. \A k \in Handler : task[k].step \in Beginning => task[k].on <= made /\ task[k].on \in Nat
        BY <1>5 DEF Duties, FirstInv, Inv, Base, Task
      <3> QED
        BY <1>2, <1>5, <3>1, <3>2
    <2>3. n \in Attempt /\ attempt[n].status = "COMPLETED" /\ session[n] \in Ended
            => attempt'[n].status = "COMPLETED"
      BY <1>8, <1>9
    <2>4. Earned' /\ Counts(t) => Counts(u)'
      BY <1>13, <1>15
    <2>5. /\ \A a \in Attempt \ {n} : attempt'[a] = attempt[a] /\ session'[a] = session[a]
          /\ session' \in [Attempt -> {"none", "live"} \cup Ended]
          /\ n \in Attempt => session'[n] = session[n]
      BY <1>5, <1>7
    <2> QED
      BY <1>1, <1>10, <1>11, <1>12, <1>14, <1>15, <2>1, <2>2, <2>3, <2>4, <2>5, LoudDebt
  <1>16. \A a \in t.todo : session'[a] \in Ended
    BY <1>5, <1>7 DEF AimInv
  <1>17. CASE t.kind = "start"
    <2>1. PICK s : s = [t EXCEPT !.on = n]
      OBVIOUS
    <2>2. PICK u : u = Then(s, "session")
      OBVIOUS
    <2>3. s \in Task /\ s.on = n /\ s.todo = t.todo /\ s.kind = t.kind
      BY <1>5, <2>1 DEF Task
    <2>4. u \in Task /\ u.step = "session" /\ u.on = n /\ u.todo = t.todo /\ u.kind = t.kind
      BY <2>2, <2>3, ThenFields DEF Steps
    <2>5. Becomes(h, u)
      BY <1>2, <1>4, <1>17, <2>1, <2>2
    <2>6. Fit(u)'
      <3>1. AimInv(u)' /\ PastInv(u)' /\ VerdictInv(u)'
        BY <1>5, <1>16, <2>4 DEF AimInv, PastInv, VerdictInv, Judging, Refreshing
      <3>2. FirstInv(u)'
        BY <1>2, <1>4, <1>5, <1>7, <1>8, <2>4 DEF FirstInv
      <3> QED
        BY <3>1, <3>2 DEF Fit
    <2>7. Earned' => Earned
      BY <1>6, <1>7, <1>14, <1>17, EarnedBefore
    <2> QED
      BY <1>15, <2>4, <2>5, <2>6, <2>7
  <1>18. CASE t.kind # "start"
    <2>1. PICK u : u = Refresh(t)
      OBVIOUS
    <2>2. u \in Task /\ u.step = "fresh" /\ u.todo = t.todo /\ u.kind = t.kind
      BY <2>1, RefreshFields
    <2>3. Becomes(h, u)
      BY <1>4, <1>18, <2>1
    <2>4. Fit(u)'
      BY <1>5, <1>16, <2>2 DEF Fit, AimInv, PastInv, VerdictInv, FirstInv, Judging, Refreshing, Beginning
    <2>5. Counts(u)'
      BY <1>5, <2>2 DEF Counts
    <2> QED
      BY <1>15, <2>2, <2>3, <2>4, <2>5
  <1> QED
    BY <1>17, <1>18

\* A start gets its session, or is undone; nobody else has to do with its attempt yet.
LEMMA StartsDebt ==
  ASSUME Inv, Inv', DebtInv, NEW h \in Handler, CreateSession(h) \/ Delete(h)
  PROVE  DebtInv'
  <1>1. PICK t \in Task : t = task[h]
    BY DEF Inv, Base
  <1>2. PICK n : n = t.on
    OBVIOUS
  <1>3. /\ t.step \in Beginning /\ made' = made
        /\ UNCHANGED <<course, enrollment, evaluation, debts>>
    BY <1>1 DEF CreateSession, Delete, Beginning, debts, practice, history
  <1>4. /\ attempt \in [Attempt -> Row] /\ made \in Nat /\ n \in Nat /\ enrollment.generation \in Nat
        /\ Fit(t) /\ AimInv(t) /\ FirstInv(t) /\ t.kind # "job" /\ Duties /\ Alone
        /\ session \in [Attempt -> {"none", "live"} \cup Ended]
        /\ t.todo \in SUBSET Attempt
    BY <1>1, <1>2, <1>3 DEF Inv, Base, World, DebtInv, Duties, DutyTypes, Fit, AimInv, Judging,
                            Refreshing, Beginning, Task
  <1>5. n \in Attempt => session[n] = "none" /\ n <= made
    BY <1>2, <1>3, <1>4 DEF FirstInv
  <1>6. "none" \notin Ended /\ "live" \notin Ended
    BY DEF Ended
  <1>7. \A k \in Handler \ {h} : task[k].step \in Beginning => task[k].on # n
    BY <1>1, <1>2, <1>3, <1>4 DEF Alone
  <1>8. PICK r : r = Rest(t)
    OBVIOUS
  <1>9. r \in Task /\ Fit(r) /\ r.todo = t.todo /\ r.step \in {"idle", "load"}
    BY <1>4, <1>8, RestFit
  <1>10. ASSUME \A a \in Attempt \ {n} : attempt'[a] = attempt[a] /\ session'[a] = session[a],
                session' \in [Attempt -> {"none", "live"} \cup Ended],
                n \in Attempt => attempt'[n].status \in {"none", attempt[n].status},
                n \in Attempt /\ attempt'[n].status # "none" =>
                  attempt'[n].item = attempt[n].item /\ attempt'[n].gen = attempt[n].gen,
                n \in Attempt => (session'[n] \notin Ended),
                Ends(h)
         PROVE  DebtInv'
    <2>1. Becomes(h, r)
      BY <1>1, <1>8, <1>10 DEF Ends
    <2>2. Onward
      <3>1. ASSUME NEW a \in Attempt, session[a] \in Ended PROVE session'[a] = session[a] /\ Kept(a)
        BY <1>5, <1>6, <1>10, <3>1 DEF Kept
      <3> QED
        BY <1>3, <1>4, <3>1 DEF Onward
    <2>3. Fit(r)'
      BY <1>4, <1>9, <2>2, FitStays DEF Beginning
    <2>4. n \in Attempt => DutyInv(n)'
      <3> SUFFICES ASSUME n \in Attempt PROVE DutyInv(n)'
        OBVIOUS
      <3>1. /\ Left(n) \/ n \in due => session[n] \in Ended
            /\ attempt[n].status # "none" => attempt[n].gen <= enrollment.generation
            /\ attempt[n].status = "FAILED" => session[n] \in Ended
            /\ Left(n)' = Left(n) /\ due' = due
        BY <1>3, <1>4 DEF Duties, DutyInv, Left, debts
      <3>2. ~(n > made')
        BY <1>3, <1>4, <1>5
      <3> QED
        BY <1>3, <1>5, <1>6, <1>10, <3>1, <3>2 DEF DutyInv
    <2>5. n \in Attempt => ~Stale(n)'
      <3>1. n \in Attempt => Decision(n)' = "FAILED"
        BY <1>6, <1>10 DEF Decision, Ended
      <3> QED
        BY <3>1 DEF Stale
    <2>6. Earned' => Earned
      BY <1>3, <1>10, EarnedBefore
    <2>7. Counts(t) => Counts(r)'
      <3> SUFFICES ASSUME Counts(t) PROVE Counts(r)'
        OBVIOUS
      <3>1. PICK a \in t.todo : attempt[a].status = "COMPLETED"
        BY <1>3 DEF Counts, Beginning
      <3>2. a # n /\ a \in Attempt
        BY <1>4, <1>5, <1>6 DEF AimInv
      <3> QED
        BY <1>9, <1>10, <3>1, <3>2 DEF Counts
    <2>8. /\ r.step \notin Judging /\ r.step \notin Beginning
          /\ (t.step \in Judging => t.on = n)
      BY <1>2, <1>9 DEF Judging, Beginning
    <2>9. n \in Attempt => session[n] \notin Ended
      BY <1>5, <1>6
    <2> QED
      BY <1>1, <1>3, <1>7, <1>9, <1>10, <2>1, <2>2, <2>3, <2>4, <2>5, <2>6, <2>7, <2>8, <2>9, LoudDebt
  <1>11. CASE CreateSession(h)
    <2>1. CASE UNCHANGED <<session, attempt>> /\ Goes(h, "delete")
      <3>1. PICK u : u = [t EXCEPT !.step = "delete"]
        OBVIOUS
      <3>2. Becomes(h, u) /\ UNCHANGED Still
        BY <1>1, <1>11, <2>1, <3>1 DEF CreateSession, Goes, Still, debts, practice, history
      <3>3. u.step = "delete" /\ u.on = t.on /\ u.kind = t.kind /\ u.todo = t.todo
        BY <3>1 DEF Task
      <3>4. Fit(u)
        BY <1>3, <1>4, <3>3 DEF Fit, AimInv, PastInv, VerdictInv, FirstInv, Judging, Refreshing, Beginning
      <3>5. \A a \in Attempt : ~Fails(u, a) /\ (Holds(t, a) => Holds(u, a))
        BY <1>3, <3>3 DEF Fails, Holds, Beginning
      <3>6. Counts(t) => Counts(u)
        BY <1>3, <3>3 DEF Counts, Beginning
      <3>7. Succeeds(t, u)
        BY <1>3, <3>3, <3>4, <3>5, <3>6 DEF Succeeds
      <3> QED
        BY <1>1, <3>2, <3>7, QuietDebt
    <2>2. CASE /\ session' = [session EXCEPT ![n] = "live"]
               /\ attempt' = [attempt EXCEPT ![n].linked = TRUE] /\ Ends(h)
      <3>1. /\ \A a \in Attempt \ {n} : attempt'[a] = attempt[a] /\ session'[a] = session[a]
            /\ session' \in [Attempt -> {"none", "live"} \cup Ended]
            /\ n \in Attempt => session'[n] = "live"
        BY <1>4, <2>2
      <3>2. n \in Attempt => /\ attempt'[n].status = attempt[n].status
                             /\ attempt'[n].item = attempt[n].item /\ attempt'[n].gen = attempt[n].gen
        BY <1>4, <2>2 DEF Row
      <3> QED
        BY <1>6, <1>10, <2>2, <3>1, <3>2
    <2> QED
      BY <1>1, <1>2, <1>11, <2>1, <2>2 DEF CreateSession
  <1>12. CASE Delete(h)
    <2>1. session' = session /\ Ends(h)
      BY <1>12 DEF Delete, practice
    <2>2. CASE attempt' = [attempt EXCEPT ![n] = NoRow]
      <3>1. /\ \A a \in Attempt \ {n} : attempt'[a] = attempt[a]
            /\ n \in Attempt => attempt'[n].status = "none"
        BY <1>4, <2>2 DEF NoRow
      <3> QED
        BY <1>4, <1>5, <1>6, <1>10, <2>1, <3>1
    <2>3. CASE UNCHANGED attempt
      BY <1>4, <1>5, <1>6, <1>10, <2>1, <2>3
    <2> QED
      BY <1>1, <1>2, <1>12, <2>2, <2>3 DEF Delete
  <1> QED
    BY <1>11, <1>12

\* A reviewer completes an attempt; a decision is written.  Either goes on to the
\* count, unless the attempt belongs to the past.
LEMMA WritesDebt ==
  ASSUME Inv, Inv', DebtInv, NEW h \in Handler, MarkAttempt(h) \/ Write(h)
  PROVE  DebtInv'
  <1>1. PICK t \in Task : t = task[h]
    BY DEF Inv, Base
  <1>2. PICK n : n = t.on
    OBVIOUS
  <1>3. /\ t.step \in {"mark", "write"} /\ made' = made /\ session' = session
        /\ UNCHANGED <<course, enrollment, evaluation, debts>>
    BY <1>1 DEF MarkAttempt, Write, debts, practice, history
  <1>4. /\ attempt \in [Attempt -> Row] /\ made \in Nat /\ enrollment.generation \in Nat
        /\ AimInv(t) /\ PastInv(t) /\ VerdictInv(t) /\ Duties /\ Alone
        /\ session \in [Attempt -> {"none", "live"} \cup Ended]
        /\ t.todo \in SUBSET Attempt /\ Attempt' = Attempt
    BY <1>1 DEF Inv, Base, World, DebtInv, Duties, DutyTypes, Task, Attempt
  <1>5. /\ \A a \in Attempt : attempt[a] \in Row
        /\ n \in Attempt => (n > made => session[n] = "none")
    BY <1>4 DEF Duties, DutyInv
  <1>6. PICK r, f : r = Rest(t) /\ f = Refresh(t)
    OBVIOUS
  <1>7. /\ r \in Task /\ Fit(r) /\ r.todo = t.todo /\ r.step \in {"idle", "load"}
        /\ f \in Task /\ f.step = "fresh" /\ f.todo = t.todo /\ f.kind = t.kind
        /\ (t.kind = "job" => f.on = n)
    BY <1>2, <1>4, <1>6, RestFit, RefreshFields
  <1>8. Fit(f)
    <2>1. \A a \in t.todo : session[a] \in Ended
      BY <1>4 DEF AimInv
    <2>2. t.kind = "job" => t.on \in Attempt /\ session[t.on] \in Ended
      BY <1>3, <1>4 DEF AimInv, Judging, Refreshing
    <2> QED
      BY <1>6, <2>1, <2>2, RefreshFit
  <1>9. ASSUME NEW u, u \in {r, f}, Becomes(h, u),
               \A a \in Attempt \ {n} : attempt'[a] = attempt[a],
               n \in Attempt /\ attempt'[n].status # "none" =>
                 /\ attempt[n].status # "none" /\ attempt'[n].learner = attempt[n].learner
                 /\ attempt'[n].item = attempt[n].item /\ attempt'[n].gen = attempt[n].gen,
               n \in Attempt /\ attempt[n].status = "COMPLETED" => attempt'[n].status = "COMPLETED",
               n \in Attempt /\ attempt'[n].status = "FAILED" =>
                 session[n] \in Ended /\ Decision(n)' # "STARTED",
               n \in Attempt /\ Stale(n)' => Stale(n) /\ (Holds(t, n) => n \in t.todo),
               Earned' => Earned \/ Counts(u)'
        PROVE  DebtInv'
    <2>1. u \in Task /\ Fit(u) /\ u.todo = t.todo /\ u.step \in {"idle", "load", "fresh"}
      BY <1>7, <1>8, <1>9
    <2>2. Onward
      <3>1. ASSUME NEW a \in Attempt PROVE Kept(a)
        <4>1. CASE a = n
          BY <1>9, <4>1 DEF Kept
        <4>2. CASE a # n
          BY <1>9, <4>2 DEF Kept
        <4> QED
          BY <4>1, <4>2
      <3> QED
        BY <1>3, <1>4, <3>1 DEF Onward
    <2>3. u.step \notin Judging /\ u.step \notin Beginning /\ (t.step \in Judging => t.on = n)
      BY <1>2, <2>1 DEF Judging, Beginning
    <2>4. Fit(u)'
      BY <1>4, <2>1, <2>2, <2>3, FitStays
    <2>5. n \in Attempt => DutyInv(n)'
      <3> SUFFICES ASSUME n \in Attempt PROVE DutyInv(n)'
        OBVIOUS
      <3>1. /\ n > made => session[n] = "none"
            /\ Left(n) \/ n \in due => session[n] \in Ended
            /\ attempt[n].status # "none" => attempt[n].gen <= enrollment.generation
            /\ Left(n)' = Left(n) /\ due' = due
        BY <1>3, <1>4 DEF Duties, DutyInv, Left, debts
      <3> QED
        BY <1>3, <1>9, <3>1 DEF DutyInv
    <2>6. n \in Attempt /\ Stale(n)' =>
            Stale(n) /\ Decision(n)' = Decision(n) /\ (Holds(t, n) => n \in t.todo)
      <3> SUFFICES ASSUME n \in Attempt, Stale(n)' PROVE Decision(n)' = Decision(n)
        BY <1>9
      <3>1. attempt'[n].status # "none"
        BY DEF Stale
      <3> QED
        BY <1>3, <1>9, <3>1, DecisionStays
    <2>7. Counts(t) => Counts(u)'
      <3> SUFFICES ASSUME Counts(t) PROVE Counts(u)'
        OBVIOUS
      <3>1. PICK a \in t.todo : attempt[a].status = "COMPLETED"
        BY <1>3 DEF Counts
      <3>2. attempt'[a].status = "COMPLETED"
        BY <1>4, <1>9, <3>1
      <3> QED
        BY <2>1, <3>1, <3>2 DEF Counts
    <2>8. \A a \in Attempt \ {n} : attempt'[a] = attempt[a] /\ session'[a] = session[a]
      BY <1>3, <1>9
    <2> QED
      BY <1>1, <1>3, <1>4, <1>9, <2>1, <2>2, <2>3, <2>4, <2>5, <2>6, <2>7, <2>8, LoudDebt
  <1>10. ASSUME UNCHANGED attempt, NEW u, u \in {r, f}, Becomes(h, u),
                n \in Attempt => attempt[n].status \in {"none", "COMPLETED"}
         PROVE  DebtInv'
    <2>1. n \in Attempt => ~Stale(n)'
      BY <1>10 DEF Stale
    <2>2. Earned' => Earned
      BY <1>3, <1>10, EarnedBefore
    <2>3. n \in Attempt => attempt'[n].status # "FAILED"
      BY <1>10
    <2> QED
      BY <1>9, <1>10, <2>1, <2>2, <2>3
  <1>11. CASE MarkAttempt(h)
    <2>1. t.step = "mark" /\ t.kind # "job"
      BY <1>1, <1>4, <1>11 DEF MarkAttempt, AimInv, Judging, Refreshing
    <2>2. CASE attempt[n].status = "none"
      BY <1>1, <1>2, <1>6, <1>10, <1>11, <2>2 DEF MarkAttempt, Ends
    <2>3. CASE attempt[n].status # "none"
      <3>1. attempt' = [attempt EXCEPT ![n].status = "COMPLETED"] /\ Becomes(h, f)
        BY <1>1, <1>2, <1>6, <1>11, <2>3 DEF MarkAttempt
      <3>2. n \in Attempt => /\ attempt'[n].status = "COMPLETED"
                             /\ attempt'[n].item = attempt[n].item /\ attempt'[n].gen = attempt[n].gen
                             /\ attempt'[n].learner = attempt[n].learner
        BY <1>4, <1>5, <3>1 DEF Row
      <3>3. n \in Attempt => ~Stale(n)'
        BY <3>2 DEF Stale
      <3>4. Counts(f)'
        BY <1>7, <2>1 DEF Counts
      <3>5. \A a \in Attempt \ {n} : attempt'[a] = attempt[a]
        BY <1>4, <3>1
      <3> QED
        BY <1>9, <2>3, <3>1, <3>2, <3>3, <3>4, <3>5
    <2> QED
      BY <2>2, <2>3
  <1>12. CASE Write(h)
    <2>1. /\ t.step = "write" /\ n \in Attempt /\ session[n] \in Ended
      BY <1>1, <1>2, <1>4, <1>12 DEF Write, AimInv, Judging
    <2>2. PICK u : u = (IF t.gen = 0 THEN r ELSE f) /\ Becomes(h, u) /\ u \in {r, f}
      BY <1>1, <1>6, <1>12 DEF Write
    <2>3. CASE attempt[n].status \in {"none", "COMPLETED"}
      <3>1. UNCHANGED attempt
        BY <1>1, <1>2, <1>12, <2>3 DEF Write
      <3> QED
        BY <1>10, <2>2, <2>3, <3>1
    <2>4. CASE attempt[n].status \notin {"none", "COMPLETED"}
      <3>1. attempt' = [attempt EXCEPT ![n].status = t.got, ![n].linked = TRUE]
        BY <1>1, <1>2, <1>12, <2>4 DEF Write
      <3>2. /\ attempt'[n].status = t.got
            /\ attempt'[n].item = attempt[n].item /\ attempt'[n].gen = attempt[n].gen
            /\ attempt'[n].learner = attempt[n].learner
        BY <1>4, <1>5, <2>1, <3>1 DEF Row
      <3>3. \A a \in Attempt \ {n} : attempt'[a] = attempt[a]
        BY <1>4, <3>1
      <3>4. Decision(n)' = Decision(n)
        BY <1>3, <3>2, DecisionStays
      <3>5. t.got = "FAILED" => Decision(n) # "STARTED"
        BY <1>2, <1>4, <2>1, <2>4 DEF VerdictInv
      <3>6. Stale(n)' => Stale(n) /\ (Holds(t, n) => n \in t.todo)
        <4> SUFFICES ASSUME Stale(n)' PROVE Stale(n) /\ (Holds(t, n) => n \in t.todo)
          OBVIOUS
        <4>1. t.got \in {"STARTED", "FAILED"} /\ Decision(n) # "FAILED"
          BY <3>2, <3>4 DEF Stale
        <4>2. attempt[n].status \in {"STARTED", "FAILED"}
          BY <1>5, <2>1, <2>4 DEF Row, Outcomes
        <4>3. CASE t.got = "FAILED"
          <5>1. Fails(task[h], n)
            BY <1>1, <1>2, <2>1, <4>3 DEF Fails
          <5> QED
            BY <2>1, <4>1, <4>2, <4>3, <5>1 DEF Stale, Holds
        <4>4. CASE t.got = "STARTED"
          <5>1. PICK k \in Handler : Fails(task'[k], n)
            BY <3>2, <4>4 DEF Stale, Fails
          <5>2. task'[h] = u /\ \A j \in Handler \ {h} : task'[j] = task[j]
            BY <2>2 DEF Becomes, Inv, Base
          <5>3. k # h
            BY <1>7, <2>2, <5>1, <5>2 DEF Fails
          <5>4. Fails(task[k], n)
            BY <5>1, <5>2, <5>3 DEF Fails
          <5>5. Decision(n) # "STARTED"
            BY <1>4, <2>4, <5>4 DEF Duties, VerdictInv, Fails
          <5> QED
            BY <2>1, <4>1, <4>2, <4>4, <5>4, <5>5 DEF Stale, Holds
        <4> QED
          BY <4>1, <4>3, <4>4
      <3>7. Earned' => Earned \/ Counts(u)'
        <4>1. CASE t.got # "COMPLETED"
          BY <1>3, <3>2, <3>3, <4>1, EarnedBefore
        <4>2. CASE t.got = "COMPLETED" /\ t.gen = 0
          <5> SUFFICES ASSUME Earned' PROVE Earned
            OBVIOUS
          <5>1. enrollment.status # "DROPPED"
            BY <1>3 DEF Earned
          <5>2. attempt[n].gen < enrollment.generation
            BY <1>2, <1>4, <2>1, <2>4, <4>2, <5>1 DEF PastInv, Judging
          <5>3. attempt'[n].gen # enrollment.generation
            BY <1>4, <1>5, <2>1, <3>2, <5>2 DEF Row
          <5> QED
            BY <1>3, <3>3, <5>3, EarnedBefore
        <4>3. CASE t.got = "COMPLETED" /\ t.gen # 0
          BY <1>7, <2>2, <3>2, <4>3 DEF Counts
        <4> QED
          BY <4>1, <4>2, <4>3
      <3>8. /\ attempt'[n].status # "none" => attempt[n].status # "none"
            /\ attempt[n].status = "COMPLETED" => attempt'[n].status = "COMPLETED"
            /\ attempt'[n].status = "FAILED" => session[n] \in Ended /\ Decision(n)' # "STARTED"
        BY <2>1, <2>4, <3>2, <3>4, <3>5
      <3> QED
        BY <1>9, <2>2, <3>2, <3>3, <3>6, <3>7, <3>8
    <2> QED
      BY <2>3, <2>4
  <1> QED
    BY <1>11, <1>12

-----------------------------------------------------------------------------
(* Sessions *)

\* A session that ends, is scored or announced leaves a job, or the lack of one, on
\* record, whatever it does to a decision.
LEMMA SessionsDebt ==
  ASSUME Inv, Inv', DebtInv, NEW n \in Attempt, SessionEnds(n) \/ Scored(n) \/ Announced(n)
  PROVE  DebtInv'
  <1>1. UNCHANGED <<course, enrollment, attempt, made, task, dropped>>
    BY DEF SessionEnds, Scored, Announced, Tells, history
  <1>2. /\ task \in [Handler -> Task] /\ made \in Nat /\ enrollment.generation \in Nat
        /\ Attempt' = Attempt /\ DutyTypes /\ Duties /\ StaleInv /\ CountInv
    BY DEF Inv, Base, World, Attempt, DebtInv, Duties
  <1>3. /\ session' \in [Attempt -> {"none", "live"} \cup Ended]
        /\ evaluation' \in [Attempt -> {"none", "low", "pass"}]
        /\ \A a \in Attempt \ {n} : session'[a] = session[a] /\ evaluation'[a] = evaluation[a]
        /\ session[n] # "none" /\ session'[n] \in Ended
        /\ session[n] \in Ended => session'[n] = session[n]
        /\ session'[n] = session[n] \/ (session[n] = "live" /\ evaluation'[n] = evaluation[n])
    <2>1. CASE SessionEnds(n)
      BY <1>2, <2>1 DEF SessionEnds, DutyTypes, Ended
    <2>2. CASE Scored(n)
      BY <1>2, <2>2 DEF Scored, DutyTypes, Ended
    <2>3. CASE Announced(n)
      <3>1. session[n] \in Ended /\ session' = session /\ evaluation' = evaluation
        BY <1>2, <2>3 DEF Announced, Duties, DutyInv
      <3> QED
        BY <1>2, <3>1 DEF DutyTypes, Ended
    <2> QED
      BY <2>1, <2>2, <2>3
  <1>4. evaluation'[n] = evaluation[n] \/ Decision(n)' # "STARTED"
    <2>1. CASE SessionEnds(n)
      BY <2>1 DEF SessionEnds
    <2>2. CASE Scored(n)
      <3>1. /\ course'[attempt'[n].item].rule = "min_score" /\ session'[n] = "COMPLETED"
            /\ evaluation'[n] \in {"pass", "low"}
        BY <1>1, <1>2, <2>2 DEF Scored, DutyTypes
      <3> QED
        BY <3>1 DEF Decision
    <2>3. CASE Announced(n)
      BY <2>3 DEF Announced
    <2> QED
      BY <2>1, <2>2, <2>3
  <1>5. /\ jobs' \in [Attempt -> Nat] /\ Waits(n)'
        /\ \A a \in Attempt : Left(a) => Left(a)'
        /\ \A a \in Attempt \ {n} :
             /\ Left(a)' = Left(a) /\ Waits(a)' = Waits(a) /\ (a \in due' <=> a \in due)
    <2>1. ASSUME NEW id, Tells(n, id), due' \in {due, due \ {n}}
          PROVE  /\ jobs' \in [Attempt -> Nat] /\ (jobs'[n] > 0 \/ n \in ignored')
                 /\ \A a \in Attempt : jobs[a] > 0 => jobs'[a] > 0
                 /\ \A a \in Attempt \ {n} :
                      jobs'[a] = jobs[a] /\ (a \in due' <=> a \in due) /\ (a \in ignored' <=> a \in ignored)
      <3>1. CASE <<n, id>> \in used
        BY <1>2, <2>1, <3>1 DEF Tells, DutyTypes
      <3>2. CASE <<n, id>> \notin used
        BY <1>2, <2>1, <3>2 DEF Tells, DutyTypes
      <3> QED
        BY <3>1, <3>2
    <2>2. CASE SessionEnds(n)
      BY <1>1, <2>1, <2>2 DEF SessionEnds, Waits, Left
    <2>3. CASE Scored(n)
      BY <1>1, <1>2, <2>3 DEF Scored, history, Waits, Left, DutyTypes
    <2>4. CASE Announced(n)
      BY <1>1, <2>1, <2>4 DEF Announced, Waits, Left
    <2> QED
      BY <2>2, <2>3, <2>4
  <1>6. \A a \in Attempt \ {n} : Decision(a)' = Decision(a)
    BY <1>1, <1>3 DEF Decision
  <1>7. Onward
    BY <1>1, <1>2, <1>3, <1>4 DEF Onward, Kept
  <1>8. "live" \notin Ended
    BY DEF Ended
  <1>9. ASSUME NEW a \in Attempt PROVE DutyInv(a)'
    <2>1. /\ a > made => session[a] = "none"
          /\ Left(a) \/ a \in due => session[a] \in Ended
          /\ attempt[a].status # "none" => attempt[a].gen <= enrollment.generation
          /\ attempt[a].status = "FAILED" => session[a] \in Ended /\ Decision(a) # "STARTED"
      BY <1>2 DEF Duties, DutyInv
    <2>2. CASE a # n
      BY <1>1, <1>3, <1>5, <1>6, <2>1, <2>2 DEF DutyInv
    <2>3. CASE a = n
      <3>1. attempt[n].status = "FAILED" => Decision(n)' # "STARTED"
        <4>1. CASE evaluation'[n] = evaluation[n]
          BY <1>1, <1>3, <1>8, <2>1, <2>3, <4>1, DecisionStays
        <4>2. CASE evaluation'[n] # evaluation[n]
          BY <1>4, <4>2
        <4> QED
          BY <4>1, <4>2
      <3> QED
        BY <1>1, <1>3, <2>1, <2>3, <3>1 DEF DutyInv
    <2> QED
      BY <2>2, <2>3
  <1>10. ASSUME NEW k \in Handler
         PROVE  (AimInv(task[k]) /\ PastInv(task[k]) /\ VerdictInv(task[k]) /\ FirstInv(task[k]))'
    <2>1. PICK t \in Task : t = task[k]
      BY <1>2
    <2>2. AimInv(t) /\ PastInv(t) /\ VerdictInv(t) /\ FirstInv(t)
      BY <1>2, <2>1 DEF Duties
    <2>3. AimInv(t)' /\ PastInv(t)' /\ VerdictInv(t)'
      BY <1>2, <1>7, <2>2, AimStays
    <2>4. FirstInv(t)'
      BY <1>1, <1>2, <1>3, <2>2 DEF FirstInv
    <2>5. task'[k] = t
      BY <1>1, <2>1
    <2> QED
      BY <2>3, <2>4, <2>5 DEF AimInv, PastInv, VerdictInv, FirstInv, Decision
  <1>11. Duties'
    <2>1. Alone' /\ DutyTypes'
      BY <1>1, <1>2, <1>3, <1>5 DEF Duties, Alone, DutyTypes
    <2> QED
      BY <1>2, <1>9, <1>10, <2>1 DEF Duties
  <1>12. ASSUME NEW a \in Attempt PROVE Stale(a)' => Pending(a)'
    <2>1. CASE a = n
      BY <1>5, <2>1 DEF Pending
    <2>2. CASE a # n
      <3>1. Stale(a)' => Stale(a)
        BY <1>1, <1>6, <2>2 DEF Stale, Fails
      <3>2. Pending(a) => Pending(a)'
        BY <1>1, <1>5, <1>6, <2>2 DEF Pending, Holds
      <3> QED
        BY <1>2, <3>1, <3>2 DEF StaleInv
    <2> QED
      BY <2>1, <2>2
  <1>13. CountInv'
    <2>1. Earned' => Earned
      BY <1>1, EarnedBefore
    <2>2. Counting => Counting'
      BY <1>1, <1>2, <1>5 DEF Counting, Counts
    <2> QED
      BY <1>2, <2>1, <2>2 DEF CountInv
  <1> QED
    BY <1>2, <1>11, <1>12, <1>13 DEF DebtInv, StaleInv

-----------------------------------------------------------------------------
(* Nothing owed is forgotten *)

LEMMA DebtInit == Init => DebtInv
  <1> SUFFICES ASSUME Init PROVE DebtInv
    OBVIOUS
  <1>1. \A h \in Handler : task[h] = Idle
    BY DEF Init
  <1>2. DutyTypes
    BY DEF Init, DutyTypes
  <1>3. \A a \in Attempt : attempt[a].status = "none" /\ ~Left(a) /\ a \notin due /\ session[a] = "none"
    BY DEF Init, NoRow, Left
  <1>4. \A a \in Attempt : DutyInv(a)
    BY <1>3 DEF DutyInv
  <1>5. Alone
    BY <1>1, IdleFit DEF Alone, Beginning
  <1>6. \A h \in Handler :
          AimInv(task[h]) /\ PastInv(task[h]) /\ VerdictInv(task[h]) /\ FirstInv(task[h])
    BY <1>1, IdleFit DEF Fit
  <1>7. StaleInv
    BY <1>3 DEF StaleInv, Stale
  <1>8. CountInv
    BY DEF Init, CountInv, Earned
  <1> QED
    BY <1>2, <1>4, <1>5, <1>6, <1>7, <1>8 DEF DebtInv, Duties

LEMMA DebtStep == Inv /\ Inv' /\ DebtInv /\ [Next]_vars => DebtInv'
  <1> SUFFICES ASSUME Inv, Inv', DebtInv, [Next]_vars PROVE DebtInv'
    OBVIOUS
  <1>1. ASSUME NEW h \in Handler, Works(h) PROVE DebtInv'
    BY <1>1, EnrollsDebt, ChecksDebt, CreatesDebt, StartsDebt, WritesDebt, LoadsDebt, JudgesDebt,
       LooksDebt DEF Works
  <1>2. ASSUME NEW h \in Handler, TakeJob(h) \/ Crash(h) PROVE DebtInv'
    BY <1>2, JobsDebt
  <1>3. ASSUME NEW h \in Handler, Open(h) PROVE DebtInv'
    BY <1>3, JobsDebt
  <1>4. ASSUME NEW h \in Handler, NEW i \in Item,
               Visit(h, "start", i) \/ Visit(h, "complete", i) \/ Mark(h, i)
        PROVE  DebtInv'
    BY <1>4, BeginsDebt
  <1>5. ASSUME NEW h \in Handler, Call(h, "over") \/ Call(h, "drop") PROVE DebtInv'
    BY <1>5, BeginsDebt
  <1>6. ASSUME NEW a \in Attempt, SessionEnds(a) \/ Scored(a) \/ Announced(a) PROVE DebtInv'
    BY <1>6, SessionsDebt
  <1>7. CASE UNCHANGED vars
    <2>1. /\ UNCHANGED <<course, enrollment, attempt, made, session, evaluation, due, jobs, task>>
          /\ UNCHANGED <<ignored, dropped>>
      BY <1>7 DEF vars
    <2>2. Duties'
      <3>1. DutyTypes' /\ Alone'
        BY <2>1 DEF DebtInv, Duties, DutyTypes, Alone, Attempt
      <3>2. \A a \in Attempt : DutyInv(a)'
        BY <2>1 DEF DebtInv, Duties, DutyInv, Left, Decision
      <3>3. \A h \in Handler : (AimInv(task[h]) /\ PastInv(task[h]))'
        BY <2>1 DEF DebtInv, Duties, AimInv, PastInv, Attempt
      <3>4. \A h \in Handler : (VerdictInv(task[h]) /\ FirstInv(task[h]))'
        BY <2>1 DEF DebtInv, Duties, VerdictInv, FirstInv, Decision, Attempt
      <3> QED
        BY <3>1, <3>2, <3>3, <3>4 DEF Duties, Attempt
    <2>3. StaleInv'
      BY <2>1 DEF DebtInv, StaleInv, Stale, Fails, Pending, Waits, Left, Holds, Decision, Attempt
    <2>4. CountInv'
      BY <2>1 DEF DebtInv, CountInv, Counting, Counts, Left, Earned, Complete, Counted, Done, Rows, Item, Attempt
    <2> QED
      BY <2>2, <2>3, <2>4 DEF DebtInv
  <1> QED
    BY <1>1, <1>2, <1>3, <1>4, <1>5, <1>6, <1>7 DEF Next

LEMMA DebtAlways == Spec => []DebtInv
  BY InvInit, InvStep, DebtInit, DebtStep, PTL DEF Spec

\* When nothing is in progress, queued or to be announced, no attempt is failed whose
\* latest evaluation has passed, in whatever order and however often the jobs that judged
\* it ran: but for a job that was given up, and an announcement that was ignored.
THEOREM NoStaleFailureAlways == Spec => []NoStaleFailure
  <1>1. DebtInv => NoStaleFailure
    <2> SUFFICES ASSUME DebtInv, AtRest, NEW a \in Attempt \ (ignored \cup dropped),
                        attempt[a].status = "FAILED", Decision(a) # "FAILED"
                 PROVE  FALSE
      BY DEF NoStaleFailure
    <2>1. Stale(a)
      BY DEF Stale
    <2>2. /\ Pending(a) /\ jobs[a] = 0 /\ due = {} /\ a \notin ignored \cup dropped
          /\ \A h \in Handler : task[h] = Idle
      BY <2>1 DEF DebtInv, StaleInv, AtRest
    <2>3. ~Waits(a)
      BY <2>2 DEF Waits, Left
    <2> QED
      BY <2>2, <2>3, IdleFit DEF Pending, Holds
  <1> QED
    BY <1>1, DebtAlways, PTL

\* When nothing is in progress, queued or to be announced, a learner who has completed
\* all that counts has completed the course, whichever handlers completed the last items
\* side by side: but for a job of a completed attempt that was given up.
THEOREM EarnedIsCompletedAlways == Spec => []EarnedIsCompleted
  <1>1. DebtInv => EarnedIsCompleted
    <2> SUFFICES ASSUME DebtInv, AtRest, Earned
                 PROVE  \E a \in dropped : attempt[a].status = "COMPLETED"
      BY DEF EarnedIsCompleted, Earned
    <2>1. Counting /\ (\A a \in Attempt : jobs[a] = 0) /\ \A h \in Handler : task[h] = Idle
      BY DEF DebtInv, CountInv, AtRest
    <2>2. \A h \in Handler : ~Counts(task[h])
      BY <2>1, IdleFit DEF Counts
    <2>3. PICK a \in Attempt : Left(a) /\ attempt[a].status = "COMPLETED"
      BY <2>1, <2>2 DEF Counting
    <2> QED
      BY <2>1, <2>3 DEF Left
  <1> QED
    BY <1>1, DebtAlways, PTL
=============================================================================
