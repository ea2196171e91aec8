--------------------------- MODULE CourseProgress ---------------------------
(***************************************************************************)
(* One learner in one course (modules/courses).  The learner starts and    *)
(* completes items, starts over, leaves and enrolls again (learn.service); *)
(* a reviewer marks items complete and removes learners                    *)
(* (enrollments.service); jobs after the end and after the analysis of a   *)
(* session, and every visit of the learner, judge the attempt the session  *)
(* belongs to and complete the enrollment (course-progress.service,        *)
(* course-rules).  Nothing is transactional: each handler works on what it *)
(* has read, call by call, next to the others.                             *)
(***************************************************************************)
EXTENDS Integers, FiniteSets

CONSTANTS
  Handler,        \* requests and jobs that may be in progress at the same time
  Courses,        \* courses that are looked at: sequences of items, in forced order
  MaxAttempts,    \* bound on CourseItemAttempt rows
  MaxGeneration,  \* bound on Enrollment.generation
  MaxEvaluations, \* bound on the scorings of all sessions
  MaxCrashes      \* bound on the jobs that die

ASSUME CourseAssumption ==
  /\ MaxAttempts \in Nat /\ MaxGeneration \in Nat
  /\ MaxEvaluations \in Nat /\ MaxCrashes \in Nat

VARIABLES
  course,      \* the course, whose items nobody edits meanwhile
  enrollment,  \* Enrollment: status (NONE before it exists) and generation
  attempt,     \* CourseItemAttempt rows; status none: not yet created, or deleted
  made,        \* rows created so far; a row's number stands for startedAt
  session,     \* the session started for each attempt
  evaluation,  \* what its current evaluation says
  row,         \* which Evaluation row of the session that is, 0: none
  evaluations, \* scorings so far
  due,         \* attempts whose session is scored, and its pipeline not completed
  jobs,        \* how many attempt.refresh jobs of each attempt are in the queue
  used,        \* the job ids that the queue has had
  task,        \* what each handler is doing
  crashes,
  ignored,     \* attempts an event of whose session has found its job id used
  dropped,     \* attempts a job of whose session was given up
  erased       \* a completed attempt was deleted

vars == <<course, enrollment, attempt, made, session, evaluation, row, evaluations, due, jobs,
          used, task, crashes, ignored, dropped, erased>>

practice == <<session, evaluation, row, evaluations, due, used>>
history == <<crashes, ignored, dropped, erased>>

-----------------------------------------------------------------------------
(* course-rules *)

Attempt == 1..MaxAttempts
Item == DOMAIN course

\* computeProgress: the required items count, or all when none is required.
Counted ==
  LET required == {i \in Item : course[i].required}
  IN IF required = {} THEN Item ELSE required

\* itemStatus: only attempts of the generation matter.
Rows(i, g) ==
  {a \in Attempt : attempt[a].status # "none" /\ attempt[a].item = i /\ attempt[a].gen = g}

Done(i, g) == \E a \in Rows(i, g) : attempt[a].status = "COMPLETED"

Complete(g) == Counted # {} /\ \A i \in Counted : Done(i, g)

Locked(i, g) == \E j \in Item : j < i /\ course[j].required /\ ~Done(j, g)

Ended == {"COMPLETED", "ENDED"}

\* decideAttempt, for a session that is over.
Decision(a) ==
  LET rule == course[attempt[a].item].rule IN
  IF session[a] # "COMPLETED" THEN "FAILED"
  ELSE IF rule \in {"session_completed", "viewed"} THEN "COMPLETED"
  ELSE IF rule = "manual" \/ evaluation[a] = "none" THEN "STARTED"
  ELSE IF evaluation[a] = "pass" THEN "COMPLETED" ELSE "FAILED"

-----------------------------------------------------------------------------
(* Handlers *)

\* on: the attempt at hand; got: a status that was read or decided; todo: the
\* attempts that a job or a visit still has to judge.
Idle == [kind |-> "none", step |-> "idle", item |-> 0, gen |-> 0, on |-> 0,
         got |-> "none", todo |-> {}]

NoRow == [item |-> 0, gen |-> 0, status |-> "none", linked |-> FALSE, learner |-> FALSE]

Init ==
  /\ course \in Courses
  /\ enrollment = [status |-> "NONE", generation |-> 0]
  /\ attempt = [a \in Attempt |-> NoRow] /\ made = 0
  /\ session = [a \in Attempt |-> "none"]
  /\ evaluation = [a \in Attempt |-> "none"] /\ row = [a \in Attempt |-> 0]
  /\ evaluations = 0 /\ due = {}
  /\ jobs = [a \in Attempt |-> 0] /\ used = {} /\ task = [h \in Handler |-> Idle]
  /\ crashes = 0 /\ ignored = {} /\ dropped = {} /\ erased = FALSE

Becomes(h, t) == task' = [task EXCEPT ![h] = t]
Goes(h, step) == Becomes(h, [task[h] EXCEPT !.step = step])

\* A step that needs no more than the attempt at hand and those that follow.
Then(t, step) == [Idle EXCEPT !.kind = t.kind, !.step = step, !.on = t.on, !.todo = t.todo]

\* The handler is done with an attempt: on to the next, or it returns.
Rest(t) ==
  IF t.todo = {} THEN Idle ELSE [Idle EXCEPT !.kind = t.kind, !.step = "load", !.todo = t.todo]
Ends(h) == Becomes(h, Rest(task[h]))

\* refreshEnrollmentStatus is next.
Refresh(t) == [Then(t, "fresh") EXCEPT !.on = IF t.kind = "job" THEN t.on ELSE 0]

Enrolled == enrollment.status \in {"ACTIVE", "COMPLETED"}

\* Bounds: a handler never has to stop half way for want of a row or a generation.
At(steps) == {h \in Handler : task[h].step \in steps}
RoomForAttempt == made + Cardinality(At({"enroll", "check", "create"})) < MaxAttempts
RoomForGeneration ==
  enrollment.generation + Cardinality(At({"enroll", "over"})) < MaxGeneration

-----------------------------------------------------------------------------
(* Requests: the enrollment is read first *)

\* start and complete enroll a learner who is not (requireEnrollment).
Visit(h, kind, i) ==
  /\ task[h] = Idle /\ RoomForAttempt
  /\ \/ kind = "start" /\ course[i].scenario
     \/ kind = "complete" /\ course[i].rule = "viewed"
  /\ Enrolled \/ RoomForGeneration
  /\ Becomes(h, [Idle EXCEPT !.kind = kind, !.item = i, !.gen = enrollment.generation,
                             !.got = IF Enrolled THEN "none" ELSE enrollment.status,
                             !.step = IF Enrolled THEN "check" ELSE "enroll"])
  /\ UNCHANGED <<course, enrollment, attempt, made, practice, jobs, history>>

\* A dropped enrollment that was read is revived, whatever it is by now; one that
\* was missing is created, unless somebody else did.
Enroll(h) ==
  LET again == task[h].got = "DROPPED" \/ enrollment.status = "NONE" IN
  /\ task[h].step = "enroll"
  /\ enrollment' = IF again
       THEN [status |-> "ACTIVE", generation |-> enrollment.generation + 1]
       ELSE enrollment
  /\ Becomes(h, [task[h] EXCEPT !.step = "check", !.got = "none", !.gen = enrollment'.generation])
  /\ UNCHANGED <<course, attempt, made, practice, jobs, history>>

\* A reviewer's markComplete.
Mark(h, i) ==
  /\ task[h] = Idle /\ RoomForAttempt
  /\ Enrolled /\ course[i].rule = "manual"
  /\ Becomes(h, [Idle EXCEPT !.kind = "mark", !.item = i, !.gen = enrollment.generation,
                             !.step = "check"])
  /\ UNCHANGED <<course, enrollment, attempt, made, practice, jobs, history>>

\* The attempts of the generation that was read: a learner's item must be
\* unlocked; what is done is not done again; a reviewer completes the learner's
\* latest attempt if there is one.
Check(h) ==
  LET t == task[h]
      mine == Rows(t.item, t.gen)
  IN
  /\ t.step = "check"
  /\ IF t.kind # "mark" /\ Locked(t.item, t.gen) THEN Ends(h)
     ELSE IF t.kind # "start" /\ Done(t.item, t.gen) THEN Becomes(h, Refresh(t))
     ELSE IF t.kind = "mark" /\ mine # {}
          THEN Becomes(h, Then([t EXCEPT !.on = CHOOSE a \in mine : \A b \in mine : b <= a], "mark"))
          ELSE Goes(h, "create")
  /\ UNCHANGED <<course, enrollment, attempt, made, practice, jobs, history>>

\* Mutant: the attempt goes to the generation of now.
CreatesInNow(h) ==
  LET t == task[h] IN
  /\ t.step = "create"
  /\ made' = made + 1
  /\ attempt' = [attempt EXCEPT ![made + 1] =
       [item |-> t.item, gen |-> enrollment.generation, linked |-> FALSE, learner |-> t.kind # "mark",
        status |-> IF t.kind = "start" THEN "STARTED" ELSE "COMPLETED"]]
  /\ Becomes(h, IF t.kind = "start" THEN Then([t EXCEPT !.on = made + 1], "session") ELSE Refresh(t))
  /\ UNCHANGED <<course, enrollment, practice, jobs, history>>

Create(h) ==
  LET t == task[h] IN
  /\ t.step = "create"
  /\ made' = made + 1
  /\ attempt' = [attempt EXCEPT ![made + 1] =
       [item |-> t.item, gen |-> t.gen, linked |-> FALSE, learner |-> t.kind # "mark",
        status |-> IF t.kind = "start" THEN "STARTED" ELSE "COMPLETED"]]
  /\ Becomes(h, IF t.kind = "start" THEN Then([t EXCEPT !.on = made + 1], "session") ELSE Refresh(t))
  /\ UNCHANGED <<course, enrollment, practice, jobs, history>>

\* start: createSession, which may be refused, then the link to it, which may
\* fail; the events of a session that is left without an attempt find nothing.
CreateSession(h) ==
  LET a == task[h].on IN
  /\ task[h].step = "session"
  /\ \/ UNCHANGED <<session, attempt>> /\ Goes(h, "delete")
     \/ /\ session' = [session EXCEPT ![a] = "live"]
        /\ attempt' = [attempt EXCEPT ![a].linked = TRUE] /\ Ends(h)
  /\ UNCHANGED <<course, enrollment, made, evaluation, row, evaluations, due, used, jobs, history>>

\* The catch of start: the attempt goes, whatever it is by now, if that works.
Delete(h) ==
  LET a == task[h].on IN
  /\ task[h].step = "delete"
  /\ \/ attempt' = [attempt EXCEPT ![a] = NoRow]
        /\ erased' = (erased \/ attempt[a].status = "COMPLETED")
     \/ UNCHANGED <<attempt, erased>>
  /\ Ends(h)
  /\ UNCHANGED <<course, enrollment, made, practice, jobs, crashes, ignored, dropped>>

\* markComplete on an attempt that was read; it throws if the row is gone.
MarkAttempt(h) ==
  LET a == task[h].on IN
  /\ task[h].step = "mark"
  /\ IF attempt[a].status = "none"
     THEN Ends(h) /\ UNCHANGED attempt
     ELSE attempt' = [attempt EXCEPT ![a].status = "COMPLETED"] /\ Becomes(h, Refresh(task[h]))
  /\ UNCHANGED <<course, enrollment, made, practice, jobs, history>>

\* startOver and both unenrolls read the enrollment, then overwrite its row.
Call(h, kind) ==
  /\ task[h] = Idle /\ Enrolled
  /\ kind = "over" => RoomForGeneration
  /\ Becomes(h, [Idle EXCEPT !.kind = kind, !.step = kind])
  /\ UNCHANGED <<course, enrollment, attempt, made, practice, jobs, history>>

StartOver(h) ==
  /\ task[h].step = "over"
  /\ enrollment' = [status |-> "ACTIVE", generation |-> enrollment.generation + 1]
  /\ Ends(h)
  /\ UNCHANGED <<course, attempt, made, practice, jobs, history>>

Unenroll(h) ==
  /\ task[h].step = "drop"
  /\ enrollment' = [enrollment EXCEPT !.status = "DROPPED"]
  /\ Ends(h)
  /\ UNCHANGED <<course, attempt, made, practice, jobs, history>>

-----------------------------------------------------------------------------
(* refreshAttemptForSession, for a job or a visit *)

Job(a) == [Idle EXCEPT !.kind = "job", !.step = "load", !.todo = {a}]

\* What was missed of an attempt matters no longer once it is taken up again.
TakesUp(S) ==
  ignored' = ignored \ S /\ dropped' = dropped \ S /\ UNCHANGED <<crashes, erased>>

TakeJob(h) ==
  /\ task[h] = Idle
  /\ \E a \in Attempt :
       jobs[a] > 0 /\ jobs' = [jobs EXCEPT ![a] = @ - 1] /\ Becomes(h, Job(a)) /\ TakesUp({a})
  /\ UNCHANGED <<course, enrollment, attempt, made, practice>>

\* reconcileEnrollment, when the learner opens the course: attempts that wait
\* though their session is over.
Waiting ==
  {a \in Attempt : /\ attempt[a].status = "STARTED" /\ attempt[a].linked
                   /\ attempt[a].gen = enrollment.generation /\ session[a] \in Ended}

Open(h) ==
  /\ task[h] = Idle /\ Enrolled /\ Waiting # {}
  /\ Becomes(h, [Idle EXCEPT !.kind = "open", !.step = "load", !.todo = Waiting])
  /\ TakesUp(Waiting)
  /\ UNCHANGED <<course, enrollment, attempt, made, practice, jobs>>

\* Mutant: a completed attempt needs no refresh of anything.
SkipsCompleted(h) ==
  /\ task[h].step = "load"
  /\ \E a \in task[h].todo :
       LET t == [task[h] EXCEPT !.todo = @ \ {a}, !.on = a,
                                !.gen = IF enrollment.status = "DROPPED" THEN 0 ELSE 1]
       IN Becomes(h, IF attempt[a].status \in {"STARTED", "FAILED"} /\ session[a] \in Ended
                     THEN [t EXCEPT !.step = "judge"] ELSE Rest(t))
  /\ UNCHANGED <<course, enrollment, attempt, made, practice, jobs, history>>

\* The session, its attempt and the enrollment.  A completed attempt is not
\* judged again; a learner who has left is not completed (gen 0).
Load(h) ==
  /\ task[h].step = "load"
  /\ \E a \in task[h].todo :
       LET t == [task[h] EXCEPT !.todo = @ \ {a}, !.on = a,
                                !.gen = IF enrollment.status = "DROPPED" THEN 0 ELSE 1]
       IN Becomes(h,
            CASE attempt[a].status = "COMPLETED" /\ t.gen > 0 -> Refresh(t)
              [] attempt[a].status \in {"STARTED", "FAILED"} /\ session[a] \in Ended ->
                   [t EXCEPT !.step = "judge"]
              [] OTHER -> Rest(t))
  /\ UNCHANGED <<course, enrollment, attempt, made, practice, jobs, history>>

\* The current evaluation, and what follows from it.
Judge(h) ==
  LET t == task[h] IN
  /\ t.step = "judge"
  /\ Becomes(h, IF attempt[t.on].status = "none" THEN [t EXCEPT !.step = "write"]
                ELSE [t EXCEPT !.step = "write", !.got = Decision(t.on)])
  /\ UNCHANGED <<course, enrollment, attempt, made, practice, jobs, history>>

\* Mutant: a completed attempt is judged again.
WritesAnyway(h) ==
  LET t == task[h] IN
  /\ t.step = "write"
  /\ attempt' = IF attempt[t.on].status = "none" THEN attempt
                ELSE [attempt EXCEPT ![t.on].status = t.got, ![t.on].linked = TRUE]
  /\ Becomes(h, IF t.gen = 0 THEN Rest(t) ELSE Refresh(t))
  /\ UNCHANGED <<course, enrollment, made, practice, jobs, history>>

\* The decision is written unless the attempt was completed, or deleted, meanwhile.
Write(h) ==
  LET t == task[h] IN
  /\ t.step = "write"
  /\ attempt' = IF attempt[t.on].status \in {"none", "COMPLETED"} THEN attempt
                ELSE [attempt EXCEPT ![t.on].status = t.got, ![t.on].linked = TRUE]
  /\ Becomes(h, IF t.gen = 0 THEN Rest(t) ELSE Refresh(t))
  /\ UNCHANGED <<course, enrollment, made, practice, jobs, history>>

-----------------------------------------------------------------------------
(* refreshEnrollmentStatus *)

\* The enrollment is read again.
Fresh(h) ==
  /\ task[h].step = "fresh"
  /\ IF enrollment.status = "DROPPED" THEN Ends(h)
     ELSE Becomes(h, [task[h] EXCEPT !.step = "count", !.gen = enrollment.generation,
                                     !.got = enrollment.status])
  /\ UNCHANGED <<course, enrollment, attempt, made, practice, jobs, history>>

\* progressFor: the attempts of that generation.
Count(h) ==
  /\ task[h].step = "count"
  /\ IF Complete(task[h].gen) /\ task[h].got # "COMPLETED" THEN Goes(h, "cas") ELSE Ends(h)
  /\ UNCHANGED <<course, enrollment, attempt, made, practice, jobs, history>>

\* Mutant: the update has no generation in its WHERE.
CompletesAnyGeneration(h) ==
  /\ task[h].step = "cas"
  /\ enrollment' = IF enrollment.status = "ACTIVE" THEN [enrollment EXCEPT !.status = "COMPLETED"] ELSE enrollment
  /\ Ends(h)
  /\ UNCHANGED <<course, attempt, made, practice, jobs, history>>

\* Completed, if it is still active in the generation that was counted.
CompleteEnrollment(h) ==
  /\ task[h].step = "cas"
  /\ enrollment' = IF enrollment = [status |-> "ACTIVE", generation |-> task[h].gen]
                   THEN [enrollment EXCEPT !.status = "COMPLETED"] ELSE enrollment
  /\ Ends(h)
  /\ UNCHANGED <<course, attempt, made, practice, jobs, history>>

-----------------------------------------------------------------------------
(* Sessions, their analysis, and deaths *)

\* onSessionEvent: a job named after the session and the event; the queue ignores a
\* job with an id that it has had.
Tells(a, id) ==
  /\ IF <<a, id>> \in used
     THEN ignored' = ignored \cup {a} /\ UNCHANGED <<jobs, used>>
     ELSE /\ jobs' = [jobs EXCEPT ![a] = @ + 1] /\ used' = used \cup {<<a, id>>}
          /\ UNCHANGED ignored
  /\ UNCHANGED <<crashes, dropped, erased>>

\* session.terminal, once.
SessionEnds(a) ==
  /\ session[a] = "live"
  /\ \E end \in Ended : session' = [session EXCEPT ![a] = end]
  /\ Tells(a, <<"terminal", 0>>)
  /\ UNCHANGED <<course, enrollment, attempt, made, evaluation, row, evaluations, due, task>>

\* The scoring of a session whose score matters: a run makes a row of its own, a
\* step that is retried writes the row of its run again.  Low: below the mark, or
\* without enough evidence.
Scored(a) ==
  /\ session[a] = "COMPLETED" /\ evaluations < MaxEvaluations
  /\ attempt[a].status # "none" /\ course[attempt[a].item].rule = "min_score"
  /\ \E e \in {"pass", "low"} : evaluation' = [evaluation EXCEPT ![a] = e]
  /\ \/ row' = [row EXCEPT ![a] = @ + 1]
     \/ row[a] > 0 /\ UNCHANGED row
  /\ evaluations' = evaluations + 1 /\ due' = due \cup {a}
  /\ UNCHANGED <<course, enrollment, attempt, made, session, jobs, used, task, history>>

\* completePipeline: session.analyzed with the evaluation that is current by then,
\* or session.failed, after a scoring that was to be done again and failed.
Announced(a) ==
  /\ a \in due /\ due' = due \ {a}
  /\ Tells(a, <<"analyzed", row[a]>>) \/ Tells(a, <<"analysis_failed", 0>>)
  /\ UNCHANGED <<course, enrollment, attempt, made, session, evaluation, row, evaluations, task>>

\* A job dies, or throws: BullMQ runs it again, until it has used its attempts or
\* has stalled twice (which is not counted here: any death may be the last).
Crash(h) ==
  LET lost == task[h].todo \cup ({task[h].on} \ {0}) IN
  /\ task[h].kind = "job" /\ crashes < MaxCrashes /\ crashes' = crashes + 1
  /\ \/ /\ jobs' = [a \in Attempt |-> jobs[a] + IF a \in lost THEN 1 ELSE 0]
        /\ UNCHANGED dropped
     \/ dropped' = dropped \cup lost /\ UNCHANGED jobs
  /\ Becomes(h, Idle)
  /\ UNCHANGED <<course, enrollment, attempt, made, practice, ignored, erased>>

Works(h) ==
  \/ Enroll(h) \/ Check(h) \/ Create(h) \/ CreateSession(h) \/ Delete(h)
  \/ MarkAttempt(h) \/ StartOver(h) \/ Unenroll(h)
  \/ Load(h) \/ Judge(h) \/ Write(h) \/ Fresh(h) \/ Count(h) \/ CompleteEnrollment(h)

Next ==
  \/ \E h \in Handler :
       \/ Works(h) \/ TakeJob(h) \/ Open(h) \/ Crash(h)
       \/ \E i \in Item : Visit(h, "start", i) \/ Visit(h, "complete", i) \/ Mark(h, i)
       \/ Call(h, "over") \/ Call(h, "drop")
  \/ \E a \in Attempt : SessionEnds(a) \/ Scored(a) \/ Announced(a)

Spec == Init /\ [][Next]_vars

-----------------------------------------------------------------------------
(* Properties *)

TypeOK ==
  /\ course \in Courses
  /\ enrollment \in [status : {"NONE", "ACTIVE", "COMPLETED", "DROPPED"}, generation : 0..MaxGeneration]
  /\ attempt \in [Attempt -> [item : Item \cup {0}, gen : 0..MaxGeneration,
       status : {"none", "STARTED", "COMPLETED", "FAILED"}, linked : BOOLEAN, learner : BOOLEAN]]
  /\ made \in 0..MaxAttempts
  /\ session \in [Attempt -> {"none", "live"} \cup Ended]
  /\ evaluation \in [Attempt -> {"none", "low", "pass"}]
  /\ row \in [Attempt -> 0..MaxEvaluations] /\ evaluations \in 0..MaxEvaluations
  /\ jobs \in [Attempt -> 0..(2 + MaxEvaluations + MaxCrashes)]
  /\ due \cup ignored \cup dropped \subseteq Attempt
  /\ crashes \in 0..MaxCrashes /\ erased \in BOOLEAN

\* A course is never recorded as completed without its required items completed
\* since the learner last started over or enrolled, whatever the handler that
\* completed it had read (a start that fails may delete an attempt that a reviewer
\* has completed meanwhile: the only exception).
CompletedIsEarned ==
  enrollment.status = "COMPLETED" /\ ~erased => Complete(enrollment.generation)

\* Nothing is in progress, queued or still to be announced.
AtRest ==
  due = {} /\ (\A a \in Attempt : jobs[a] = 0) /\ \A h \in Handler : task[h] = Idle

\* When everything is at rest, a learner who has completed all that counts has
\* completed the course: of two handlers that complete the last two items side by
\* side, one sees both, and a job that is run again counts again.  The exception is
\* a job that was given up after its attempt was completed: nobody else counts.
EarnedIsCompleted ==
  AtRest /\ enrollment.status = "ACTIVE" /\ Complete(enrollment.generation) =>
    \E a \in dropped : attempt[a].status = "COMPLETED"

\* No learner has an attempt at an item without the earlier required ones completed
\* in the same generation, also when another request starts over in between.
InOrder ==
  \A a \in Attempt :
    attempt[a].status # "none" /\ attempt[a].learner /\ ~erased => ~Locked(attempt[a].item, attempt[a].gen)

\* Jobs that run late, side by side, again or in the wrong order leave no attempt
\* failed whose latest evaluation has passed (one that is left waiting is judged when
\* the learner next opens the course).  The exceptions are a job that was given up and
\* a scoring that was written over the evaluation of an earlier announcement: its own
\* announcement has the id of that job, and is ignored.
NoStaleFailure ==
  AtRest => \A a \in Attempt \ (ignored \cup dropped) :
              attempt[a].status = "FAILED" => Decision(a) = "FAILED"
=============================================================================
