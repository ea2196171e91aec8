----------------------- MODULE AnalysisPipeline_proofs -----------------------
(***************************************************************************)
(* What AnalysisPipeline promises for any number of workers and callers,   *)
(* any steps in any order, any number of attempts, runs, retries and       *)
(* crashes: the first dispatch of a run has one owner, an older run never  *)
(* replaces a newer evaluation, each run is announced once and once more   *)
(* per retry at most, and an analysis declared over has every step done.   *)
(*                                                                         *)
(* Three arguments carry the last two.  A job of the queue is held by one  *)
(* worker.  The announcements made, the actors about to make one and the   *)
(* run still open are counted together against the retries.  And, until a  *)
(* retry hits a running pipeline, the steps of a run end in order: what is *)
(* queued, dispatched or run has everything before it finished.            *)
(***************************************************************************)
EXTENDS AnalysisPipeline, FiniteSetTheorems, TLAPS

-----------------------------------------------------------------------------
(* The invariant *)

WorkerPlaces == {"idle", "read", "running", "checked", "written", "scored",
                 "advance", "dispatch", "complete", "settle", "emit", "finish"}
CallerPlaces == {"idle", "skip", "guard", "create", "dispatch", "reset", "complete", "settle", "emit"}

\* A task knows the run, the job and the step its place needs.
Fits(a, t) ==
  /\ a \in Worker => t.at \in WorkerPlaces
  /\ a \in Caller => t.at \in CallerPlaces
  /\ t.at \notin {"idle", "skip", "guard"} => t.gen \in Generation
  /\ a \in Worker /\ t.at # "idle" => t.own \in Step
  /\ t.at \in {"dispatch", "reset"} => t.next \in Step
  /\ t.at = "settle" => t.final \in Final

Typed == PipelineTypeOK /\ \A a \in Actor : Fits(a, actor[a])

\* The owner of a run's first dispatch came with the run.
StartInv ==
  /\ \A c \in Caller : At(c, "create") => actor[c].gen <= generation
  /\ OneStarter

\* A worker that handles a job holds it, alone.
HeldInv ==
  /\ \A w \in Worker : ~Resting(w) => queued[actor[w].gen][actor[w].own].state = "active"
  /\ \A v, w \in Worker :
       ~Resting(v) /\ ~Resting(w) /\ actor[v].gen = actor[w].gen /\ actor[v].own = actor[w].own
         => v = w

Emitting(g) == {a \in Actor : At(a, "emit") /\ actor[a].gen = g}

\* 1 while the end of the run can still be settled.
Pending(g) == IF generation < g \/ (generation = g /\ status \in Open) THEN 1 ELSE 0

CountInv == \A g \in Generation : announced[g] + Cardinality(Emitting(g)) + Pending(g) <= 1 + retries

Finished(g, s) == job[g][s] \in TERMINAL_JOB_STATUSES

\* Everything before the step is finished.
Ready(g, s) == \A r \in Step : r < s => Finished(g, r)

\* What an actor is about to do is in order.
InOrder(a) ==
  LET t == actor[a] IN
  /\ t.at \in {"dispatch", "reset"} => Ready(t.gen, t.next)
  /\ t.at \in StepPlaces => job[t.gen][t.own] = "PROCESSING"
  /\ t.at = "advance" => Finished(t.gen, t.own)
  /\ t.at \in {"complete", "settle"} => \A s \in Step : Finished(t.gen, s)

OrderInv ==
  ~hasty =>
    /\ \A g \in Generation : \A s \in Step : Finished(g, s) => Ready(g, s)
    /\ \A g \in Generation : \A s \in Step : queued[g][s].state \in {"waiting", "active"} => Ready(g, s)
    /\ \A a \in Actor : InOrder(a)
    /\ status \in Final => generation \in Generation /\ \A s \in Step : Finished(generation, s)
    /\ informed

PInv == Typed /\ StartInv /\ HeldInv /\ CountInv /\ OrderInv

-----------------------------------------------------------------------------
(* Lemmas *)

LEMMA Numbers ==
  /\ Step \subseteq Nat /\ 1 \in Step
  /\ Generation \subseteq Nat /\ 1 \in Generation /\ MaxGeneration \in Generation
  /\ \A g \in Nat : g < MaxGeneration => g + 1 \in Generation
  /\ \A g \in Generation : g \in 0..MaxGeneration /\ g > 0 /\ g <= MaxGeneration
  /\ \A g \in 0..MaxGeneration : g \in Nat /\ (g > 0 => g \in Generation)
  /\ MAX_ATTEMPTS \in Nat /\ MAX_ATTEMPTS > 0 /\ MaxGeneration \in Nat
  /\ Worker \cap Caller = {} /\ IsFiniteSet(Actor)
  <1>1. Len(PIPELINE_STEPS) \in Nat /\ Len(PIPELINE_STEPS) > 0
    BY PipelineAssumption DEF PipelineAssumption
  <1>2. IsFiniteSet(Actor)
    BY PipelineAssumption, FS_Union DEF PipelineAssumption, Actor
  <1> QED
    BY <1>1, <1>2, PipelineAssumption DEF PipelineAssumption, Step, Generation

\* The next step to dispatch is the earliest of those left.
LEMMA FirstFacts ==
  ASSUME NEW S \in SUBSET Step, S # {}
  PROVE  First(S) \in S /\ \A s \in S : First(S) <= s
  <1>1. \E x \in S : \A y \in S : ~(<<y, x>> \in OpToRel(<, Nat))
    BY Numbers, NatLessThanWellFounded, WFMin
  <1>2. PICK x \in S : \A y \in S : ~(<<y, x>> \in OpToRel(<, Nat))
    BY <1>1
  <1>3. \A y \in S : y \in Nat /\ x \in Nat
    BY Numbers
  <1>4. \A y \in S : ~(y < x)
    BY <1>2, <1>3, Zenon DEF OpToRel
  <1>5. \A y \in S : x <= y
    BY <1>3, <1>4
  <1> QED
    BY <1>5 DEF First

LEMMA IdleFacts ==
  /\ Idle \in Task
  /\ Idle.at = "idle" /\ Idle.gen = 0 /\ Idle.own = 0 /\ Idle.next = 0
  /\ Idle.replace = FALSE /\ Idle.final = "none"
  /\ \A a : Fits(a, Idle)
  <1>1. 0 \in 0..MaxGeneration
    BY Numbers
  <1>2. Idle \in Task
    BY <1>1 DEF Idle, Task
  <1> QED
    BY <1>2 DEF Idle, Fits, WorkerPlaces, CallerPlaces

LEMMA ReturnedFacts ==
  ASSUME Typed, NEW a \in Actor, ~Resting(a)
  PROVE  /\ Returned(a) \in Task /\ Fits(a, Returned(a))
         /\ a \in Worker => /\ Returned(a).at = "finish"
                            /\ Returned(a).gen = actor[a].gen /\ Returned(a).own = actor[a].own
         /\ a \notin Worker => Returned(a) = Idle
  <1>1. actor[a] \in Task /\ Fits(a, actor[a])
    BY DEF Typed, PipelineTypeOK
  <1>2. CASE a \in Worker
    <2> DEFINE u == [actor[a] EXCEPT !.at = "finish", !.next = 0, !.final = "none"]
    <2>1. u \in Task /\ u.at = "finish" /\ u.gen = actor[a].gen /\ u.own = actor[a].own
      BY <1>1 DEF Task
    <2>2. Returned(a) = u
      BY <1>2 DEF Returned
    <2> HIDE DEF u
    <2>3. Fits(a, u)
      BY <1>1, <1>2, <2>1, Numbers DEF Fits, WorkerPlaces, Resting
    <2> QED
      BY <1>2, <2>1, <2>2, <2>3
  <1>3. CASE a \notin Worker
    BY <1>3, IdleFacts DEF Returned
  <1> QED
    BY <1>2, <1>3

\* What a step of one actor changes in the tasks.
LEMMA GoesFacts ==
  ASSUME Typed, NEW a \in Actor, NEW t \in Task, Fits(a, t), Goes(a, t)
  PROVE  /\ actor' \in [Actor -> Task] /\ actor'[a] = t
         /\ \A b \in Actor : b # a => actor'[b] = actor[b]
         /\ \A b \in Actor : Fits(b, actor'[b])
  BY DEF Typed, PipelineTypeOK, Goes

-----------------------------------------------------------------------------
(* What each step does to the task of its actor, and to the types *)

Moves(a) == /\ actor' \in [Actor -> Task]
            /\ \A b \in Actor : b # a => actor'[b] = actor[b]

\* The types apart from the tasks.
Rows ==
  /\ analyzable \in BOOLEAN
  /\ generation \in 0..MaxGeneration
  /\ status \in Open \cup Final \cup {"NOT_STARTED", "SKIPPED"}
  /\ job \in [Generation -> [Step -> TERMINAL_JOB_STATUSES \cup Open \cup {"NONE"}]]
  /\ queued \in [Generation -> [Step -> [state: {"none", "waiting", "active", "finished"},
                                         made: 0..(MAX_ATTEMPTS - 1)]]]
  /\ current \in SUBSET Generation
  /\ tx \in [Worker -> Transaction]
  /\ informed \in BOOLEAN
  /\ announced \in [Generation -> Nat]
  /\ retries \in Nat /\ crashes \in Nat /\ hasty \in BOOLEAN /\ overtaken \in BOOLEAN

LEMMA TypedParts ==
  /\ Typed <=> Rows /\ actor \in [Actor -> Task] /\ \A a \in Actor : Fits(a, actor[a])
  /\ Rows' /\ actor' \in [Actor -> Task] /\ (\A a \in Actor : Fits(a, actor'[a])) => Typed'
  BY DEF Typed, Rows, PipelineTypeOK

BullJob == [state: {"none", "waiting", "active", "finished"}, made: 0..(MAX_ATTEMPTS - 1)]

\* One entry of the jobs, or of the queue, is rewritten.
LEMMA Entry ==
  ASSUME NEW S, NEW q \in [Generation -> [Step -> S]], NEW g \in Generation, NEW s \in Step,
         NEW x \in S
  PROVE  /\ [q EXCEPT ![g][s] = x] \in [Generation -> [Step -> S]]
         /\ [q EXCEPT ![g][s] = x][g][s] = x
         /\ \A h \in Generation : \A z \in Step :
              h # g \/ z # s => [q EXCEPT ![g][s] = x][h][z] = q[h][z]
  OBVIOUS

JobStatuses == TERMINAL_JOB_STATUSES \cup Open \cup {"NONE"}

SetJob(g, s, x) == job' = [job EXCEPT ![g][s] = x]

\* The jobs but for one are what they were.
OtherJobs(g, s) ==
  \A h \in Generation : \A z \in Step : h # g \/ z # s => job'[h][z] = job[h][z]

LEMMA JobStep ==
  ASSUME Rows, NEW g \in Generation, NEW s \in Step, NEW x \in JobStatuses, SetJob(g, s, x)
  PROVE  /\ job' \in [Generation -> [Step -> JobStatuses]]
         /\ job'[g][s] = x /\ OtherJobs(g, s)
  BY Entry DEF Rows, SetJob, OtherJobs, JobStatuses

LEMMA QueueStep ==
  ASSUME Rows, NEW g \in Generation, NEW s \in Step,
         NEW x \in {"none", "waiting", "active", "finished"}, NEW n \in 0..(MAX_ATTEMPTS - 1),
         Queue(g, s, x, n)
  PROVE  /\ queued' \in [Generation -> [Step -> BullJob]]
         /\ queued'[g][s].state = x
         /\ \A h \in Generation : \A z \in Step : h # g \/ z # s => queued'[h][z] = queued[h][z]
  <1>1. [state |-> x, made |-> n] \in BullJob
    BY DEF BullJob
  <1>2. queued \in [Generation -> [Step -> BullJob]]
    BY DEF Rows, BullJob
  <1> QED
    BY <1>1, <1>2, Entry DEF Queue

LEMMA MadeType ==
  ASSUME Rows, NEW g \in Generation, NEW s \in Step
  PROVE  /\ queued[g][s] \in BullJob
         /\ queued[g][s].made \in 0..(MAX_ATTEMPTS - 1) /\ 0 \in 0..(MAX_ATTEMPTS - 1)
         /\ ~FinalAttempt(g, s) => queued[g][s].made + 1 \in 0..(MAX_ATTEMPTS - 1)
  <1>1. queued[g][s] \in BullJob
    BY DEF Rows, BullJob
  <1> QED
    BY <1>1, Numbers DEF BullJob, FinalAttempt

LEMMA Roles ==
  /\ \A c \in Caller : c \in Actor /\ c \notin Worker
  /\ \A w \in Worker : w \in Actor /\ w \notin Caller
  BY Numbers DEF Actor

\* session.terminal is heard.
LEMMA TellTask ==
  ASSUME Typed, NEW c \in Caller, SessionTerminal(c)
  PROVE  /\ Typed' /\ Moves(c)
         /\ actor'[c].at \in {"guard", "skip"}
  <1> DEFINE t == [Idle EXCEPT !.at = IF analyzable THEN "guard" ELSE "skip"]
  <1>0. /\ Rows /\ c \in Actor /\ actor \in [Actor -> Task]
        /\ actor[c] \in Task /\ Fits(c, actor[c])
    BY TypedParts, Roles
  <1>1. t \in Task /\ t.at \in {"guard", "skip"}
    BY <1>0, IdleFacts, Numbers DEF Task, Rows, Fits
  <1>2. Goes(c, t)
    BY <1>0 DEF SessionTerminal
  <1> HIDE DEF t
  <1>3. Fits(c, t)
    BY <1>0, <1>1, Roles, Numbers DEF Fits, WorkerPlaces, CallerPlaces, Rows
  <1>4. Rows'
    BY <1>0, Numbers DEF Rows, SessionTerminal, KeepResults, KeepHistory, Open, Final, TERMINAL_JOB_STATUSES
  <1> QED
    BY <1>0, <1>1, <1>2, <1>3, <1>4, GoesFacts, TypedParts DEF Moves

\* The guard is won: the task owns the first run.
LEMMA GuardTask ==
  ASSUME Typed, NEW c \in Caller, GuardGeneration(c), generation = 0
  PROVE  /\ Typed' /\ Moves(c)
         /\ actor'[c].at = "create" /\ actor'[c].gen = 1
  <1> DEFINE t == [Idle EXCEPT !.at = "create", !.gen = 1]
  <1>0. /\ Rows /\ c \in Actor /\ actor \in [Actor -> Task]
        /\ actor[c] \in Task /\ Fits(c, actor[c])
    BY TypedParts, Roles
  <1>1. t \in Task /\ t.at = "create" /\ t.gen = 1
    BY <1>0, IdleFacts, Numbers DEF Task, Rows, Fits
  <1>2. Goes(c, t)
    BY <1>0 DEF GuardGeneration, NotStartedYet
  <1> HIDE DEF t
  <1>3. Fits(c, t)
    BY <1>0, <1>1, Roles, Numbers DEF Fits, WorkerPlaces, CallerPlaces, Rows
  <1>4. Rows'
    BY <1>0, Numbers DEF Rows, GuardGeneration, NotStartedYet, KeepResults, KeepHistory, Open, Final, TERMINAL_JOB_STATUSES
  <1> QED
    BY <1>0, <1>1, <1>2, <1>3, <1>4, GoesFacts, TypedParts DEF Moves

\* A new run is asked for, and owned.
LEMMA ReprocessTask ==
  ASSUME Typed, NEW c \in Caller, Reprocess(c)
  PROVE  /\ Typed' /\ Moves(c)
         /\ actor'[c].at = "create" /\ actor'[c].gen = generation + 1
  <1> DEFINE t == [Idle EXCEPT !.at = "create", !.gen = generation + 1]
  <1>0. /\ Rows /\ c \in Actor /\ actor \in [Actor -> Task]
        /\ actor[c] \in Task /\ Fits(c, actor[c])
    BY TypedParts, Roles
  <1>1. t \in Task /\ t.at = "create" /\ t.gen = generation + 1
    BY <1>0, IdleFacts, Numbers DEF Task, Rows, Fits, Reprocess
  <1>2. Goes(c, t)
    BY <1>0 DEF Reprocess
  <1> HIDE DEF t
  <1>3. Fits(c, t)
    BY <1>0, <1>1, Roles, Numbers DEF Fits, WorkerPlaces, CallerPlaces, Rows, Reprocess
  <1>4. Rows'
    BY <1>0, Numbers DEF Rows, Reprocess, KeepResults, Open, Final, TERMINAL_JOB_STATUSES
  <1> QED
    BY <1>0, <1>1, <1>2, <1>3, <1>4, GoesFacts, TypedParts DEF Moves

\* The jobs exist, and the first is dispatched.
LEMMA CreateTask ==
  ASSUME Typed, NEW c \in Caller, CreateJobs(c)
  PROVE  /\ Typed' /\ Moves(c)
         /\ actor'[c].at = "dispatch" /\ actor'[c].next = 1 /\ actor'[c].gen = actor[c].gen /\ actor'[c].gen \in Generation
  <1> DEFINE t == [actor[c] EXCEPT !.at = "dispatch", !.next = 1]
  <1>0. /\ Rows /\ c \in Actor /\ actor \in [Actor -> Task]
        /\ actor[c] \in Task /\ Fits(c, actor[c])
    BY TypedParts, Roles
  <1>1. t \in Task /\ t.at = "dispatch" /\ t.next = 1 /\ t.gen = actor[c].gen /\ t.gen \in Generation
    BY <1>0, IdleFacts, Numbers DEF Task, Rows, Fits, CreateJobs, At
  <1>2. Goes(c, t)
    BY <1>0 DEF CreateJobs, At
  <1> HIDE DEF t
  <1>3. Fits(c, t)
    BY <1>0, <1>1, Roles, Numbers DEF Fits, WorkerPlaces, CallerPlaces, Rows, CreateJobs, At
  <1>4. Rows'
    BY <1>0, Numbers DEF Rows, CreateJobs, At, KeepResults, KeepHistory, Open, Final, TERMINAL_JOB_STATUSES
  <1> QED
    BY <1>0, <1>1, <1>2, <1>3, <1>4, GoesFacts, TypedParts DEF Moves

\* A retry of a step is asked for.
LEMMA RetryTask ==
  ASSUME Typed, NEW c \in Caller, NEW s \in Step, RetryStep(c, s)
  PROVE  /\ Typed' /\ Moves(c)
         /\ actor'[c].at = "reset" /\ actor'[c].gen = generation /\ actor'[c].next = s /\ generation \in Generation
  <1> DEFINE t == [Idle EXCEPT !.at = "reset", !.gen = generation, !.next = s]
  <1>0. /\ Rows /\ c \in Actor /\ actor \in [Actor -> Task]
        /\ actor[c] \in Task /\ Fits(c, actor[c])
    BY TypedParts, Roles
  <1>1. t \in Task /\ t.at = "reset" /\ t.gen = generation /\ t.next = s /\ generation \in Generation
    BY <1>0, IdleFacts, Numbers DEF Task, Rows, Fits, RetryStep
  <1>2. Goes(c, t)
    BY <1>0 DEF RetryStep
  <1> HIDE DEF t
  <1>3. Fits(c, t)
    BY <1>0, <1>1, Roles, Numbers DEF Fits, WorkerPlaces, CallerPlaces, Rows, RetryStep
  <1>4. Rows'
    BY <1>0, Numbers DEF Rows, RetryStep, KeepResults, KeepHistory, Open, Final, TERMINAL_JOB_STATUSES
  <1> QED
    BY <1>0, <1>1, <1>2, <1>3, <1>4, GoesFacts, TypedParts DEF Moves

\* The steps are reset, and the first of them dispatched.
LEMMA ResetTask ==
  ASSUME Typed, NEW c \in Caller, ResetSteps(c)
  PROVE  /\ Typed' /\ Moves(c)
         /\ actor'[c].at = "dispatch" /\ actor'[c].next = actor[c].next /\ actor'[c].gen = actor[c].gen /\ actor'[c].gen \in Generation
  <1> DEFINE t == [actor[c] EXCEPT !.at = "dispatch", !.replace = TRUE]
  <1>0. /\ Rows /\ c \in Actor /\ actor \in [Actor -> Task]
        /\ actor[c] \in Task /\ Fits(c, actor[c])
    BY TypedParts, Roles
  <1>1. t \in Task /\ t.at = "dispatch" /\ t.next = actor[c].next /\ t.gen = actor[c].gen /\ t.gen \in Generation
    BY <1>0, IdleFacts, Numbers DEF Task, Rows, Fits, ResetSteps, At
  <1>2. Goes(c, t)
    BY <1>0 DEF ResetSteps, At
  <1> HIDE DEF t
  <1>3. Fits(c, t)
    BY <1>0, <1>1, Roles, Numbers DEF Fits, WorkerPlaces, CallerPlaces, Rows, ResetSteps, At
  <1>4. Rows'
    <2>1. job' \in [Generation -> [Step -> TERMINAL_JOB_STATUSES \cup Open \cup {"NONE"}]]
      BY <1>0 DEF Rows, ResetSteps, At, Fits, Open
    <2>2. hasty' \in BOOLEAN
      BY DEF ResetSteps
    <2> QED
      BY <1>0, <2>1, <2>2 DEF Rows, ResetSteps, KeepResults, Open
  <1> QED
    BY <1>0, <1>1, <1>2, <1>3, <1>4, GoesFacts, TypedParts DEF Moves

\* The hand-out of one job.
Takes(w, g, s) ==
  /\ Resting(w) /\ queued[g][s].state = "waiting"
  /\ Queue(g, s, "active", queued[g][s].made)
  /\ Goes(w, [Idle EXCEPT !.at = "read", !.gen = g, !.own = s])
  /\ UNCHANGED <<generation, status, job>> /\ KeepResults /\ KeepHistory

\* A worker takes a job.
LEMMA TakeTask ==
  ASSUME Typed, NEW w \in Worker, NEW g \in Generation, NEW s \in Step, Takes(w, g, s)
  PROVE  /\ Typed' /\ Moves(w)
         /\ actor'[w].at = "read" /\ actor'[w].gen = g /\ actor'[w].own = s
  <1> DEFINE t == [Idle EXCEPT !.at = "read", !.gen = g, !.own = s]
  <1>0. /\ Rows /\ w \in Actor /\ actor \in [Actor -> Task]
        /\ actor[w] \in Task /\ Fits(w, actor[w])
    BY TypedParts, Roles
  <1>1. t \in Task /\ t.at = "read" /\ t.gen = g /\ t.own = s
    BY <1>0, IdleFacts, Numbers DEF Task, Rows, Fits, Takes
  <1>2. Goes(w, t)
    BY <1>0 DEF Takes
  <1> HIDE DEF t
  <1>3. Fits(w, t)
    BY <1>0, <1>1, Roles, Numbers DEF Fits, WorkerPlaces, CallerPlaces, Rows, Takes
  <1>4. Rows'
    <2>1. queued' \in [Generation -> [Step -> BullJob]]
      BY <1>0, QueueStep, MadeType DEF Takes
    <2> QED
      BY <1>0, <2>1 DEF Rows, BullJob, Takes, KeepResults, KeepHistory
  <1> QED
    BY <1>0, <1>1, <1>2, <1>3, <1>4, GoesFacts, TypedParts DEF Moves

\* A worker with a job knows which.
LEMMA WorkerTask ==
  ASSUME Typed, NEW w \in Worker, ~Resting(w)
  PROVE  /\ Rows /\ w \in Actor /\ actor \in [Actor -> Task] /\ actor[w] \in Task
         /\ actor[w].gen \in Generation /\ actor[w].own \in Step
  <1>1. Fits(w, actor[w]) /\ Rows /\ w \in Actor /\ actor \in [Actor -> Task] /\ actor[w] \in Task
    BY TypedParts, Roles
  <1> QED
    BY <1>1, Roles DEF Fits, WorkerPlaces, Resting

\* The job of a superseded run is skipped, a finished step moves on, an open one
\* is claimed.
LEMMA ReadTask ==
  ASSUME Typed, NEW w \in Worker, ReadSession(w), NEW g, NEW s, g = actor[w].gen, s = actor[w].own
  PROVE  /\ Typed' /\ Moves(w) /\ g \in Generation /\ s \in Step /\ OtherJobs(g, s)
         /\ actor'[w].gen = g /\ actor'[w].own = s
         /\ Finished(g, s) => Finished(g, s)'
         /\ \/ actor'[w].at = "finish" /\ status' = status
            \/ actor'[w].at = "advance" /\ Finished(g, s)' /\ status' = status
            \/ /\ actor'[w].at = "running" /\ job'[g][s] = "PROCESSING" /\ generation = g
               /\ status' = IF status = "QUEUED" THEN "PROCESSING" ELSE status
  <1>0. /\ Rows /\ w \in Actor /\ actor \in [Actor -> Task] /\ actor[w] \in Task
        /\ g \in Generation /\ s \in Step /\ actor[w].at = "read" /\ ~Resting(w)
    BY WorkerTask DEF ReadSession, At, Resting
  <1>1. Returned(w) \in Task /\ Fits(w, Returned(w))
        /\ Returned(w).at = "finish" /\ Returned(w).gen = g /\ Returned(w).own = s
    BY <1>0, ReturnedFacts
  <1>2. ASSUME NEW p \in {"advance", "running"}
        PROVE  /\ [actor[w] EXCEPT !.at = p] \in Task
               /\ [actor[w] EXCEPT !.at = p].at = p
               /\ [actor[w] EXCEPT !.at = p].gen = g /\ [actor[w] EXCEPT !.at = p].own = s
    BY <1>0 DEF Task
  <1>3. ASSUME NEW p \in {"advance", "running"}
        PROVE  Fits(w, [actor[w] EXCEPT !.at = p])
    BY <1>0, <1>2, Roles DEF Fits, WorkerPlaces
  <1>4. PICK t \in Task :
          /\ Fits(w, t) /\ Goes(w, t) /\ t.gen = g /\ t.own = s
          /\ \/ t.at = "finish" /\ job' = [job EXCEPT ![g][s] = IF @ \in Open THEN "SKIPPED" ELSE @]
                /\ status' = status
             \/ t.at = "advance" /\ Finished(g, s) /\ job' = job /\ status' = status
             \/ /\ t.at = "running" /\ job' = [job EXCEPT ![g][s] = "PROCESSING"] /\ ~Finished(g, s)
                /\ generation = g
                /\ status' = IF status = "QUEUED" THEN "PROCESSING" ELSE status
    BY <1>0, <1>1, <1>2, <1>3 DEF ReadSession, Finished
  <1>5. job[g][s] \in TERMINAL_JOB_STATUSES \cup Open \cup {"NONE"}
    BY <1>0 DEF Rows
  <1>6. /\ job' \in [Generation -> [Step -> JobStatuses]]
        /\ OtherJobs(g, s)
        /\ Finished(g, s) => Finished(g, s)'
        /\ t.at = "running" => job'[g][s] = "PROCESSING"
    <2>1. CASE job' = job
      BY <1>0, <1>4, <2>1 DEF Rows, OtherJobs, Finished, JobStatuses
    <2>2. CASE job' = [job EXCEPT ![g][s] = IF @ \in Open THEN "SKIPPED" ELSE @] /\ t.at = "finish"
      <3>1. PICK x \in JobStatuses :
              SetJob(g, s, x) /\ (Finished(g, s) => x \in TERMINAL_JOB_STATUSES)
        BY <1>5, <2>2 DEF TERMINAL_JOB_STATUSES, Open, Finished, JobStatuses, SetJob
      <3> QED
        BY <1>0, <2>2, <3>1, JobStep DEF Finished
    <2>3. CASE job' = [job EXCEPT ![g][s] = "PROCESSING"] /\ ~Finished(g, s)
      <3>1. "PROCESSING" \in JobStatuses /\ SetJob(g, s, "PROCESSING")
        BY <2>3 DEF Open, JobStatuses, SetJob
      <3> QED
        BY <1>0, <2>3, <3>1, JobStep
    <2> QED
      BY <1>4, <2>1, <2>2, <2>3
  <1>7. Rows'
    BY <1>0, <1>4, <1>6 DEF Rows, ReadSession, KeepResults, KeepHistory, Open, JobStatuses
  <1> QED
    BY <1>0, <1>4, <1>6, <1>7, GoesFacts, TypedParts DEF Moves, Finished

\* A step ends, with its result on record.
LEMMA EndTask ==
  ASSUME Typed, NEW w \in Worker, StepEnds(w), NEW g, NEW s, g = actor[w].gen, s = actor[w].own
  PROVE  /\ Typed' /\ Moves(w) /\ g \in Generation /\ s \in Step /\ OtherJobs(g, s)
         /\ actor'[w].at = "advance" /\ actor'[w].gen = g /\ actor'[w].own = s
         /\ Finished(g, s)'
  <1> DEFINE t == [actor[w] EXCEPT !.at = "advance"]
  <1>0. /\ Rows /\ w \in Actor /\ actor \in [Actor -> Task] /\ actor[w] \in Task
        /\ g \in Generation /\ s \in Step
    BY WorkerTask DEF StepEnds, InStep, StepPlaces, Resting
  <1>1. t \in Task /\ t.at = "advance" /\ t.gen = g /\ t.own = s
    BY <1>0 DEF Task
  <1>2. Goes(w, t)
    BY DEF StepEnds
  <1> HIDE DEF t
  <1>3. Fits(w, t)
    BY <1>0, <1>1, Roles DEF Fits, WorkerPlaces
  <1>4. PICK result \in {"COMPLETED", "SKIPPED", "FAILED"} : SetJob(g, s, result)
    BY DEF StepEnds, SetJob, Results
  <1>5. /\ job' \in [Generation -> [Step -> JobStatuses]]
        /\ OtherJobs(g, s) /\ Finished(g, s)'
    BY <1>0, <1>4, JobStep DEF Finished, TERMINAL_JOB_STATUSES, JobStatuses
  <1>6. tx' \in [Worker -> Transaction]
    BY <1>0 DEF StepEnds, Rows, Transaction, NoTransaction
  <1>7. informed' \in BOOLEAN
    BY <1>0 DEF StepEnds, Rows
  <1>8. Rows'
    BY <1>0, <1>5, <1>6, <1>7 DEF Rows, StepEnds, KeepHistory, JobStatuses
  <1> QED
    BY <1>0, <1>1, <1>2, <1>3, <1>5, <1>8, GoesFacts, TypedParts DEF Moves

\* The entries of the queue but for one are what they were.
OtherQueued(g, s) ==
  \A h \in Generation : \A z \in Step : h # g \/ z # s => queued'[h][z] = queued[h][z]

\* An actor at rest, whose task was dropped.
LEMMA DropTask ==
  ASSUME Typed, NEW a \in Actor, Goes(a, Idle), Rows'
  PROVE  Typed' /\ Moves(a) /\ actor'[a] = Idle
  BY IdleFacts, GoesFacts, TypedParts DEF Moves

\* A step is to be tried again.
LEMMA AgainTask ==
  ASSUME Typed, NEW w \in Worker, StepRetries(w), NEW g, NEW s, g = actor[w].gen, s = actor[w].own
  PROVE  /\ Typed' /\ Moves(w) /\ actor'[w] = Idle
         /\ g \in Generation /\ s \in Step /\ OtherJobs(g, s) /\ OtherQueued(g, s)
         /\ queued'[g][s].state = "waiting"
  <1>0. /\ Rows /\ w \in Actor /\ g \in Generation /\ s \in Step
    BY WorkerTask DEF StepRetries, InStep, StepPlaces, Resting
  <1>1. "QUEUED" \in JobStatuses /\ SetJob(g, s, "QUEUED")
    BY DEF StepRetries, SetJob, JobStatuses, Open
  <1>2. job' \in [Generation -> [Step -> JobStatuses]] /\ OtherJobs(g, s)
    BY <1>0, <1>1, JobStep
  <1>3. Queue(g, s, "waiting", queued[g][s].made + 1) /\ ~FinalAttempt(g, s)
    BY DEF StepRetries
  <1>4. /\ queued' \in [Generation -> [Step -> BullJob]] /\ OtherQueued(g, s)
        /\ queued'[g][s].state = "waiting"
    BY <1>0, <1>3, QueueStep, MadeType DEF OtherQueued
  <1>5. tx' \in [Worker -> Transaction]
    BY <1>0 DEF StepRetries, Rows, Transaction, NoTransaction
  <1>6. Rows' /\ Goes(w, Idle)
    BY <1>0, <1>2, <1>4, <1>5 DEF Rows, StepRetries, KeepHistory, JobStatuses, BullJob
  <1> QED
    BY <1>0, <1>2, <1>4, <1>6, DropTask

\* On to the earliest step left, or to the end of the run.
LEMMA AdvanceTask ==
  ASSUME Typed, NEW w \in Worker, Advance(w), NEW g, NEW s, g = actor[w].gen, s = actor[w].own
  PROVE  /\ Typed' /\ Moves(w) /\ g \in Generation /\ s \in Step
         /\ actor'[w].gen = g /\ actor'[w].own = s
         /\ \/ /\ actor'[w].at = "dispatch" /\ actor'[w].next \in Step /\ s < actor'[w].next
               /\ \A r \in Step : s < r /\ r < actor'[w].next => Finished(g, r)
            \/ /\ actor'[w].at = "complete"
               /\ \A r \in Step : s < r => Finished(g, r)
  <1> DEFINE left == Unfinished(g, s)
  <1>0. /\ Rows /\ w \in Actor /\ actor \in [Actor -> Task] /\ actor[w] \in Task
        /\ g \in Generation /\ s \in Step
    BY WorkerTask DEF Advance, At, Resting
  <1>1. left \in SUBSET Step /\ \A r \in Step : r \in left <=> s < r /\ ~Finished(g, r)
    BY <1>0, Numbers DEF Unfinished, Finished
  <1>2. Rows'
    BY <1>0 DEF Rows, Advance, KeepResults, KeepHistory
  <1>3. CASE left # {}
    <2> DEFINE n == First(left)
    <2> DEFINE t == [actor[w] EXCEPT !.at = "dispatch", !.next = n]
    <2>1. n \in left /\ \A r \in left : n <= r
      BY <1>1, <1>3, FirstFacts
    <2>2. Goes(w, t)
      BY <1>3 DEF Advance
    <2> HIDE DEF n, left
    <2>3. n \in Step /\ s < n /\ \A r \in Step : s < r /\ r < n => Finished(g, r)
      BY <1>0, <1>1, <2>1, Numbers
    <2>4. t \in Task /\ t.at = "dispatch" /\ t.gen = g /\ t.own = s /\ t.next = n
      BY <1>0, <2>3 DEF Task
    <2> HIDE DEF t
    <2>5. Fits(w, t)
      BY <1>0, <2>3, <2>4, Roles DEF Fits, WorkerPlaces
    <2> QED
      BY <1>0, <1>2, <2>2, <2>3, <2>4, <2>5, GoesFacts, TypedParts DEF Moves
  <1>4. CASE left = {}
    <2> DEFINE t == [actor[w] EXCEPT !.at = "complete"]
    <2>1. Goes(w, t)
      BY <1>4 DEF Advance
    <2> HIDE DEF left
    <2>2. t \in Task /\ t.at = "complete" /\ t.gen = g /\ t.own = s
      BY <1>0 DEF Task
    <2> HIDE DEF t
    <2>3. Fits(w, t)
      BY <1>0, <2>2, Roles DEF Fits, WorkerPlaces
    <2>4. \A r \in Step : s < r => Finished(g, r)
      BY <1>1, <1>4
    <2> QED
      BY <1>0, <1>2, <2>1, <2>2, <2>3, <2>4, GoesFacts, TypedParts DEF Moves
  <1> QED
    BY <1>3, <1>4

\* The handler has returned.
LEMMA FinishTask ==
  ASSUME Typed, NEW w \in Worker, FinishJob(w), NEW g, NEW s, g = actor[w].gen, s = actor[w].own
  PROVE  /\ Typed' /\ Moves(w) /\ actor'[w] = Idle
         /\ g \in Generation /\ s \in Step /\ OtherQueued(g, s)
         /\ queued'[g][s].state = "finished"
  <1>0. /\ Rows /\ w \in Actor /\ g \in Generation /\ s \in Step
    BY WorkerTask DEF FinishJob, At, Resting
  <1>1. Queue(g, s, "finished", 0)
    BY DEF FinishJob
  <1>2. /\ queued' \in [Generation -> [Step -> BullJob]] /\ OtherQueued(g, s)
        /\ queued'[g][s].state = "finished"
    BY <1>0, <1>1, QueueStep, MadeType DEF OtherQueued
  <1>3. Rows' /\ Goes(w, Idle)
    BY <1>0, <1>2 DEF Rows, FinishJob, KeepResults, KeepHistory, BullJob
  <1> QED
    BY <1>0, <1>2, <1>3, DropTask

\* A task dies; the job of a worker waits again or is given up.
LEMMA CrashTask ==
  ASSUME Typed, NEW a \in Actor, Crash(a), NEW g, NEW s, g = actor[a].gen, s = actor[a].own
  PROVE  /\ Typed' /\ Moves(a) /\ actor'[a] = Idle
         /\ a \notin Worker => queued' = queued
         /\ a \in Worker => /\ g \in Generation /\ s \in Step /\ OtherQueued(g, s)
                            /\ queued'[g][s].state \in {"waiting", "finished"}
  <1>0. Rows
    BY TypedParts
  <1>1. CASE a \in Worker
    <2>1. g \in Generation /\ s \in Step
      BY <1>1, WorkerTask DEF Crash
    <2>2. PICK x \in {"waiting", "finished"} : Queue(g, s, x, queued[g][s].made)
      BY <1>1 DEF Crash
    <2>3. /\ queued' \in [Generation -> [Step -> BullJob]] /\ OtherQueued(g, s)
          /\ queued'[g][s].state = x
      BY <1>0, <2>1, <2>2, QueueStep, MadeType DEF OtherQueued
    <2>4. tx' \in [Worker -> Transaction]
      <3>1. NoTransaction \in Transaction /\ tx \in [Worker -> Transaction]
        BY <1>0 DEF Rows, Transaction, NoTransaction
      <3>2. tx' = [tx EXCEPT ![a] = NoTransaction]
        BY <1>1 DEF Crash
      <3> QED
        BY <3>1, <3>2
    <2>5. Rows' /\ Goes(a, Idle)
      BY <1>0, <2>3, <2>4 DEF Rows, Crash, BullJob
    <2> QED
      BY <1>1, <2>1, <2>3, <2>5, DropTask
  <1>2. CASE a \notin Worker
    <2>1. Rows' /\ Goes(a, Idle) /\ queued' = queued
      BY <1>0, <1>2 DEF Rows, Crash
    <2> QED
      BY <1>2, <2>1, DropTask
  <1> QED
    BY <1>1, <1>2

\* The service call returns: a caller rests, a worker has its job to finish.
Returns(a) ==
  /\ a \in Worker => /\ actor'[a].at = "finish"
                     /\ actor'[a].gen = actor[a].gen /\ actor'[a].own = actor[a].own
  /\ a \notin Worker => actor'[a] = Idle

LEMMA ReturnTask ==
  ASSUME Typed, NEW a \in Actor, ~Resting(a), Goes(a, Returned(a)), Rows'
  PROVE  Typed' /\ Moves(a) /\ Returns(a)
  <1> DEFINE t == Returned(a)
  <1>1. /\ t \in Task /\ Fits(a, t)
        /\ a \in Worker => t.at = "finish" /\ t.gen = actor[a].gen /\ t.own = actor[a].own
        /\ a \notin Worker => t = Idle
    BY ReturnedFacts
  <1>2. Goes(a, t)
    OBVIOUS
  <1> HIDE DEF t
  <1> QED
    BY <1>1, <1>2, GoesFacts, TypedParts DEF Moves, Returns

\* An actor with a run to work for knows it.
LEMMA RunTask ==
  ASSUME Typed, NEW a \in Actor, actor[a].at \notin {"idle", "skip", "guard"}
  PROVE  /\ Rows /\ actor \in [Actor -> Task] /\ actor[a] \in Task /\ Fits(a, actor[a])
         /\ actor[a].gen \in Generation /\ ~Resting(a)
  BY TypedParts DEF Fits, Resting

\* A step is put into the queue, or is there already.
LEMMA DispatchTask ==
  ASSUME Typed, NEW a \in Actor, Dispatch(a), NEW g, NEW s, g = actor[a].gen, s = actor[a].next
  PROVE  /\ Typed' /\ Moves(a) /\ Returns(a) /\ g \in Generation /\ s \in Step
         /\ \/ queued' = queued
            \/ OtherQueued(g, s) /\ queued[g][s].state \in {"none", "finished"}
  <1>0. /\ Rows /\ g \in Generation /\ s \in Step /\ ~Resting(a)
    BY RunTask DEF Dispatch, At, Fits
  <1>1. CASE Enqueues(g, s, actor[a].replace)
    <2>1. Queue(g, s, "waiting", 0) /\ queued[g][s].state \in {"none", "finished"}
      BY <1>1 DEF Dispatch, Enqueues
    <2>2. queued' \in [Generation -> [Step -> BullJob]] /\ OtherQueued(g, s)
      BY <1>0, <2>1, QueueStep, MadeType DEF OtherQueued
    <2>3. Rows' /\ Goes(a, Returned(a))
      BY <1>0, <2>2 DEF Rows, Dispatch, KeepResults, KeepHistory, BullJob
    <2> QED
      BY <1>0, <2>1, <2>2, <2>3, ReturnTask
  <1>2. CASE ~Enqueues(g, s, actor[a].replace)
    <2>1. Rows' /\ Goes(a, Returned(a)) /\ queued' = queued
      BY <1>0, <1>2 DEF Rows, Dispatch, KeepResults, KeepHistory
    <2> QED
      BY <1>0, <2>1, ReturnTask
  <1> QED
    BY <1>1, <1>2

\* The outcome is computed, from the jobs as they are.
LEMMA OutcomeTask ==
  ASSUME Typed, NEW a \in Actor, ReadOutcome(a)
  PROVE  /\ Typed' /\ Moves(a)
         /\ actor'[a].at = "settle" /\ actor'[a].gen = actor[a].gen /\ actor'[a].own = actor[a].own
         /\ actor[a].gen \in Generation
  <1> DEFINE final == Outcome(actor[a].gen)
  <1> DEFINE t == [actor[a] EXCEPT !.at = "settle", !.final = final]
  <1>0. /\ Rows /\ actor \in [Actor -> Task] /\ actor[a] \in Task /\ Fits(a, actor[a])
        /\ actor[a].gen \in Generation /\ At(a, "complete") /\ Goes(a, t)
    BY RunTask DEF ReadOutcome, At
  <1>1. final \in Final
    BY DEF Outcome, Final
  <1> HIDE DEF final
  <1>2. t \in Task /\ t.at = "settle" /\ t.gen = actor[a].gen /\ t.own = actor[a].own /\ t.final = final
    BY <1>0, <1>1 DEF Task
  <1> HIDE DEF t
  <1>3. Fits(a, t)
    BY <1>0, <1>1, <1>2 DEF Fits, WorkerPlaces, CallerPlaces, At
  <1>4. Rows'
    BY <1>0 DEF Rows, ReadOutcome, KeepResults, KeepHistory
  <1> QED
    BY <1>0, <1>2, <1>3, <1>4, GoesFacts, TypedParts DEF Moves

\* Whoever finds the run open settles it, and owes the announcement.
LEMMA SettleTask ==
  ASSUME Typed, NEW a \in Actor, Settle(a), NEW g, g = actor[a].gen
  PROVE  /\ Typed' /\ Moves(a) /\ g \in Generation
         /\ \/ /\ Settles(g) /\ status' \in Final /\ actor'[a].at = "emit"
               /\ actor'[a].gen = g /\ actor'[a].own = actor[a].own
            \/ ~Settles(g) /\ status' = status /\ Returns(a)
  <1>0. /\ Rows /\ actor \in [Actor -> Task] /\ actor[a] \in Task /\ Fits(a, actor[a])
        /\ g \in Generation /\ At(a, "settle") /\ ~Resting(a)
    BY RunTask DEF Settle, At
  <1>1. CASE Settles(g)
    <2> DEFINE t == [actor[a] EXCEPT !.at = "emit"]
    <2>1. Goes(a, t) /\ status' = actor[a].final
      BY <1>1 DEF Settle
    <2>2. t \in Task /\ t.at = "emit" /\ t.gen = g /\ t.own = actor[a].own
      BY <1>0 DEF Task
    <2> HIDE DEF t
    <2>3. Fits(a, t)
      BY <1>0, <2>2 DEF Fits, WorkerPlaces, CallerPlaces, At
    <2>4. actor[a].final \in Final
      BY <1>0 DEF Fits, At
    <2>5. Rows'
      BY <1>0, <2>1, <2>4 DEF Rows, Settle, KeepResults, KeepHistory
    <2> QED
      BY <1>0, <1>1, <2>1, <2>2, <2>3, <2>4, <2>5, GoesFacts, TypedParts DEF Moves
  <1>2. CASE ~Settles(g)
    <2>1. Rows' /\ Goes(a, Returned(a)) /\ status' = status
      BY <1>0, <1>2 DEF Rows, Settle, KeepResults, KeepHistory
    <2> QED
      BY <1>0, <1>2, <2>1, ReturnTask
  <1> QED
    BY <1>1, <1>2

\* The announcement.
LEMMA EmitTask ==
  ASSUME Typed, NEW a \in Actor, EmitOutcome(a), NEW g, g = actor[a].gen
  PROVE  /\ Typed' /\ Moves(a) /\ Returns(a) /\ g \in Generation
         /\ announced'[g] = announced[g] + 1
         /\ \A h \in Generation : h # g => announced'[h] = announced[h]
  <1>0. /\ Rows /\ g \in Generation /\ ~Resting(a)
    BY RunTask DEF EmitOutcome, At
  <1>1. announced' = [announced EXCEPT ![g] = @ + 1]
    BY DEF EmitOutcome
  <1>2. Rows' /\ Goes(a, Returned(a))
    BY <1>0, <1>1 DEF Rows, EmitOutcome, KeepHistory
  <1>3. /\ announced'[g] = announced[g] + 1
        /\ \A h \in Generation : h # g => announced'[h] = announced[h]
    BY <1>0, <1>1 DEF Rows
  <1> QED
    BY <1>0, <1>2, <1>3, ReturnTask

\* The sweep takes up an open run where it stands, or one that never began.
LEMMA SweepTask ==
  ASSUME Typed, NEW c \in Caller, Sweep(c)
  PROVE  /\ Typed' /\ Moves(c)
         /\ \/ actor'[c].at = "guard"
            \/ /\ actor'[c].gen = generation /\ generation \in Generation /\ status \in Open
               /\ \/ /\ actor'[c].at = "dispatch" /\ actor'[c].next \in Step
                     /\ \A r \in Step : r < actor'[c].next => Finished(generation, r)
                  \/ actor'[c].at = "complete" /\ \A r \in Step : Finished(generation, r)
  <1> DEFINE left == Unfinished(generation, 0)
  <1>0. Rows /\ c \in Actor /\ generation \in 0..MaxGeneration
    BY TypedParts, Roles DEF Rows
  <1>1. /\ left \in SUBSET Step
        /\ \A r \in Step : r \in left <=> ~Finished(generation, r)
    BY Numbers DEF Unfinished, Finished, Step
  <1>2. Rows'
    BY <1>0 DEF Rows, Sweep, KeepResults, KeepHistory
  <1>3. CASE Goes(c, [Idle EXCEPT !.at = "guard"])
    <2> DEFINE t == [Idle EXCEPT !.at = "guard"]
    <2>1. t \in Task /\ t.at = "guard"
      BY IdleFacts DEF Task
    <2>2. Goes(c, t)
      BY <1>3
    <2> HIDE DEF t
    <2>3. Fits(c, t)
      BY <2>1, Roles DEF Fits, CallerPlaces
    <2> QED
      BY <1>0, <1>2, <2>1, <2>2, <2>3, GoesFacts, TypedParts DEF Moves
  <1>4. CASE /\ generation > 0 /\ status \in Open
             /\ Goes(c, [Idle EXCEPT !.at = IF left # {} THEN "dispatch" ELSE "complete",
                                     !.gen = generation,
                                     !.next = IF left # {} THEN First(left) ELSE 0])
    <2> DEFINE n == IF left # {} THEN First(left) ELSE 0
    <2> DEFINE p == IF left # {} THEN "dispatch" ELSE "complete"
    <2> DEFINE t == [Idle EXCEPT !.at = p, !.gen = generation, !.next = n]
    <2>1. Goes(c, t)
      BY <1>4
    <2>2. generation \in Generation
      BY <1>0, <1>4, Numbers
    <2>3. left # {} => p = "dispatch" /\ n \in left /\ \A r \in left : n <= r
      BY <1>1, FirstFacts
    <2>4. left = {} => p = "complete" /\ n = 0
      OBVIOUS
    <2> HIDE DEF n, p, left
    <2>5. /\ n \in {0} \cup Step /\ p \in {"dispatch", "complete"}
          /\ p = "dispatch" => n \in Step /\ \A r \in Step : r < n => Finished(generation, r)
          /\ p = "complete" => \A r \in Step : Finished(generation, r)
      <3>1. CASE left # {}
        <4>0. n \in Step /\ n \in Nat /\ \A r \in left : n <= r
          BY <1>1, <2>3, <3>1, Numbers
        <4>1. ASSUME NEW r \in Step, r < n PROVE r \notin left
          <5>1. r \in Nat
            BY Numbers
          <5> QED
            BY <4>0, <4>1, <5>1
        <4> QED
          BY <1>1, <2>3, <3>1, <4>0, <4>1
      <3>2. CASE left = {}
        BY <1>1, <2>4, <3>2
      <3> QED
        BY <3>1, <3>2
    <2>6. t \in Task /\ t.at = p /\ t.gen = generation /\ t.next = n
      BY <1>0, <2>5, IdleFacts DEF Task
    <2> HIDE DEF t
    <2>7. Fits(c, t)
      BY <2>2, <2>5, <2>6, Roles DEF Fits, CallerPlaces
    <2> QED
      BY <1>0, <1>2, <1>4, <2>1, <2>2, <2>5, <2>6, <2>7, GoesFacts, TypedParts DEF Moves
  <1> QED
    BY <1>3, <1>4 DEF Sweep

\* A guard that is lost, and a session that is not analyzed.
LEMMA LeaveTask ==
  ASSUME Typed, NEW c \in Caller, SkipAnalysis(c) \/ (GuardGeneration(c) /\ generation # 0)
  PROVE  Typed' /\ Moves(c) /\ actor'[c] = Idle
  <1>1. Rows /\ c \in Actor
    BY TypedParts, Roles
  <1>2. Rows' /\ Goes(c, Idle)
    BY <1>1 DEF Rows, SkipAnalysis, GuardGeneration, NotStartedYet, KeepResults, KeepHistory
  <1> QED
    BY <1>1, <1>2, DropTask

-----------------------------------------------------------------------------
(* What keeps each part of the invariant *)

\* No task comes to own a first dispatch.
LEMMA StartKeeps ==
  ASSUME Typed, StartInv, NEW a \in Actor, Moves(a), actor'[a].at # "create",
         generation' = generation
  PROVE  StartInv'
  BY Roles DEF StartInv, OneStarter, At, Moves

\* A task that raises the generation is the only owner of the new run.
LEMMA StartOwns ==
  ASSUME Typed, StartInv, NEW c \in Caller, Moves(c),
         generation' = generation + 1, actor'[c].gen = generation'
  PROVE  StartInv'
  <1>1. generation \in Nat /\ \A b \in Caller : actor[b].gen \in Nat
    BY TypedParts, Numbers, Roles DEF Rows, Task
  <1>2. \A b \in Caller : b # c => actor'[b] = actor[b]
    BY Roles DEF Moves
  <1>3. \A b \in Caller : b # c /\ At(b, "create")' => actor'[b].gen <= generation
    BY <1>2 DEF StartInv, At
  <1>4. \A b \in Caller : At(b, "create")' => actor'[b].gen <= generation'
    BY <1>1, <1>2, <1>3 DEF StartInv
  <1>5. OneStarter'
    <2> SUFFICES ASSUME NEW x \in Caller, NEW y \in Caller, At(x, "create")', At(y, "create")',
                        actor'[x].gen = actor'[y].gen
                 PROVE  x = y
      BY DEF OneStarter
    <2>1. CASE x # c /\ y # c
      BY <1>2, <2>1 DEF StartInv, OneStarter, At
    <2>2. CASE x # c /\ y = c
      BY <1>1, <1>2, <1>3, <2>2
    <2>3. CASE x = c /\ y # c
      BY <1>1, <1>2, <1>3, <2>3
    <2> QED
      BY <2>1, <2>2, <2>3
  <1> QED
    BY <1>4, <1>5 DEF StartInv

\* One entry of the queue changes under nobody's hands but the actor's.
LEMMA HeldStep ==
  ASSUME Typed, HeldInv, NEW a \in Actor, Moves(a), NEW g, NEW s,
         queued' = queued \/ OtherQueued(g, s),
         queued' = queued \/ \A w \in Worker :
           w # a /\ ~Resting(w) => ~(actor[w].gen = g /\ actor[w].own = s),
         a \in Worker /\ actor'[a].at # "idle" =>
           /\ queued'[actor'[a].gen][actor'[a].own].state = "active"
           /\ \A w \in Worker : w # a /\ ~Resting(w) =>
                ~(actor[w].gen = actor'[a].gen /\ actor[w].own = actor'[a].own)
  PROVE  HeldInv'
  <1>1. \A w \in Worker : w # a => actor'[w] = actor[w]
    BY Roles DEF Moves
  <1>2. \A w \in Worker : ~Resting(w) => actor[w].gen \in Generation /\ actor[w].own \in Step
    BY WorkerTask
  <1>3. ASSUME NEW w \in Worker, w # a, ~Resting(w)
        PROVE  queued'[actor[w].gen][actor[w].own].state = "active"
    BY <1>2, <1>3 DEF HeldInv, OtherQueued
  <1>4. \A w \in Worker : ~Resting(w)' => queued'[actor'[w].gen][actor'[w].own].state = "active"
    BY <1>1, <1>3 DEF Resting
  <1>5. ASSUME NEW v \in Worker, NEW w \in Worker, ~Resting(v)', ~Resting(w)',
               actor'[v].gen = actor'[w].gen, actor'[v].own = actor'[w].own
        PROVE  v = w
    <2>1. CASE v # a /\ w # a
      BY <1>1, <1>5, <2>1 DEF HeldInv, Resting
    <2>2. CASE v = a /\ w # a
      BY <1>1, <1>5, <2>2 DEF Resting
    <2>3. CASE v # a /\ w = a
      BY <1>1, <1>5, <2>3 DEF Resting
    <2> QED
      BY <2>1, <2>2, <2>3
  <1> QED
    BY <1>4, <1>5 DEF HeldInv

\* A worker that keeps its job, or has dropped it.
Keeps(a) ==
  a \in Worker =>
    \/ actor'[a].at = "idle"
    \/ ~Resting(a) /\ actor'[a].gen = actor[a].gen /\ actor'[a].own = actor[a].own

LEMMA HeldKeeps ==
  ASSUME Typed, HeldInv, NEW a \in Actor, Moves(a), Keeps(a), queued' = queued
  PROVE  HeldInv'
  <1>1. \A w \in Worker : a \in Worker /\ w # a /\ ~Resting(w) /\ ~Resting(a) =>
          ~(actor[w].gen = actor[a].gen /\ actor[w].own = actor[a].own)
    BY DEF HeldInv
  <1>2. a \in Worker /\ ~Resting(a) => queued[actor[a].gen][actor[a].own].state = "active"
    BY DEF HeldInv
  <1> QED
    BY <1>1, <1>2, HeldStep DEF Keeps

LEMMA EmittingFinite ==
  ASSUME NEW g
  PROVE  IsFiniteSet(Emitting(g)) /\ Cardinality(Emitting(g)) \in Nat
  <1>1. Emitting(g) \subseteq Actor
    BY DEF Emitting
  <1> QED
    BY <1>1, Numbers, FS_Subset, FS_CardinalityType

LEMMA PendingType ==
  ASSUME NEW g
  PROVE  Pending(g) \in {0, 1}
  BY DEF Pending

\* No task comes to owe an announcement, and no run is opened again.
LEMMA CountKeeps ==
  ASSUME Typed, Typed', CountInv, NEW a \in Actor, Moves(a), actor'[a].at # "emit",
         announced' = announced, retries' = retries,
         \A g \in Generation : Pending(g)' <= Pending(g)
  PROVE  CountInv'
  <1> SUFFICES ASSUME NEW g \in Generation
               PROVE  announced'[g] + Cardinality(Emitting(g)') + Pending(g)' <= 1 + retries'
    BY DEF CountInv
  <1>1. Emitting(g)' \subseteq Emitting(g)
    BY DEF Emitting, Moves, At
  <1>2. /\ Cardinality(Emitting(g)') <= Cardinality(Emitting(g))
        /\ Cardinality(Emitting(g)') \in Nat /\ Cardinality(Emitting(g)) \in Nat
    BY <1>1, EmittingFinite, FS_Subset, FS_CardinalityType
  <1>3. announced[g] \in Nat /\ retries \in Nat
    BY TypedParts DEF Rows
  <1>4. announced[g] + Cardinality(Emitting(g)) + Pending(g) <= 1 + retries
    BY DEF CountInv
  <1>5. Pending(g) \in {0, 1} /\ Pending(g)' \in {0, 1} /\ Pending(g)' <= Pending(g)
    BY PendingType DEF Pending
  <1> QED
    BY <1>2, <1>3, <1>4, <1>5

\* What a step may do while no retry has hit a running pipeline: finish steps
\* whose turn it is, schedule such steps, and claim an end that is one.
LEMMA OrderStep ==
  ASSUME PInv, NEW a \in Actor, Moves(a), hasty' = hasty,
         ~hasty =>
           /\ \A g \in Generation : \A s \in Step : Finished(g, s) => Finished(g, s)'
           /\ \A g \in Generation : \A s \in Step : Finished(g, s)' => Finished(g, s) \/ Ready(g, s)
           /\ \A g \in Generation : \A s \in Step :
                queued'[g][s].state \in {"waiting", "active"}
                  => queued[g][s].state \in {"waiting", "active"} \/ Ready(g, s)
           /\ \A b \in Actor : b # a /\ actor[b].at \in StepPlaces
                => job'[actor[b].gen][actor[b].own] = job[actor[b].gen][actor[b].own]
           /\ InOrder(a)'
           /\ (status \in Final => generation \in Generation /\ \A s \in Step : Finished(generation, s))'
           /\ informed'
  PROVE  OrderInv'
  <1> SUFFICES ASSUME ~hasty PROVE OrderInv'
    BY DEF OrderInv
  <1>1. ASSUME NEW g \in Generation, NEW s \in Step, Ready(g, s) PROVE Ready(g, s)'
    BY <1>1 DEF Ready
  <1>2. \A g \in Generation : \A s \in Step : Finished(g, s)' => Ready(g, s)'
    BY <1>1 DEF PInv, OrderInv
  <1>3. \A g \in Generation : \A s \in Step :
          queued'[g][s].state \in {"waiting", "active"} => Ready(g, s)'
    BY <1>1 DEF PInv, OrderInv
  <1>4. ASSUME NEW b \in Actor, b # a PROVE InOrder(b)'
    <2>1. /\ actor'[b] = actor[b] /\ InOrder(b) /\ Fits(b, actor[b]) /\ actor[b] \in Task
      BY <1>4, TypedParts DEF PInv, OrderInv, Moves
    <2>2. PICK t \in Task : t = actor[b] /\ t = actor'[b] /\ Fits(b, t)
      BY <2>1
    <2>3. t.at \in {"dispatch", "reset"} => Ready(t.gen, t.next)'
      BY <1>1, <2>1, <2>2 DEF InOrder, Fits
    <2>4. t.at \in StepPlaces => job'[t.gen][t.own] = "PROCESSING"
      BY <1>4, <2>1, <2>2 DEF InOrder
    <2>5. t.at = "advance" => Finished(t.gen, t.own)'
      <3>1. t.at = "advance" => t.gen \in Generation /\ t.own \in Step
        BY <2>2 DEF Fits, CallerPlaces, Actor
      <3> QED
        BY <2>1, <2>2, <3>1 DEF InOrder
    <2>6. t.at \in {"complete", "settle"} => \A s \in Step : Finished(t.gen, s)'
      BY <2>1, <2>2 DEF InOrder, Fits
    <2> QED
      BY <2>2, <2>3, <2>4, <2>5, <2>6 DEF InOrder
  <1>5. /\ (status \in Final => generation \in Generation /\ \A s \in Step : Finished(generation, s))'
        /\ informed'
    OBVIOUS
  <1>6. \A b \in Actor : InOrder(b)'
    BY <1>4
  <1> QED
    BY <1>2, <1>3, <1>5, <1>6 DEF OrderInv

-----------------------------------------------------------------------------
(* What each step keeps *)

\* A step that changes the task of one actor, and nothing else of account.
LEMMA QuietStep ==
  ASSUME PInv, Typed', NEW a \in Actor, Moves(a), Keeps(a),
         UNCHANGED <<generation, job, queued, informed, announced, retries, hasty>>,
         status' = status \/ (status' = "SKIPPED" /\ generation = 0),
         actor'[a].at \notin {"create", "emit"}, ~hasty => InOrder(a)'
  PROVE  PInv'
  <1>0. Typed /\ StartInv /\ HeldInv /\ CountInv /\ OrderInv
    BY DEF PInv
  <1>1. StartInv'
    BY <1>0, StartKeeps
  <1>2. HeldInv'
    BY <1>0, HeldKeeps
  <1>3. \A g \in Generation : Pending(g)' <= Pending(g)
    BY Numbers DEF Pending
  <1>4. CountInv'
    BY <1>0, <1>3, CountKeeps
  <1>5. \A g : \A s : (Finished(g, s) <=> Finished(g, s)')
    BY DEF Finished
  <1>6. ~hasty => (status \in Final => generation \in Generation /\ \A s \in Step : Finished(generation, s))'
    BY <1>0 DEF OrderInv, Final, Finished
  <1>7. ~hasty => informed'
    BY <1>0 DEF OrderInv
  <1>8. OrderInv'
    BY <1>5, <1>6, <1>7, OrderStep
  <1> QED
    BY <1>1, <1>2, <1>4, <1>8 DEF PInv

\* An actor at rest has nothing out of order.
LEMMA RestInOrder ==
  ASSUME NEW a \in Actor, actor'[a].at \in {"idle", "skip", "guard", "create", "read", "emit", "finish"}
  PROVE  InOrder(a)'
  BY DEF InOrder, StepPlaces

LEMMA TellKeeps ==
  ASSUME PInv, NEW c \in Caller, SessionTerminal(c)
  PROVE  PInv'
  <1>1. c \in Actor /\ c \notin Worker /\ Typed
    BY Roles DEF PInv
  <1>2. Typed' /\ Moves(c) /\ actor'[c].at \in {"guard", "skip"}
    BY <1>1, TellTask
  <1> QED
    BY <1>1, <1>2, RestInOrder, QuietStep DEF SessionTerminal, KeepResults, KeepHistory, Keeps

LEMMA SkipKeeps ==
  ASSUME PInv, NEW c \in Caller, SkipAnalysis(c) \/ (GuardGeneration(c) /\ generation # 0)
  PROVE  PInv'
  <1>1. c \in Actor /\ c \notin Worker /\ Typed
    BY Roles DEF PInv
  <1>2. Typed' /\ Moves(c) /\ actor'[c].at = "idle"
    BY <1>1, LeaveTask, IdleFacts
  <1>3. /\ UNCHANGED <<generation, job, queued, informed, announced, retries, hasty>>
        /\ status' = status \/ (status' = "SKIPPED" /\ generation = 0)
    BY DEF SkipAnalysis, GuardGeneration, NotStartedYet, KeepResults, KeepHistory
  <1> QED
    BY <1>1, <1>2, <1>3, RestInOrder, QuietStep DEF Keeps

\* The step of the generation: a new run, with one owner, open.
LEMMA RunStarts ==
  ASSUME PInv, NEW c \in Caller, Typed', Moves(c), generation' = generation + 1,
         status' = "QUEUED", actor'[c].at = "create", actor'[c].gen = generation',
         UNCHANGED <<job, queued, informed, announced, retries, hasty>>
  PROVE  PInv'
  <1>0. Typed /\ StartInv /\ HeldInv /\ CountInv /\ OrderInv /\ c \in Actor /\ c \notin Worker
    BY Roles DEF PInv
  <1>1. StartInv'
    BY <1>0, StartOwns
  <1>2. HeldInv'
    BY <1>0, HeldKeeps DEF Keeps
  <1>3. generation \in Nat
    BY <1>0, TypedParts, Numbers DEF Rows
  <1>4. ASSUME NEW g \in Generation PROVE Pending(g)' <= Pending(g)
    <2>1. g \in Nat
      BY Numbers
    <2>2. CASE generation < g
      BY <2>2 DEF Pending
    <2>3. CASE ~(generation < g)
      <3>1. ~(generation' < g) /\ generation' # g
        BY <1>3, <2>1, <2>3
      <3> QED
        BY <3>1 DEF Pending
    <2> QED
      BY <2>2, <2>3
  <1>5. CountInv'
    BY <1>0, <1>4, CountKeeps
  <1>6. \A g : \A s : (Finished(g, s) <=> Finished(g, s)')
    BY DEF Finished
  <1>7. ~hasty => informed' /\ status' \notin Final /\ InOrder(c)'
    BY <1>0, RestInOrder DEF OrderInv, Final
  <1>8. OrderInv'
    BY <1>0, <1>6, <1>7, OrderStep
  <1> QED
    BY <1>1, <1>2, <1>5, <1>8 DEF PInv

LEMMA GuardKeeps ==
  ASSUME PInv, NEW c \in Caller, GuardGeneration(c)
  PROVE  PInv'
  <1>1. CASE generation = 0
    <2>1. Typed' /\ Moves(c) /\ actor'[c].at = "create" /\ actor'[c].gen = 1
      BY <1>1, GuardTask DEF PInv
    <2>2. /\ generation' = 1 /\ status' = "QUEUED"
          /\ UNCHANGED <<job, queued, informed, announced, retries, hasty>>
      BY <1>1 DEF GuardGeneration, NotStartedYet, KeepResults, KeepHistory
    <2> QED
      BY <1>1, <2>1, <2>2, RunStarts
  <1>2. CASE generation # 0
    BY <1>2, SkipKeeps
  <1> QED
    BY <1>1, <1>2

LEMMA ReprocessKeeps ==
  ASSUME PInv, NEW c \in Caller, Reprocess(c)
  PROVE  PInv'
  <1>1. Typed' /\ Moves(c) /\ actor'[c].at = "create" /\ actor'[c].gen = generation + 1
    BY ReprocessTask DEF PInv
  <1>2. /\ generation' = generation + 1 /\ status' = "QUEUED"
        /\ UNCHANGED <<job, queued, informed, announced, retries, hasty>>
    BY DEF Reprocess, KeepResults
  <1> QED
    BY <1>1, <1>2, RunStarts

\* Steps of a run come to exist, none of them finished; the first is in order.
LEMMA CreateKeeps ==
  ASSUME PInv, NEW c \in Caller, CreateJobs(c)
  PROVE  PInv'
  <1>0. Typed /\ StartInv /\ HeldInv /\ CountInv /\ OrderInv /\ c \in Actor /\ c \notin Worker
    BY Roles DEF PInv
  <1>1. /\ Typed' /\ Moves(c) /\ actor'[c].at = "dispatch" /\ actor'[c].next = 1
        /\ actor'[c].gen = actor[c].gen /\ actor'[c].gen \in Generation
    BY <1>0, CreateTask
  <1>2. UNCHANGED <<generation, status, queued, informed, announced, retries, hasty>>
    BY DEF CreateJobs, KeepResults, KeepHistory
  <1>3. \A g \in Generation : \A s \in Step :
          job'[g][s] = IF g = actor[c].gen /\ job[g][s] = "NONE" THEN "QUEUED" ELSE job[g][s]
    BY <1>0, <1>1, TypedParts DEF CreateJobs, Rows
  <1>4. \A g \in Generation : \A s \in Step : (Finished(g, s) <=> Finished(g, s)')
    BY <1>3 DEF Finished, TERMINAL_JOB_STATUSES
  <1>5. StartInv'
    BY <1>0, <1>1, <1>2, StartKeeps
  <1>6. HeldInv'
    BY <1>0, <1>1, <1>2, HeldKeeps DEF Keeps
  <1>7. \A g \in Generation : Pending(g)' <= Pending(g)
    BY <1>2 DEF Pending
  <1>8. CountInv'
    BY <1>0, <1>1, <1>2, <1>7, CountKeeps
  <1>9. InOrder(c)'
    BY <1>1, Numbers DEF InOrder, Ready, Step, StepPlaces
  <1>10. \A b \in Actor : ~hasty /\ actor[b].at \in StepPlaces
           => job'[actor[b].gen][actor[b].own] = job[actor[b].gen][actor[b].own]
    <2> SUFFICES ASSUME NEW b \in Actor, ~hasty, actor[b].at \in StepPlaces
                 PROVE  job'[actor[b].gen][actor[b].own] = job[actor[b].gen][actor[b].own]
      OBVIOUS
    <2>1. actor[b].gen \in Generation /\ actor[b].own \in Step
      BY <1>0, TypedParts DEF Fits, CallerPlaces, Actor, StepPlaces
    <2>2. job[actor[b].gen][actor[b].own] = "PROCESSING"
      BY <1>0 DEF OrderInv, InOrder
    <2> QED
      BY <1>3, <2>1, <2>2
  <1>11. ~hasty => (status \in Final => generation \in Generation /\ \A s \in Step : Finished(generation, s))'
    BY <1>0, <1>2, <1>4 DEF OrderInv
  <1>12. ~hasty => informed'
    BY <1>0, <1>2 DEF OrderInv
  <1>13. OrderInv'
    BY <1>0, <1>1, <1>2, <1>4, <1>9, <1>10, <1>11, <1>12, OrderStep
  <1> QED
    BY <1>1, <1>5, <1>6, <1>8, <1>13 DEF PInv

LEMMA RetryKeeps ==
  ASSUME PInv, NEW c \in Caller, NEW s \in Step, RetryStep(c, s)
  PROVE  PInv'
  <1>1. c \in Actor /\ c \notin Worker /\ Typed /\ OrderInv
    BY Roles DEF PInv
  <1>2. /\ Typed' /\ Moves(c) /\ actor'[c].at = "reset" /\ actor'[c].gen = generation
        /\ actor'[c].next = s /\ generation \in Generation
    BY <1>1, RetryTask
  <1>3. UNCHANGED <<generation, status, job, queued, informed, announced, retries, hasty>>
    BY DEF RetryStep, KeepResults, KeepHistory
  <1>4. ~hasty => Ready(generation, s)
    BY <1>1, <1>2 DEF OrderInv, Finished, RetryStep, TERMINAL_JOB_STATUSES
  <1>5. ~hasty => InOrder(c)'
    BY <1>2, <1>3, <1>4 DEF InOrder, Ready, Finished, StepPlaces
  <1> QED
    BY <1>1, <1>2, <1>3, <1>5, QuietStep DEF Keeps

LEMMA SweepKeeps ==
  ASSUME PInv, NEW c \in Caller, Sweep(c)
  PROVE  PInv'
  <1>1. c \in Actor /\ c \notin Worker /\ Typed
    BY Roles DEF PInv
  <1>2. UNCHANGED <<generation, status, job, queued, informed, announced, retries, hasty>>
    BY DEF Sweep, KeepResults, KeepHistory
  <1>3. Typed' /\ Moves(c) /\ actor'[c].at \in {"guard", "dispatch", "complete"}
    BY <1>1, SweepTask
  <1>4. InOrder(c)'
    BY <1>1, <1>2, SweepTask DEF InOrder, Ready, Finished, StepPlaces
  <1> QED
    BY <1>1, <1>2, <1>3, <1>4, QuietStep DEF Keeps

\* What a worker holds is its own, and in order.
LEMMA Holds ==
  ASSUME PInv, NEW w \in Worker, ~Resting(w), NEW g, NEW s, g = actor[w].gen, s = actor[w].own
  PROVE  /\ g \in Generation /\ s \in Step /\ queued[g][s].state = "active"
         /\ \A v \in Worker : v # w /\ ~Resting(v) => ~(actor[v].gen = g /\ actor[v].own = s)
         /\ ~hasty => Ready(g, s)
  BY WorkerTask DEF PInv, HeldInv, OrderInv

LEMMA AdvanceKeeps ==
  ASSUME PInv, NEW w \in Worker, Advance(w)
  PROVE  PInv'
  <1> DEFINE g == actor[w].gen
  <1> DEFINE s == actor[w].own
  <1>1. w \in Actor /\ Typed /\ OrderInv /\ ~Resting(w) /\ At(w, "advance")
    BY Roles DEF PInv, Advance, At, Resting
  <1>2. UNCHANGED <<generation, status, job, queued, informed, announced, retries, hasty>>
    BY DEF Advance, KeepResults, KeepHistory
  <1>3. PICK h \in Generation, r \in Step : h = g /\ r = s
    BY <1>1, AdvanceTask
  <1>4. /\ Typed' /\ Moves(w) /\ actor'[w].gen = h /\ actor'[w].own = r
        /\ \/ /\ actor'[w].at = "dispatch" /\ actor'[w].next \in Step /\ r < actor'[w].next
              /\ \A z \in Step : r < z /\ z < actor'[w].next => Finished(h, z)
           \/ /\ actor'[w].at = "complete"
              /\ \A z \in Step : r < z => Finished(h, z)
    BY <1>1, <1>3, AdvanceTask
  <1> HIDE DEF g, s
  <1>5. ~hasty => \A z \in Step : z <= r => Finished(h, z)
    BY <1>1, <1>3, Numbers DEF OrderInv, InOrder, Ready, At, g, s
  <1>6. ~hasty => InOrder(w)'
    <2>1. \A z \in Step : z \in Nat
      BY Numbers
    <2>2. CASE actor'[w].at = "dispatch"
      BY <1>2, <1>4, <1>5, <2>1, <2>2 DEF InOrder, Ready, Finished, StepPlaces
    <2>3. CASE actor'[w].at = "complete"
      BY <1>2, <1>4, <1>5, <2>1, <2>3 DEF InOrder, Finished, StepPlaces
    <2> QED
      BY <1>4, <2>2, <2>3
  <1>7. Keeps(w)
    BY <1>1, <1>3, <1>4 DEF Keeps, g, s
  <1> QED
    BY <1>1, <1>2, <1>4, <1>6, <1>7, QuietStep

LEMMA OutcomeKeeps ==
  ASSUME PInv, NEW a \in Actor, ReadOutcome(a)
  PROVE  PInv'
  <1>1. Typed /\ OrderInv /\ ~Resting(a) /\ At(a, "complete")
    BY DEF PInv, ReadOutcome, At, Resting
  <1>2. UNCHANGED <<generation, status, job, queued, informed, announced, retries, hasty>>
    BY DEF ReadOutcome, KeepResults, KeepHistory
  <1>3. /\ Typed' /\ Moves(a)
        /\ actor'[a].at = "settle" /\ actor'[a].gen = actor[a].gen /\ actor'[a].own = actor[a].own
    BY <1>1, OutcomeTask
  <1>4. ~hasty => \A s \in Step : Finished(actor[a].gen, s)
    BY <1>1 DEF OrderInv, InOrder, At
  <1>5. ~hasty => InOrder(a)'
    BY <1>2, <1>3, <1>4 DEF InOrder, Finished, StepPlaces
  <1> QED
    BY <1>1, <1>2, <1>3, <1>5, QuietStep DEF Keeps

\* The workers' holds, and who starts, when one job of the queue changes.
LEMMA QueueKeeps ==
  ASSUME PInv, Typed', NEW a \in Actor, Moves(a), HeldInv',
         UNCHANGED <<generation, status, job, informed, announced, retries, hasty>>,
         actor'[a].at \in {"idle", "read", "finish"},
         ~hasty => \A g \in Generation : \A s \in Step :
                     queued'[g][s].state \in {"waiting", "active"}
                       => queued[g][s].state \in {"waiting", "active"} \/ Ready(g, s)
  PROVE  PInv'
  <1>0. Typed /\ StartInv /\ CountInv /\ OrderInv
    BY DEF PInv
  <1>1. StartInv'
    BY <1>0, StartKeeps
  <1>2. \A g \in Generation : Pending(g)' <= Pending(g)
    BY DEF Pending
  <1>3. CountInv'
    BY <1>0, <1>2, CountKeeps
  <1>4. \A g : \A s : (Finished(g, s) <=> Finished(g, s)')
    BY DEF Finished
  <1>5. ~hasty => (status \in Final => generation \in Generation /\ \A s \in Step : Finished(generation, s))'
    BY <1>0 DEF OrderInv, Finished
  <1>6. ~hasty => informed'
    BY <1>0 DEF OrderInv
  <1>7. OrderInv'
    BY <1>4, <1>5, <1>6, OrderStep, RestInOrder
  <1> QED
    BY <1>1, <1>3, <1>7 DEF PInv

LEMMA TakeKeeps ==
  ASSUME PInv, NEW w \in Worker, NEW g \in Generation, NEW s \in Step, Takes(w, g, s)
  PROVE  PInv'
  <1>0. Typed /\ HeldInv /\ w \in Actor
    BY Roles DEF PInv
  <1>1. /\ Typed' /\ Moves(w)
        /\ actor'[w].at = "read" /\ actor'[w].gen = g /\ actor'[w].own = s
    BY <1>0, TakeTask
  <1>2. /\ UNCHANGED <<generation, status, job, informed, announced, retries, hasty>>
        /\ queued[g][s].state = "waiting"
    BY DEF Takes, KeepResults, KeepHistory
  <1>3. queued'[g][s].state = "active" /\ OtherQueued(g, s)
    BY <1>0, TypedParts, MadeType, QueueStep DEF Takes, OtherQueued
  <1>4. \A v \in Worker : v # w /\ ~Resting(v) => ~(actor[v].gen = g /\ actor[v].own = s)
    BY <1>2, Holds
  <1>5. HeldInv'
    BY <1>0, <1>1, <1>3, <1>4, HeldStep
  <1>6. \A h \in Generation : \A z \in Step :
          queued'[h][z].state \in {"waiting", "active"} => queued[h][z].state \in {"waiting", "active"}
    BY <1>2, <1>3 DEF OtherQueued
  <1> QED
    BY <1>0, <1>1, <1>2, <1>5, <1>6, QueueKeeps

LEMMA FinishKeeps ==
  ASSUME PInv, NEW w \in Worker, FinishJob(w)
  PROVE  PInv'
  <1> DEFINE g == actor[w].gen
  <1> DEFINE s == actor[w].own
  <1>0. Typed /\ HeldInv /\ w \in Actor /\ ~Resting(w)
    BY Roles DEF PInv, FinishJob, At, Resting
  <1>1. /\ Typed' /\ Moves(w) /\ actor'[w].at = "idle" /\ OtherQueued(g, s)
        /\ queued'[g][s].state = "finished"
    BY <1>0, FinishTask, IdleFacts
  <1>2. UNCHANGED <<generation, status, job, informed, announced, retries, hasty>>
    BY DEF FinishJob, KeepResults, KeepHistory
  <1>3. \A v \in Worker : v # w /\ ~Resting(v) => ~(actor[v].gen = g /\ actor[v].own = s)
    BY <1>0, Holds
  <1>4. HeldInv'
    BY <1>0, <1>1, <1>3, HeldStep
  <1>5. \A h \in Generation : \A z \in Step :
          queued'[h][z].state \in {"waiting", "active"} => queued[h][z].state \in {"waiting", "active"}
    BY <1>1 DEF OtherQueued
  <1> QED
    BY <1>0, <1>1, <1>2, <1>4, <1>5, QueueKeeps

LEMMA CrashKeeps ==
  ASSUME PInv, NEW a \in Actor, Crash(a)
  PROVE  PInv'
  <1> DEFINE g == actor[a].gen
  <1> DEFINE s == actor[a].own
  <1>0. Typed /\ HeldInv /\ ~Resting(a)
    BY DEF PInv, Crash
  <1>1. UNCHANGED <<generation, status, job, informed, announced, retries, hasty>>
    BY DEF Crash
  <1>2. Typed' /\ Moves(a) /\ actor'[a].at = "idle"
    BY <1>0, CrashTask, IdleFacts
  <1>3. CASE a \notin Worker
    BY <1>0, <1>1, <1>2, <1>3, CrashTask, RestInOrder, QuietStep DEF Keeps
  <1>4. CASE a \in Worker
    <2>1. OtherQueued(g, s) /\ queued'[g][s].state \in {"waiting", "finished"}
      BY <1>0, <1>4, CrashTask
    <2>2. /\ queued[g][s].state = "active"
          /\ \A v \in Worker : v # a /\ ~Resting(v) => ~(actor[v].gen = g /\ actor[v].own = s)
      BY <1>0, <1>4, Holds
    <2>3. HeldInv'
      BY <1>0, <1>2, <2>1, <2>2, HeldStep
    <2>4. \A h \in Generation : \A z \in Step :
            queued'[h][z].state \in {"waiting", "active"} => queued[h][z].state \in {"waiting", "active"}
      BY <2>1, <2>2 DEF OtherQueued
    <2> QED
      BY <1>1, <1>2, <2>3, <2>4, QueueKeeps
  <1> QED
    BY <1>3, <1>4

LEMMA DispatchKeeps ==
  ASSUME PInv, NEW a \in Actor, Dispatch(a)
  PROVE  PInv'
  <1>0. Typed /\ HeldInv /\ OrderInv /\ ~Resting(a) /\ At(a, "dispatch")
    BY DEF PInv, Dispatch, At, Resting
  <1>1. PICK g \in Generation, s \in Step : g = actor[a].gen /\ s = actor[a].next
    BY <1>0, DispatchTask
  <1>2. /\ Typed' /\ Moves(a) /\ Returns(a)
        /\ \/ queued' = queued
           \/ OtherQueued(g, s) /\ queued[g][s].state \in {"none", "finished"}
    BY <1>0, <1>1, DispatchTask
  <1>3. UNCHANGED <<generation, status, job, informed, announced, retries, hasty>>
    BY DEF Dispatch, KeepResults, KeepHistory
  <1>4. ~hasty => Ready(g, s)
    BY <1>0, <1>1 DEF OrderInv, InOrder, At
  <1>5. actor'[a].at \in {"idle", "finish"}
    BY <1>2, IdleFacts DEF Returns
  <1>6. \A h \in Generation : \A z \in Step :
          queued'[h][z].state \in {"waiting", "active"}
            => queued[h][z].state \in {"waiting", "active"} \/ (h = g /\ z = s)
    BY <1>2 DEF OtherQueued
  <1>7. HeldInv'
    <2>1. CASE queued' = queued
      BY <1>0, <1>2, <2>1, HeldKeeps DEF Keeps, Returns
    <2>2. CASE OtherQueued(g, s) /\ queued[g][s].state \in {"none", "finished"}
      <3>1. \A w \in Worker : ~Resting(w) => ~(actor[w].gen = g /\ actor[w].own = s)
        BY <2>2, Holds
      <3>2. ASSUME a \in Worker
            PROVE  /\ queued'[actor[a].gen][actor[a].own].state = "active"
                   /\ \A w \in Worker : w # a /\ ~Resting(w) =>
                        ~(actor[w].gen = actor[a].gen /\ actor[w].own = actor[a].own)
        BY <1>0, <2>2, <3>1, <3>2, Holds DEF OtherQueued
      <3> QED
        BY <1>0, <1>2, <2>2, <3>1, <3>2, HeldStep DEF Returns
    <2> QED
      BY <1>2, <2>1, <2>2
  <1> QED
    BY <1>2, <1>3, <1>4, <1>5, <1>6, <1>7, QueueKeeps

LEMMA ReadKeeps ==
  ASSUME PInv, NEW w \in Worker, ReadSession(w)
  PROVE  PInv'
  <1>0. Typed /\ StartInv /\ HeldInv /\ CountInv /\ OrderInv /\ w \in Actor /\ ~Resting(w)
    BY Roles DEF PInv, ReadSession, At, Resting
  <1>1. PICK g \in Generation, s \in Step : g = actor[w].gen /\ s = actor[w].own
    BY <1>0, WorkerTask
  <1>2. /\ Typed' /\ Moves(w) /\ OtherJobs(g, s)
        /\ actor'[w].gen = g /\ actor'[w].own = s
        /\ Finished(g, s) => Finished(g, s)'
        /\ \/ actor'[w].at = "finish" /\ status' = status
           \/ actor'[w].at = "advance" /\ Finished(g, s)' /\ status' = status
           \/ /\ actor'[w].at = "running" /\ job'[g][s] = "PROCESSING" /\ generation = g
              /\ status' = IF status = "QUEUED" THEN "PROCESSING" ELSE status
    BY <1>0, <1>1, ReadTask
  <1>3. UNCHANGED <<generation, queued, informed, announced, retries, hasty>>
    BY DEF ReadSession, KeepResults, KeepHistory
  <1>4. /\ queued[g][s].state = "active"
        /\ \A v \in Worker : v # w /\ ~Resting(v) => ~(actor[v].gen = g /\ actor[v].own = s)
        /\ ~hasty => Ready(g, s)
    BY <1>0, <1>1, Holds
  <1>5. StartInv'
    BY <1>0, <1>2, <1>3, StartKeeps
  <1>6. HeldInv'
    BY <1>0, <1>1, <1>2, <1>3, HeldKeeps DEF Keeps
  <1>7. \A h \in Generation : Pending(h)' <= Pending(h)
    BY <1>2, <1>3 DEF Pending, Open
  <1>8. CountInv'
    BY <1>0, <1>2, <1>3, <1>7, CountKeeps
  <1>9. \A h \in Generation : \A z \in Step :
          /\ Finished(h, z) => Finished(h, z)'
          /\ Finished(h, z)' => Finished(h, z) \/ (h = g /\ z = s)
    BY <1>2 DEF OtherJobs, Finished
  <1>10. InOrder(w)'
    BY <1>2 DEF InOrder, Finished, StepPlaces
  <1>11. ASSUME NEW b \in Actor, b # w, actor[b].at \in StepPlaces
         PROVE  job'[actor[b].gen][actor[b].own] = job[actor[b].gen][actor[b].own]
    <2>1. b \in Worker /\ ~Resting(b)
      BY <1>0, <1>11, TypedParts DEF Fits, CallerPlaces, Actor, Resting, StepPlaces
    <2> QED
      BY <1>2, <1>4, <1>11, <2>1, Holds DEF OtherJobs
  <1>12. ~hasty => (status \in Final => generation \in Generation /\ \A z \in Step : Finished(generation, z))'
    BY <1>0, <1>2, <1>3, <1>9 DEF OrderInv, Final
  <1>13. ~hasty => informed'
    BY <1>0, <1>3 DEF OrderInv
  <1>14. OrderInv'
    BY <1>0, <1>2, <1>3, <1>4, <1>9, <1>10, <1>11, <1>12, <1>13, OrderStep
  <1> QED
    BY <1>2, <1>5, <1>6, <1>8, <1>14 DEF PInv

LEMMA EndKeeps ==
  ASSUME PInv, NEW w \in Worker, StepEnds(w)
  PROVE  PInv'
  <1>0. Typed /\ StartInv /\ HeldInv /\ CountInv /\ OrderInv /\ w \in Actor /\ ~Resting(w)
    BY Roles DEF PInv, StepEnds, InStep, StepPlaces, Resting
  <1>1. PICK g \in Generation, s \in Step : g = actor[w].gen /\ s = actor[w].own
    BY <1>0, WorkerTask
  <1>2. /\ Typed' /\ Moves(w) /\ OtherJobs(g, s) /\ Finished(g, s)'
        /\ actor'[w].at = "advance" /\ actor'[w].gen = g /\ actor'[w].own = s
    BY <1>0, <1>1, EndTask
  <1>3. UNCHANGED <<generation, status, queued, announced, retries, hasty>>
    BY DEF StepEnds, KeepHistory
  <1>4. /\ queued[g][s].state = "active"
        /\ \A v \in Worker : v # w /\ ~Resting(v) => ~(actor[v].gen = g /\ actor[v].own = s)
        /\ ~hasty => Ready(g, s)
    BY <1>0, <1>1, Holds
  <1>5. StartInv'
    BY <1>0, <1>2, <1>3, StartKeeps
  <1>6. HeldInv'
    BY <1>0, <1>1, <1>2, <1>3, HeldKeeps DEF Keeps
  <1>7. \A h \in Generation : Pending(h)' <= Pending(h)
    BY <1>3 DEF Pending
  <1>8. CountInv'
    BY <1>0, <1>2, <1>3, <1>7, CountKeeps
  <1>9. \A h \in Generation : \A z \in Step :
          /\ Finished(h, z) => Finished(h, z)'
          /\ Finished(h, z)' => Finished(h, z) \/ (h = g /\ z = s)
    BY <1>2 DEF OtherJobs, Finished
  <1>10. InOrder(w)'
    BY <1>2 DEF InOrder, Finished, StepPlaces
  <1>11. ASSUME NEW b \in Actor, b # w, actor[b].at \in StepPlaces
         PROVE  job'[actor[b].gen][actor[b].own] = job[actor[b].gen][actor[b].own]
    <2>1. b \in Worker /\ ~Resting(b)
      BY <1>0, <1>11, TypedParts DEF Fits, CallerPlaces, Actor, Resting, StepPlaces
    <2> QED
      BY <1>2, <1>4, <1>11, <2>1, Holds DEF OtherJobs
  <1>12. ~hasty => (status \in Final => generation \in Generation /\ \A z \in Step : Finished(generation, z))'
    BY <1>0, <1>3, <1>9 DEF OrderInv
  <1>13. ~hasty => informed'
    <2>1. ~hasty => Unfinished(g, 0) \cap 1..(s - 1) = {}
      <3> SUFFICES ASSUME ~hasty, NEW r \in Step, r \in 1..(s - 1)
                   PROVE  Finished(g, r)
        BY DEF Unfinished, Finished
      <3>1. r < s
        BY Numbers
      <3> QED
        BY <1>4, <3>1 DEF Ready
    <2>2. informed' = informed \/ informed' = (Unfinished(g, 0) \cap 1..(s - 1) = {})
      BY <1>1 DEF StepEnds
    <2> QED
      BY <1>0, <2>1, <2>2 DEF OrderInv
  <1>14. OrderInv'
    BY <1>0, <1>2, <1>3, <1>4, <1>9, <1>10, <1>11, <1>12, <1>13, OrderStep
  <1> QED
    BY <1>2, <1>5, <1>6, <1>8, <1>14 DEF PInv

LEMMA AgainKeeps ==
  ASSUME PInv, NEW w \in Worker, StepRetries(w)
  PROVE  PInv'
  <1>0. Typed /\ StartInv /\ HeldInv /\ CountInv /\ OrderInv /\ w \in Actor /\ ~Resting(w) /\ InStep(w)
    BY Roles DEF PInv, StepRetries, InStep, StepPlaces, Resting
  <1>1. PICK g \in Generation, s \in Step : g = actor[w].gen /\ s = actor[w].own
    BY <1>0, WorkerTask
  <1>2. /\ Typed' /\ Moves(w) /\ actor'[w].at = "idle"
        /\ OtherJobs(g, s) /\ OtherQueued(g, s)
    BY <1>0, <1>1, AgainTask, IdleFacts
  <1>3. UNCHANGED <<generation, status, informed, announced, retries, hasty>>
    BY DEF StepRetries, KeepHistory
  <1>4. /\ queued[g][s].state = "active"
        /\ \A v \in Worker : v # w /\ ~Resting(v) => ~(actor[v].gen = g /\ actor[v].own = s)
    BY <1>0, <1>1, Holds
  <1>5. StartInv'
    BY <1>0, <1>2, <1>3, StartKeeps
  <1>6. HeldInv'
    BY <1>0, <1>2, <1>4, HeldStep
  <1>7. \A h \in Generation : Pending(h)' <= Pending(h)
    BY <1>3 DEF Pending
  <1>8. CountInv'
    BY <1>0, <1>2, <1>3, <1>7, CountKeeps
  <1>9. ~hasty => ~Finished(g, s)
    BY <1>0, <1>1 DEF OrderInv, InOrder, InStep, Finished, TERMINAL_JOB_STATUSES
  <1>10. job'[g][s] = "QUEUED"
    <2>1. "QUEUED" \in JobStatuses /\ SetJob(g, s, "QUEUED")
      BY <1>1 DEF StepRetries, SetJob, JobStatuses, Open
    <2> QED
      BY <1>0, <2>1, JobStep, TypedParts
  <1>11. ~hasty => \A h \in Generation : \A z \in Step : (Finished(h, z) <=> Finished(h, z)')
    BY <1>2, <1>9, <1>10 DEF OtherJobs, Finished, TERMINAL_JOB_STATUSES
  <1>12. \A h \in Generation : \A z \in Step :
           queued'[h][z].state \in {"waiting", "active"} => queued[h][z].state \in {"waiting", "active"}
    BY <1>2, <1>4 DEF OtherQueued
  <1>13. ASSUME NEW b \in Actor, b # w, actor[b].at \in StepPlaces
         PROVE  job'[actor[b].gen][actor[b].own] = job[actor[b].gen][actor[b].own]
    <2>1. b \in Worker /\ ~Resting(b)
      BY <1>0, <1>13, TypedParts DEF Fits, CallerPlaces, Actor, Resting, StepPlaces
    <2> QED
      BY <1>2, <1>4, <1>13, <2>1, Holds DEF OtherJobs
  <1>14. ~hasty => (status \in Final => generation \in Generation /\ \A z \in Step : Finished(generation, z))'
    BY <1>0, <1>3, <1>11 DEF OrderInv
  <1>15. ~hasty => informed'
    BY <1>0, <1>3 DEF OrderInv
  <1>16. OrderInv'
    BY <1>0, <1>2, <1>3, <1>11, <1>12, <1>13, <1>14, <1>15, RestInOrder, OrderStep
  <1> QED
    BY <1>2, <1>5, <1>6, <1>8, <1>16 DEF PInv

\* The steps of the scoring transaction move their worker on within its step.
LEMMA ScoreTask ==
  ASSUME Typed, NEW w \in Worker, ScoreChecks(w) \/ ScoreWrites(w) \/ ScoreCommits(w)
  PROVE  /\ Typed' /\ Moves(w) /\ InStep(w)
         /\ actor'[w].gen = actor[w].gen /\ actor'[w].own = actor[w].own
         /\ actor'[w].at \in {"checked", "written", "scored"}
         /\ UNCHANGED <<generation, status, job, queued, informed, announced, retries, hasty, overtaken>>
  <1>0. InStep(w) /\ ~Resting(w)
    BY DEF ScoreChecks, ScoreWrites, ScoreCommits, At, InStep, StepPlaces, Resting
  <1>1. /\ Rows /\ w \in Actor /\ actor \in [Actor -> Task] /\ actor[w] \in Task
        /\ actor[w].gen \in Generation /\ actor[w].own \in Step
    BY <1>0, WorkerTask
  <1>2. PICK p \in {"checked", "written", "scored"} : Goes(w, [actor[w] EXCEPT !.at = p])
    BY DEF ScoreChecks, ScoreWrites, ScoreCommits
  <1> DEFINE t == [actor[w] EXCEPT !.at = p]
  <1>3. t \in Task /\ t.at = p /\ t.gen = actor[w].gen /\ t.own = actor[w].own
    BY <1>1 DEF Task
  <1>4. Goes(w, t)
    BY <1>2
  <1> HIDE DEF t
  <1>5. Fits(w, t)
    BY <1>1, <1>3, Roles DEF Fits, WorkerPlaces
  <1>6. tx[w] \in Transaction /\ tx \in [Worker -> Transaction] /\ current \in SUBSET Generation
    BY <1>1 DEF Rows
  <1>7. tx' \in [Worker -> Transaction]
    <2>1. CASE ScoreChecks(w)
      BY <1>6, <2>1 DEF ScoreChecks, IsLatest, Transaction
    <2>2. CASE ScoreWrites(w)
      BY <1>6, <2>2 DEF ScoreWrites, Transaction
    <2>3. CASE ScoreCommits(w)
      BY <1>6, <2>3 DEF ScoreCommits, NoTransaction, Transaction
    <2> QED
      BY <2>1, <2>2, <2>3
  <1>8. current' \in SUBSET Generation
    BY <1>1, <1>6 DEF ScoreChecks, ScoreWrites, ScoreCommits, Committed
  <1>9. UNCHANGED <<analyzable, generation, status, job, queued, informed, announced, retries,
                    crashes, hasty, overtaken>>
    BY DEF ScoreChecks, ScoreWrites, ScoreCommits, KeepHistory
  <1>10. Rows'
    BY <1>1, <1>7, <1>8, <1>9 DEF Rows
  <1> QED
    BY <1>0, <1>1, <1>3, <1>4, <1>5, <1>9, <1>10, GoesFacts, TypedParts DEF Moves

LEMMA ScoreKeeps ==
  ASSUME PInv, NEW w \in Worker, ScoreChecks(w) \/ ScoreWrites(w) \/ ScoreCommits(w)
  PROVE  PInv'
  <1>1. Typed /\ OrderInv /\ w \in Actor
    BY Roles DEF PInv
  <1>2. /\ Typed' /\ Moves(w) /\ InStep(w)
        /\ actor'[w].gen = actor[w].gen /\ actor'[w].own = actor[w].own
        /\ actor'[w].at \in {"checked", "written", "scored"}
        /\ UNCHANGED <<generation, status, job, queued, informed, announced, retries, hasty>>
    BY <1>1, ScoreTask
  <1>3. Keeps(w)
    BY <1>2 DEF Keeps, InStep, StepPlaces, Resting
  <1>4. ~hasty => InOrder(w)'
    BY <1>1, <1>2 DEF OrderInv, InOrder, InStep, StepPlaces
  <1> QED
    BY <1>1, <1>2, <1>3, <1>4, QuietStep

LEMMA SettleKeeps ==
  ASSUME PInv, NEW a \in Actor, Settle(a)
  PROVE  PInv'
  <1>0. Typed /\ StartInv /\ HeldInv /\ CountInv /\ OrderInv /\ ~Resting(a) /\ At(a, "settle")
    BY DEF PInv, Settle, At, Resting
  <1>1. PICK g \in Generation : g = actor[a].gen
    BY <1>0, SettleTask
  <1>2. /\ Typed' /\ Moves(a)
        /\ \/ /\ Settles(g) /\ status' \in Final /\ actor'[a].at = "emit"
              /\ actor'[a].gen = g /\ actor'[a].own = actor[a].own
           \/ ~Settles(g) /\ status' = status /\ Returns(a)
    BY <1>0, <1>1, SettleTask
  <1>3. UNCHANGED <<generation, job, queued, informed, announced, retries, hasty>>
    BY DEF Settle, KeepResults, KeepHistory
  <1>4. actor'[a].at \in {"emit", "finish", "idle"}
    BY <1>2, IdleFacts DEF Returns
  <1>5. StartInv'
    BY <1>0, <1>2, <1>3, <1>4, StartKeeps
  <1>6. HeldInv'
    BY <1>0, <1>1, <1>2, <1>3, HeldKeeps DEF Keeps, Returns
  <1>7. CountInv'
    <2>1. CASE ~Settles(g)
      <3>1. actor'[a].at # "emit" /\ \A h \in Generation : Pending(h)' <= Pending(h)
        BY <1>2, <1>3, <2>1, IdleFacts DEF Returns, Pending
      <3> QED
        BY <1>0, <1>2, <1>3, <3>1, CountKeeps
    <2>2. CASE Settles(g)
      <3> SUFFICES ASSUME NEW h \in Generation
                   PROVE  announced'[h] + Cardinality(Emitting(h)') + Pending(h)' <= 1 + retries'
        BY DEF CountInv
      <3>0. announced[h] \in Nat /\ retries \in Nat
        BY <1>0, TypedParts DEF Rows
      <3>1. announced[h] + Cardinality(Emitting(h)) + Pending(h) <= 1 + retries
        BY <1>0 DEF CountInv
      <3>2. CASE h = g
        <4>1. Emitting(h)' = Emitting(h) \cup {a} /\ a \notin Emitting(h)
          BY <1>0, <1>2, <2>2, <3>2 DEF Emitting, At, Moves
        <4>2. Cardinality(Emitting(h)') = Cardinality(Emitting(h)) + 1 /\ Cardinality(Emitting(h)) \in Nat
          BY <4>1, EmittingFinite, FS_AddElement
        <4>3. Pending(h) = 1 /\ Pending(h)' = 0
          BY <1>2, <1>3, <2>2, <3>2, Numbers DEF Settles, Pending, Open, Final
        <4> QED
          BY <1>3, <3>0, <3>1, <4>2, <4>3
      <3>3. CASE h # g
        <4>1. Emitting(h)' = Emitting(h)
          BY <1>0, <1>2, <2>2, <3>3 DEF Emitting, At, Moves
        <4>2. Pending(h)' = Pending(h)
          BY <1>3, <2>2, <3>3 DEF Settles, Pending
        <4> QED
          BY <1>3, <3>1, <4>1, <4>2
      <3> QED
        BY <3>2, <3>3
    <2> QED
      BY <2>1, <2>2
  <1>8. \A h : \A z : (Finished(h, z) <=> Finished(h, z)')
    BY <1>3 DEF Finished
  <1>9. ~hasty => (status \in Final => generation \in Generation /\ \A z \in Step : Finished(generation, z))'
    <2>1. CASE Settles(g)
      <3>1. ~hasty => \A z \in Step : Finished(g, z)
        BY <1>0, <1>1 DEF OrderInv, InOrder, At
      <3> QED
        BY <1>3, <2>1, <3>1 DEF Settles, Finished
    <2>2. CASE ~Settles(g)
      BY <1>0, <1>2, <1>3, <2>2 DEF OrderInv, Finished
    <2> QED
      BY <2>1, <2>2
  <1>10. ~hasty => informed'
    BY <1>0, <1>3 DEF OrderInv
  <1>11. OrderInv'
    BY <1>2, <1>3, <1>4, <1>8, <1>9, <1>10, RestInOrder, OrderStep
  <1> QED
    BY <1>2, <1>5, <1>6, <1>7, <1>11 DEF PInv

LEMMA EmitKeeps ==
  ASSUME PInv, NEW a \in Actor, EmitOutcome(a)
  PROVE  PInv'
  <1>0. Typed /\ StartInv /\ HeldInv /\ CountInv /\ OrderInv /\ ~Resting(a) /\ At(a, "emit")
    BY DEF PInv, EmitOutcome, At, Resting
  <1>1. PICK g \in Generation : g = actor[a].gen
    BY <1>0, EmitTask
  <1>2. /\ Typed' /\ Moves(a) /\ Returns(a)
        /\ announced'[g] = announced[g] + 1
        /\ \A h \in Generation : h # g => announced'[h] = announced[h]
    BY <1>0, <1>1, EmitTask
  <1>3. UNCHANGED <<generation, status, job, queued, informed, retries, hasty>>
    BY DEF EmitOutcome, KeepHistory
  <1>4. actor'[a].at \in {"finish", "idle"}
    BY <1>2, IdleFacts DEF Returns
  <1>5. StartInv'
    BY <1>0, <1>2, <1>3, <1>4, StartKeeps
  <1>6. HeldInv'
    BY <1>0, <1>1, <1>2, <1>3, HeldKeeps DEF Keeps, Returns
  <1>7. CountInv'
    <2> SUFFICES ASSUME NEW h \in Generation
                 PROVE  announced'[h] + Cardinality(Emitting(h)') + Pending(h)' <= 1 + retries'
      BY DEF CountInv
    <2>0. announced[h] \in Nat /\ retries \in Nat /\ Pending(h) \in {0, 1} /\ Pending(h)' = Pending(h)
      BY <1>0, <1>3, TypedParts DEF Rows, Pending
    <2>1. announced[h] + Cardinality(Emitting(h)) + Pending(h) <= 1 + retries
      BY <1>0 DEF CountInv
    <2>2. CASE h = g
      <3>1. Emitting(h)' = Emitting(h) \ {a} /\ a \in Emitting(h)
        BY <1>0, <1>1, <1>2, <1>4, <2>2 DEF Emitting, At, Moves
      <3>2. Cardinality(Emitting(h)') = Cardinality(Emitting(h)) - 1 /\ Cardinality(Emitting(h)) \in Nat
        BY <3>1, EmittingFinite, FS_RemoveElement
      <3> QED
        BY <1>2, <1>3, <2>0, <2>1, <2>2, <3>2
    <2>3. CASE h # g
      <3>1. Emitting(h)' = Emitting(h)
        BY <1>0, <1>1, <1>2, <1>4, <2>3 DEF Emitting, At, Moves
      <3> QED
        BY <1>2, <1>3, <2>0, <2>1, <2>3, <3>1
    <2> QED
      BY <2>2, <2>3
  <1>8. \A h : \A z : (Finished(h, z) <=> Finished(h, z)')
    BY <1>3 DEF Finished
  <1>9. ~hasty => (status \in Final => generation \in Generation /\ \A z \in Step : Finished(generation, z))'
    BY <1>0, <1>3 DEF OrderInv, Finished
  <1>10. ~hasty => informed'
    BY <1>0, <1>3 DEF OrderInv
  <1>11. OrderInv'
    BY <1>2, <1>3, <1>4, <1>8, <1>9, <1>10, RestInOrder, OrderStep
  <1> QED
    BY <1>2, <1>5, <1>6, <1>7, <1>11 DEF PInv

\* A retry opens the run once more; unless it is hasty, nothing else is going on.
LEMMA ResetKeeps ==
  ASSUME PInv, NEW c \in Caller, ResetSteps(c)
  PROVE  PInv'
  <1>0. /\ Typed /\ StartInv /\ HeldInv /\ CountInv /\ OrderInv
        /\ c \in Actor /\ c \notin Worker /\ At(c, "reset")
    BY Roles DEF PInv, ResetSteps
  <1>1. PICK g \in Generation, s \in Step : g = actor[c].gen /\ s = actor[c].next
    BY <1>0, TypedParts DEF Fits, At
  <1>2. /\ Typed' /\ Moves(c) /\ actor'[c].at = "dispatch" /\ actor'[c].next = s /\ actor'[c].gen = g
    BY <1>0, <1>1, ResetTask
  <1>3. /\ UNCHANGED <<generation, queued, informed, announced>>
        /\ status' = "PROCESSING" /\ retries' = retries + 1
        /\ hasty' = (hasty \/ ~Calm(c) \/ generation # g)
    BY <1>1 DEF ResetSteps, KeepResults
  <1>4. \A h \in Generation : \A z \in Step :
          job'[h][z] = IF h = g /\ z >= s THEN "QUEUED" ELSE job[h][z]
    BY <1>0, <1>1, TypedParts DEF ResetSteps, Rows
  <1>5. StartInv'
    BY <1>0, <1>2, <1>3, StartKeeps
  <1>6. HeldInv'
    BY <1>0, <1>2, <1>3, HeldKeeps DEF Keeps
  <1>7. CountInv'
    <2> SUFFICES ASSUME NEW h \in Generation
                 PROVE  announced'[h] + Cardinality(Emitting(h)') + Pending(h)' <= 1 + retries'
      BY DEF CountInv
    <2>1. Emitting(h)' = Emitting(h)
      BY <1>0, <1>2 DEF Emitting, At, Moves
    <2>2. announced[h] \in Nat /\ retries \in Nat /\ Cardinality(Emitting(h)) \in Nat
      BY <1>0, TypedParts, EmittingFinite DEF Rows
    <2>3. announced[h] + Cardinality(Emitting(h)) + Pending(h) <= 1 + retries
      BY <1>0 DEF CountInv
    <2>4. Pending(h) \in {0, 1} /\ Pending(h)' \in {0, 1}
      BY DEF Pending
    <2> QED
      BY <1>3, <2>1, <2>2, <2>3, <2>4
  <1>8. OrderInv'
    <2> SUFFICES ASSUME ~hasty'
                 PROVE  OrderInv'
      BY DEF OrderInv
    <2>0. ~hasty /\ Calm(c) /\ generation = g /\ \A z \in Step : z \in Nat
      BY <1>3, Numbers
    <2>1. Ready(g, s)
      BY <1>0, <1>1, <2>0 DEF OrderInv, InOrder, At
    <2>2. \A h \in Generation : \A z \in Step :
            (Finished(h, z)' <=> Finished(h, z) /\ ~(h = g /\ z >= s))
      BY <1>4 DEF Finished, TERMINAL_JOB_STATUSES
    <2>3. \A h \in Generation : \A z \in Step : Finished(h, z)' => Ready(h, z)'
      <3> SUFFICES ASSUME NEW h \in Generation, NEW z \in Step, Finished(h, z)',
                          NEW r \in Step, r < z
                   PROVE  Finished(h, r)'
        BY DEF Ready
      <3>1. Finished(h, r) /\ Finished(h, z) /\ ~(h = g /\ z >= s)
        BY <1>0, <2>0, <2>2 DEF OrderInv, Ready
      <3> QED
        BY <2>0, <2>2, <3>1
    <2>4. \A h \in Generation : \A z \in Step : queued'[h][z].state \notin {"waiting", "active"}
      BY <1>3, <2>0 DEF Calm
    <2>5. ASSUME NEW b \in Actor PROVE InOrder(b)'
      <3>1. CASE b # c
        <4>1. actor'[b].at = "idle"
          BY <1>2, <2>0, <3>1 DEF Calm, Resting, Moves
        <4> QED
          BY <4>1, RestInOrder
      <3>2. CASE b = c
        <4>1. \A r \in Step : r < s => Finished(g, r)'
          BY <2>0, <2>1, <2>2 DEF Ready
        <4> QED
          BY <1>2, <3>2, <4>1 DEF InOrder, Ready, Finished, StepPlaces
      <3> QED
        BY <3>1, <3>2
    <2>6. status' \notin Final /\ informed'
      BY <1>0, <1>3, <2>0 DEF OrderInv, Final
    <2> QED
      BY <2>3, <2>4, <2>5, <2>6 DEF OrderInv
  <1> QED
    BY <1>2, <1>5, <1>6, <1>7, <1>8 DEF PInv

LEMMA StutterKeeps ==
  ASSUME PInv, UNCHANGED pipelineVars
  PROVE  PInv'
  <1>1. UNCHANGED <<analyzable, generation, status, job, queued, actor, current, tx, informed,
                    announced, retries, crashes, hasty, overtaken>>
    BY DEF pipelineVars
  <1>2. Typed' /\ StartInv' /\ HeldInv'
    BY <1>1 DEF PInv, Typed, PipelineTypeOK, Fits, StartInv, OneStarter, HeldInv, At, Resting
  <1>3. CountInv'
    BY <1>1 DEF PInv, CountInv, Emitting, Pending, At
  <1>4. OrderInv'
    BY <1>1 DEF PInv, OrderInv, InOrder, Ready, Finished
  <1> QED
    BY <1>2, <1>3, <1>4 DEF PInv

-----------------------------------------------------------------------------
(* Theorems *)

LEMMA InitHolds ==
  ASSUME PipelineInit
  PROVE  PInv
  <1>0. /\ generation = 0 /\ status = "NOT_STARTED" /\ informed /\ retries = 0
        /\ \A a \in Actor : actor[a] = Idle
        /\ \A g \in Generation : announced[g] = 0
        /\ \A g \in Generation : \A s \in Step : job[g][s] = "NONE" /\ queued[g][s].state = "none"
    BY DEF PipelineInit
  <1>1. Typed
    <2>1. 0 \in 0..MaxGeneration /\ 0 \in 0..(MAX_ATTEMPTS - 1)
      BY Numbers
    <2>2. queued \in [Generation -> [Step -> [state: {"none", "waiting", "active", "finished"},
                                              made: 0..(MAX_ATTEMPTS - 1)]]]
      BY <2>1 DEF PipelineInit
    <2>3. actor \in [Actor -> Task]
      BY IdleFacts DEF PipelineInit
    <2>4. job \in [Generation -> [Step -> TERMINAL_JOB_STATUSES \cup Open \cup {"NONE"}]]
      BY DEF PipelineInit
    <2>5. tx \in [Worker -> Transaction] /\ current \in SUBSET Generation
      BY DEF PipelineInit, Transaction, NoTransaction
    <2>6. PipelineTypeOK
      BY <2>1, <2>2, <2>3, <2>4, <2>5 DEF PipelineTypeOK, PipelineInit
    <2> QED
      BY <1>0, <2>6, IdleFacts DEF Typed
  <1>2. StartInv
    BY <1>0, IdleFacts, Roles DEF StartInv, OneStarter, At
  <1>3. HeldInv
    BY <1>0, IdleFacts, Roles DEF HeldInv, Resting
  <1>4. CountInv
    <2> SUFFICES ASSUME NEW g \in Generation
                 PROVE  announced[g] + Cardinality(Emitting(g)) + Pending(g) <= 1 + retries
      BY DEF CountInv
    <2>1. Emitting(g) = {}
      BY <1>0, IdleFacts DEF Emitting, At
    <2>2. Cardinality(Emitting(g)) = 0
      BY <2>1, FS_EmptySet
    <2> QED
      BY <1>0, <2>2, PendingType
  <1>5. OrderInv
    <2>1. \A a \in Actor : InOrder(a)
      BY <1>0, IdleFacts DEF InOrder, StepPlaces
    <2> QED
      BY <1>0, <2>1 DEF OrderInv, Finished, TERMINAL_JOB_STATUSES, Final
  <1> QED
    BY <1>1, <1>2, <1>3, <1>4, <1>5 DEF PInv

LEMMA StepHolds ==
  ASSUME PInv, [PipelineNext]_pipelineVars
  PROVE  PInv'
  <1>1. ASSUME NEW w \in Worker, Working(w) PROVE PInv'
    <2>1. CASE TakeJob(w)
      <3>1. PICK g \in Generation, s \in Step : Takes(w, g, s)
        BY <2>1 DEF TakeJob, Takes
      <3> QED
        BY <3>1, TakeKeeps
    <2> QED
      BY <1>1, <2>1, ReadKeeps, EndKeeps, AgainKeeps, AdvanceKeeps, FinishKeeps, ScoreKeeps
         DEF Working
  <1>2. ASSUME NEW c \in Caller, Starting(c) PROVE PInv'
    BY <1>2, SkipKeeps, GuardKeeps, CreateKeeps, ResetKeeps DEF Starting
  <1>3. ASSUME NEW c \in Caller, Asked(c) PROVE PInv'
    BY <1>3, TellKeeps, ReprocessKeeps, RetryKeeps DEF Asked
  <1>4. ASSUME NEW a \in Actor, Completing(a) PROVE PInv'
    BY <1>4, DispatchKeeps, OutcomeKeeps, SettleKeeps, EmitKeeps DEF Completing
  <1> QED
    BY <1>1, <1>2, <1>3, <1>4, SweepKeeps, CrashKeeps, StutterKeeps DEF PipelineNext

\* The rows, the queue and the tasks fit together: the owner of a run's first
\* dispatch is one, a job is held by one worker, the ends announced, owed and
\* open are as many as the retries allow, and steps end in order.
THEOREM PipelineCorrect == PipelineSpec => []PInv
  <1>1. PipelineInit => PInv
    BY InitHolds
  <1>2. PInv /\ [PipelineNext]_pipelineVars => PInv'
    BY StepHolds
  <1> QED
    BY <1>1, <1>2, PTL DEF PipelineSpec

\* Every row, queue entry and task has its type; no step is ever given more than
\* its attempts, whatever is retried, swept or handed out again.
THEOREM PipelineTypes == PipelineSpec => []PipelineTypeOK
  <1>1. PInv => PipelineTypeOK
    BY DEF PInv, Typed
  <1> QED
    BY <1>1, PipelineCorrect, PTL

\* Duplicate events, sweeps and reprocessing never start one run twice.
THEOREM RunsHaveOneStarter == PipelineSpec => []OneStarter
  <1>1. PInv => OneStarter
    BY DEF PInv, StartInv
  <1> QED
    BY <1>1, PipelineCorrect, PTL

\* However many retries, sweeps, deliveries and completions of a run race, it is
\* announced once, and once more per retry at most.
THEOREM RunsAreAnnouncedOnce == PipelineSpec => []AnnouncedOncePerRun
  <1>1. PInv => AnnouncedOncePerRun
    <2> SUFFICES ASSUME PInv, NEW g \in Generation PROVE announced[g] <= 1 + retries
      BY DEF AnnouncedOncePerRun
    <2>1. announced[g] \in Nat /\ retries \in Nat
      BY TypedParts DEF PInv, Rows
    <2>2. Cardinality(Emitting(g)) \in Nat /\ Pending(g) \in {0, 1}
      BY EmittingFinite, PendingType
    <2>3. announced[g] + Cardinality(Emitting(g)) + Pending(g) <= 1 + retries
      BY DEF PInv, CountInv
    <2> QED
      BY <2>1, <2>2, <2>3
  <1> QED
    BY <1>1, PipelineCorrect, PTL

\* Unless a retry hit a running pipeline, an analysis declared over has no step
\* left, and its report was built from finished results.
THEOREM DoneIsDone == PipelineSpec => []DoneMeansDone
  <1>1. PInv => DoneMeansDone
    <2> SUFFICES ASSUME PInv, ~hasty
                 PROVE  informed /\ (status \in Final => Unfinished(generation, 0) = {})
      BY DEF DoneMeansDone
    <2>1. informed /\ (status \in Final => \A s \in Step : Finished(generation, s))
      BY DEF PInv, OrderInv
    <2> QED
      BY <2>1 DEF Unfinished, Finished
  <1> QED
    BY <1>1, PipelineCorrect, PTL

\* A transaction that found its run the newest is in progress; unless another run
\* began meanwhile, it is, and the rows that will stay current after its commit are
\* those of the same run.
ScoreInv ==
  /\ \A w \in Worker : tx[w].latest => actor[w].at \in {"checked", "written"}
  /\ ~overtaken =>
       /\ \A g \in current : g <= generation
       /\ \A g \in current : \A h \in current : g = h
       /\ \A w \in Worker : tx[w].latest => actor[w].gen = generation
       /\ \A w \in Worker : tx[w].latest /\ At(w, "written")
            => current \subseteq tx[w].clears \cup {generation}

\* The step of an actor that is not inside a transaction.
LEMMA ScoreFrame ==
  ASSUME PInv, ScoreInv, NEW a \in Actor, Moves(a),
         a \in Worker => ~tx[a].latest,
         UNCHANGED <<generation, current, tx, overtaken>>
  PROVE  ScoreInv'
  <1>1. \A w \in Worker : tx'[w].latest => actor'[w] = actor[w]
    BY Roles DEF Moves
  <1> QED
    BY <1>1 DEF ScoreInv, At

\* A worker outside its transaction has none.
LEMMA NoneOpen ==
  ASSUME ScoreInv, NEW a \in Actor, actor[a].at \notin {"checked", "written"}
  PROVE  a \in Worker => ~tx[a].latest
  BY DEF ScoreInv

LEMMA ScoreStep ==
  ASSUME PInv, ScoreInv, PipelineNext
  PROVE  ScoreInv' /\ (~overtaken' => \A g \in current : \A h \in current' : g <= h)
  <1>0. Typed /\ Rows /\ generation \in Nat /\ \A g \in current : g \in Nat /\ g > 0
    BY TypedParts, Numbers DEF PInv, Rows
  <1>00. ~overtaken => \A g \in current : \A h \in current : g <= h
    BY <1>0 DEF ScoreInv
  <1>1. ASSUME NEW w \in Worker, TakeJob(w) \/ ReadSession(w) \/ Advance(w) \/ FinishJob(w)
        PROVE  ScoreInv' /\ current' = current /\ overtaken' = overtaken
    <2>1. w \in Actor /\ actor[w].at \notin {"checked", "written"}
      BY <1>1, Roles DEF TakeJob, ReadSession, Advance, FinishJob, At, Resting
    <2>2. UNCHANGED <<generation, current, tx, overtaken>>
      BY <1>1 DEF TakeJob, ReadSession, Advance, FinishJob, KeepResults, KeepHistory
    <2>3. Moves(w)
      <3>1. CASE TakeJob(w)
        <4>1. PICK g \in Generation, s \in Step : Takes(w, g, s)
          BY <3>1 DEF TakeJob, Takes
        <4> QED
          BY <1>0, <4>1, TakeTask
      <3> QED
        BY <1>0, <1>1, <3>1, ReadTask, AdvanceTask, FinishTask
    <2> QED
      BY <2>1, <2>2, <2>3, NoneOpen, ScoreFrame
  <1>2. ASSUME NEW c \in Caller, \/ SkipAnalysis(c) \/ CreateJobs(c) \/ ResetSteps(c) \/ SessionTerminal(c)
                                 \/ Sweep(c) \/ (\E s \in Step : RetryStep(c, s))
        PROVE  ScoreInv' /\ current' = current /\ overtaken' = overtaken
    <2>1. c \in Actor /\ c \notin Worker
      BY Roles
    <2>2. UNCHANGED <<generation, current, tx, overtaken>>
      BY <1>2 DEF SkipAnalysis, CreateJobs, ResetSteps, SessionTerminal, Sweep, RetryStep,
                  KeepResults, KeepHistory
    <2>3. Moves(c)
      BY <1>0, <1>2, LeaveTask, CreateTask, ResetTask, TellTask, SweepTask, RetryTask
    <2> QED
      BY <2>1, <2>2, <2>3, ScoreFrame
  <1>3. ASSUME NEW a \in Actor, Completing(a)
        PROVE  ScoreInv' /\ current' = current /\ overtaken' = overtaken
    <2>1. actor[a].at \notin {"checked", "written"}
      BY <1>3 DEF Completing, Dispatch, ReadOutcome, Settle, EmitOutcome, At
    <2>2. UNCHANGED <<generation, current, tx, overtaken>>
      BY <1>3 DEF Completing, Dispatch, ReadOutcome, Settle, EmitOutcome, KeepResults, KeepHistory
    <2>3. Moves(a)
      BY <1>0, <1>3, DispatchTask, OutcomeTask, SettleTask, EmitTask DEF Completing
    <2> QED
      BY <2>1, <2>2, <2>3, NoneOpen, ScoreFrame
  <1>4. ASSUME NEW c \in Caller, GuardGeneration(c)
        PROVE  ScoreInv' /\ current' = current /\ overtaken' = overtaken
    <2>1. c \in Actor /\ c \notin Worker /\ UNCHANGED <<current, tx, overtaken>>
      BY <1>4, Roles DEF GuardGeneration, KeepResults, KeepHistory
    <2>2. CASE generation # 0
      <3>1. Moves(c) /\ generation' = generation
        BY <1>0, <1>4, <2>2, LeaveTask DEF GuardGeneration, NotStartedYet
      <3> QED
        BY <2>1, <3>1, ScoreFrame
    <2>3. CASE generation = 0
      <3>1. Moves(c) /\ generation' = 1
        BY <1>0, <1>4, <2>3, GuardTask DEF GuardGeneration, NotStartedYet
      <3>2. \A w \in Worker : actor'[w] = actor[w]
        BY <2>1, <3>1, Roles DEF Moves
      <3>3. \A w \in Worker : tx[w].latest => actor[w].gen > 0
        <4> SUFFICES ASSUME NEW w \in Worker, tx[w].latest PROVE actor[w].gen > 0
          OBVIOUS
        <4>1. ~Resting(w)
          BY DEF ScoreInv, Resting
        <4> QED
          BY <1>0, <4>1, WorkerTask, Numbers
      <3>4. ~overtaken => current = {} /\ \A w \in Worker : ~tx[w].latest
        BY <1>0, <2>3, <3>3 DEF ScoreInv
      <3> QED
        BY <2>1, <3>2, <3>4 DEF ScoreInv
    <2> QED
      BY <2>2, <2>3
  <1>5. ASSUME NEW c \in Caller, Reprocess(c)
        PROVE  ScoreInv' /\ current' = current /\ (~overtaken' => ~overtaken)
    <2>1. Moves(c) /\ c \in Actor /\ c \notin Worker
      BY <1>0, <1>5, ReprocessTask, Roles
    <2>2. /\ UNCHANGED <<current, tx>> /\ generation' = generation + 1
          /\ overtaken' = (overtaken \/ \E w \in Worker : tx[w].latest)
      BY <1>5 DEF Reprocess, KeepResults
    <2>3. \A w \in Worker : actor'[w] = actor[w]
      BY <2>1, Roles DEF Moves
    <2>4. ~overtaken' => ~overtaken /\ (\A w \in Worker : ~tx'[w].latest)
                         /\ \A g \in current : g <= generation'
      <3>1. ~overtaken' => ~overtaken /\ \A w \in Worker : ~tx'[w].latest
        BY <2>2
      <3>2. ~overtaken => \A g \in current : g <= generation + 1
        BY <1>0 DEF ScoreInv
      <3> QED
        BY <2>2, <3>1, <3>2
    <2> QED
      BY <2>2, <2>3, <2>4 DEF ScoreInv
  <1>6. ASSUME NEW a \in Actor, \/ Crash(a)
                                \/ a \in Worker /\ (StepEnds(a) \/ StepRetries(a))
        PROVE  ScoreInv' /\ current' = current /\ overtaken' = overtaken
    <2>1. Moves(a)
      BY <1>0, <1>6, CrashTask, EndTask, AgainTask
    <2>2. UNCHANGED <<generation, current, overtaken>>
      BY <1>6 DEF Crash, StepEnds, StepRetries, KeepHistory
    <2>3. CASE a \notin Worker
      BY <1>6, <2>1, <2>2, <2>3, ScoreFrame DEF Crash
    <2>4. CASE a \in Worker
      <3>1. tx' = [tx EXCEPT ![a] = NoTransaction] /\ tx \in [Worker -> Transaction]
        BY <1>0, <1>6, <2>4 DEF Crash, StepEnds, StepRetries, Rows
      <3>2. ~tx'[a].latest /\ \A w \in Worker : w # a => tx'[w] = tx[w] /\ actor'[w] = actor[w]
        BY <2>1, <2>4, <3>1, Roles DEF NoTransaction, Moves
      <3> QED
        BY <2>2, <3>2 DEF ScoreInv, At
    <2> QED
      BY <2>3, <2>4
  <1>7. ASSUME NEW w \in Worker, ScoreChecks(w) \/ ScoreWrites(w)
        PROVE  ScoreInv' /\ current' = current /\ overtaken' = overtaken
    <2>1. /\ Moves(w) /\ actor'[w].gen = actor[w].gen /\ generation' = generation
          /\ overtaken' = overtaken /\ w \in Actor
      BY <1>0, <1>7, ScoreTask, Roles
    <2>2. current' = current /\ tx \in [Worker -> Transaction] /\ tx[w] \in Transaction
      BY <1>0, <1>7 DEF ScoreChecks, ScoreWrites, Rows
    <2>3. \A v \in Worker : v # w => tx'[v] = tx[v] /\ actor'[v] = actor[v]
      BY <1>7, <2>1, <2>2, Roles DEF ScoreChecks, ScoreWrites, Moves
    <2>4. CASE ScoreChecks(w)
      <3>1. actor'[w].at = "checked" /\ tx'[w].latest = (generation = actor[w].gen)
        BY <1>0, <2>1, <2>2, <2>4, TypedParts DEF ScoreChecks, IsLatest, Goes, Task
      <3> QED
        BY <2>1, <2>2, <2>3, <3>1 DEF ScoreInv, At
    <2>5. CASE ScoreWrites(w)
      <3>1. /\ actor'[w].at = "written" /\ tx'[w].latest = tx[w].latest
            /\ tx[w].latest => tx'[w].clears = current \ {actor[w].gen}
        BY <1>0, <2>1, <2>2, <2>5, TypedParts DEF ScoreWrites, Goes, Task, Transaction
      <3>2. ~overtaken /\ tx[w].latest => current \subseteq tx'[w].clears \cup {generation}
        BY <3>1 DEF ScoreInv
      <3> QED
        BY <2>1, <2>2, <2>3, <3>1, <3>2 DEF ScoreInv, At
    <2> QED
      BY <1>7, <2>4, <2>5
  <1>8. ASSUME NEW w \in Worker, ScoreCommits(w)
        PROVE  /\ ScoreInv' /\ overtaken' = overtaken
               /\ ~overtaken => \A g \in current : \A h \in current' : g <= h
    <2>1. /\ Moves(w) /\ generation' = generation /\ overtaken' = overtaken /\ w \in Actor
      BY <1>0, <1>8, ScoreTask, Roles
    <2>2. /\ current' = Committed(w) /\ tx' = [tx EXCEPT ![w] = NoTransaction]
          /\ tx \in [Worker -> Transaction] /\ At(w, "written")
      BY <1>0, <1>8 DEF ScoreCommits, Rows
    <2>3. /\ ~tx'[w].latest
          /\ \A v \in Worker : v # w => tx'[v] = tx[v] /\ actor'[v] = actor[v]
      BY <2>1, <2>2, Roles DEF NoTransaction, Moves
    <2>4. ASSUME ~overtaken
          PROVE  /\ current' \subseteq current \cup {generation}
                 /\ \A g \in current' : \A h \in current' : g = h
                 /\ \A g \in current : \A h \in current' : g <= h
      <3>1. CASE tx[w].latest
        <4>1. actor[w].gen = generation /\ current \subseteq tx[w].clears \cup {generation}
          BY <2>2, <2>4, <3>1 DEF ScoreInv
        <4>2. current' = {generation}
          BY <2>2, <3>1, <4>1 DEF Committed
        <4> QED
          BY <1>0, <2>4, <4>2 DEF ScoreInv
      <3>2. CASE ~tx[w].latest
        <4>1. current' \subseteq current
          BY <2>2, <3>2 DEF Committed
        <4> QED
          BY <1>00, <2>4, <4>1 DEF ScoreInv
      <3> QED
        BY <3>1, <3>2
    <2>5. ~overtaken => \A g \in current' : g <= generation
      BY <1>0, <2>4 DEF ScoreInv
    <2> QED
      BY <2>1, <2>3, <2>4, <2>5 DEF ScoreInv, At
  <1>9. ASSUME NEW w \in Worker, Working(w)
        PROVE  ScoreInv' /\ (~overtaken' => \A g \in current : \A h \in current' : g <= h)
    BY <1>00, <1>1, <1>6, <1>7, <1>8, <1>9, Roles DEF Working
  <1>10. ASSUME NEW c \in Caller, Starting(c) \/ Asked(c) \/ Sweep(c)
         PROVE  ScoreInv' /\ (~overtaken' => \A g \in current : \A h \in current' : g <= h)
    BY <1>00, <1>2, <1>4, <1>5, <1>10 DEF Starting, Asked
  <1> QED
    BY <1>00, <1>3, <1>6, <1>9, <1>10 DEF PipelineNext

\* However late an older run's model answers, the evaluation shown is never
\* replaced by that of an older run, nor shown beside it, unless the new run began
\* while the older one's scoring transaction was open.
THEOREM EvaluationGrows == PipelineSpec => EvaluationNeverRegresses
  <1>1. PipelineInit => ScoreInv
    BY DEF PipelineInit, ScoreInv, NoTransaction
  <1>2. PInv /\ ScoreInv /\ [PipelineNext]_pipelineVars => ScoreInv'
    <2>1. ASSUME ScoreInv, UNCHANGED pipelineVars PROVE ScoreInv'
      BY <2>1 DEF pipelineVars, ScoreInv, At
    <2> QED
      BY <2>1, ScoreStep
  <1>3. PInv /\ ScoreInv /\ [PipelineNext]_pipelineVars =>
          [~overtaken' => \A g \in current : \A h \in current' : g <= h]_pipelineVars
    BY ScoreStep
  <1> QED
    BY <1>1, <1>2, <1>3, PipelineCorrect, PTL DEF PipelineSpec, EvaluationNeverRegresses
=============================================================================
