-------------------------- MODULE AnalysisPipeline --------------------------
(***************************************************************************)
(* The post-session analysis of one session: AnalysisService and the queue *)
(* it runs on.  Callers start the pipeline, reprocess, retry a step and    *)
(* sweep; workers take one BullMQ job per (generation, step), run the step *)
(* and schedule the next one.  A ProcessingJob row and a BullMQ job stand  *)
(* for the same step, and nothing keeps them in agreement but the code.    *)
(* Every database or Redis call that another actor can slip in front of is *)
(* a step of its own; a rejected call and a process death both abort the   *)
(* task (Crash).                                                           *)
(***************************************************************************)
EXTENDS Naturals, Sequences, FiniteSets

CONSTANTS
  Worker,           \* concurrent BullMQ handlers
  Caller,           \* concurrent requests, event listeners and sweeps
  PIPELINE_STEPS,   \* the steps, in order
  MAX_ATTEMPTS,     \* attempts BullMQ gives a step
  MaxGeneration,    \* bound on reprocessing
  MaxRetries,       \* bound on retryStep calls
  MaxCrashes        \* bound on aborted tasks

ASSUME PipelineAssumption ==
  /\ Worker \cap Caller = {} /\ IsFiniteSet(Worker) /\ IsFiniteSet(Caller)
  /\ PIPELINE_STEPS \in Seq(STRING) /\ Len(PIPELINE_STEPS) > 0
  /\ MAX_ATTEMPTS \in Nat \ {0} /\ MaxGeneration \in Nat \ {0}
  /\ MaxRetries \in Nat /\ MaxCrashes \in Nat

Actor == Worker \cup Caller

Step == 1..Len(PIPELINE_STEPS)

Generation == 1..MaxGeneration

VARIABLES
  analyzable,  \* skipReason() finds no reason to skip the session
  generation,  \* Session.analysisGeneration
  status,      \* Session.analysisStatus
  job,         \* ProcessingJob.status by generation and step, or NONE
  queued,      \* the BullMQ job of that id: its state and attempts made
  actor,       \* what each actor is doing
  current,     \* the generations whose Evaluation row has isCurrent
  tx,          \* what each worker's scoring transaction has read so far
  informed,    \* the report was built with every earlier step finished
  announced,   \* session.analyzed and session.failed events by generation
  retries, crashes,
  hasty,       \* history: a retry hit a running pipeline
  overtaken    \* history: a new run began inside a scoring transaction

pipelineVars == <<analyzable, generation, status, job, queued, actor, current, tx,
                  informed, announced, retries, crashes, hasty, overtaken>>

-----------------------------------------------------------------------------
(* Data *)

TERMINAL_JOB_STATUSES == {"COMPLETED", "FAILED", "SKIPPED"}

Open == {"QUEUED", "PROCESSING"}

Final == {"COMPLETED", "PARTIAL", "FAILED"}

\* "own" is the step of the BullMQ job being handled, "next" the one to dispatch.
Task == [at: {"idle", "skip", "guard", "create", "dispatch", "reset", "read", "running",
              "checked", "written", "scored", "advance", "complete", "settle", "emit", "finish"},
         gen: 0..MaxGeneration, own: {0} \cup Step, next: {0} \cup Step,
         replace: BOOLEAN, final: Final \cup {"none"}]

\* latest: the generation was the session's when it was looked at; clears: the
\* rows that updateMany found current.
Transaction == [latest: BOOLEAN, clears: SUBSET Generation]

NoTransaction == [latest |-> FALSE, clears |-> {}]

Idle == [at |-> "idle", gen |-> 0, own |-> 0, next |-> 0, replace |-> FALSE, final |-> "none"]

\* Every variable has its type; BullMQ never counts more attempts than a step
\* is given.
PipelineTypeOK ==
  /\ analyzable \in BOOLEAN
  /\ generation \in 0..MaxGeneration
  /\ status \in Open \cup Final \cup {"NOT_STARTED", "SKIPPED"}
  /\ job \in [Generation -> [Step -> TERMINAL_JOB_STATUSES \cup Open \cup {"NONE"}]]
  /\ queued \in [Generation -> [Step -> [state: {"none", "waiting", "active", "finished"},
                                         made: 0..(MAX_ATTEMPTS - 1)]]]
  /\ actor \in [Actor -> Task]
  /\ current \in SUBSET Generation
  /\ tx \in [Worker -> Transaction]
  /\ informed \in BOOLEAN
  /\ announced \in [Generation -> Nat]
  /\ retries \in Nat /\ crashes \in Nat /\ hasty \in BOOLEAN /\ overtaken \in BOOLEAN

PipelineInit ==
  /\ analyzable \in BOOLEAN
  /\ generation = 0 /\ status = "NOT_STARTED"
  /\ job = [g \in Generation |-> [s \in Step |-> "NONE"]]
  /\ queued = [g \in Generation |-> [s \in Step |-> [state |-> "none", made |-> 0]]]
  /\ actor = [a \in Actor |-> Idle]
  /\ current = {}
  /\ tx = [w \in Worker |-> NoTransaction]
  /\ informed = TRUE
  /\ announced = [g \in Generation |-> 0]
  /\ retries = 0 /\ crashes = 0 /\ hasty = FALSE /\ overtaken = FALSE

-----------------------------------------------------------------------------
(* Helpers *)

Resting(a) == actor[a].at = "idle"

At(a, place) == actor[a].at = place

\* a goes on with task t.
Goes(a, t) == actor' = [actor EXCEPT ![a] = t]

\* The service call returns: a worker's job is then marked finished by BullMQ.
Returned(a) ==
  IF a \in Worker THEN [actor[a] EXCEPT !.at = "finish", !.next = 0, !.final = "none"] ELSE Idle

SkipsRunning(g, after) ==
  {s \in Step : s > after /\ job[g][s] \notin TERMINAL_JOB_STATUSES \cup {"PROCESSING"}}

\* The steps after "after" that a generation has not finished.
Unfinished(g, after) ==
  {s \in Step : s > after /\ job[g][s] \notin TERMINAL_JOB_STATUSES}

First(steps) == CHOOSE s \in steps : \A t \in steps : s <= t

\* The status completePipeline computes.
Outcome(g) ==
  LET has(name, st) == \E s \in Step : PIPELINE_STEPS[s] = name /\ job[g][s] = st
      coreProduced == has("score", "COMPLETED") \/ has("extract", "COMPLETED")
      coreFailed == has("score", "FAILED") \/ has("extract", "FAILED")
  IN  IF \A s \in Step : job[g][s] # "FAILED" THEN "COMPLETED"
      ELSE IF coreFailed /\ ~coreProduced THEN "FAILED"
      ELSE "PARTIAL"

\* Nobody works on the pipeline and nothing is scheduled, but for what a does.
Calm(a) ==
  /\ \A b \in Actor \ {a} : Resting(b)
  /\ \A g \in Generation : \A s \in Step : queued[g][s].state \notin {"waiting", "active"}

\* The BullMQ job of a step gets this state, with so many attempts made.
Queue(g, s, state, made) ==
  queued' = [queued EXCEPT ![g][s] = [state |-> state, made |-> made]]

KeepResults == UNCHANGED <<current, tx, informed, announced>>
KeepHistory == UNCHANGED <<analyzable, retries, crashes, hasty, overtaken>>

-----------------------------------------------------------------------------
(* startPipeline *)

\* session.terminal reaches the listener: later ones find the generation raised.
SessionTerminal(c) ==
  /\ Resting(c) /\ generation = 0
  /\ Goes(c, [Idle EXCEPT !.at = IF analyzable THEN "guard" ELSE "skip"])
  /\ UNCHANGED <<generation, status, job, queued>> /\ KeepResults /\ KeepHistory

SkipAnalysis(c) ==
  /\ At(c, "skip")
  /\ status' = IF generation = 0 THEN "SKIPPED" ELSE status
  /\ Goes(c, Idle)
  /\ UNCHANGED <<generation, job, queued>> /\ KeepResults /\ KeepHistory

StartsAnyway == TRUE

\* WHERE analysisGeneration = 0
NotStartedYet == generation = 0

GuardGeneration(c) ==
  /\ At(c, "guard")
  /\ IF NotStartedYet
     THEN /\ generation' = 1 /\ status' = "QUEUED"
          /\ Goes(c, [Idle EXCEPT !.at = "create", !.gen = 1])
     ELSE Goes(c, Idle) /\ UNCHANGED <<generation, status>>
  /\ UNCHANGED <<job, queued>> /\ KeepResults /\ KeepHistory

\* A reviewer asks for a new run, whatever the current one is doing.
Reprocess(c) ==
  /\ Resting(c) /\ analyzable /\ generation < MaxGeneration
  /\ generation' = generation + 1
  /\ status' = "QUEUED"
  /\ overtaken' = (overtaken \/ \E w \in Worker : tx[w].latest)
  /\ Goes(c, [Idle EXCEPT !.at = "create", !.gen = generation + 1])
  /\ UNCHANGED <<analyzable, job, queued, retries, crashes, hasty>> /\ KeepResults

\* createMany with skipDuplicates: rows a worker made meanwhile stay.
CreateJobs(c) ==
  LET g == actor[c].gen IN
  /\ At(c, "create")
  /\ job' = [job EXCEPT ![g] = [s \in Step |-> IF @[s] = "NONE" THEN "QUEUED" ELSE @[s]]]
  /\ Goes(c, [actor[c] EXCEPT !.at = "dispatch", !.next = 1])
  /\ UNCHANGED <<generation, status, queued>> /\ KeepResults /\ KeepHistory

-----------------------------------------------------------------------------
(* retryStep *)

RetryStep(c, s) ==
  /\ Resting(c) /\ retries < MaxRetries
  /\ generation > 0 /\ job[generation][s] = "FAILED"
  /\ Goes(c, [Idle EXCEPT !.at = "reset", !.gen = generation, !.next = s])
  /\ UNCHANGED <<generation, status, job, queued>> /\ KeepResults /\ KeepHistory

\* One transaction; neither the job's nor the session's state is looked at again.
ResetSteps(c) ==
  LET g == actor[c].gen IN
  /\ At(c, "reset") /\ retries < MaxRetries
  /\ job' = [job EXCEPT ![g] = [s \in Step |-> IF s >= actor[c].next THEN "QUEUED" ELSE @[s]]]
  /\ status' = "PROCESSING"
  /\ retries' = retries + 1
  /\ hasty' = (hasty \/ ~Calm(c) \/ generation # g)
  /\ Goes(c, [actor[c] EXCEPT !.at = "dispatch", !.replace = TRUE])
  /\ UNCHANGED <<analyzable, generation, queued, crashes, overtaken>> /\ KeepResults

-----------------------------------------------------------------------------
(* enqueueStep *)

KeepsFinished(g, s, replace) == queued[g][s].state = "none"

\* A BullMQ job of that id that is waiting or active is left alone, and so is a
\* finished one whose step the database knows to be finished, unless it is to be
\* replaced.
Enqueues(g, s, replace) ==
  \/ queued[g][s].state = "none"
  \/ queued[g][s].state = "finished"
     /\ (replace \/ job[g][s] \notin TERMINAL_JOB_STATUSES)

Dispatch(a) ==
  LET g == actor[a].gen s == actor[a].next IN
  /\ At(a, "dispatch")
  /\ IF Enqueues(g, s, actor[a].replace) THEN Queue(g, s, "waiting", 0) ELSE UNCHANGED queued
  /\ Goes(a, Returned(a))
  /\ UNCHANGED <<generation, status, job>> /\ KeepResults /\ KeepHistory

-----------------------------------------------------------------------------
(* runStep *)

\* BullMQ hands a waiting job to a worker.
TakeJob(w) ==
  /\ Resting(w)
  /\ \E g \in Generation, s \in Step :
       /\ queued[g][s].state = "waiting"
       /\ Queue(g, s, "active", queued[g][s].made)
       /\ Goes(w, [Idle EXCEPT !.at = "read", !.gen = g, !.own = s])
  /\ UNCHANGED <<generation, status, job>> /\ KeepResults /\ KeepHistory

\* A superseded generation's job is skipped; a finished step only moves on;
\* otherwise the step is claimed.
ReadSession(w) ==
  LET g == actor[w].gen s == actor[w].own IN
  /\ At(w, "read")
  /\ \/ /\ generation # g
        /\ job' = [job EXCEPT ![g][s] = IF @ \in Open THEN "SKIPPED" ELSE @]
        /\ Goes(w, Returned(w)) /\ UNCHANGED status
     \/ /\ generation = g /\ job[g][s] \in TERMINAL_JOB_STATUSES
        /\ Goes(w, [actor[w] EXCEPT !.at = "advance"]) /\ UNCHANGED <<job, status>>
     \/ /\ generation = g /\ job[g][s] \notin TERMINAL_JOB_STATUSES
        /\ job' = [job EXCEPT ![g][s] = "PROCESSING"]
        /\ status' = IF status = "QUEUED" THEN "PROCESSING" ELSE status
        /\ Goes(w, [actor[w] EXCEPT !.at = "running"])
  /\ UNCHANGED <<generation, queued>> /\ KeepResults /\ KeepHistory

Scores(w) == PIPELINE_STEPS[actor[w].own] = "score"

LastWriterWins(g) == TRUE

\* analysisGeneration, as the transaction's first statement reads it.
IsLatest(g) == generation = g

\* The model has answered and the transaction begins.
ScoreChecks(w) ==
  /\ At(w, "running") /\ Scores(w)
  /\ tx' = [tx EXCEPT ![w] = [latest |-> IsLatest(actor[w].gen), clears |-> {}]]
  /\ Goes(w, [actor[w] EXCEPT !.at = "checked"])
  /\ UNCHANGED <<generation, status, job, queued, current, informed, announced>> /\ KeepHistory

\* The upsert, the criteria and updateMany, which sees what is committed: nothing
\* of this is seen by others yet.
ScoreWrites(w) ==
  /\ At(w, "checked")
  /\ tx' = [tx EXCEPT ![w].clears = IF tx[w].latest THEN current \ {actor[w].gen} ELSE {}]
  /\ Goes(w, [actor[w] EXCEPT !.at = "written"])
  /\ UNCHANGED <<generation, status, job, queued, current, informed, announced>> /\ KeepHistory

\* The rows after w's transaction: its own is current or not, as it had read.
Committed(w) ==
  LET g == actor[w].gen IN
  (current \ (tx[w].clears \cup {g})) \cup (IF tx[w].latest THEN {g} ELSE {})

ScoreCommits(w) ==
  /\ At(w, "written")
  /\ current' = Committed(w)
  /\ tx' = [tx EXCEPT ![w] = NoTransaction]
  /\ Goes(w, [actor[w] EXCEPT !.at = "scored"])
  /\ UNCHANGED <<generation, status, job, queued, informed, announced>> /\ KeepHistory

\* What steps.run may come to: a score is completed by its commit, and whatever
\* fails before that is rolled back.
Results(w) ==
  IF At(w, "scored") THEN {"COMPLETED"}
  ELSE IF At(w, "running") THEN {"SKIPPED", "FAILED"} \cup (IF Scores(w) THEN {} ELSE {"COMPLETED"})
  ELSE {"FAILED"}

StepPlaces == {"running", "checked", "written", "scored"}

InStep(w) == actor[w].at \in StepPlaces

\* The update of the step's job; the row is written whatever became of it.
StepEnds(w) ==
  LET g == actor[w].gen s == actor[w].own IN
  /\ InStep(w)
  /\ \E result \in Results(w) :
       /\ job' = [job EXCEPT ![g][s] = result]
       /\ informed' = IF result = "COMPLETED" /\ PIPELINE_STEPS[s] = "report"
                      THEN Unfinished(g, 0) \cap 1..(s - 1) = {}
                      ELSE informed
  /\ tx' = [tx EXCEPT ![w] = NoTransaction]
  /\ Goes(w, [actor[w] EXCEPT !.at = "advance"])
  /\ UNCHANGED <<generation, status, queued, current, announced>> /\ KeepHistory

\* attempt >= maxAttempts
FinalAttempt(g, s) == queued[g][s].made + 1 >= MAX_ATTEMPTS

\* A retryable error before the last attempt: BullMQ will hand the job out again.
StepRetries(w) ==
  LET g == actor[w].gen s == actor[w].own IN
  /\ InStep(w) /\ ~At(w, "scored") /\ ~FinalAttempt(g, s)
  /\ job' = [job EXCEPT ![g][s] = "QUEUED"]
  /\ tx' = [tx EXCEPT ![w] = NoTransaction]
  /\ Queue(g, s, "waiting", queued[g][s].made + 1)
  /\ Goes(w, Idle)
  /\ UNCHANGED <<generation, status, current, informed, announced>> /\ KeepHistory

\* The next step that is not finished, or the end of the pipeline.
Advance(w) ==
  LET left == Unfinished(actor[w].gen, actor[w].own) IN
  /\ At(w, "advance")
  /\ Goes(w, IF left # {}
             THEN [actor[w] EXCEPT !.at = "dispatch", !.next = First(left)]
             ELSE [actor[w] EXCEPT !.at = "complete"])
  /\ UNCHANGED <<generation, status, job, queued>> /\ KeepResults /\ KeepHistory

\* The handler has returned.
FinishJob(w) ==
  /\ At(w, "finish")
  /\ Queue(actor[w].gen, actor[w].own, "finished", 0)
  /\ Goes(w, Idle)
  /\ UNCHANGED <<generation, status, job>> /\ KeepResults /\ KeepHistory

-----------------------------------------------------------------------------
(* completePipeline *)

ReadOutcome(a) ==
  /\ At(a, "complete")
  /\ Goes(a, [actor[a] EXCEPT !.at = "settle", !.final = Outcome(actor[a].gen)])
  /\ UNCHANGED <<generation, status, job, queued>> /\ KeepResults /\ KeepHistory

SettlesTwice(g) == generation = g

\* WHERE analysisGeneration = g AND analysisStatus IN (QUEUED, PROCESSING)
Settles(g) == generation = g /\ status \in Open

Settle(a) ==
  /\ At(a, "settle")
  /\ IF Settles(actor[a].gen)
     THEN /\ status' = actor[a].final
          /\ Goes(a, [actor[a] EXCEPT !.at = "emit"])
     ELSE Goes(a, Returned(a)) /\ UNCHANGED status
  /\ UNCHANGED <<generation, job, queued>> /\ KeepResults /\ KeepHistory

\* session.failed, or session.analyzed.
EmitOutcome(a) ==
  /\ At(a, "emit")
  /\ announced' = [announced EXCEPT ![actor[a].gen] = @ + 1]
  /\ Goes(a, Returned(a))
  /\ UNCHANGED <<generation, status, job, queued, current, tx, informed>> /\ KeepHistory

-----------------------------------------------------------------------------
(* sweep *)

\* The sweep also starts sessions whose session.terminal was missed.
Missed == generation = 0 /\ status = "NOT_STARTED" /\ analyzable

Sweep(c) ==
  LET left == Unfinished(generation, 0) IN
  /\ Resting(c)
  /\ \/ /\ generation > 0 /\ status \in Open
        /\ Goes(c, [Idle EXCEPT !.at = IF left # {} THEN "dispatch" ELSE "complete",
                                !.gen = generation,
                                !.next = IF left # {} THEN First(left) ELSE 0])
     \/ /\ Missed
        /\ Goes(c, [Idle EXCEPT !.at = "guard"])
  /\ UNCHANGED <<generation, status, job, queued>> /\ KeepResults /\ KeepHistory

-----------------------------------------------------------------------------
\* A process dies or a call is rejected: the task is lost, and a transaction rolled
\* back.  BullMQ hands the job of a worker out again when it notices, or gives it
\* up as failed.
Crash(a) ==
  /\ ~Resting(a) /\ crashes < MaxCrashes
  /\ crashes' = crashes + 1
  /\ Goes(a, Idle)
  /\ LET g == actor[a].gen s == actor[a].own IN
     IF a \in Worker
     THEN /\ \E state \in {"waiting", "finished"} : Queue(g, s, state, queued[g][s].made)
          /\ tx' = [tx EXCEPT ![a] = NoTransaction]
     ELSE UNCHANGED <<queued, tx>>
  /\ UNCHANGED <<analyzable, generation, status, job, current, informed, announced, retries,
                 hasty, overtaken>>

Working(w) ==
  \/ TakeJob(w) \/ ReadSession(w) \/ ScoreChecks(w) \/ ScoreWrites(w) \/ ScoreCommits(w)
  \/ StepEnds(w) \/ StepRetries(w) \/ Advance(w)
  \/ FinishJob(w)

Starting(c) == SkipAnalysis(c) \/ GuardGeneration(c) \/ CreateJobs(c) \/ ResetSteps(c)

Completing(a) == Dispatch(a) \/ ReadOutcome(a) \/ Settle(a) \/ EmitOutcome(a)

Asked(c) == SessionTerminal(c) \/ Reprocess(c) \/ \E s \in Step : RetryStep(c, s)

PipelineNext ==
  \/ \E w \in Worker : Working(w)
  \/ \E c \in Caller : Starting(c) \/ Asked(c) \/ Sweep(c)
  \/ \E a \in Actor : Completing(a) \/ Crash(a)

PipelineSpec == PipelineInit /\ [][PipelineNext]_pipelineVars

\* Workers take jobs, promises settle and the sweep is scheduled every ten
\* minutes; events may be lost and nobody has to ask for anything.
FairPipelineSpec ==
  /\ PipelineSpec
  /\ \A w \in Worker : WF_pipelineVars(Working(w) \/ Completing(w))
  /\ \A c \in Caller : WF_pipelineVars(Starting(c) \/ Completing(c)) /\ WF_pipelineVars(Sweep(c))

-----------------------------------------------------------------------------
(* Properties *)

\* Duplicate session.terminal events, the sweep for missed ones and a reviewer's
\* reprocess never start one run twice: a generation has one owner, who alone
\* makes its first dispatch (the conditional 0 -> 1 update).
OneStarter ==
  \A a, b \in Caller : At(a, "create") /\ At(b, "create") /\ actor[a].gen = actor[b].gen
                         => a = b

\* The end of a run is announced once: however often its last step is delivered,
\* swept or completed, only a retry can bring another announcement.
AnnouncedOncePerRun == \A g \in Generation : announced[g] <= 1 + retries

\* A session whose analysis is declared over has no unfinished step, and its
\* report is built from finished results, unless a retry was asked for while the
\* pipeline was running.
DoneMeansDone ==
  ~hasty => informed /\ (status \in Final => Unfinished(generation, 0) = {})

\* The evaluation shown for a session is never replaced by, or shown beside, that of
\* an older run, however late the older run's model answers; the exception is a run
\* that is started while the older one's scoring transaction has looked at the
\* session and not committed.
EvaluationNeverRegresses ==
  [][~overtaken' => \A g \in current : \A h \in current' : g <= h]_pipelineVars

\* Every session that can be analyzed is, though its event is lost, a process
\* dies between any two calls or BullMQ gives a job up.
EventuallyAnalyzed == analyzable ~> status \in Final
=============================================================================
