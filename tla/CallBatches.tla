----------------------------- MODULE CallBatches -----------------------------
(***************************************************************************)
(* A batch of outbound calls (channels/batches.service.ts and, for what    *)
(* placing a call and its status callback do to it,                        *)
(* channels/phone.service.ts).  Nothing but tick jobs moves a running      *)
(* batch: each looks at the rows, claims targets and dials them, and       *)
(* leaves a job for the next look.  The job of a tick is named after the   *)
(* five seconds it is due in, and the queue (external) ignores a name it   *)
(* has seen.  An owner starts and cancels; Twilio (external) may report    *)
(* the end of a call never, late or twice.                                 *)
(***************************************************************************)
EXTENDS Integers, FiniteSets, FiniteSetsExt

CONSTANTS
  Worker,      \* ticks that can run at the same time (the queue runs two per process)
  Target,      \* the rows of targets it can have, numbered in the order they are made in
  Phone,       \* OutboundCallTarget.phone of each row
  Upload,      \* the requests that upload targets, each made once
  Concurrency, \* OutboundCallBatch.concurrency
  MaxDue,      \* bound: more ticks waiting to run than this are looked at as this many
  MaxCrashes   \* bound on the deaths

ASSUME BatchAssumption ==
  /\ Target \subseteq Nat /\ IsFiniteSet(Target)
  /\ Concurrency \in Nat \ {0} /\ MaxDue \in Nat \ {0} /\ MaxCrashes \in Nat

VARIABLES
  status,  \* OutboundCallBatch.status
  target,  \* OutboundCallTarget.status
  placed,  \* calls Twilio has placed to a target
  tick,    \* what each worker does
  due,     \* tick jobs ready to run
  later,   \* a tick job is delayed (bound: the second one is not counted)
  start,   \* the request that starts the batch, or lost: its tick was not queued
  cancel,  \* the request that cancels it
  upload,  \* what each upload does, and the phones it found missing
  late,    \* history: rows were made under the eyes of a tick or a cancellation
  dropped, \* history: the queue gave up a tick, and none ran since
  crashes  \* deaths of ticks so far

vars == <<status, target, placed, tick, due, later, start, cancel, upload, late, dropped, crashes>>

jobs == <<due, later>>
requests == <<start, cancel, upload, late>>
fate == <<dropped, crashes>>

-----------------------------------------------------------------------------
(* Data *)

EDITABLE == {"DRAFT", "BLOCKED", "SCHEDULED"}

\* NONE: not made yet.  GONE: deleted.  OVER stands for COMPLETED, NO_ANSWER and FAILED, which
\* nothing tells apart.
TargetStatus == {"NONE", "GONE", "PENDING", "DIALING", "OVER", "SKIPPED"}

Are(s) == {t \in Target : target[t] = s}

Rows == {t \in Target : target[t] \notin {"NONE", "GONE"}}

Phones(S) == {Phone[t] : t \in S}

\* The counts of tick: calls in flight, and targets that are not done.
Inflight == Cardinality(Are("DIALING"))
Remaining == Are("PENDING") \cup Are("DIALING")

Slots == IF Inflight >= Concurrency THEN 0 ELSE Concurrency - Inflight

Idle == [step |-> "idle", slots |-> 0, on |-> 0]

NoUpload == [step |-> "none", fresh |-> {}]
Uploaded == [step |-> "done", fresh |-> {}]

Init ==
  /\ status = "DRAFT" /\ target = [t \in Target |-> "NONE"]
  /\ placed = [t \in Target |-> 0]
  /\ tick = [w \in Worker |-> Idle]
  /\ due = 0 /\ later = FALSE
  /\ start = "none" /\ cancel = "none" /\ upload = [u \in Upload |-> NoUpload]
  /\ late = FALSE /\ dropped = FALSE /\ crashes = 0

-----------------------------------------------------------------------------
(* The queue *)

OneMore == IF due < MaxDue THEN due + 1 ELSE due

\* The delay of a job is over.
DelayEnds ==
  /\ later /\ later' = FALSE /\ due' = OneMore
  /\ UNCHANGED <<status, target, placed, tick, requests, fate>>

-----------------------------------------------------------------------------
(* tick *)

Does(w, step) == tick' = [tick EXCEPT ![w].step = step]

\* Back to the loop, or out of it, done with one target.
Loop(w, step) == tick' = [tick EXCEPT ![w].step = step, ![w].on = 0]

\* blockReason, after the batch was read (and made RUNNING): providers, the
\* published scenario and the phone number come and go.
Checked(w) == Does(w, "block") \/ Does(w, "count")

\* The job is taken and the batch read.  Before its hour (the owner may have
\* put it off) a scheduled batch gets another job.
Take(w) ==
  /\ tick[w].step = "idle" /\ due > 0 /\ due' = due - 1 /\ dropped' = FALSE
  /\ CASE status = "RUNNING"   -> Checked(w) /\ UNCHANGED later
       [] status = "SCHEDULED" -> \/ Does(w, "activate") /\ UNCHANGED later
                                  \/ later' = TRUE /\ UNCHANGED tick
       [] OTHER                -> UNCHANGED <<tick, later>>
  /\ UNCHANGED <<status, target, placed, requests, crashes>>

\* SCHEDULED as it was read, RUNNING whatever it is now.
Activate(w) ==
  /\ tick[w].step = "activate"
  /\ status' = "RUNNING" /\ Checked(w)
  /\ UNCHANGED <<target, placed, jobs, requests, fate>>

\* The batch is blocked, whatever it is now; the tick returns.
Block(w) ==
  /\ tick[w].step = "block"
  /\ status' = "BLOCKED" /\ tick' = [tick EXCEPT ![w] = Idle]
  /\ UNCHANGED <<target, placed, jobs, requests, fate>>

\* The targets that may have been dialing for fifteen minutes: no dial takes
\* that long, but a call may.
Stuck ==
  {t \in Are("DIALING") : \A w \in Worker :
     tick[w].on = t => tick[w].step \notin {"dial", "failed", "refused"}}

\* Dials of which nobody heard for that long fail; what is left to dial.
Count(w) ==
  /\ tick[w].step = "count"
  /\ \E old \in SUBSET Stuck : target' = [t \in Target |-> IF t \in old THEN "OVER" ELSE target[t]]
  /\ tick' = [tick EXCEPT ![w] = [Idle EXCEPT !.step = "find", !.slots = Slots']]
  /\ UNCHANGED <<status, placed, jobs, requests, fate>>

\* The oldest target that waits, if there is one and a slot for it.
Find(w) ==
  /\ tick[w].step = "find"
  /\ IF tick[w].slots > 0 /\ Are("PENDING") # {}
     THEN tick' = [tick EXCEPT ![w].step = "claim", ![w].on = Min(Are("PENDING"))]
     ELSE tick' = [tick EXCEPT ![w] = [Idle EXCEPT !.step = "finish"]]
  /\ UNCHANGED <<status, target, placed, jobs, requests, fate>>

\* Mutant: the claim does not look at the status.
ClaimsAnyway(w) ==
  LET t == tick[w].on IN
  /\ tick[w].step = "claim"
  /\ target' = [target EXCEPT ![t] = "DIALING"]
  /\ tick' = [tick EXCEPT ![w].step = "dial", ![w].slots = @ - 1]
  /\ UNCHANGED <<status, placed, jobs, requests, fate>>

\* It is claimed if it still waits; otherwise the loop goes on.
Claim(w) ==
  LET t == tick[w].on IN
  /\ tick[w].step = "claim"
  /\ IF target[t] = "PENDING"
     THEN /\ target' = [target EXCEPT ![t] = "DIALING"]
          /\ tick' = [tick EXCEPT ![w].step = "dial", ![w].slots = @ - 1]
     ELSE Loop(w, "find") /\ UNCHANGED target
  /\ UNCHANGED <<status, placed, jobs, requests, fate>>

\* startOutboundCall: refused without a provider; otherwise Twilio may place
\* the call, refuse it, or place it while the answer or a later write fails.
Dial(w) ==
  LET t == tick[w].on IN
  /\ tick[w].step = "dial"
  /\ \/ (Does(w, "refused") \/ Does(w, "failed")) /\ UNCHANGED placed
     \/ /\ placed' = [placed EXCEPT ![t] = @ + 1]
        /\ (Loop(w, "find") \/ Does(w, "failed"))
  /\ UNCHANGED <<status, target, jobs, requests, fate>>

\* The catch of the loop: the target failed, whatever a callback made of it.
DialFailed(w) ==
  /\ tick[w].step \in {"failed", "refused"}
  /\ target' = [target EXCEPT ![tick[w].on] = "OVER"]
  /\ Loop(w, IF tick[w].step = "refused" THEN "block" ELSE "find")
  /\ UNCHANGED <<status, placed, jobs, requests, fate>>

\* Mutant: calls in flight are forgotten.
FinishesEarly(w) ==
  /\ tick[w].step = "finish"
  /\ IF Are("PENDING") = {}
     THEN Does(w, "complete") /\ UNCHANGED later
     ELSE later' = TRUE /\ tick' = [tick EXCEPT ![w] = Idle]
  /\ UNCHANGED <<status, target, placed, due, requests, fate>>

\* Mutant: no safety tick while all lines are busy.
RestsWhileBusy(w) ==
  /\ tick[w].step = "finish"
  /\ IF Remaining = {}
     THEN Does(w, "complete") /\ UNCHANGED later
     ELSE later' = (Are("PENDING") # {}) /\ tick' = [tick EXCEPT ![w] = Idle]
  /\ UNCHANGED <<status, target, placed, due, requests, fate>>

\* Nothing remains, or a job for another look.
Finish(w) ==
  /\ tick[w].step = "finish"
  /\ IF Remaining = {}
     THEN Does(w, "complete") /\ UNCHANGED later
     ELSE later' = TRUE /\ tick' = [tick EXCEPT ![w] = Idle]
  /\ UNCHANGED <<status, target, placed, due, requests, fate>>

\* The batch is completed if it is still running.
Complete(w) ==
  /\ tick[w].step = "complete"
  /\ status' = (IF status = "RUNNING" THEN "COMPLETED" ELSE status)
  /\ tick' = [tick EXCEPT ![w] = Idle]
  /\ UNCHANGED <<target, placed, jobs, requests, fate>>

\* The worker dies, or a call of the tick throws.  The queue runs the job again, or
\* gives it up: on its third error (attempts: 3) or on its second death (stalled), so
\* never the first time.
TickDies(w) ==
  /\ tick[w].step # "idle" /\ crashes < MaxCrashes
  /\ crashes' = crashes + 1 /\ tick' = [tick EXCEPT ![w] = Idle]
  /\ \/ due' = OneMore /\ UNCHANGED dropped
     \/ crashes > 0 /\ dropped' = TRUE /\ UNCHANGED due
  /\ UNCHANGED <<status, target, placed, later, requests>>

-----------------------------------------------------------------------------
(* The owner's requests: one start and one cancellation at a time, uploads side by side *)

StartRead ==
  /\ start \in {"none", "lost"}
  /\ status \in EDITABLE /\ Are("PENDING") # {}
  /\ start' = "read"
  /\ UNCHANGED <<status, target, placed, tick, jobs, cancel, upload, late, fate>>

\* Blocked, running or scheduled, whatever the batch is by now; or it dies.
StartWrite ==
  /\ start = "read"
  /\ \/ status' = "BLOCKED" /\ start' = "none"
     \/ status' = "RUNNING" /\ start' = "now"
     \/ status' = "SCHEDULED" /\ start' = "future"
     \/ start' = "none" /\ UNCHANGED status
  /\ UNCHANGED <<target, placed, tick, jobs, cancel, upload, late, fate>>

\* The first tick.  It is lost if the queue knows its name or the process dies.
StartEnqueue ==
  /\ \/ start = "now" /\ due' = OneMore /\ start' = "none" /\ UNCHANGED later
     \/ start = "future" /\ later' = TRUE /\ start' = "none" /\ UNCHANGED due
     \/ start \in {"now", "future"} /\ start' = "lost" /\ UNCHANGED jobs
  /\ UNCHANGED <<status, target, placed, tick, cancel, upload, late, fate>>

\* Mutant: the batch is cancelled first, its targets after.
CancelsBackwards ==
  \/ /\ cancel = "none" /\ status \notin {"COMPLETED", "CANCELLED"}
     /\ cancel' = "skipped" /\ status' = "CANCELLED"
     /\ UNCHANGED <<target, placed, tick, jobs, start, upload, late, fate>>
  \/ /\ cancel = "skipped" /\ cancel' = "none"
     /\ target' = [t \in Target |-> IF target[t] = "PENDING" THEN "SKIPPED" ELSE target[t]]
     /\ UNCHANGED <<status, placed, tick, jobs, start, upload, late, fate>>

\* cancel: the targets that wait are skipped, then the batch is cancelled.
Cancel ==
  \/ /\ cancel = "none" /\ status \notin {"COMPLETED", "CANCELLED"}
     /\ cancel' = "skipped"
     /\ target' = [t \in Target |-> IF target[t] = "PENDING" THEN "SKIPPED" ELSE target[t]]
     /\ UNCHANGED <<status, placed, tick, jobs, start, upload, late, fate>>
  \/ /\ cancel = "skipped" /\ cancel' = "none" /\ status' = "CANCELLED"
     /\ UNCHANGED <<target, placed, tick, jobs, start, upload, late, fate>>

\* The batch rests: no tick and no cancellation is at work on it.
Quiet == status \in EDITABLE /\ cancel = "none" /\ \A w \in Worker : tick[w].step = "idle"

Uploads(u, step) == upload' = [upload EXCEPT ![u].step = step]

\* uploadTargets: the batch is read.
UploadRead(u) ==
  /\ upload[u].step = "none" /\ status \in EDITABLE /\ Uploads(u, "read")
  /\ UNCHANGED <<status, target, placed, tick, jobs, start, cancel, late, fate>>

\* In mode replace the targets that wait are deleted.
UploadReplace(u) ==
  /\ upload[u].step = "read" /\ Uploads(u, "replaced")
  /\ target' = [t \in Target |-> IF target[t] = "PENDING" THEN "GONE" ELSE target[t]]
  /\ UNCHANGED <<status, placed, tick, jobs, start, cancel, late, fate>>

\* The phones of the file that the batch does not have.
UploadCompare(u) ==
  /\ upload[u].step \in {"read", "replaced"}
  /\ \E fresh \in SUBSET (Phones(Target) \ Phones(Rows)) :
       upload' = [upload EXCEPT ![u] = [step |-> "compared", fresh |-> fresh]]
  /\ UNCHANGED <<status, target, placed, tick, jobs, start, cancel, late, fate>>

\* A row for each of them, after all the rows there are.
UploadWrite(u) ==
  /\ upload[u].step = "compared"
  /\ \E new \in SUBSET Are("NONE") :
       /\ Phones(new) = upload[u].fresh /\ Cardinality(new) = Cardinality(upload[u].fresh)
       /\ \A t \in new, old \in Target : target[old] # "NONE" => old < t
       /\ target' = [t \in Target |-> IF t \in new THEN "PENDING" ELSE target[t]]
       /\ late' = (late \/ (~Quiet /\ new # {}))
  /\ upload' = [upload EXCEPT ![u] = Uploaded]
  /\ UNCHANGED <<status, placed, tick, jobs, start, cancel, fate>>

\* The file is refused, a call throws or the process dies.
UploadFails(u) ==
  /\ upload[u].step \notin {"none", "done"} /\ upload' = [upload EXCEPT ![u] = Uploaded]
  /\ UNCHANGED <<status, target, placed, tick, jobs, start, cancel, late, fate>>

-----------------------------------------------------------------------------
(* Calls, their reports, and time *)

\* onCallOutcome: the target, if it is still dialing, and a tick, unless its
\* name is used or the process dies in between.
OnCallOutcome(t) ==
  /\ placed[t] > 0
  /\ target' = IF target[t] = "DIALING" THEN [target EXCEPT ![t] = "OVER"] ELSE target
  /\ due' \in {due, OneMore}
  /\ UNCHANGED <<status, placed, tick, later, requests, fate>>

Next ==
  \/ \E w \in Worker :
       \/ Take(w) \/ Activate(w) \/ Block(w) \/ Count(w) \/ Find(w) \/ Claim(w) \/ Dial(w)
       \/ DialFailed(w) \/ Finish(w) \/ Complete(w) \/ TickDies(w)
  \/ DelayEnds
  \/ StartRead \/ StartWrite \/ StartEnqueue \/ Cancel
  \/ \E u \in Upload :
       UploadRead(u) \/ UploadReplace(u) \/ UploadCompare(u) \/ UploadWrite(u) \/ UploadFails(u)
  \/ \E t \in Target : OnCallOutcome(t)

Spec == Init /\ [][Next]_vars

-----------------------------------------------------------------------------
(* Properties *)

UploadState ==
  [step : {"none", "read", "replaced", "compared", "done"}, fresh : SUBSET Phones(Target)]

TypeOK ==
  /\ status \in EDITABLE \cup {"RUNNING", "COMPLETED", "CANCELLED"}
  /\ target \in [Target -> TargetStatus]
  /\ placed \in [Target -> Nat]
  /\ tick \in [Worker -> [step : {"idle", "activate", "block", "count", "find", "claim", "dial",
                                  "failed", "refused", "finish", "complete"},
                          slots : 0..Concurrency, on : Target \cup {0}]]
  /\ due \in 0..MaxDue /\ later \in BOOLEAN
  /\ start \in {"none", "read", "now", "future", "lost"}
  /\ cancel \in {"none", "skipped"}
  /\ upload \in [Upload -> UploadState]
  /\ late \in BOOLEAN /\ dropped \in BOOLEAN
  /\ crashes \in 0..MaxCrashes

\* No row of a target is called twice, however many ticks run at once, die and run
\* again, and however often the batch is blocked and started again.  (Two uploads
\* side by side can make two rows of one phone: PhonesAreCalledOnce of MCCallBatches.)
CalledOnce == \A t \in Target : placed[t] <= 1

\* A batch is completed only when every one of its targets has an outcome, also
\* when the last call ends while two ticks are at work, unless targets were
\* uploaded under a tick's eyes by a request that had read the batch before.
CompletedIsSettled == status = "COMPLETED" => Remaining = {} \/ late

\* While a batch is cancelled, no target that waits is taken any more, by a tick
\* that started before the cancellation or after it, with the same exception.
CancelStops ==
  [][status = "CANCELLED" /\ ~late =>
       \A t \in Target : target[t] = "PENDING" => target'[t] # "DIALING"]_vars

\* A running batch always has a tick to come or in progress, unless the request
\* that started it died before it queued one, or queued one under a used name, or
\* the queue gave up a tick that died and died again.
Driven ==
  status = "RUNNING" =>
    \/ due > 0 \/ later \/ \E w \in Worker : tick[w].step # "idle"
    \/ start \in {"now", "lost"} \/ dropped
=============================================================================
