--------------------------- MODULE WebhookDelivery ---------------------------
(***************************************************************************)
(* The delivery of events to one webhook subscription: the outbox, the     *)
(* deliver jobs of BullMQ and the rows they work on                        *)
(* (webhook-dispatcher.service.ts).  There is one delivery for an event.   *)
(* Every database or Redis call that another worker can slip in front of   *)
(* is a step; Crash is a process death or a rejected call.  Delays are not *)
(* modelled: a delayed job may run, and a delivery be swept, at any time.  *)
(***************************************************************************)
EXTENDS Naturals, FiniteSets

CONSTANTS
  Worker,         \* concurrent BullMQ handlers
  Caller,         \* concurrent requests for a manual redelivery
  Event,          \* events of the subscription's types
  MAX_ATTEMPTS,   \* automatic attempts of a delivery
  DISABLE_AFTER,  \* WEBHOOK_DISABLE_AFTER_FAILURES
  MaxManual,      \* bound on manual redeliveries
  MaxCrashes      \* bound on aborted tasks

ASSUME WebhookAssumption ==
  /\ Worker \cap Caller = {} /\ IsFiniteSet(Event)
  /\ MAX_ATTEMPTS \in Nat \ {0} /\ DISABLE_AFTER \in Nat \ {0}
  /\ MaxManual \in Nat /\ MaxCrashes \in Nat

Actor == Worker \cup Caller

Automatic == 1..MAX_ATTEMPTS

Attempt == 1..(MAX_ATTEMPTS + MaxManual)

VARIABLES
  outbox,  \* OutboxEvent: not written, written, dispatchedAt set
  row,     \* WebhookDelivery by event: status and attempts claimed
  job,     \* the BullMQ job wh_<delivery>_<attempt>
  sub,     \* WebhookSubscription: active and failureCount
  task,    \* what each actor is doing
  sent, exhausted, overtaken, manuals, crashes
           \* history: requests sent, deliveries that failed their last attempt
           \* since the subscription was enabled, deliveries swept while an
           \* attempt was in flight, bounds

webhookVars == <<outbox, row, job, sub, task, sent, exhausted, overtaken, manuals,
                crashes>>

-----------------------------------------------------------------------------
(* Data *)

Trying == {"PENDING", "RETRYING"}

Concluded == {"SUCCEEDED", "FAILED"}

Task == [at: {"idle", "fan", "first", "mark", "read", "claim", "send", "update", "after",
              "disable", "finish"},
         event: Event \cup {"none"}, attempt: {0} \cup Attempt, manual: BOOLEAN, ok: BOOLEAN,
         reset: BOOLEAN]  \* the failureCount it read is not zero

Idle == [at |-> "idle", event |-> "none", attempt |-> 0, manual |-> FALSE, ok |-> FALSE,
         reset |-> FALSE]

\* Every variable has its type; no automatic attempt after the last is queued.
WebhookTypeOK ==
  /\ outbox \in [Event -> {"none", "written", "dispatched"}]
  /\ row \in [Event -> [status: Trying \cup Concluded \cup {"NONE"}, attempts: {0} \cup Attempt]]
  /\ job \in [Event -> [Automatic -> {"none", "waiting", "active", "finished"}]]
  /\ sub \in [active: BOOLEAN, failures: Nat]
  /\ task \in [Actor -> Task]
  /\ sent \in [Event -> [Attempt -> Nat]]
  /\ exhausted \in SUBSET Event /\ overtaken \in SUBSET Event /\ manuals \in Nat /\ crashes \in Nat

WebhookInit ==
  /\ outbox = [e \in Event |-> "none"]
  /\ row = [e \in Event |-> [status |-> "NONE", attempts |-> 0]]
  /\ job = [e \in Event |-> [n \in Automatic |-> "none"]]
  /\ sub = [active |-> TRUE, failures |-> 0]
  /\ task = [a \in Actor |-> Idle]
  /\ sent = [e \in Event |-> [n \in Attempt |-> 0]]
  /\ exhausted = {} /\ overtaken = {} /\ manuals = 0 /\ crashes = 0

-----------------------------------------------------------------------------
(* Helpers *)

At(a, place) == task[a].at = place

Goes(a, t) == task' = [task EXCEPT ![a] = t]

GoesTo(a, place) == Goes(a, [task[a] EXCEPT !.at = place])

\* The handler returns: BullMQ marks a worker's deliver job as finished.
Done(a) == Goes(a, IF task[a].attempt # 0 /\ ~task[a].manual
                   THEN [task[a] EXCEPT !.at = "finish"] ELSE Idle)

RunsAgain(e, n) == [job EXCEPT ![e][n] = "waiting"]

\* enqueueDelivery: BullMQ ignores a job whose id it still keeps, finished or not.
Enqueued(e, n) ==
  IF n \in Automatic /\ job[e][n] # "none" THEN job
  ELSE [job EXCEPT ![e] = [m \in DOMAIN @ \cup {n} |-> IF m = n THEN "waiting" ELSE job[e][m]]]

KeepHistory == UNCHANGED <<sent, exhausted, overtaken, manuals, crashes>>

-----------------------------------------------------------------------------
(* Production *)

NeverProduced(e) == outbox[e] = "none"

Undispatched(e) == outbox[e] # "dispatched"

\* produce, for a domain event or a repeated job, and the sweep of undispatched
\* events: the id is derived from the event, so it is written once.
Produce(w, e) ==
  /\ At(w, "idle") /\ Undispatched(e)
  /\ outbox' = [outbox EXCEPT ![e] = "written"]
  /\ Goes(w, [Idle EXCEPT !.at = "fan", !.event = e])
  /\ UNCHANGED <<row, job, sub>> /\ KeepHistory

\* fanOut: find the active subscription and its delivery, or create it.
FanOut(w) ==
  LET e == task[w].event
      unsent == row[e].status = "PENDING" /\ row[e].attempts = 0
  IN  /\ At(w, "fan")
      /\ CASE ~sub.active -> GoesTo(w, "mark") /\ UNCHANGED row
           [] sub.active /\ row[e].status = "NONE" ->
                /\ row' = [row EXCEPT ![e].status = "PENDING"]
                /\ GoesTo(w, "first")
           [] OTHER -> GoesTo(w, IF unsent THEN "first" ELSE "mark") /\ UNCHANGED row
      /\ UNCHANGED <<outbox, job, sub>> /\ KeepHistory

\* fanOut lost the race for the unique key: "that producer enqueues it".
FanOutRaced(w) ==
  /\ At(w, "fan") /\ sub.active /\ row[task[w].event].status # "NONE"
  /\ GoesTo(w, "mark")
  /\ UNCHANGED <<outbox, row, job, sub>> /\ KeepHistory

EnqueueFirst(w) ==
  /\ At(w, "first")
  /\ job' = Enqueued(task[w].event, 1)
  /\ GoesTo(w, "mark")
  /\ UNCHANGED <<outbox, row, sub>> /\ KeepHistory

MarkDispatched(w) ==
  /\ At(w, "mark")
  /\ outbox' = [outbox EXCEPT ![task[w].event] = "dispatched"]
  /\ Done(w)
  /\ UNCHANGED <<row, job, sub>> /\ KeepHistory

-----------------------------------------------------------------------------
(* One attempt: deliverAttempt *)

TakeJob(w, e, n) ==
  /\ At(w, "idle") /\ job[e][n] = "waiting"
  /\ job' = [job EXCEPT ![e][n] = "active"]
  /\ Goes(w, [Idle EXCEPT !.at = "read", !.event = e, !.attempt = n])
  /\ UNCHANGED <<outbox, row, sub>> /\ KeepHistory

\* A manual redelivery of a delivery that is no longer tried.
Redeliver(c, e) ==
  /\ At(c, "idle") /\ row[e].status \in Concluded /\ manuals < MaxManual
  /\ Goes(c, [Idle EXCEPT !.at = "read", !.event = e, !.attempt = row[e].attempts + 1,
                          !.manual = TRUE])
  /\ manuals' = manuals + 1
  /\ UNCHANGED <<outbox, row, job, sub, sent, exhausted, overtaken, crashes>>

\* A delivery that succeeded is not sent again, one of a disabled subscription fails.
ReadDelivery(a) ==
  LET e == task[a].event
      automatic == ~task[a].manual
      delivered == automatic /\ row[e].status = "SUCCEEDED"
      disabled == automatic /\ ~delivered /\ ~sub.active
  IN  /\ At(a, "read")
      /\ row' = IF disabled /\ row[e].status \in Trying
                THEN [row EXCEPT ![e].status = "FAILED"] ELSE row
      /\ IF delivered \/ disabled THEN Done(a)
         ELSE Goes(a, [task[a] EXCEPT !.at = "claim", !.reset = (sub.failures # 0)])
      /\ UNCHANGED <<outbox, job, sub>> /\ KeepHistory

ClaimsAnyway(e, n) == TRUE

\* The claim of attempt n: WHERE attempts = n - 1.
Unclaimed(e, n) == row[e].attempts = n - 1

Claim(a) ==
  LET e == task[a].event
      n == task[a].attempt
  IN  /\ At(a, "claim")
      /\ IF Unclaimed(e, n)
         THEN row' = [row EXCEPT ![e].attempts = n] /\ GoesTo(a, "send")
         ELSE Done(a) /\ UNCHANGED row
      /\ UNCHANGED <<outbox, job, sub>> /\ KeepHistory

\* The request, answered or not, and the line of the attempt log.
Send(a) ==
  /\ At(a, "send")
  /\ \E ok \in BOOLEAN : Goes(a, [task[a] EXCEPT !.at = "update", !.ok = ok])
  /\ sent' = [sent EXCEPT ![task[a].event][task[a].attempt] = @ + 1]
  /\ UNCHANGED <<outbox, row, job, sub, exhausted, overtaken, manuals, crashes>>

\* decideAfterAttempt.
Decision(t) ==
  CASE t.ok -> "SUCCEEDED"
    [] ~t.ok /\ t.manual -> "FAILED"
    [] OTHER -> IF t.attempt < MAX_ATTEMPTS THEN "RETRYING" ELSE "FAILED"

\* Unconditional: whatever another attempt has written.
UpdateDelivery(a) ==
  /\ At(a, "update")
  /\ row' = [row EXCEPT ![task[a].event].status = Decision(task[a])]
  /\ GoesTo(a, "after")
  /\ UNCHANGED <<outbox, job, sub>> /\ KeepHistory

CountsEveryFailure(t) == ~t.ok

\* Only a delivery that failed its last automatic attempt counts.
Counts(t) == ~t.ok /\ ~t.manual /\ Decision(t) = "FAILED"

ResetFailures(a) ==
  /\ At(a, "after") /\ task[a].ok
  /\ sub' = IF task[a].reset THEN [sub EXCEPT !.failures = 0] ELSE sub
  /\ Done(a)
  /\ UNCHANGED <<outbox, row, job>> /\ KeepHistory

EnqueueNext(a) ==
  /\ At(a, "after") /\ ~task[a].ok /\ Decision(task[a]) = "RETRYING"
  /\ job' = Enqueued(task[a].event, task[a].attempt + 1)
  /\ Done(a)
  /\ UNCHANGED <<outbox, row, sub>> /\ KeepHistory

\* The counter is incremented in the database, and the threshold checked against
\* the value that gives.
CountFailure(a) ==
  LET t == task[a]
      counted == [sub EXCEPT !.failures = @ + 1]
  IN  /\ At(a, "after") /\ ~t.ok /\ Decision(t) = "FAILED"
      /\ exhausted' = IF ~t.manual /\ t.attempt = MAX_ATTEMPTS
                      THEN exhausted \cup {t.event} ELSE exhausted
      /\ IF Counts(t) THEN sub' = counted ELSE UNCHANGED sub
      /\ IF Counts(t) /\ sub.active /\ counted.failures >= DISABLE_AFTER
         THEN GoesTo(a, "disable") ELSE Done(a)
      /\ UNCHANGED <<outbox, row, job, sent, overtaken, manuals, crashes>>

AutoDisable(a) ==
  /\ At(a, "disable")
  /\ sub' = [sub EXCEPT !.active = FALSE]
  /\ Done(a)
  /\ UNCHANGED <<outbox, row, job>> /\ KeepHistory

FinishJob(w) ==
  /\ At(w, "finish")
  /\ job' = [job EXCEPT ![task[w].event][task[w].attempt] = "finished"]
  /\ Goes(w, Idle)
  /\ UNCHANGED <<outbox, row, sub>> /\ KeepHistory

-----------------------------------------------------------------------------
(* The sweep, the owner of the subscription, and failure *)

SweepsFresh(e) == row[e].status = "PENDING" /\ row[e].attempts = 0

\* Deliveries whose nextAttemptAt has passed and that have attempts left.
Stale(e) == row[e].status \in Trying /\ row[e].attempts < MAX_ATTEMPTS

InFlight(e) == \E a \in Actor : task[a].event = e /\ task[a].attempt # 0

SweepDelivery(e) ==
  /\ Stale(e)
  /\ job' = Enqueued(e, row[e].attempts + 1)
  /\ overtaken' = IF InFlight(e) THEN overtaken \cup {e} ELSE overtaken
  /\ UNCHANGED <<outbox, row, sub, task, sent, exhausted, manuals, crashes>>

Enable ==
  /\ ~sub.active
  /\ sub' = [active |-> TRUE, failures |-> 0]
  /\ exhausted' = {}
  /\ UNCHANGED <<outbox, row, job, task, sent, overtaken, manuals, crashes>>

Disable ==
  /\ sub.active
  /\ sub' = [sub EXCEPT !.active = FALSE]
  /\ UNCHANGED <<outbox, row, job, task>> /\ KeepHistory

\* A deliver job is run again, or given up: on its third error (attempts: 3) or its
\* second death (stalled), so never at the first crash.  BullMQ keeps its id.
Afterlife(e, n) ==
  {RunsAgain(e, n)} \cup (IF crashes > 0 THEN {[job EXCEPT ![e][n] = "finished"]} ELSE {})

\* The task is over.
Crash(a) ==
  LET t == task[a]
  IN  /\ ~At(a, "idle") /\ crashes < MaxCrashes
      /\ crashes' = crashes + 1
      /\ job' \in IF t.attempt # 0 /\ ~t.manual THEN Afterlife(t.event, t.attempt) ELSE {job}
      /\ Goes(a, Idle)
      /\ UNCHANGED <<outbox, row, sub, sent, exhausted, overtaken, manuals>>

-----------------------------------------------------------------------------
Works(a) ==
  \/ ReadDelivery(a) \/ Claim(a) \/ Send(a) \/ UpdateDelivery(a)
  \/ ResetFailures(a) \/ EnqueueNext(a) \/ CountFailure(a) \/ AutoDisable(a)

Handles(w) ==
  \/ Works(w) \/ FanOut(w) \/ EnqueueFirst(w) \/ MarkDispatched(w) \/ FinishJob(w)

Takes(w) == \E e \in Event : \E n \in Automatic : TakeJob(w, e, n)

Produces(w) == \E e \in Event : Produce(w, e)

WebhookNext ==
  \/ \E w \in Worker : Handles(w) \/ FanOutRaced(w) \/ Takes(w) \/ Produces(w)
  \/ \E c \in Caller : Works(c) \/ \E e \in Event : Redeliver(c, e)
  \/ \E e \in Event : SweepDelivery(e)
  \/ Enable \/ Disable
  \/ \E a \in Actor : Crash(a)

WebhookSpec == WebhookInit /\ [][WebhookNext]_webhookVars

\* Workers take what is queued and go on, the sweep runs every five minutes; an
\* event is produced again until it is dispatched.
FairWebhookSpec ==
  /\ WebhookSpec
  /\ \A w \in Worker : WF_webhookVars(Handles(w))
  /\ \A e \in Event :
       /\ WF_webhookVars(SweepDelivery(e))
       /\ SF_webhookVars(\E w \in Worker : Produce(w, e))
       /\ \A n \in Automatic : SF_webhookVars(\E w \in Worker : TakeJob(w, e, n))

-----------------------------------------------------------------------------
(* Properties *)

\* No attempt number is sent twice, by two workers, by a sweep that overtakes a
\* slow attempt, by a repeated job or by a manual redelivery: a receiver can rely
\* on X-ConversaForge-Attempt.
AttemptSentOnce == \A e \in Event : \A n \in Attempt : sent[e][n] <= 1

\* The failure counter never exceeds the deliveries that were given up since the
\* subscription was enabled: neither retries nor manual attempts nor a delivery
\* that two workers handle disable an endpoint early.
FailuresAreCounted == sub.failures <= Cardinality(exhausted)

\* An event on record is dispatched, whoever died on the way.
EveryEventIsDispatched ==
  \A e \in Event : outbox[e] = "written" ~> outbox[e] = "dispatched"

\* A delivery goes on until it succeeds, is given up or has used its attempts: no
\* lost job, race of producers or crash strands it before.  (A crash in the last
\* attempt does: sweep leaves out deliveries without attempts left.  So may a sweep
\* that overtakes an attempt, which then writes over what came after it, and a job
\* that crashes twice: the run has one crash.)
EveryDeliveryIsTried ==
  \A e \in Event :
    row[e].status \in Trying
      ~> row[e].status \in Concluded \/ row[e].attempts >= MAX_ATTEMPTS \/ e \in overtaken
=============================================================================
