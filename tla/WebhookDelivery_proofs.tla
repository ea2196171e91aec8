----------------------- MODULE WebhookDelivery_proofs -----------------------
(***************************************************************************)
(* For any number of workers, callers, events, attempts and crashes: the   *)
(* types, and that a claim owns its attempt.  An attempt number is claimed *)
(* once because the claim raises the attempts of the row, which never      *)
(* fall; so its request is sent once and its failure is counted once.      *)
(***************************************************************************)
EXTENDS WebhookDelivery, FiniteSetTheorems, TLAPS

-----------------------------------------------------------------------------
(* Types *)

Attempting == {"read", "claim", "send", "update", "after", "disable", "finish"}

\* A task that stands somewhere has what the next steps use.
Sound(t) ==
  /\ t \in Task
  /\ t.at # "idle" => t.event \in Event
  /\ t.attempt <= MAX_ATTEMPTS + manuals
  /\ t.at \in Attempting => t.attempt # 0
  /\ t.at = "finish" => ~t.manual
  /\ t.attempt # 0 /\ ~t.manual => t.attempt \in Automatic

\* Manual attempts are the only ones beyond MAX_ATTEMPTS.
TypeInv ==
  /\ WebhookTypeOK
  /\ manuals <= MaxManual
  /\ \A e \in Event : row[e].attempts <= MAX_ATTEMPTS + manuals
  /\ \A a \in Actor : Sound(task[a])

LEMMA Numbers ==
  /\ MAX_ATTEMPTS \in Nat /\ MAX_ATTEMPTS > 0 /\ MaxManual \in Nat
  /\ 1 \in Automatic /\ Automatic \subseteq Attempt
  BY WebhookAssumption DEF Automatic, Attempt

LEMMA IdleSound == TypeInv => Sound(Idle)
  BY Numbers DEF Sound, Idle, Task, Attempting, TypeInv, WebhookTypeOK

\* The handler's return leaves a sound task.
LEMMA DoneSound ==
  ASSUME TypeInv, NEW a \in Actor, Done(a), task[a].at # "idle"
  PROVE  \E t : Sound(t) /\ Goes(a, t) /\ t.at \in {"idle", "finish"}
  <1>1. CASE task[a].attempt # 0 /\ ~task[a].manual
    <2>1. Sound([task[a] EXCEPT !.at = "finish"])
      BY <1>1 DEF TypeInv, Sound, Task, Attempting
    <2> QED
      BY <1>1, <2>1 DEF Done, Task, TypeInv, Sound
  <1>2. CASE ~(task[a].attempt # 0 /\ ~task[a].manual)
    BY <1>2, IdleSound DEF Done, Idle
  <1> QED
    BY <1>1, <1>2

\* Adding a job to the queue keeps the type of the queue.
LEMMA EnqueuedType ==
  ASSUME TypeInv, NEW e \in Event, NEW n \in Automatic, job' = Enqueued(e, n)
  PROVE  job' \in [Event -> [Automatic -> {"none", "waiting", "active", "finished"}]]
  <1>1. DOMAIN job[e] \cup {n} = Automatic
    BY DEF TypeInv, WebhookTypeOK
  <1> QED
    BY <1>1 DEF Enqueued, TypeInv, WebhookTypeOK

\* One task moves, the rest is of its type.
LEMMA TypeOfTask ==
  ASSUME TypeInv, NEW a \in Actor, NEW t, Goes(a, t), Sound(t),
         manuals' = manuals, crashes' \in Nat,
         outbox' \in [Event -> {"none", "written", "dispatched"}],
         row' \in [Event -> [status: Trying \cup Concluded \cup {"NONE"},
                             attempts: {0} \cup Attempt]],
         \A e \in Event : row'[e].attempts <= MAX_ATTEMPTS + manuals,
         job' \in [Event -> [Automatic -> {"none", "waiting", "active", "finished"}]],
         sub' \in [active: BOOLEAN, failures: Nat],
         sent' \in [Event -> [Attempt -> Nat]],
         exhausted' \subseteq Event, overtaken' = overtaken
  PROVE  TypeInv'
  <1>1. task' \in [Actor -> Task] /\ \A b \in Actor : task'[b] = IF b = a THEN t ELSE task[b]
    BY DEF Goes, TypeInv, WebhookTypeOK, Sound
  <1>2. \A b \in Actor : Sound(task[b])'
    BY <1>1 DEF TypeInv, Sound
  <1>3. WebhookTypeOK'
    BY <1>1 DEF TypeInv, WebhookTypeOK
  <1> QED
    BY <1>2, <1>3 DEF TypeInv

LEMMA TypeInit == WebhookInit => TypeInv
  <1> SUFFICES ASSUME WebhookInit PROVE TypeInv
    OBVIOUS
  <1>1. WebhookTypeOK
    BY Numbers DEF WebhookInit, WebhookTypeOK, Task, Idle, Trying
  <1>2. \A a \in Actor : Sound(task[a])
    BY Numbers DEF WebhookInit, Sound, Idle, Task, Attempting
  <1> QED
    BY <1>1, <1>2, Numbers DEF TypeInv, WebhookInit

\* The steps of a producer.
LEMMA TypeProduces ==
  ASSUME TypeInv, NEW w \in Worker,
         \/ FanOut(w) \/ EnqueueFirst(w) \/ MarkDispatched(w) \/ FanOutRaced(w)
         \/ \E e \in Event : Produce(w, e)
  PROVE  TypeInv'
  <1> w \in Actor
    BY DEF Actor
  <1>1. ASSUME NEW e \in Event, Produce(w, e) PROVE TypeInv'
    <2>1. Sound([Idle EXCEPT !.at = "fan", !.event = e])
      BY IdleSound DEF Sound, Idle, Task, Attempting
    <2> QED
      BY <1>1, <2>1, TypeOfTask DEF Produce, KeepHistory, TypeInv, WebhookTypeOK
  <1>2. ASSUME NEW place \in {"first", "mark"}, At(w, "fan") \/ At(w, "first")
        PROVE  Sound([task[w] EXCEPT !.at = place])
    BY <1>2 DEF Sound, TypeInv, Task, Attempting, At
  <1>3. CASE FanOut(w)
    <2> DEFINE e == task[w].event
    <2>1. e \in Event
      BY <1>3 DEF FanOut, At, TypeInv, Sound
    <2>2. \E place \in {"first", "mark"} : GoesTo(w, place)
      BY <1>3 DEF FanOut
    <2>a. row' = row \/ row' = [row EXCEPT ![e].status = "PENDING"]
      BY <1>3 DEF FanOut
    <2>b. "PENDING" \in Trying /\ row \in [Event -> [status: Trying \cup Concluded \cup {"NONE"},
                                                 attempts: {0} \cup Attempt]]
      BY DEF Trying, TypeInv, WebhookTypeOK
    <2> HIDE DEF e
    <2>3. row' \in [Event -> [status: Trying \cup Concluded \cup {"NONE"},
                              attempts: {0} \cup Attempt]]
      BY <2>a, <2>b, <2>1
    <2>4. \A f \in Event : row'[f].attempts <= MAX_ATTEMPTS + manuals
      BY <2>a, <2>b, <2>1 DEF TypeInv
    <2> QED
      BY <1>2, <1>3, <2>2, <2>3, <2>4, TypeOfTask
      DEF FanOut, GoesTo, KeepHistory, TypeInv, WebhookTypeOK
  <1>4. CASE FanOutRaced(w)
    BY <1>2, <1>4, TypeOfTask DEF FanOutRaced, GoesTo, KeepHistory, TypeInv, WebhookTypeOK
  <1>5. CASE EnqueueFirst(w)
    <2>1. task[w].event \in Event
      BY <1>5 DEF EnqueueFirst, At, TypeInv, Sound
    <2>2. job' \in [Event -> [Automatic -> {"none", "waiting", "active", "finished"}]]
      BY <1>5, <2>1, Numbers, EnqueuedType DEF EnqueueFirst
    <2> QED
      BY <1>2, <1>5, <2>2, TypeOfTask DEF EnqueueFirst, GoesTo, KeepHistory, TypeInv, WebhookTypeOK
  <1>6. CASE MarkDispatched(w)
    <2>1. task[w].at # "idle" /\ task[w].event \in Event
      BY <1>6 DEF MarkDispatched, At, TypeInv, Sound
    <2>2. PICK t : Sound(t) /\ Goes(w, t)
      BY <1>6, <2>1, DoneSound DEF MarkDispatched
    <2> QED
      BY <1>6, <2>1, <2>2, TypeOfTask DEF MarkDispatched, KeepHistory, TypeInv, WebhookTypeOK
  <1> QED
    BY <1>1, <1>3, <1>4, <1>5, <1>6

\* Taking a job and asking for a redelivery.
LEMMA TypeTakes ==
  ASSUME TypeInv, NEW a \in Actor, NEW e \in Event,
         Redeliver(a, e) \/ \E n \in Automatic : TakeJob(a, e, n)
  PROVE  TypeInv'
  <1>1. ASSUME NEW n \in Automatic, TakeJob(a, e, n) PROVE TypeInv'
    <2> DEFINE t == [Idle EXCEPT !.at = "read", !.event = e, !.attempt = n]
    <2>a. n # 0 /\ n \in Attempt /\ n <= MAX_ATTEMPTS + manuals
      BY Numbers DEF Automatic, Attempt, TypeInv, WebhookTypeOK
    <2>b. t.at = "read" /\ t.event = e /\ t.attempt = n /\ ~t.manual /\ t \in Task
      BY <2>a DEF Idle, Task
    <2> HIDE DEF t
    <2>1. Sound(t)
      BY <2>a, <2>b DEF Sound
    <2>. USE DEF t
    <2>2. job' \in [Event -> [Automatic -> {"none", "waiting", "active", "finished"}]]
      BY <1>1 DEF TakeJob, TypeInv, WebhookTypeOK
    <2> QED
      BY <1>1, <2>1, <2>2, TypeOfTask DEF TakeJob, KeepHistory, TypeInv, WebhookTypeOK
  <1>2. CASE Redeliver(a, e)
    <2> DEFINE t == [Idle EXCEPT !.at = "read", !.event = e, !.attempt = row[e].attempts + 1,
                                 !.manual = TRUE]
    <2>1. /\ row[e].attempts \in Nat /\ row[e].attempts <= MAX_ATTEMPTS + manuals
          /\ manuals \in Nat /\ manuals < MaxManual /\ manuals' = manuals + 1
      BY <1>2 DEF Redeliver, TypeInv, WebhookTypeOK, Attempt
    <2>a. LET n == row[e].attempts + 1
          IN  n # 0 /\ n \in Attempt /\ n <= MAX_ATTEMPTS + manuals'
      BY <2>1, Numbers DEF Attempt
    <2>b. t.at = "read" /\ t.event = e /\ t.attempt = row[e].attempts + 1 /\ t.manual
      BY DEF Idle
    <2>c. t \in Task
      BY <2>a DEF Idle, Task
    <2>3. task' = [task EXCEPT ![a] = t] /\ UNCHANGED <<outbox, row, job, sub, sent, exhausted,
                                                      overtaken, crashes>>
      BY <1>2 DEF Redeliver, Goes
    <2> HIDE DEF t
    <2>4. ASSUME NEW b \in Actor PROVE Sound(task[b])'
      <3>1. CASE b = a
        <4>1. task'[b] = t
          BY <1>2, <2>3, <3>1 DEF TypeInv, WebhookTypeOK
        <4>2. /\ t \in Task /\ t.at = "read" /\ t.event \in Event /\ t.attempt # 0 /\ t.manual
              /\ t.attempt <= MAX_ATTEMPTS + manuals'
          BY <2>a, <2>b, <2>c
        <4> QED
          BY <4>1, <4>2 DEF Sound
      <3>2. CASE b # a
        <4>1. task'[b] = task[b] /\ Sound(task[b])
          BY <2>3, <3>2 DEF TypeInv, WebhookTypeOK
        <4>2. task[b].attempt \in Nat
          BY <4>1, Numbers DEF Sound, Task, Attempt
        <4>3. task[b].attempt <= MAX_ATTEMPTS + manuals'
          BY <2>1, <4>1, <4>2, Numbers DEF Sound
        <4> QED
          BY <4>1, <4>3 DEF Sound
      <3> QED
        BY <3>1, <3>2
    <2>5. WebhookTypeOK'
      <3>1. task' \in [Actor -> Task]
        BY <2>3, <2>c DEF TypeInv, WebhookTypeOK
      <3>2. manuals' \in Nat
        BY <2>1
      <3> QED
        BY <2>3, <3>1, <3>2 DEF TypeInv, WebhookTypeOK
    <2>6. manuals' <= MaxManual
      BY <2>1, Numbers
    <2>7. ASSUME NEW f \in Event PROVE row'[f].attempts <= MAX_ATTEMPTS + manuals'
      <3>1. row'[f] = row[f] /\ row[f].attempts \in {0} \cup Attempt
            /\ row[f].attempts <= MAX_ATTEMPTS + manuals
        BY <2>3 DEF TypeInv, WebhookTypeOK
      <3> QED
        BY <2>1, <3>1, Numbers DEF Attempt
    <2> QED
      BY <2>4, <2>5, <2>6, <2>7 DEF TypeInv
  <1> QED
    BY <1>1, <1>2

\* The steps of an attempt, but for the return of the handler.
LEMMA TypeAttempts ==
  ASSUME TypeInv, NEW a \in Actor,
         ReadDelivery(a) \/ Claim(a) \/ Send(a) \/ UpdateDelivery(a)
  PROVE  TypeInv'
  <1> DEFINE t == task[a]
             e == task[a].event
             Rows == [Event -> [status: Trying \cup Concluded \cup {"NONE"},
                                attempts: {0} \cup Attempt]]
  <1>1. t.at # "idle" /\ t \in Task /\ Sound(t) /\ e \in Event /\ t.attempt \in Attempt
    BY DEF ReadDelivery, Claim, Send, UpdateDelivery, At, TypeInv, Sound, Attempting, Task
  <1>2. ASSUME NEW x, t.at \in Attempting,
               \/ \E place \in {"send", "update", "after"} : x = [t EXCEPT !.at = place]
               \/ \E reset \in BOOLEAN : x = [t EXCEPT !.at = "claim", !.reset = reset]
               \/ \E ok \in BOOLEAN : x = [t EXCEPT !.at = "update", !.ok = ok]
        PROVE  Sound(x)
    BY <1>1, <1>2 DEF Sound, Task, Attempting
  <1>3. row \in Rows /\ \A f \in Event : row[f].attempts <= MAX_ATTEMPTS + manuals
    BY DEF TypeInv, WebhookTypeOK
  <1>4. "FAILED" \in Concluded /\ Decision(t) \in Trying \cup Concluded
    BY DEF Concluded, Trying, Decision
  <1>5. t.attempt <= MAX_ATTEMPTS + manuals
    BY <1>1 DEF Sound
  <1>6. CASE ReadDelivery(a)
    <2>1. row' = row \/ row' = [row EXCEPT ![e].status = "FAILED"]
      BY <1>6 DEF ReadDelivery
    <2>2. (sub.failures # 0) \in BOOLEAN /\ t.at \in Attempting
      BY <1>6 DEF ReadDelivery, At, Attempting
    <2>3. Done(a) \/ Goes(a, [t EXCEPT !.at = "claim", !.reset = (sub.failures # 0)])
      BY <1>6 DEF ReadDelivery
    <2>4. PICK x : Sound(x) /\ Goes(a, x)
      BY <1>1, <1>2, <2>2, <2>3, DoneSound
    <2>5. UNCHANGED <<outbox, job, sub>> /\ KeepHistory
      BY <1>6 DEF ReadDelivery
    <2> HIDE DEF e, t
    <2>6. row' \in Rows /\ \A f \in Event : row'[f].attempts <= MAX_ATTEMPTS + manuals
      BY <1>1, <1>3, <1>4, <2>1
    <2> QED
      BY <2>4, <2>5, <2>6, TypeOfTask DEF KeepHistory, TypeInv, WebhookTypeOK
  <1>7. CASE Claim(a)
    <2>1. row' = row \/ row' = [row EXCEPT ![e].attempts = t.attempt]
      BY <1>7 DEF Claim
    <2>2. Done(a) \/ Goes(a, [t EXCEPT !.at = "send"])
      BY <1>7 DEF Claim, GoesTo
    <2>3. t.at \in Attempting
      BY <1>7 DEF Claim, At, Attempting
    <2>4. PICK x : Sound(x) /\ Goes(a, x)
      BY <1>1, <1>2, <2>2, <2>3, DoneSound
    <2>5. UNCHANGED <<outbox, job, sub>> /\ KeepHistory
      BY <1>7 DEF Claim
    <2> HIDE DEF e, t
    <2>6. row' \in Rows /\ \A f \in Event : row'[f].attempts <= MAX_ATTEMPTS + manuals
      BY <1>1, <1>3, <1>5, <2>1
    <2> QED
      BY <2>4, <2>5, <2>6, TypeOfTask DEF KeepHistory, TypeInv, WebhookTypeOK
  <1>8. CASE Send(a)
    <2>1. PICK ok \in BOOLEAN : Goes(a, [t EXCEPT !.at = "update", !.ok = ok])
      BY <1>8 DEF Send
    <2>2. t.at \in Attempting
      BY <1>8 DEF Send, At, Attempting
    <2>3. sent' = [sent EXCEPT ![e][t.attempt] = @ + 1]
          /\ UNCHANGED <<outbox, row, job, sub, exhausted, overtaken, manuals, crashes>>
      BY <1>8 DEF Send
    <2>4. Sound([t EXCEPT !.at = "update", !.ok = ok])
      BY <1>2, <2>2
    <2> HIDE DEF e, t
    <2>5. sent' \in [Event -> [Attempt -> Nat]]
      BY <1>1, <2>3 DEF TypeInv, WebhookTypeOK
    <2> QED
      BY <2>1, <2>3, <2>4, <2>5, TypeOfTask DEF TypeInv, WebhookTypeOK
  <1>9. CASE UpdateDelivery(a)
    <2>1. row' = [row EXCEPT ![e].status = Decision(t)] /\ Goes(a, [t EXCEPT !.at = "after"])
          /\ UNCHANGED <<outbox, job, sub>> /\ KeepHistory
      BY <1>9 DEF UpdateDelivery, GoesTo
    <2>2. t.at \in Attempting
      BY <1>9 DEF UpdateDelivery, At, Attempting
    <2>3. Sound([t EXCEPT !.at = "after"])
      BY <1>2, <2>2
    <2> HIDE DEF e, t
    <2>4. row' \in Rows /\ \A f \in Event : row'[f].attempts <= MAX_ATTEMPTS + manuals
      BY <1>1, <1>3, <1>4, <2>1
    <2> QED
      BY <2>1, <2>3, <2>4, TypeOfTask DEF KeepHistory, TypeInv, WebhookTypeOK
  <1> QED
    BY <1>6, <1>7, <1>8, <1>9

\* What the handler does after the row is written.
LEMMA TypeAfter ==
  ASSUME TypeInv, NEW a \in Actor,
         \/ ResetFailures(a) \/ EnqueueNext(a) \/ CountFailure(a) \/ AutoDisable(a)
         \/ FinishJob(a)
  PROVE  TypeInv'
  <1> DEFINE t == task[a]
             Queue == [Event -> [Automatic -> {"none", "waiting", "active", "finished"}]]
  <1>1. t.at # "idle" /\ t \in Task /\ Sound(t) /\ t.event \in Event
    BY DEF ResetFailures, EnqueueNext, CountFailure, AutoDisable, FinishJob, At, TypeInv, Sound
  <1>2. sub \in [active: BOOLEAN, failures: Nat] /\ job \in Queue
    BY DEF TypeInv, WebhookTypeOK
  <1>3. CASE ResetFailures(a)
    <2>1. PICK x : Sound(x) /\ Goes(a, x)
      BY <1>1, <1>3, DoneSound DEF ResetFailures
    <2>2. sub' \in [active: BOOLEAN, failures: Nat]
      BY <1>2, <1>3 DEF ResetFailures
    <2> QED
      BY <1>3, <2>1, <2>2, TypeOfTask DEF ResetFailures, KeepHistory, TypeInv, WebhookTypeOK
  <1>4. CASE EnqueueNext(a)
    <2>1. PICK x : Sound(x) /\ Goes(a, x)
      BY <1>1, <1>4, DoneSound DEF EnqueueNext
    <2>2. t.attempt \in Nat /\ t.attempt < MAX_ATTEMPTS
      BY <1>1, <1>4, Numbers DEF EnqueueNext, Decision, Task, Attempt
    <2>3. t.attempt + 1 \in Automatic
      BY <2>2, Numbers DEF Automatic
    <2>4. job' \in Queue
      BY <1>1, <1>4, <2>3, EnqueuedType DEF EnqueueNext
    <2> QED
      BY <1>4, <2>1, <2>4, TypeOfTask DEF EnqueueNext, KeepHistory, TypeInv, WebhookTypeOK
  <1>5. CASE CountFailure(a)
    <2>1. t.at \in Attempting
      BY <1>5 DEF CountFailure, At, Attempting
    <2>2. Sound([t EXCEPT !.at = "disable"])
      BY <1>1, <2>1 DEF Sound, Task, Attempting
    <2>3. PICK x : Sound(x) /\ Goes(a, x)
      BY <1>1, <1>5, <2>2, DoneSound DEF CountFailure, GoesTo
    <2>4. sub' \in [active: BOOLEAN, failures: Nat]
      BY <1>2, <1>5 DEF CountFailure
    <2>5. exhausted' \subseteq Event
      BY <1>1, <1>5 DEF CountFailure, TypeInv, WebhookTypeOK
    <2> QED
      BY <1>5, <2>3, <2>4, <2>5, TypeOfTask DEF CountFailure, TypeInv, WebhookTypeOK
  <1>6. CASE AutoDisable(a)
    <2>1. PICK x : Sound(x) /\ Goes(a, x)
      BY <1>1, <1>6, DoneSound DEF AutoDisable
    <2>2. sub' \in [active: BOOLEAN, failures: Nat]
      BY <1>2, <1>6 DEF AutoDisable
    <2> QED
      BY <1>6, <2>1, <2>2, TypeOfTask DEF AutoDisable, KeepHistory, TypeInv, WebhookTypeOK
  <1>7. CASE FinishJob(a)
    <2>1. t.attempt \in Automatic
      BY <1>1, <1>7 DEF FinishJob, At, Sound, Attempting
    <2>2. job' \in Queue
      BY <1>1, <1>2, <1>7, <2>1 DEF FinishJob
    <2> QED
      BY <1>7, <2>2, IdleSound, TypeOfTask DEF FinishJob, KeepHistory, TypeInv, WebhookTypeOK
  <1> QED
    BY <1>3, <1>4, <1>5, <1>6, <1>7

\* The sweep and the owner move no task.
LEMMA TypeOutside ==
  ASSUME TypeInv, Enable \/ Disable \/ \E e \in Event : SweepDelivery(e)
  PROVE  TypeInv'
  <1>1. UNCHANGED <<outbox, row, task, sent, manuals, crashes>>
    BY DEF Enable, Disable, SweepDelivery, KeepHistory
  <1>2. /\ sub' \in [active: BOOLEAN, failures: Nat]
        /\ exhausted' \subseteq Event /\ overtaken' \subseteq Event
    <2>0. /\ sub \in [active: BOOLEAN, failures: Nat]
          /\ exhausted \subseteq Event /\ overtaken \subseteq Event
      BY DEF TypeInv, WebhookTypeOK
    <2>1. CASE Enable
      BY <2>0, <2>1 DEF Enable
    <2>3. CASE Disable
      BY <2>0, <2>3 DEF Disable, KeepHistory
    <2>2. CASE \E e \in Event : SweepDelivery(e)
      BY <2>2 DEF SweepDelivery, TypeInv, WebhookTypeOK
    <2> QED
      BY <2>1, <2>2, <2>3
  <1>3. job' \in [Event -> [Automatic -> {"none", "waiting", "active", "finished"}]]
    <2>1. ASSUME NEW e \in Event, SweepDelivery(e)
          PROVE  job' \in [Event -> [Automatic -> {"none", "waiting", "active", "finished"}]]
      <3>1. row[e].attempts \in Nat /\ row[e].attempts < MAX_ATTEMPTS
        BY <2>1, Numbers DEF SweepDelivery, Stale, TypeInv, WebhookTypeOK, Attempt
      <3>2. row[e].attempts + 1 \in Automatic
        BY <3>1, Numbers DEF Automatic
      <3> QED
        BY <2>1, <3>2, EnqueuedType DEF SweepDelivery
    <2> QED
      BY <2>1 DEF Enable, Disable, TypeInv, WebhookTypeOK
  <1>4. WebhookTypeOK'
    BY <1>1, <1>2, <1>3 DEF TypeInv, WebhookTypeOK
  <1> QED
    BY <1>1, <1>4 DEF TypeInv, Sound

LEMMA TypeCrash ==
  ASSUME TypeInv, NEW a \in Actor, Crash(a)
  PROVE  TypeInv'
  <1> DEFINE t == task[a]
  <1>1. Sound(t) /\ t.event \in Event
    BY DEF Crash, At, TypeInv, Sound
  <1>2. job' \in [Event -> [Automatic -> {"none", "waiting", "active", "finished"}]]
    <2>1. \/ job' = job
          \/ \E s \in {"waiting", "finished"} : job' = [job EXCEPT ![t.event][t.attempt] = s]
      <3>1. job' \in {job} \/ job' \in Afterlife(t.event, t.attempt)
        BY DEF Crash
      <3> QED
        BY <3>1 DEF Afterlife, RunsAgain
    <2>2. job \in [Event -> [Automatic -> {"none", "waiting", "active", "finished"}]]
      BY DEF TypeInv, WebhookTypeOK
    <2> HIDE DEF t
    <2> QED
      BY <2>1, <2>2
  <1>3. crashes' \in Nat
    BY DEF Crash, TypeInv, WebhookTypeOK
  <1> QED
    BY <1>2, <1>3, IdleSound, TypeOfTask DEF Crash, TypeInv, WebhookTypeOK

LEMMA TypeStep == TypeInv /\ [WebhookNext]_webhookVars => TypeInv'
  <1> SUFFICES ASSUME TypeInv, [WebhookNext]_webhookVars PROVE TypeInv'
    OBVIOUS
  <1>0. Worker \subseteq Actor /\ Caller \subseteq Actor
    BY DEF Actor
  <1>1. ASSUME NEW a \in Actor, Works(a) PROVE TypeInv'
    BY <1>1, TypeAttempts, TypeAfter DEF Works
  <1>2. ASSUME NEW w \in Worker,
               Handles(w) \/ FanOutRaced(w) \/ Takes(w) \/ Produces(w)
        PROVE  TypeInv'
    BY <1>0, <1>1, <1>2, TypeProduces, TypeAfter, TypeTakes DEF Handles, Takes, Produces
  <1>3. ASSUME NEW c \in Caller, Works(c) \/ \E e \in Event : Redeliver(c, e) PROVE TypeInv'
    BY <1>0, <1>1, <1>3, TypeTakes
  <1>4. CASE UNCHANGED webhookVars
    BY <1>4 DEF webhookVars, TypeInv, WebhookTypeOK, Sound
  <1>5. CASE \E e \in Event : SweepDelivery(e)
    BY <1>5, TypeOutside
  <1>6. CASE Enable \/ Disable
    BY <1>6, TypeOutside
  <1>7. CASE \E a \in Actor : Crash(a)
    BY <1>7, TypeCrash
  <1> QED
    BY <1>2, <1>3, <1>4, <1>5, <1>6, <1>7 DEF WebhookNext

\* Every variable keeps its type, and no automatic attempt after the last is
\* queued, for any number of workers, callers, events, attempts and crashes
\* (deliverAttempt, enqueueDelivery, sweep).
THEOREM WebhookTypeCorrect == WebhookSpec => []WebhookTypeOK
  <1>1. TypeInv => WebhookTypeOK
    BY DEF TypeInv
  <1> QED
    BY <1>1, TypeInit, TypeStep, PTL DEF WebhookSpec

-----------------------------------------------------------------------------
(* A claim owns its attempt *)

Holding == {"send", "update", "after"}

\* a has claimed attempt n of e and not yet drawn all the consequences.
Holds(a, e, n) ==
  task[a].at \in Holding /\ task[a].event = e /\ task[a].attempt = n

\* Attempts are claimed in order, each by one task.
ClaimInv ==
  /\ \A a \in Actor : task[a].at \in Holding
       => task[a].attempt <= row[task[a].event].attempts
  /\ \A a, b \in Actor : Holds(b, task[a].event, task[a].attempt) /\ task[a].at \in Holding
       => a = b

\* Only a claimed attempt is sent, and not before its claim.
SentInv ==
  /\ \A e \in Event : \A n \in Attempt : sent[e][n] # 0 => n <= row[e].attempts
  /\ \A a \in Actor : task[a].at = "send" => sent[task[a].event][task[a].attempt] = 0
  /\ AttemptSentOnce

\* A delivery that was given up had its last attempt claimed, and its owner is done.
GivenUpInv ==
  /\ \A e \in exhausted : row[e].attempts >= MAX_ATTEMPTS
  /\ \A a \in Actor : task[a].at \in Holding /\ task[a].event \in exhausted /\ ~task[a].manual
       => task[a].attempt # MAX_ATTEMPTS
  /\ FailuresAreCounted

DeliveryInv == ClaimInv /\ SentInv /\ GivenUpInv

LEMMA DeliveryInit == WebhookInit => DeliveryInv
  <1> SUFFICES ASSUME WebhookInit PROVE DeliveryInv
    OBVIOUS
  <1>1. \A a \in Actor : task[a].at = "idle"
    BY DEF WebhookInit, Idle
  <1>2. ClaimInv
    BY <1>1 DEF ClaimInv, Holding
  <1>3. SentInv
    BY <1>1 DEF SentInv, AttemptSentOnce, WebhookInit
  <1>4. GivenUpInv
    <2>1. exhausted = {} /\ sub.failures = 0
      BY DEF WebhookInit
    <2> QED
      BY <1>1, <2>1, FS_EmptySet DEF GivenUpInv, Holding, FailuresAreCounted
  <1> QED
    BY <1>2, <1>3, <1>4 DEF DeliveryInv

\* Nothing is claimed, sent or given up; failures are at most forgotten.
Uneventful ==
  /\ sent' = sent /\ exhausted' = exhausted
  /\ sub'.failures \in {0, sub.failures}
  /\ \A e \in Event : row'[e].attempts = row[e].attempts

LEMMA CountIsNat == TypeInv => Cardinality(exhausted) \in Nat /\ IsFiniteSet(exhausted)
  BY WebhookAssumption, FS_Subset, FS_CardinalityType DEF TypeInv, WebhookTypeOK

\* A task that moves without claiming or sending disturbs nothing.
LEMMA QuietStep ==
  ASSUME TypeInv, DeliveryInv, Uneventful, NEW a \in Actor, NEW t, Goes(a, t),
         t.at \in Holding =>
           /\ task[a].at \in Holding /\ t.at # "send" /\ t.event = task[a].event
           /\ t.attempt = task[a].attempt /\ t.manual = task[a].manual
  PROVE  DeliveryInv'
  <1>1. \A b \in Actor : task'[b] = IF b = a THEN t ELSE task[b]
    BY DEF Goes, TypeInv, WebhookTypeOK
  <1>2. \A b \in Actor : task'[b].at \in Holding =>
          /\ task[b].at \in Holding /\ (task'[b].at = "send" => task[b].at = "send")
          /\ task'[b].event = task[b].event /\ task[b].event \in Event
          /\ task'[b].attempt = task[b].attempt /\ task'[b].manual = task[b].manual
    BY <1>1 DEF TypeInv, Sound, Holding
  <1>3. ClaimInv'
    BY <1>2 DEF DeliveryInv, ClaimInv, Holds, Uneventful
  <1>4. SentInv'
    BY <1>2 DEF DeliveryInv, SentInv, AttemptSentOnce, Uneventful, Holding
  <1>5. GivenUpInv'
    <2>1. exhausted \subseteq Event
      BY DEF TypeInv, WebhookTypeOK
    <2>2. FailuresAreCounted'
      BY CountIsNat DEF Uneventful, DeliveryInv, GivenUpInv, FailuresAreCounted
    <2> QED
      BY <1>2, <2>1, <2>2 DEF DeliveryInv, GivenUpInv, Uneventful
  <1> QED
    BY <1>3, <1>4, <1>5 DEF DeliveryInv

\* The return of a handler is quiet.
LEMMA DoneQuiet ==
  ASSUME TypeInv, DeliveryInv, Uneventful, NEW a \in Actor, task[a].at # "idle", Done(a)
  PROVE  DeliveryInv'
  <1>1. PICK t : Goes(a, t) /\ t.at \in {"idle", "finish"}
    BY DoneSound
  <1> QED
    BY <1>1, QuietStep DEF Holding

LEMMA DeliveryClaim ==
  ASSUME TypeInv, DeliveryInv, NEW a \in Actor, Claim(a)
  PROVE  DeliveryInv'
  <1> DEFINE e == task[a].event
             n == task[a].attempt
  <1>1. /\ task[a].at = "claim" /\ task[a] \in Task /\ e \in Event
        /\ n \in Attempt /\ n \in Nat
    BY Numbers DEF Claim, At, TypeInv, Sound, Attempting, Task, Attempt
  <1>2. /\ UNCHANGED <<outbox, job, sub, sent, exhausted, overtaken, manuals, crashes>>
    BY DEF Claim, KeepHistory
  <1>3. CASE ~Unclaimed(e, n)
    BY <1>1, <1>2, <1>3, DoneQuiet DEF Claim, Uneventful
  <1>4. CASE Unclaimed(e, n)
    <2>1. /\ row' = [row EXCEPT ![e].attempts = n]
          /\ task' = [task EXCEPT ![a] = [task[a] EXCEPT !.at = "send"]]
          /\ row[e].attempts = n - 1
      BY <1>4 DEF Claim, GoesTo, Goes, Unclaimed
    <2>2. /\ row'[e].attempts = n
          /\ \A f \in Event : f # e => row'[f].attempts = row[f].attempts
          /\ \A f \in Event : row[f].attempts \in Nat
      BY <1>1, <2>1, Numbers DEF TypeInv, WebhookTypeOK, Attempt
    <2>3. /\ task'[a].at = "send" /\ task'[a].event = e /\ task'[a].attempt = n
          /\ task'[a].manual = task[a].manual
          /\ \A b \in Actor : b # a => task'[b] = task[b]
      BY <1>1, <2>1 DEF TypeInv, WebhookTypeOK, Task
    <2>4. \A b \in Actor : /\ task[b].attempt \in Nat
                           /\ task[b].at \in Holding => task[b].event \in Event
      BY Numbers DEF TypeInv, Sound, Task, Attempt, Holding
    <2>5. \A f \in Event : row[f].attempts <= row'[f].attempts
      BY <1>1, <2>1, <2>2
    <2> HIDE DEF e, n
    <2>6. ClaimInv'
      <3>1. \A b \in Actor : task'[b].at \in Holding
              => task'[b].attempt <= row'[task'[b].event].attempts
        <4>1. ASSUME NEW b \in Actor, b # a, task'[b].at \in Holding
              PROVE  task'[b].attempt <= row'[task'[b].event].attempts
          <5>1. task[b].attempt <= row[task[b].event].attempts
            BY <2>3, <4>1 DEF DeliveryInv, ClaimInv
          <5>2. row[task[b].event].attempts <= row'[task[b].event].attempts
            BY <2>3, <2>4, <2>5, <4>1
          <5>3. row'[task[b].event].attempts \in Nat
            BY <1>1, <2>2, <2>3, <2>4, <4>1
          <5> QED
            BY <2>2, <2>3, <2>4, <4>1, <5>1, <5>2, <5>3
        <4> QED
          BY <1>1, <2>2, <2>3, <4>1
      <3>2. ASSUME NEW b \in Actor, b # a, task[b].at \in Holding, task[b].event = e
            PROVE  task[b].attempt # n
        <4>1. task[b].attempt <= n - 1
          BY <2>1, <3>2 DEF DeliveryInv, ClaimInv
        <4> QED
          BY <1>1, <2>4, <4>1
      <3>3. ASSUME NEW b \in Actor, NEW c \in Actor, task'[b].at \in Holding,
                   Holds(c, task[b].event, task[b].attempt)'
            PROVE  b = c
        BY <2>3, <3>2, <3>3 DEF Holds, DeliveryInv, ClaimInv
      <3> QED
        BY <3>1, <3>3 DEF ClaimInv
    <2>7. SentInv'
      <3>1. ASSUME NEW f \in Event, NEW k \in Attempt, sent[f][k] # 0
            PROVE  k <= row'[f].attempts
        <4>1. k <= row[f].attempts /\ row[f].attempts <= row'[f].attempts
          BY <2>5, <3>1 DEF DeliveryInv, SentInv
        <4> QED
          BY <1>1, <2>2, <4>1 DEF Attempt
      <3>2. sent[e][n] = 0
        BY <1>1, <2>1 DEF DeliveryInv, SentInv
      <3> QED
        BY <1>2, <2>3, <3>1, <3>2 DEF DeliveryInv, SentInv, AttemptSentOnce
    <2>8. GivenUpInv'
      <3>1. ASSUME NEW f \in exhausted PROVE row'[f].attempts >= MAX_ATTEMPTS
        <4>1. f \in Event /\ row[f].attempts >= MAX_ATTEMPTS
          BY <3>1 DEF DeliveryInv, GivenUpInv, TypeInv, WebhookTypeOK
        <4> QED
          BY <1>1, <2>2, <2>5, <4>1, Numbers
      <3>2. e \in exhausted => n # MAX_ATTEMPTS
        BY <1>1, <2>1, Numbers DEF DeliveryInv, GivenUpInv
      <3> QED
        BY <1>2, <2>3, <3>1, <3>2 DEF DeliveryInv, GivenUpInv, FailuresAreCounted
    <2> QED
      BY <2>6, <2>7, <2>8 DEF DeliveryInv
  <1> QED
    BY <1>3, <1>4

LEMMA DeliverySend ==
  ASSUME TypeInv, DeliveryInv, NEW a \in Actor, Send(a)
  PROVE  DeliveryInv'
  <1> DEFINE e == task[a].event
             n == task[a].attempt
  <1>1. /\ task[a].at = "send" /\ task[a] \in Task /\ e \in Event /\ n \in Attempt
        /\ UNCHANGED <<row, sub, exhausted>>
        /\ sent' = [sent EXCEPT ![e][n] = @ + 1]
    BY DEF Send, At, TypeInv, Sound, Attempting, Task
  <1>2. /\ task'[a].at = "update" /\ task'[a].event = e /\ task'[a].attempt = n
        /\ task'[a].manual = task[a].manual
        /\ \A b \in Actor : b # a => task'[b] = task[b]
    BY <1>1 DEF Send, Goes, TypeInv, WebhookTypeOK, Task
  <1>3. /\ sent[e][n] = 0 /\ n <= row[e].attempts
        /\ \A b \in Actor : task[b].at = "send" /\ task[b].event = e /\ task[b].attempt = n
             => a = b
    BY <1>1 DEF DeliveryInv, ClaimInv, SentInv, Holds, Holding
  <1>4. \A f \in Event : \A k \in Attempt :
          sent'[f][k] = IF f = e /\ k = n THEN 1 ELSE sent[f][k]
    BY <1>1, <1>3 DEF TypeInv, WebhookTypeOK
  <1>5. \A b \in Actor : task[b].at = "send" => task[b].event \in Event /\ task[b].attempt \in Attempt
    BY DEF TypeInv, Sound, Task, Attempting
  <1> HIDE DEF e, n
  <1>6. ClaimInv'
    <2>1. \A b \in Actor : task'[b].at \in Holding =>
            task[b].at \in Holding /\ task'[b].event = task[b].event
            /\ task'[b].attempt = task[b].attempt
      BY <1>1, <1>2 DEF Holding, e, n
    <2> QED
      BY <1>1, <2>1 DEF DeliveryInv, ClaimInv, Holds
  <1>7. SentInv'
    <2>1. \A f \in Event : \A k \in Attempt : sent'[f][k] # 0 => k <= row'[f].attempts
      BY <1>1, <1>3, <1>4 DEF DeliveryInv, SentInv
    <2>2. ASSUME NEW b \in Actor, task'[b].at = "send"
          PROVE  sent'[task'[b].event][task'[b].attempt] = 0
      <3>1. b # a /\ task'[b] = task[b] /\ task[b].at = "send"
        BY <1>2, <2>2
      <3>2. ~(task[b].event = e /\ task[b].attempt = n)
        BY <1>3, <3>1
      <3> QED
        BY <1>4, <1>5, <3>1, <3>2 DEF DeliveryInv, SentInv
    <2>3. AttemptSentOnce'
      BY <1>4 DEF DeliveryInv, SentInv, AttemptSentOnce
    <2> QED
      BY <2>1, <2>2, <2>3 DEF SentInv
  <1>8. GivenUpInv'
    BY <1>1, <1>2 DEF DeliveryInv, GivenUpInv, FailuresAreCounted, Holding, e, n
  <1> QED
    BY <1>6, <1>7, <1>8 DEF DeliveryInv

\* A failure is counted by the task that owns the last attempt, which nobody has
\* counted before.
LEMMA DeliveryCount ==
  ASSUME TypeInv, DeliveryInv, NEW a \in Actor, CountFailure(a)
  PROVE  DeliveryInv'
  <1> DEFINE t == task[a]
             e == task[a].event
  <1>1. /\ t.at = "after" /\ t \in Task /\ e \in Event /\ t.attempt \in Nat /\ t.attempt # 0
        /\ ~t.manual => t.attempt \in Automatic
    BY Numbers DEF CountFailure, At, TypeInv, Sound, Attempting, Task, Attempt
  <1>2. /\ UNCHANGED <<row, sent>> /\ ~t.ok /\ Decision(t) = "FAILED"
        /\ exhausted' = IF ~t.manual /\ t.attempt = MAX_ATTEMPTS
                        THEN exhausted \cup {e} ELSE exhausted
    BY DEF CountFailure
  <1>3. PICK x : Goes(a, x) /\ x.at \in {"idle", "finish", "disable"}
    BY <1>1, DoneSound DEF CountFailure, GoesTo, Task
  <1>4. Counts(t) <=> ~t.manual /\ t.attempt = MAX_ATTEMPTS
    BY <1>1, <1>2, Numbers DEF Counts, Decision, Automatic
  <1>5. sub'.failures = IF Counts(t) THEN sub.failures + 1 ELSE sub.failures
    BY DEF CountFailure, TypeInv, WebhookTypeOK
  <1>6. \A b \in Actor : task'[b] = IF b = a THEN x ELSE task[b]
    BY <1>3 DEF Goes, TypeInv, WebhookTypeOK
  <1>7. \A b \in Actor : task'[b].at \in Holding => b # a /\ task'[b] = task[b]
    BY <1>3, <1>6 DEF Holding
  <1>8. ClaimInv' /\ SentInv'
    <2>1. ClaimInv'
      BY <1>2, <1>7 DEF DeliveryInv, ClaimInv, Holds
    <2>2. SentInv'
      BY <1>2, <1>7 DEF DeliveryInv, SentInv, AttemptSentOnce, Holding
    <2> QED
      BY <2>1, <2>2
  <1>9. CASE ~Counts(t)
    BY <1>2, <1>4, <1>5, <1>7, <1>8, <1>9 DEF DeliveryInv, GivenUpInv, FailuresAreCounted
  <1>10. CASE Counts(t)
    <2>1. /\ ~t.manual /\ t.attempt = MAX_ATTEMPTS /\ exhausted' = exhausted \cup {e}
      BY <1>2, <1>4, <1>10
    <2>2. e \notin exhausted /\ MAX_ATTEMPTS <= row[e].attempts
      BY <1>1, <2>1 DEF DeliveryInv, GivenUpInv, ClaimInv, Holding
    <2>3. ASSUME NEW b \in Actor, task'[b].at \in Holding, task'[b].event = e
          PROVE  task'[b].attempt # MAX_ATTEMPTS
      <3>1. b # a /\ task[b].at \in Holding /\ task[b].event = e /\ task'[b] = task[b]
        BY <1>7, <2>3
      <3> QED
        BY <1>1, <2>1, <3>1 DEF DeliveryInv, ClaimInv, Holds, Holding
    <2>4. Cardinality(exhausted') = Cardinality(exhausted) + 1
      BY <2>1, <2>2, CountIsNat, FS_AddElement
    <2>5. FailuresAreCounted'
      BY <1>5, <1>10, <2>4, CountIsNat
      DEF DeliveryInv, GivenUpInv, FailuresAreCounted, TypeInv, WebhookTypeOK
    <2>6. \A f \in exhausted' : row'[f].attempts >= MAX_ATTEMPTS
      <3>1. row[e].attempts \in Nat
        BY <1>1, Numbers DEF TypeInv, WebhookTypeOK, Attempt
      <3>2. \A f \in exhausted : row[f].attempts >= MAX_ATTEMPTS
        BY DEF DeliveryInv, GivenUpInv
      <3> QED
        BY <1>2, <2>1, <2>2, <3>1, <3>2, Numbers
    <2>7. \A b \in Actor : task'[b].at \in Holding /\ task'[b].event \in exhausted'
            /\ ~task'[b].manual => task'[b].attempt # MAX_ATTEMPTS
      BY <1>7, <2>1, <2>3 DEF DeliveryInv, GivenUpInv
    <2> QED
      BY <1>8, <2>5, <2>6, <2>7 DEF DeliveryInv, GivenUpInv
  <1> QED
    BY <1>9, <1>10

\* The other steps of an attempt, and those of a producer, are quiet.
LEMMA DeliveryQuiet ==
  ASSUME TypeInv, DeliveryInv, NEW a \in Actor,
         \/ ReadDelivery(a) \/ UpdateDelivery(a) \/ ResetFailures(a) \/ EnqueueNext(a)
         \/ AutoDisable(a) \/ FanOut(a) \/ FanOutRaced(a) \/ EnqueueFirst(a)
         \/ MarkDispatched(a) \/ FinishJob(a) \/ Crash(a)
         \/ \E e \in Event : \/ Produce(a, e) \/ Redeliver(a, e)
                            \/ \E n \in Automatic : TakeJob(a, e, n)
  PROVE  DeliveryInv'
  <1> DEFINE e == task[a].event
  <1>1. task[a].at # "idle" => task[a] \in Task /\ e \in Event
    BY DEF TypeInv, Sound
  <1>2. ASSUME NEW status, e \in Event, row' = row \/ row' = [row EXCEPT ![e].status = status]
        PROVE  \A f \in Event : row'[f].attempts = row[f].attempts
    <2> HIDE DEF e
    <2>1. ASSUME NEW f \in Event
          PROVE  /\ row[f] \in [status: Trying \cup Concluded \cup {"NONE"}, attempts: {0} \cup Attempt]
                 /\ row'[f] \in {row[f], [row[f] EXCEPT !.status = status]}
      BY <1>2 DEF TypeInv, WebhookTypeOK
    <2> QED
      BY <2>1
  <1>3. CASE ReadDelivery(a)
    <2>1. Uneventful
      BY <1>1, <1>2, <1>3 DEF ReadDelivery, At, Uneventful, KeepHistory
    <2>2. Done(a) \/ GoesTo(a, "claim") \/ Goes(a, [task[a] EXCEPT !.at = "claim",
                                                            !.reset = (sub.failures # 0)])
      BY <1>3 DEF ReadDelivery
    <2>3. [task[a] EXCEPT !.at = "claim", !.reset = (sub.failures # 0)].at = "claim"
          /\ [task[a] EXCEPT !.at = "claim"].at = "claim" /\ task[a].at # "idle"
      BY <1>1, <1>3 DEF ReadDelivery, At, Task
    <2> QED
      BY <2>1, <2>2, <2>3, DoneQuiet, QuietStep DEF GoesTo, Holding
  <1>4. CASE UpdateDelivery(a)
    <2>1. Uneventful
      BY <1>1, <1>2, <1>4 DEF UpdateDelivery, At, Uneventful, KeepHistory
    <2>2. LET t == [task[a] EXCEPT !.at = "after"]
          IN  /\ Goes(a, t) /\ task[a].at = "update" /\ t.at = "after" /\ t.event = e
              /\ t.attempt = task[a].attempt /\ t.manual = task[a].manual
      BY <1>1, <1>4 DEF UpdateDelivery, At, GoesTo, Task
    <2> QED
      BY <2>1, <2>2, QuietStep DEF Holding
  <1>5. CASE ResetFailures(a) \/ EnqueueNext(a) \/ AutoDisable(a) \/ MarkDispatched(a)
    <2>1. Uneventful
      BY <1>5 DEF ResetFailures, EnqueueNext, AutoDisable, MarkDispatched, Uneventful,
                  KeepHistory, TypeInv, WebhookTypeOK
    <2> QED
      BY <1>5, <2>1, DoneQuiet DEF ResetFailures, EnqueueNext, AutoDisable, MarkDispatched, At
  <1>6. CASE FanOut(a) \/ FanOutRaced(a) \/ EnqueueFirst(a)
    <2>1. task[a].at # "idle" /\ (row' = row \/ row' = [row EXCEPT ![e].status = "PENDING"])
      BY <1>6 DEF FanOut, FanOutRaced, EnqueueFirst, At
    <2>2. UNCHANGED <<sent, exhausted, sub>>
      BY <1>6 DEF FanOut, FanOutRaced, EnqueueFirst, KeepHistory
    <2>3. Uneventful
      BY <1>1, <1>2, <2>1, <2>2 DEF Uneventful
    <2>4. PICK place \in {"first", "mark"} : GoesTo(a, place)
      BY <1>6 DEF FanOut, FanOutRaced, EnqueueFirst
    <2>5. [task[a] EXCEPT !.at = place].at = place
      BY <1>1, <2>1 DEF Task
    <2> QED
      BY <2>3, <2>4, <2>5, QuietStep DEF GoesTo, Holding
  <1>7. CASE FinishJob(a) \/ Crash(a)
    <2>1. Uneventful /\ Goes(a, Idle)
      BY <1>7 DEF FinishJob, Crash, Uneventful, KeepHistory
    <2> QED
      BY <2>1, QuietStep DEF Idle, Holding
  <1>8. ASSUME NEW f \in Event,
               \/ Produce(a, f) \/ Redeliver(a, f) \/ \E n \in Automatic : TakeJob(a, f, n)
        PROVE  DeliveryInv'
    <2>1. Uneventful
      BY <1>8 DEF Produce, Redeliver, TakeJob, Uneventful, KeepHistory
    <2>2. PICK t : Goes(a, t) /\ t.at \in {"fan", "read"}
      <3>1. CASE Produce(a, f)
        <4>1. Goes(a, [Idle EXCEPT !.at = "fan", !.event = f])
          BY <3>1 DEF Produce
        <4>2. [Idle EXCEPT !.at = "fan", !.event = f].at \in {"fan", "read"}
          BY DEF Idle
        <4> QED
          BY <4>1, <4>2
      <3>2. CASE Redeliver(a, f)
        <4>1. Goes(a, [Idle EXCEPT !.at = "read", !.event = f,
                         !.attempt = row[f].attempts + 1, !.manual = TRUE])
          BY <3>2 DEF Redeliver
        <4>2. [Idle EXCEPT !.at = "read", !.event = f,
                         !.attempt = row[f].attempts + 1, !.manual = TRUE].at \in {"fan", "read"}
          BY DEF Idle
        <4> QED
          BY <4>1, <4>2
      <3>3. ASSUME NEW n \in Automatic, TakeJob(a, f, n)
            PROVE  \E t : Goes(a, t) /\ t.at \in {"fan", "read"}
        <4>1. Goes(a, [Idle EXCEPT !.at = "read", !.event = f, !.attempt = n])
          BY <3>3 DEF TakeJob
        <4>2. [Idle EXCEPT !.at = "read", !.event = f, !.attempt = n].at \in {"fan", "read"}
          BY DEF Idle
        <4> QED
          BY <4>1, <4>2
      <3> QED
        BY <1>8, <3>1, <3>2, <3>3
    <2> QED
      BY <2>1, <2>2, QuietStep DEF Holding
  <1> QED
    BY <1>3, <1>4, <1>5, <1>6, <1>7, <1>8

LEMMA DeliveryOutside ==
  ASSUME TypeInv, DeliveryInv, Enable \/ Disable \/ \E e \in Event : SweepDelivery(e)
  PROVE  DeliveryInv'
  <1>1. UNCHANGED <<row, task, sent>>
    BY DEF Enable, Disable, SweepDelivery, KeepHistory
  <1>2. exhausted' \subseteq exhausted /\ FailuresAreCounted'
    <2>1. CASE Enable
      BY <2>1, FS_EmptySet DEF Enable, FailuresAreCounted
    <2>2. CASE Disable
      BY <2>2 DEF Disable, KeepHistory, DeliveryInv, GivenUpInv, FailuresAreCounted,
                  TypeInv, WebhookTypeOK
    <2>3. CASE \E e \in Event : SweepDelivery(e)
      BY <2>3 DEF SweepDelivery, DeliveryInv, GivenUpInv, FailuresAreCounted
    <2> QED
      BY <2>1, <2>2, <2>3
  <1>3. ClaimInv' /\ SentInv'
    BY <1>1 DEF DeliveryInv, ClaimInv, SentInv, AttemptSentOnce, Holds
  <1>4. GivenUpInv'
    BY <1>1, <1>2 DEF DeliveryInv, GivenUpInv
  <1> QED
    BY <1>3, <1>4 DEF DeliveryInv

LEMMA DeliveryStep == TypeInv /\ DeliveryInv /\ [WebhookNext]_webhookVars => DeliveryInv'
  <1> SUFFICES ASSUME TypeInv, DeliveryInv, [WebhookNext]_webhookVars PROVE DeliveryInv'
    OBVIOUS
  <1>0. Worker \subseteq Actor /\ Caller \subseteq Actor
    BY DEF Actor
  <1>1. ASSUME NEW a \in Actor, Works(a) PROVE DeliveryInv'
    BY <1>1, DeliveryQuiet, DeliveryClaim, DeliverySend, DeliveryCount DEF Works
  <1>2. ASSUME NEW w \in Worker,
               Handles(w) \/ FanOutRaced(w) \/ Takes(w) \/ Produces(w)
        PROVE  DeliveryInv'
    BY <1>0, <1>1, <1>2, DeliveryQuiet DEF Handles, Takes, Produces
  <1>3. ASSUME NEW c \in Caller, Works(c) \/ \E e \in Event : Redeliver(c, e)
        PROVE  DeliveryInv'
    BY <1>0, <1>1, <1>3, DeliveryQuiet
  <1>4. CASE UNCHANGED webhookVars
    BY <1>4 DEF webhookVars, DeliveryInv, ClaimInv, SentInv, GivenUpInv, AttemptSentOnce,
                FailuresAreCounted, Holds
  <1>5. CASE Enable \/ Disable \/ \E e \in Event : SweepDelivery(e)
    BY <1>5, DeliveryOutside
  <1>6. CASE \E a \in Actor : Crash(a)
    BY <1>6, DeliveryQuiet
  <1> QED
    BY <1>2, <1>3, <1>4, <1>5, <1>6 DEF WebhookNext

LEMMA DeliveryCorrect == WebhookSpec => [](TypeInv /\ DeliveryInv)
  BY TypeInit, TypeStep, DeliveryInit, DeliveryStep, PTL DEF WebhookSpec

\* No attempt number is sent twice, whoever handles the delivery: the compare on
\* "attempts" in deliverAttempt makes a claim exclusive.
THEOREM SentOnce == WebhookSpec => []AttemptSentOnce
  <1>1. DeliveryInv => AttemptSentOnce
    BY DEF DeliveryInv, SentInv
  <1> QED
    BY <1>1, DeliveryCorrect, PTL

\* The failure counter that disables an endpoint never exceeds the deliveries that
\* were given up since it was enabled (deliverAttempt, autoDisable, update).
THEOREM CountedOnce == WebhookSpec => []FailuresAreCounted
  <1>1. DeliveryInv => FailuresAreCounted
    BY DEF DeliveryInv, GivenUpInv
  <1> QED
    BY <1>1, DeliveryCorrect, PTL

=============================================================================
