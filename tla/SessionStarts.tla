---------------------------- MODULE SessionStarts ----------------------------
(***************************************************************************)
(* How a session is started from outside: by a participant with a share    *)
(* link or an access token (access/public-run.service.ts and               *)
(* access/access.service.ts), and by an API client that sends an           *)
(* Idempotency-Key (developer/v1).  All of them end in createSession       *)
(* (runtime/sessions.service.ts).  A participant's start takes a use of    *)
(* the pass and gives it back when it fails, under a lock per email when   *)
(* attempts are limited; the API's keeps one record per key.  Requests run *)
(* side by side; any write of theirs may fail, and their process may die.  *)
(***************************************************************************)
EXTENDS Integers, FiniteSets

CONSTANTS
  Request,   \* the requests, each sent once
  MaxUses,   \* ShareLink.maxUses, AccessToken.maxUses
  Limit,     \* attempts per email
  MaxFaults, \* bound on deaths and failing repairs
  None

\* The result of a record, and the answer, that is an error.
Refusal == "refused"

ASSUME StartAssumption ==
  /\ MaxUses \in Nat /\ Limit \in Nat /\ MaxFaults \in Nat
  /\ IsFiniteSet(Request) /\ None \notin Request /\ Refusal \notin Request

VARIABLES
  request, \* what each request does
  pass,    \* the link or token: uses taken, revoked or expired
  lock,    \* whose token the email's lock holds
  lapsed,  \* a lock ran out while its owner was at work
  session, \* the session a request has made
  record,  \* the IdempotencyRecord of the key
  answer,  \* what each request was answered
  faults

vars == <<request, pass, lock, lapsed, session, record, answer, faults>>

locks == <<lock, lapsed>>

-----------------------------------------------------------------------------
(* Data *)

\* With an email under an attempt limit, without one, or with a key.
Via == {"email", "pass", "key"}

\* tries: loops of claim() left; seen: the owner of the record it read.
Idle == [via |-> None, step |-> "idle", tries |-> 2, seen |-> None]

\* A record holds None while its owner runs, then the session made or the error.
NoRecord == [owner |-> None, result |-> None]

Init ==
  /\ request = [r \in Request |-> Idle]
  /\ pass = [uses |-> 0, gone |-> FALSE]
  /\ lock = None /\ lapsed = FALSE
  /\ session = [r \in Request |-> "none"]
  /\ record = NoRecord
  /\ answer = [r \in Request |-> None]
  /\ faults = 0

At(r, via, step) == request[r].step = step /\ request[r].via \in via
Goes(r, step) == request' = [request EXCEPT ![r].step = step]

\* The answer of a request: its own session, another's, or an error.
Answers(r, what) == Goes(r, "done") /\ answer' = [answer EXCEPT ![r] = what]

\* Sessions of the email that count as attempts.
Attempts == {r \in Request : request[r].via = "email" /\ session[r] = "counted"}

-----------------------------------------------------------------------------
(* A participant's start *)

\* The pass is looked at first, without any effect.
Arrive(r) ==
  /\ request[r].step = "idle"
  /\ \E via \in {"email", "pass"} :
       request' = [request EXCEPT ![r].via = via, ![r].step =
         IF pass.gone \/ pass.uses >= MaxUses THEN "refuse" ELSE IF via = "email" THEN "lock" ELSE "use"]
  /\ UNCHANGED <<pass, locks, session, record, answer, faults>>

\* withEmailLock: SET NX PX.
Lock(r) ==
  /\ At(r, {"email"}, "lock")
  /\ IF lock = None THEN lock' = r /\ Goes(r, "count") ELSE UNCHANGED lock /\ Goes(r, "refuse")
  /\ UNCHANGED <<pass, lapsed, session, record, answer, faults>>

\* The email's sessions of this pass, ended ones included, against the limit.
Count(r) ==
  /\ At(r, {"email"}, "count")
  /\ Goes(r, IF Cardinality(Attempts) >= Limit THEN "refuse" ELSE "use")
  /\ UNCHANGED <<pass, locks, session, record, answer, faults>>

\* The conditional update: one use, if the pass still has one.
Use(r) ==
  /\ At(r, {"email", "pass"}, "use")
  /\ IF ~pass.gone /\ pass.uses < MaxUses
     THEN pass' = [pass EXCEPT !.uses = @ + 1] /\ Goes(r, "create")
     ELSE UNCHANGED pass /\ Goes(r, "refuse")
  /\ UNCHANGED <<locks, session, record, answer, faults>>

\* Mutant: the use is kept.
KeepsTheUse(r) ==
  /\ At(r, {"email", "pass"}, "failed") /\ Goes(r, "refuse")
  /\ UNCHANGED <<pass, locks, session, record, answer, faults>>

\* createSession threw: the use is given back, if that does not fail as well.
GiveBack(r) ==
  /\ At(r, {"email", "pass"}, "failed")
  /\ \/ pass' = [pass EXCEPT !.uses = IF @ > 0 THEN @ - 1 ELSE 0] /\ UNCHANGED faults
     \/ faults < MaxFaults /\ faults' = faults + 1 /\ UNCHANGED pass
  /\ Goes(r, "refuse")
  /\ UNCHANGED <<locks, session, record, answer>>

\* Mutant: whoever holds the lock by now loses it.
UnlocksAny(r) == lock' = IF request[r].via = "email" THEN None ELSE lock

\* The finally of withEmailLock: a request takes away no lock but its own.
Unlock(r) == lock' = IF lock = r THEN None ELSE lock

\* The answer, after the lock is released.
Finish(r) ==
  /\ \/ At(r, {"email", "pass"}, "made") /\ Answers(r, r)
     \/ At(r, {"email", "pass"}, "refuse") /\ Answers(r, Refusal)
  /\ Unlock(r)
  /\ UNCHANGED <<pass, lapsed, session, record, faults>>

-----------------------------------------------------------------------------
(* createSession *)

\* Refused (the quota, a provider, a missing version), or the row is written.
\* The API's handler refuses some requests for good.
Create(r) ==
  /\ At(r, Via, "create")
  /\ \/ Goes(r, "failed") /\ UNCHANGED session
     \/ At(r, {"key"}, "create") /\ Goes(r, "invalid") /\ UNCHANGED session
     \/ Goes(r, "event") /\ session' = [session EXCEPT ![r] = "counted"]
  /\ UNCHANGED <<pass, locks, record, answer, faults>>

\* session.created is written, for the API the audit record too, or that fails.
Event(r) ==
  /\ At(r, Via, "event") /\ (Goes(r, "made") \/ Goes(r, "failed"))
  /\ UNCHANGED <<pass, locks, session, record, answer, faults>>

-----------------------------------------------------------------------------
(* The API's start: IdempotencyInterceptor *)

Sent(r) ==
  /\ request[r].step = "idle"
  /\ request' = [request EXCEPT ![r].via = "key", ![r].step = "claim"]
  /\ UNCHANGED <<pass, locks, session, record, answer, faults>>

\* The record is created unless the key has one.
Claim(r) ==
  /\ At(r, {"key"}, "claim")
  /\ IF record = NoRecord
     THEN record' = [NoRecord EXCEPT !.owner = r] /\ Goes(r, "create")
     ELSE Goes(r, "look") /\ UNCHANGED record
  /\ UNCHANGED <<pass, locks, session, answer, faults>>

\* The next round of the loop, if there is one.
Again(r) ==
  /\ request' = [request EXCEPT ![r].tries = @ - 1,
                               ![r].step = IF request[r].tries > 1 THEN "claim" ELSE "done"]
  /\ answer' = IF request[r].tries > 1 THEN answer ELSE [answer EXCEPT ![r] = Refusal]

\* The record is read: gone, finished, in progress, or in progress for so long
\* (five minutes) that its owner is taken for dead.
Look(r) ==
  /\ At(r, {"key"}, "look")
  /\ CASE record = NoRecord      -> Again(r)
       [] record.result # None   -> Answers(r, record.result)
       [] OTHER ->
            \/ Answers(r, Refusal)
            \/ /\ request' = [request EXCEPT ![r].step = "take", ![r].seen = record.owner]
               /\ UNCHANGED answer
  /\ UNCHANGED <<pass, locks, session, record, faults>>

\* Mutant: the record is deleted though it was finished meanwhile.
TakesFinished(r) ==
  /\ At(r, {"key"}, "take")
  /\ record' = IF record.owner = request[r].seen THEN NoRecord ELSE record
  /\ Again(r)
  /\ UNCHANGED <<pass, locks, session, faults>>

\* The record that was read is deleted if it is still in progress.
Take(r) ==
  /\ At(r, {"key"}, "take")
  /\ record' = IF record.owner = request[r].seen /\ record.result = None THEN NoRecord ELSE record
  /\ Again(r)
  /\ UNCHANGED <<pass, locks, session, faults>>

\* The result is stored, then answered.  That fails if the record was taken over.
Store(r) ==
  /\ At(r, {"key"}, "made")
  /\ \/ record.owner = r /\ record' = [record EXCEPT !.result = r] /\ Answers(r, r)
     \/ Goes(r, "failed") /\ UNCHANGED <<record, answer>>
  /\ UNCHANGED <<pass, locks, session, faults>>

\* An error that will not change is stored, if that works, and thrown.
StoreError(r) ==
  /\ At(r, {"key"}, "invalid") /\ Answers(r, Refusal)
  /\ \/ record.owner = r /\ record' = [record EXCEPT !.result = Refusal]
     \/ UNCHANGED record
  /\ UNCHANGED <<pass, locks, session, faults>>

\* Any other error frees the key, if that works, and is thrown.
Free(r) ==
  /\ At(r, {"key"}, "failed") /\ Answers(r, Refusal)
  /\ \/ record.owner = r /\ record' = NoRecord
     \/ UNCHANGED record
  /\ UNCHANGED <<pass, locks, session, faults>>

-----------------------------------------------------------------------------
(* The rest of the world *)

\* The organizer revokes the pass, or it expires.
Goner ==
  /\ ~pass.gone /\ pass' = [pass EXCEPT !.gone = TRUE]
  /\ UNCHANGED <<request, locks, session, record, answer, faults>>

\* The lock's twenty seconds are over.
Lapse ==
  /\ lock # None /\ lock' = None
  /\ lapsed' = (lapsed \/ request[lock].step # "dead")
  /\ UNCHANGED <<request, pass, session, record, answer, faults>>

\* A session is cancelled or expires before it starts: no attempt.
Voids(r) ==
  /\ session[r] = "counted" /\ session' = [session EXCEPT ![r] = "void"]
  /\ UNCHANGED <<request, pass, locks, record, answer, faults>>

\* The process of a request dies.
Crash(r) ==
  /\ request[r].step \notin {"idle", "done", "dead"} /\ faults < MaxFaults
  /\ faults' = faults + 1 /\ Goes(r, "dead")
  /\ UNCHANGED <<pass, locks, session, record, answer>>

Next ==
  \/ \E r \in Request :
       \/ Arrive(r) \/ Lock(r) \/ Count(r) \/ Use(r) \/ GiveBack(r) \/ Finish(r)
       \/ Create(r) \/ Event(r)
       \/ Sent(r) \/ Claim(r) \/ Look(r) \/ Take(r) \/ Store(r) \/ StoreError(r) \/ Free(r)
       \/ Voids(r) \/ Crash(r)
  \/ Goner \/ Lapse

Spec == Init /\ [][Next]_vars

-----------------------------------------------------------------------------
(* Properties *)

TypeOK ==
  /\ request \in [Request ->
       [via : Via \cup {None},
        step : {"idle", "lock", "count", "use", "create", "event", "made", "failed", "refuse",
                "claim", "look", "take", "invalid", "done", "dead"},
        tries : 0..2, seen : Request \cup {None}]]
  /\ pass \in [uses : 0..MaxUses, gone : BOOLEAN]
  /\ lock \in Request \cup {None} /\ lapsed \in BOOLEAN
  /\ session \in [Request -> {"none", "counted", "void"}]
  /\ record \in [owner : Request \cup {None}, result : Request \cup {None, Refusal}]
  /\ answer \in [Request -> Request \cup {None, Refusal}]
  /\ faults \in 0..MaxFaults

\* Requests that have a use of the pass: at work, or answered with a session.
Users ==
  {r \in Request : request[r].via \in {"email", "pass"} /\
     (request[r].step \in {"create", "event", "made", "failed"} \/ answer[r] = r)}

\* Every start that was answered has taken a use of its own, and there are never
\* more uses than the pass allows; as long as no process dies and no repair
\* fails, no use is lost to a start that failed.
UsesAreStarts ==
  /\ Cardinality(Users) <= pass.uses
  /\ pass.uses <= MaxUses
  /\ faults = 0 => Cardinality(Users) = pass.uses

\* Nobody gets more attempts than an email is allowed, with any number of requests
\* at once, unless a start took longer than its lock.
AttemptsAreLimited == ~lapsed => Cardinality(Attempts) <= Limit

\* Within its day a key has one answer: requests of the same key that are
\* answered with a session are all answered with the same one, also when a slow
\* request was taken for dead.
OneAnswer ==
  \A q, r \in Request :
    /\ request[q].via = "key" /\ request[r].via = "key"
    /\ answer[q] \in Request /\ answer[r] \in Request
    => answer[q] = answer[r]
=============================================================================
