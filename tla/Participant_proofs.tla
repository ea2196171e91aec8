------------------------- MODULE Participant_proofs -------------------------
(***************************************************************************)
(* What the participant's side promises: first the starts of sessions      *)
(* (SessionStarts), then the line between the browser and the engine       *)
(* (LiveLink), for any numbers of requests, tabs, inputs and faults.       *)
(*                                                                         *)
(* Starts.  The uses are counted with the requests that have one.  The     *)
(* attempts are safe because whoever counts them holds the email's lock    *)
(* until its session exists or its start has failed, unless the lock ran   *)
(* out.  The answer of a key is safe because a record that was finished    *)
(* belongs to a request that is done, and only an unfinished one is ever   *)
(* removed.                                                                *)
(*                                                                         *)
(* The line.  LineInv says who talks to whom: which sockets a tab and the  *)
(* engine listen to, and in which phase the gateway has them.  ShowInv     *)
(* says that what is under way to a tab continues what it shows, without   *)
(* a gap.  FinalsInv says that an utterance nobody has saved is still      *)
(* pending, and, for a tab that is connected, under way.  OrderInv says    *)
(* that the durable messages of a tab are handled, then queued at the      *)
(* engine, then on its socket, then in its outbox, in the order of their   *)
(* numbers.                                                                *)
(***************************************************************************)
EXTENDS SessionStarts, LiveLink, FiniteSetTheorems, WellFoundedInduction, TLAPS

-----------------------------------------------------------------------------
(* The invariant *)

\* A request that is not answered yet has room to go on; one that has not begun
\* has made nothing.
Fits(r) ==
  /\ request[r].step \in {"idle", "claim", "look", "take"} => request[r].tries > 0
  /\ request[r].step = "idle" => session[r] = "none"
  /\ answer[r] # None => request[r].step = "done"

WellFormed == TypeOK /\ \A r \in Request : Fits(r)

\* Between the lock and its release.
InLock(r) ==
  /\ request[r].via = "email"
  /\ request[r].step \in {"count", "use", "create", "event", "made", "failed"}

\* After the count, before the session.
Ahead(r) == request[r].via = "email" /\ request[r].step \in {"use", "create"}

LockInv ==
  ~lapsed =>
    /\ \A r \in Request : InLock(r) => lock = r
    /\ \A r \in Request : Ahead(r) => Cardinality(Attempts) < Limit
    /\ Cardinality(Attempts) <= Limit

KeyInv ==
  /\ record.result # None => record.owner \in Request /\ request[record.owner].step = "done"
  /\ \A r \in Request : request[r].via = "key" /\ answer[r] \in Request => record.result = answer[r]

SInv == WellFormed /\ UsesAreStarts /\ LockInv /\ KeyInv

-----------------------------------------------------------------------------
(* Lemmas *)

Steps == {"idle", "lock", "count", "use", "create", "event", "made", "failed", "refuse",
          "claim", "look", "take", "invalid", "done", "dead"}

Requested == [via : Via \cup {None}, step : Steps, tries : 0..2, seen : Request \cup {None}]

\* The types apart from the requests.
Rows ==
  /\ pass \in [uses : 0..MaxUses, gone : BOOLEAN]
  /\ lock \in Request \cup {None} /\ lapsed \in BOOLEAN
  /\ session \in [Request -> {"none", "counted", "void"}]
  /\ record \in [owner : Request \cup {None}, result : Request \cup {None, Refusal}]
  /\ answer \in [Request -> Request \cup {None, Refusal}]
  /\ faults \in 0..MaxFaults

LEMMA TypedParts ==
  /\ WellFormed <=> Rows /\ request \in [Request -> Requested] /\ \A r \in Request : Fits(r)
  /\ Rows' /\ request' \in [Request -> Requested] /\ (\A r \in Request : Fits(r)') => WellFormed'
  BY DEF WellFormed, TypeOK, Rows, Requested, Steps

LEMMA Sets ==
  /\ IsFiniteSet(Users) /\ Cardinality(Users) \in Nat
  /\ IsFiniteSet(Attempts) /\ Cardinality(Attempts) \in Nat
  /\ MaxUses \in Nat /\ Limit \in Nat /\ MaxFaults \in Nat
  /\ None \notin Request /\ Refusal \notin Request
  <1>1. Users \subseteq Request /\ Attempts \subseteq Request
    BY DEF Users, Attempts
  <1> QED
    BY <1>1, StartAssumption, FS_Subset, FS_CardinalityType DEF StartAssumption

\* One request moves at a time.
Moves(r) == /\ request' \in [Request -> Requested]
            /\ \A q \in Request : q # r => request'[q] = request[q] /\ answer'[q] = answer[q]

\* A request that goes on to another step keeps the rest of what it knows.
Alone(r, step) ==
  /\ Moves(r) /\ request'[r].step = step
  /\ request'[r].via = request[r].via /\ request'[r].tries = request[r].tries
  /\ request'[r].seen = request[r].seen

LEMMA GoesFacts ==
  ASSUME WellFormed, NEW r \in Request, NEW step \in Steps, Goes(r, step),
         \A q \in Request : q # r => answer'[q] = answer[q]
  PROVE  Alone(r, step)
  <1> DEFINE t == [request[r] EXCEPT !.step = step]
  <1>1. request \in [Request -> Requested] /\ request[r] \in Requested
    BY TypedParts
  <1>2. request' = [request EXCEPT ![r] = t]
    BY DEF Goes
  <1>3. /\ t \in Requested /\ t.step = step /\ t.via = request[r].via
        /\ t.tries = request[r].tries /\ t.seen = request[r].seen
    BY <1>1 DEF Requested
  <1> HIDE DEF t
  <1> QED
    BY <1>1, <1>2, <1>3 DEF Alone, Moves

\* A request that is answered is done.
LEMMA AnswersFacts ==
  ASSUME WellFormed, NEW r \in Request, NEW what \in Request \cup {None, Refusal}, Answers(r, what)
  PROVE  /\ Alone(r, "done") /\ answer'[r] = what
         /\ answer' \in [Request -> Request \cup {None, Refusal}]
  BY TypedParts, GoesFacts DEF Answers, Rows, Steps

\* Whether a request has a use.
User(r) ==
  /\ request[r].via \in {"email", "pass"}
  /\ request[r].step \in {"create", "event", "made", "failed"} \/ answer[r] = r

LEMMA UsesKeep ==
  ASSUME UsesAreStarts, NEW r \in Request, Moves(r), pass'.uses = pass.uses, faults' = faults,
         User(r)' <=> User(r)
  PROVE  UsesAreStarts'
  <1>1. \A q \in Request : User(q)' <=> User(q)
    BY DEF User, Moves
  <1>2. Users' = Users
    BY <1>1 DEF Users, User
  <1> QED
    BY <1>2 DEF UsesAreStarts

\* Whoever works under the lock holds it; the lock changes hands by its owner's.
LEMMA LockKeeps ==
  ASSUME LockInv, NEW r \in Request, Moves(r), lapsed' = lapsed,
         lock' = lock \/ (lock \in {None, r} /\ lock' \in {None, r}),
         Attempts' \subseteq Attempts,
         ~lapsed => (InLock(r)' => lock' = r),
         ~lapsed => (Ahead(r)' => Cardinality(Attempts) < Limit)
  PROVE  LockInv'
  <1> SUFFICES ASSUME ~lapsed PROVE LockInv'
    BY DEF LockInv
  <1>1. /\ Cardinality(Attempts') <= Cardinality(Attempts)
        /\ Cardinality(Attempts') \in Nat /\ Cardinality(Attempts) \in Nat /\ Limit \in Nat
    BY Sets, FS_Subset, FS_CardinalityType
  <1>2. ASSUME NEW q \in Request, q # r
        PROVE  (InLock(q)' <=> InLock(q)) /\ (Ahead(q)' <=> Ahead(q))
    BY <1>2 DEF Moves, InLock, Ahead
  <1>3. \A q \in Request : InLock(q)' => lock' = q
    BY <1>2, Sets DEF LockInv
  <1>4. \A q \in Request : Ahead(q)' => Cardinality(Attempts') < Limit
    BY <1>1, <1>2 DEF LockInv
  <1> QED
    BY <1>1, <1>3, <1>4 DEF LockInv

\* The record stays, and whoever is answered from it gets its result.
LEMMA KeyKeeps ==
  ASSUME WellFormed, KeyInv, NEW r \in Request, Moves(r), record' = record,
         request[r].step = "done" => request'[r].step = "done",
         request'[r].via = "key" /\ answer'[r] \in Request => record.result = answer'[r]
  PROVE  KeyInv'
  BY DEF KeyInv, Moves

\* A record nobody has finished may come and go.
LEMMA KeyFrees ==
  ASSUME WellFormed, KeyInv, NEW r \in Request, Moves(r), record.result = None, record'.result = None,
         answer'[r] = answer[r] \/ answer'[r] = Refusal, request'[r].via = request[r].via
  PROVE  KeyInv'
  <1>1. \A q \in Request : request[q].via = "key" => answer[q] \notin Request
    BY Sets DEF KeyInv
  <1>2. \A q \in Request : request'[q].via = "key" => answer'[q] \notin Request
    BY <1>1, Sets DEF Moves
  <1> QED
    BY <1>2 DEF KeyInv

\* A record belongs to one who is not done: it is not finished.
LEMMA Unfinished ==
  ASSUME KeyInv, NEW r \in Request, record.owner = r, request[r].step # "done"
  PROVE  record.result = None
  BY DEF KeyInv

-----------------------------------------------------------------------------
(* What each step keeps *)

\* A request that only goes on: nothing else changes, but for the lock.
LEMMA QuietStep ==
  ASSUME SInv, NEW r \in Request, WellFormed', Moves(r),
         UNCHANGED <<pass, lapsed, session, record, faults>>,
         User(r)' <=> User(r),
         Attempts' \subseteq Attempts,
         lock' = lock \/ (lock \in {None, r} /\ lock' \in {None, r}),
         ~lapsed => (InLock(r)' => lock' = r),
         ~lapsed => (Ahead(r)' => Cardinality(Attempts) < Limit),
         request[r].step # "done",
         request'[r].via = "key" /\ answer'[r] \in Request => record.result = answer'[r]
  PROVE  SInv'
  BY UsesKeep, LockKeeps, KeyKeeps DEF SInv

\* The fields of a request that arrives.
LEMMA ArriveFacts ==
  ASSUME WellFormed, NEW r \in Request, NEW via \in Via, NEW step \in Steps,
         request' = [request EXCEPT ![r].via = via, ![r].step = step],
         answer' = answer
  PROVE  /\ Moves(r) /\ request'[r].via = via /\ request'[r].step = step
         /\ request'[r].tries = request[r].tries
  <1> DEFINE t == [request[r] EXCEPT !.via = via, !.step = step]
  <1>1. request \in [Request -> Requested] /\ request[r] \in Requested
    BY TypedParts
  <1>2. t \in Requested /\ t.via = via /\ t.step = step /\ t.tries = request[r].tries
    BY <1>1 DEF Requested
  <1>3. request' = [request EXCEPT ![r] = t]
    BY <1>1
  <1> HIDE DEF t
  <1> QED
    BY <1>1, <1>2, <1>3 DEF Moves

\* The session of a request is its own: an attempt is one by its request.
LEMMA AttemptsKeep ==
  ASSUME NEW r \in Request, Moves(r), session' = session,
         request'[r].via = request[r].via \/ session[r] = "none"
  PROVE  Attempts' \subseteq Attempts
  BY DEF Attempts, Moves

\* The fits of the others stay.
LEMMA OthersFit ==
  ASSUME WellFormed, NEW r \in Request, Moves(r), \A q \in Request : q # r => session'[q] = session[q],
         Fits(r)'
  PROVE  \A q \in Request : Fits(q)'
  BY DEF WellFormed, Fits, Moves

LEMMA ArriveKeeps ==
  ASSUME SInv, NEW r \in Request, Arrive(r)
  PROVE  SInv'
  <1>1. PICK via \in {"email", "pass"}, step \in {"refuse", "lock", "use"} :
          /\ request' = [request EXCEPT ![r].via = via, ![r].step = step]
          /\ step = "use" => via = "pass"
    BY DEF Arrive
  <1>2. /\ WellFormed /\ Rows /\ Fits(r) /\ request[r].step = "idle"
        /\ UNCHANGED <<pass, locks, session, record, answer, faults>>
    BY TypedParts DEF SInv, Arrive
  <1>3. /\ Moves(r) /\ request'[r].via = via /\ request'[r].step = step
        /\ request'[r].tries = request[r].tries
    BY <1>1, <1>2, ArriveFacts DEF Via, Steps
  <1>4. answer[r] = None /\ session[r] = "none"
    BY <1>2 DEF Fits
  <1>5. WellFormed'
    <2>1. Fits(r)'
      BY <1>1, <1>2, <1>3, <1>4 DEF Fits
    <2>2. Rows'
      BY <1>2 DEF Rows, locks
    <2> QED
      BY <1>2, <1>3, <2>1, <2>2, OthersFit, TypedParts DEF Moves
  <1>6. User(r)' <=> User(r)
    BY <1>2, <1>3, <1>4, Sets DEF User
  <1>7. ~InLock(r)' /\ ~Ahead(r)'
    BY <1>1, <1>3 DEF InLock, Ahead
  <1> QED
    BY <1>2, <1>3, <1>4, <1>5, <1>6, <1>7, AttemptsKeep, QuietStep, Sets DEF locks

LEMMA SentKeeps ==
  ASSUME SInv, NEW r \in Request, Sent(r)
  PROVE  SInv'
  <1>1. request' = [request EXCEPT ![r].via = "key", ![r].step = "claim"]
    BY DEF Sent
  <1>2. /\ WellFormed /\ Rows /\ Fits(r) /\ request[r].step = "idle"
        /\ UNCHANGED <<pass, locks, session, record, answer, faults>>
    BY TypedParts DEF SInv, Sent
  <1>3. /\ Moves(r) /\ request'[r].via = "key" /\ request'[r].step = "claim"
        /\ request'[r].tries = request[r].tries
    BY <1>1, <1>2, ArriveFacts DEF Via, Steps
  <1>4. answer[r] = None /\ session[r] = "none"
    BY <1>2 DEF Fits
  <1>5. WellFormed'
    <2>1. Fits(r)'
      BY <1>2, <1>3, <1>4 DEF Fits
    <2>2. Rows'
      BY <1>2 DEF Rows, locks
    <2> QED
      BY <1>2, <1>3, <2>1, <2>2, OthersFit, TypedParts DEF Moves
  <1>6. User(r)' <=> User(r)
    BY <1>2, <1>3, <1>4, Sets DEF User
  <1>7. ~InLock(r)' /\ ~Ahead(r)'
    BY <1>3 DEF InLock, Ahead
  <1> QED
    BY <1>2, <1>3, <1>4, <1>5, <1>6, <1>7, AttemptsKeep, QuietStep, Sets DEF locks

\* A request in the middle of its work has no answer yet.
LEMMA Working ==
  ASSUME SInv, NEW r \in Request, request[r].step # "done"
  PROVE  WellFormed /\ Rows /\ Fits(r) /\ request[r] \in Requested /\ answer[r] = None
  BY TypedParts DEF SInv, Fits

\* One step of a request, to a place that asks nothing of it.
LEMMA OnlyTyped ==
  ASSUME WellFormed, NEW r \in Request, NEW step, Alone(r, step), Rows',
         step \notin {"idle", "claim", "look", "take"},
         answer'[r] = None \/ step = "done", \A q \in Request : q # r => session'[q] = session[q]
  PROVE  WellFormed'
  <1>1. Fits(r)'
    BY DEF Fits, Alone
  <1> QED
    BY <1>1, OthersFit, TypedParts DEF Alone, Moves

LEMMA LockKept ==
  ASSUME SInv, NEW r \in Request, Lock(r)
  PROVE  SInv'
  <1>0. /\ request[r].step = "lock" /\ request[r].via = "email"
        /\ UNCHANGED <<pass, lapsed, session, record, answer, faults>>
    BY DEF Lock, At
  <1>1. WellFormed /\ Rows /\ answer[r] = None
    BY <1>0, Working
  <1>2. PICK step \in {"count", "refuse"} :
          Goes(r, step) /\ IF step = "count" THEN lock = None /\ lock' = r ELSE lock' = lock
    BY DEF Lock
  <1>3. Alone(r, step)
    BY <1>0, <1>1, <1>2, GoesFacts DEF Steps
  <1>4. Rows'
    BY <1>0, <1>1, <1>2 DEF Rows
  <1>5. WellFormed'
    BY <1>0, <1>1, <1>3, <1>4, OnlyTyped
  <1>6. User(r)' <=> User(r)
    BY <1>0, <1>1, <1>2, <1>3, Sets DEF User, Alone
  <1>7. (InLock(r)' => lock' = r) /\ ~Ahead(r)'
    BY <1>0, <1>2, <1>3 DEF InLock, Ahead, Alone
  <1>8. lock' = lock \/ (lock \in {None, r} /\ lock' \in {None, r})
    BY <1>2
  <1> QED
    BY <1>0, <1>1, <1>3, <1>5, <1>6, <1>7, <1>8, AttemptsKeep, QuietStep, Sets DEF Alone

LEMMA CountKeeps ==
  ASSUME SInv, NEW r \in Request, Count(r)
  PROVE  SInv'
  <1>0. /\ request[r].step = "count" /\ request[r].via = "email"
        /\ UNCHANGED <<pass, locks, session, record, answer, faults>>
    BY DEF Count, At
  <1>1. WellFormed /\ Rows /\ answer[r] = None
    BY <1>0, Working
  <1>2. PICK step \in {"use", "refuse"} :
          Goes(r, step) /\ (step = "use" => ~(Cardinality(Attempts) >= Limit))
    BY DEF Count
  <1>3. Alone(r, step)
    BY <1>0, <1>1, <1>2, GoesFacts DEF Steps
  <1>4. Rows'
    BY <1>0, <1>1 DEF Rows, locks
  <1>5. WellFormed'
    BY <1>0, <1>1, <1>3, <1>4, OnlyTyped
  <1>6. User(r)' <=> User(r)
    BY <1>0, <1>1, <1>2, <1>3, Sets DEF User, Alone
  <1>7. ~lapsed => lock = r
    BY <1>0 DEF SInv, LockInv, InLock
  <1>8. Ahead(r)' => Cardinality(Attempts) < Limit
    BY <1>2, <1>3, Sets DEF Ahead, Alone
  <1> QED
    BY <1>0, <1>1, <1>3, <1>5, <1>6, <1>7, <1>8, AttemptsKeep, QuietStep, Sets DEF Alone, locks

LEMMA EventKeeps ==
  ASSUME SInv, NEW r \in Request, Event(r)
  PROVE  SInv'
  <1>0. /\ request[r].step = "event"
        /\ UNCHANGED <<pass, locks, session, record, answer, faults>>
    BY DEF Event, At
  <1>1. WellFormed /\ Rows /\ answer[r] = None
    BY <1>0, Working
  <1>2. PICK step \in {"made", "failed"} : Goes(r, step)
    BY DEF Event
  <1>3. Alone(r, step)
    BY <1>0, <1>1, <1>2, GoesFacts DEF Steps
  <1>4. Rows'
    BY <1>0, <1>1 DEF Rows, locks
  <1>5. WellFormed'
    BY <1>0, <1>1, <1>3, <1>4, OnlyTyped
  <1>6. User(r)' <=> User(r)
    BY <1>0, <1>1, <1>2, <1>3, Sets DEF User, Alone
  <1>7. ~lapsed => (InLock(r)' => lock = r)
    BY <1>0, <1>3 DEF SInv, LockInv, InLock, Alone
  <1>8. ~Ahead(r)'
    BY <1>2, <1>3 DEF Ahead, Alone
  <1> QED
    BY <1>0, <1>1, <1>3, <1>5, <1>6, <1>7, <1>8, AttemptsKeep, QuietStep, Sets DEF Alone, locks

\* The answer of a participant, and the end of its lock.
LEMMA FinishKeeps ==
  ASSUME SInv, NEW r \in Request, Finish(r)
  PROVE  SInv'
  <1>0. /\ request[r].step \in {"made", "refuse"} /\ request[r].via \in {"email", "pass"}
        /\ UNCHANGED <<pass, lapsed, session, record, faults>>
        /\ lock' = IF lock = r THEN None ELSE lock
    BY DEF Finish, At, Unlock
  <1>1. WellFormed /\ Rows /\ answer[r] = None
    BY <1>0, Working
  <1>2. PICK what \in {r, Refusal} :
          Answers(r, what) /\ (what = r <=> request[r].step = "made")
    BY Sets DEF Finish, At
  <1>3. Alone(r, "done") /\ answer'[r] = what /\ answer' \in [Request -> Request \cup {None, Refusal}]
    BY <1>1, <1>2, AnswersFacts
  <1>4. Rows'
    BY <1>0, <1>1, <1>3 DEF Rows
  <1>5. WellFormed'
    BY <1>0, <1>1, <1>3, <1>4, OnlyTyped
  <1>6. User(r)' <=> User(r)
    BY <1>0, <1>1, <1>2, <1>3, Sets DEF User, Alone
  <1>7. ~InLock(r)' /\ ~Ahead(r)'
    BY <1>3 DEF InLock, Ahead, Alone
  <1>8. lock' = lock \/ (lock \in {None, r} /\ lock' \in {None, r})
    BY <1>0
  <1> QED
    BY <1>0, <1>1, <1>3, <1>5, <1>6, <1>7, <1>8, AttemptsKeep, QuietStep, Sets DEF Alone

\* One request more has a use, or one less.
LEMMA UsersMove ==
  ASSUME NEW r \in Request, Moves(r)
  PROVE  /\ Cardinality(Users') \in Nat /\ Cardinality(Users) \in Nat
         /\ User(r)' /\ ~User(r) => Cardinality(Users') = Cardinality(Users) + 1
         /\ ~User(r)' /\ User(r) => Cardinality(Users') = Cardinality(Users) - 1
         /\ ~User(r)' => Cardinality(Users') <= Cardinality(Users)
  <1>1. \A q \in Request : q # r => (User(q)' <=> User(q))
    BY DEF User, Moves
  <1>2. /\ Users' = {q \in Request : User(q)'} /\ Users = {q \in Request : User(q)}
        /\ IsFiniteSet(Users) /\ Cardinality(Users) \in Nat
    BY Sets DEF Users, User
  <1>3. CASE User(r)' /\ ~User(r)
    <2>1. Users' = Users \cup {r} /\ r \notin Users
      BY <1>1, <1>2, <1>3
    <2>2. Cardinality(Users') = Cardinality(Users) + 1
      BY <1>2, <2>1, FS_AddElement
    <2> QED
      BY <1>2, <1>3, <2>2
  <1>4. CASE ~User(r)' /\ User(r)
    <2>1. Users' = Users \ {r} /\ r \in Users
      BY <1>1, <1>2, <1>4
    <2>2. IsFiniteSet(Users') /\ Cardinality(Users') = Cardinality(Users) - 1
      BY <1>2, <2>1, FS_RemoveElement
    <2>3. Cardinality(Users') \in Nat
      BY <2>2, FS_CardinalityType
    <2> QED
      BY <1>2, <1>4, <2>2, <2>3
  <1>5. CASE User(r)' <=> User(r)
    <2>1. Users' = Users
      BY <1>1, <1>2, <1>5
    <2> QED
      BY <1>2, <1>5, <2>1
  <1> QED
    BY <1>3, <1>4, <1>5

LEMMA PassType ==
  ASSUME Rows
  PROVE  /\ pass.uses \in Nat /\ pass.uses <= MaxUses /\ faults \in Nat
         /\ \A u \in 0..MaxUses : /\ [pass EXCEPT !.uses = u] \in [uses : 0..MaxUses, gone : BOOLEAN]
                                  /\ [pass EXCEPT !.uses = u].uses = u
  BY Sets DEF Rows

LEMMA UseKeeps ==
  ASSUME SInv, NEW r \in Request, Use(r)
  PROVE  SInv'
  <1>0. /\ request[r].step = "use" /\ request[r].via \in {"email", "pass"}
        /\ UNCHANGED <<locks, session, record, answer, faults>>
    BY DEF Use, At
  <1>1. WellFormed /\ Rows /\ answer[r] = None /\ UsesAreStarts /\ LockInv /\ KeyInv
    BY <1>0, Working DEF SInv
  <1>2. CASE ~pass.gone /\ pass.uses < MaxUses
    <2>1. Goes(r, "create") /\ pass' = [pass EXCEPT !.uses = @ + 1]
      BY <1>2 DEF Use
    <2>2. Alone(r, "create")
      BY <1>0, <1>1, <2>1, GoesFacts DEF Steps
    <2>3. /\ pass' \in [uses : 0..MaxUses, gone : BOOLEAN] /\ pass'.uses = pass.uses + 1
          /\ pass.uses \in Nat
      BY <1>1, <1>2, <2>1, PassType, Sets
    <2>4. Rows'
      BY <1>0, <1>1, <2>3 DEF Rows, locks
    <2>5. WellFormed'
      BY <1>0, <1>1, <2>2, <2>4, OnlyTyped
    <2>6. User(r)' /\ ~User(r)
      BY <1>0, <1>1, <2>2, Sets DEF User, Alone
    <2>7. UsesAreStarts'
      BY <1>0, <1>1, <1>2, <2>2, <2>3, <2>6, UsersMove, Sets DEF UsesAreStarts, Alone
    <2>8. ~lapsed => (InLock(r)' => lock' = r) /\ (Ahead(r)' => Cardinality(Attempts) < Limit)
      BY <1>0, <1>1, <2>2 DEF LockInv, InLock, Ahead, Alone, locks
    <2>9. LockInv'
      BY <1>0, <1>1, <2>2, <2>8, AttemptsKeep, LockKeeps DEF Alone, locks
    <2>10. KeyInv'
      BY <1>0, <1>1, <2>2, KeyKeeps DEF Alone
    <2> QED
      BY <2>5, <2>7, <2>9, <2>10 DEF SInv
  <1>3. CASE ~(~pass.gone /\ pass.uses < MaxUses)
    <2>1. Goes(r, "refuse") /\ pass' = pass
      BY <1>3 DEF Use
    <2>2. Alone(r, "refuse")
      BY <1>0, <1>1, <2>1, GoesFacts DEF Steps
    <2>3. Rows'
      BY <1>0, <1>1, <2>1 DEF Rows, locks
    <2>4. WellFormed'
      BY <1>0, <1>1, <2>2, <2>3, OnlyTyped
    <2>5. User(r)' <=> User(r)
      BY <1>0, <1>1, <2>2, Sets DEF User, Alone
    <2>6. ~InLock(r)' /\ ~Ahead(r)'
      BY <2>2 DEF InLock, Ahead, Alone
    <2> QED
      BY <1>0, <1>1, <2>1, <2>2, <2>4, <2>5, <2>6, AttemptsKeep, QuietStep, Sets DEF Alone, locks
  <1> QED
    BY <1>2, <1>3

LEMMA GiveBackKeeps ==
  ASSUME SInv, NEW r \in Request, GiveBack(r)
  PROVE  SInv'
  <1>0. /\ request[r].step = "failed" /\ request[r].via \in {"email", "pass"}
        /\ UNCHANGED <<locks, session, record, answer>> /\ Goes(r, "refuse")
    BY DEF GiveBack, At
  <1>1. WellFormed /\ Rows /\ answer[r] = None /\ UsesAreStarts /\ LockInv /\ KeyInv
    BY <1>0, Working DEF SInv
  <1>2. Alone(r, "refuse")
    BY <1>0, <1>1, GoesFacts DEF Steps
  <1>3. User(r) /\ ~User(r)'
    BY <1>0, <1>1, <1>2, Sets DEF User, Alone
  <1>4. /\ Cardinality(Users') = Cardinality(Users) - 1
        /\ Cardinality(Users') \in Nat /\ Cardinality(Users) \in Nat
        /\ pass.uses \in Nat /\ faults \in Nat
    BY <1>1, <1>2, <1>3, UsersMove, PassType DEF Alone
  <1>5. /\ Rows' /\ UsesAreStarts'
    <2>1. CASE pass' = [pass EXCEPT !.uses = IF @ > 0 THEN @ - 1 ELSE 0] /\ faults' = faults
      <3>1. pass.uses > 0
        BY <1>1, <1>4 DEF UsesAreStarts
      <3>2. pass' = [pass EXCEPT !.uses = pass.uses - 1] /\ pass.uses - 1 \in 0..MaxUses
        BY <1>1, <1>4, <2>1, <3>1, PassType, Sets
      <3>3. pass' \in [uses : 0..MaxUses, gone : BOOLEAN] /\ pass'.uses = pass.uses - 1
        BY <1>1, <3>2, PassType
      <3>4. Rows'
        BY <1>0, <1>1, <2>1, <3>3 DEF Rows, locks
      <3> QED
        BY <1>1, <1>4, <2>1, <3>3, <3>4, Sets DEF UsesAreStarts
    <2>2. CASE faults < MaxFaults /\ faults' = faults + 1 /\ pass' = pass
      <3>1. Rows'
        BY <1>0, <1>1, <1>4, <2>2, Sets DEF Rows, locks
      <3> QED
        BY <1>1, <1>4, <2>2, <3>1 DEF UsesAreStarts
    <2> QED
      BY <2>1, <2>2 DEF GiveBack
  <1>6. WellFormed'
    BY <1>0, <1>1, <1>2, <1>5, OnlyTyped
  <1>7. ~InLock(r)' /\ ~Ahead(r)'
    BY <1>2 DEF InLock, Ahead, Alone
  <1>8. LockInv'
    BY <1>0, <1>1, <1>2, <1>7, AttemptsKeep, LockKeeps DEF Alone, locks
  <1>9. KeyInv'
    BY <1>0, <1>1, <1>2, KeyKeeps, Sets DEF Alone
  <1> QED
    BY <1>5, <1>6, <1>8, <1>9 DEF SInv

\* The death of a process.
LEMMA CrashKeeps ==
  ASSUME SInv, NEW r \in Request, Crash(r)
  PROVE  SInv'
  <1>0. /\ request[r].step \notin {"idle", "done", "dead"} /\ faults < MaxFaults
        /\ faults' = faults + 1 /\ Goes(r, "dead")
        /\ UNCHANGED <<pass, locks, session, record, answer>>
    BY DEF Crash
  <1>1. WellFormed /\ Rows /\ answer[r] = None /\ UsesAreStarts /\ LockInv /\ KeyInv
    BY <1>0, Working DEF SInv
  <1>2. Alone(r, "dead")
    BY <1>0, <1>1, GoesFacts DEF Steps
  <1>3. ~User(r)' /\ faults \in Nat
    BY <1>0, <1>1, <1>2, Sets, PassType DEF User, Alone
  <1>4. Rows'
    BY <1>0, <1>1, <1>3, Sets DEF Rows, locks
  <1>5. WellFormed'
    BY <1>0, <1>1, <1>2, <1>4, OnlyTyped
  <1>6. UsesAreStarts'
    <2>1. /\ Cardinality(Users') <= Cardinality(Users) /\ pass.uses \in Nat
          /\ Cardinality(Users') \in Nat /\ Cardinality(Users) \in Nat
      BY <1>1, <1>2, <1>3, UsersMove, PassType DEF Alone
    <2> QED
      BY <1>0, <1>1, <1>3, <2>1 DEF UsesAreStarts
  <1>7. ~InLock(r)' /\ ~Ahead(r)'
    BY <1>2 DEF InLock, Ahead, Alone
  <1>8. LockInv'
    BY <1>0, <1>1, <1>2, <1>7, AttemptsKeep, LockKeeps DEF Alone, locks
  <1>9. KeyInv'
    BY <1>0, <1>1, <1>2, KeyKeeps, Sets DEF Alone
  <1> QED
    BY <1>5, <1>6, <1>8, <1>9 DEF SInv

LEMMA CreateKeeps ==
  ASSUME SInv, NEW r \in Request, Create(r)
  PROVE  SInv'
  <1>0. /\ request[r].step = "create" /\ request[r].via \in Via
        /\ UNCHANGED <<pass, locks, record, answer, faults>>
    BY DEF Create, At
  <1>1. WellFormed /\ Rows /\ answer[r] = None /\ UsesAreStarts /\ LockInv /\ KeyInv
    BY <1>0, Working DEF SInv
  <1>2. PICK step \in {"failed", "invalid", "event"} :
          /\ Goes(r, step)
          /\ step = "invalid" => request[r].via = "key"
          /\ session' = IF step = "event" THEN [session EXCEPT ![r] = "counted"] ELSE session
    BY DEF Create, At
  <1>3. Alone(r, step)
    BY <1>0, <1>1, <1>2, GoesFacts DEF Steps
  <1>4. /\ session' \in [Request -> {"none", "counted", "void"}]
        /\ \A q \in Request : q # r => session'[q] = session[q]
    BY <1>1, <1>2 DEF Rows
  <1>5. Rows'
    BY <1>0, <1>1, <1>4 DEF Rows, locks
  <1>6. WellFormed'
    BY <1>0, <1>1, <1>3, <1>4, <1>5, OnlyTyped
  <1>7. User(r)' <=> User(r)
    BY <1>0, <1>1, <1>2, <1>3, Sets DEF User, Alone
  <1>8. UsesAreStarts'
    BY <1>0, <1>1, <1>3, <1>7, UsesKeep DEF Alone
  <1>9. KeyInv'
    BY <1>0, <1>1, <1>3, KeyKeeps, Sets DEF Alone
  <1>10. LockInv'
    <2>1. ~lapsed => (InLock(r)' => lock' = r)
      BY <1>0, <1>1, <1>3 DEF LockInv, InLock, Alone, locks
    <2>2. ~Ahead(r)'
      BY <1>2, <1>3 DEF Ahead, Alone
    <2>3. CASE step # "event" \/ request[r].via # "email"
      <3>1. Attempts' \subseteq Attempts
        BY <1>2, <1>3, <1>4, <2>3 DEF Attempts, Alone, Moves
      <3> QED
        BY <1>0, <1>1, <1>3, <2>1, <2>2, <3>1, LockKeeps DEF Alone, locks
    <2>4. CASE step = "event" /\ request[r].via = "email"
      <3> SUFFICES ASSUME ~lapsed PROVE LockInv'
        BY <1>0 DEF LockInv, locks
      <3>1. lock = r /\ Cardinality(Attempts) < Limit
        BY <1>0, <1>1, <2>4 DEF LockInv, InLock, Ahead
      <3>2. Attempts' \subseteq Attempts \cup {r}
        BY <1>3, <1>4 DEF Attempts, Alone, Moves
      <3>3. /\ IsFiniteSet(Attempts \cup {r})
            /\ Cardinality(Attempts \cup {r}) <= Cardinality(Attempts) + 1
        <4>1. CASE r \in Attempts
          <5>1. Attempts \cup {r} = Attempts
            BY <4>1
          <5> QED
            BY <5>1, Sets
        <4>2. CASE r \notin Attempts
          <5>1. /\ IsFiniteSet(Attempts \cup {r})
                /\ Cardinality(Attempts \cup {r}) = Cardinality(Attempts) + 1
            BY <4>2, Sets, FS_AddElement
          <5> QED
            BY <5>1, Sets
        <4> QED
          BY <4>1, <4>2
      <3>4. Cardinality(Attempts') <= Limit
        <4>1. /\ Cardinality(Attempts') <= Cardinality(Attempts \cup {r})
              /\ IsFiniteSet(Attempts') /\ Cardinality(Attempts \cup {r}) \in Nat
          BY <3>2, <3>3, FS_Subset, FS_CardinalityType
        <4>2. Cardinality(Attempts') \in Nat
          BY <4>1, FS_CardinalityType
        <4> QED
          BY <3>1, <3>3, <4>1, <4>2, Sets
      <3>5. ASSUME NEW q \in Request PROVE (InLock(q)' => lock' = q) /\ ~Ahead(q)'
        <4>1. CASE q = r
          BY <2>1, <2>2, <4>1
        <4>2. CASE q # r
          <5>1. ~InLock(q)
            BY <1>1, <3>1, <4>2 DEF LockInv
          <5> QED
            BY <1>3, <4>2, <5>1 DEF InLock, Ahead, Alone, Moves
        <4> QED
          BY <4>1, <4>2
      <3> QED
        BY <3>4, <3>5 DEF LockInv
    <2> QED
      BY <2>3, <2>4
  <1> QED
    BY <1>6, <1>8, <1>9, <1>10 DEF SInv

\* The steps of the interceptor touch neither the pass nor the lock.
LEMMA KeyStep ==
  ASSUME SInv, NEW r \in Request, request[r].via = "key", Moves(r), request'[r].via = "key",
         UNCHANGED <<pass, locks, session, faults>>, WellFormed', KeyInv'
  PROVE  SInv'
  <1>1. ~User(r) /\ ~User(r)' /\ ~InLock(r)' /\ ~Ahead(r)'
    BY DEF User, InLock, Ahead
  <1>2. UsesAreStarts'
    BY <1>1, UsesKeep DEF SInv
  <1>3. LockInv'
    BY <1>1, AttemptsKeep, LockKeeps DEF SInv, locks
  <1> QED
    BY <1>2, <1>3 DEF SInv

\* A request that asks again, or gives up.
LEMMA AgainFacts ==
  ASSUME WellFormed, NEW r \in Request, request[r].tries > 0, Again(r)
  PROVE  /\ Moves(r) /\ request'[r].via = request[r].via
         /\ \/ request'[r].step = "claim" /\ request'[r].tries > 0 /\ answer' = answer
            \/ request'[r].step = "done" /\ answer'[r] = Refusal
         /\ answer' \in [Request -> Request \cup {None, Refusal}]
  <1> DEFINE step == IF request[r].tries > 1 THEN "claim" ELSE "done"
  <1> DEFINE t == [request[r] EXCEPT !.tries = @ - 1, !.step = step]
  <1>1. request \in [Request -> Requested] /\ request[r] \in Requested /\ Rows
    BY TypedParts
  <1>2. request' = [request EXCEPT ![r] = t]
    BY <1>1 DEF Again
  <1>3. request[r].tries - 1 \in 0..2 /\ (step = "claim" => request[r].tries - 1 > 0)
    BY <1>1 DEF Requested
  <1>4. step \in {"claim", "done"}
    OBVIOUS
  <1>5. /\ answer' = IF step = "claim" THEN answer ELSE [answer EXCEPT ![r] = Refusal]
    BY DEF Again
  <1> HIDE DEF step
  <1>6. /\ t \in Requested /\ t.step = step /\ t.via = request[r].via
        /\ t.tries = request[r].tries - 1
    BY <1>1, <1>3, <1>4 DEF Requested, Steps
  <1> HIDE DEF t
  <1>7. /\ answer' \in [Request -> Request \cup {None, Refusal}]
        /\ \A q \in Request : q # r => answer'[q] = answer[q]
        /\ step # "claim" => answer'[r] = Refusal
    BY <1>1, <1>5 DEF Rows
  <1> QED
    BY <1>1, <1>2, <1>3, <1>4, <1>5, <1>6, <1>7 DEF Moves

\* A round that is over.
LEMMA AgainKeeps ==
  ASSUME SInv, NEW r \in Request, request[r].step \in {"look", "take"}, request[r].via = "key",
         Again(r), UNCHANGED <<pass, locks, session, faults>>,
         record' = record \/ (record.result = None /\ record' = NoRecord)
  PROVE  SInv'
  <1>1. WellFormed /\ Rows /\ Fits(r) /\ answer[r] = None /\ KeyInv
    BY Working DEF SInv
  <1>2. /\ Moves(r) /\ request'[r].via = "key"
        /\ \/ request'[r].step = "claim" /\ request'[r].tries > 0 /\ answer' = answer
           \/ request'[r].step = "done" /\ answer'[r] = Refusal
        /\ answer' \in [Request -> Request \cup {None, Refusal}]
    BY <1>1, AgainFacts DEF Fits
  <1>3. record' \in [owner : Request \cup {None}, result : Request \cup {None, Refusal}]
    BY <1>1 DEF Rows, NoRecord
  <1>4. Rows'
    BY <1>1, <1>2, <1>3 DEF Rows, locks
  <1>5. WellFormed'
    <2>1. Fits(r)'
      BY <1>1, <1>2 DEF Fits
    <2> QED
      BY <1>1, <1>2, <1>4, <2>1, OthersFit, TypedParts DEF Moves
  <1>6. KeyInv'
    <2>1. CASE record' = record
      BY <1>1, <1>2, <2>1, KeyKeeps, Sets
    <2>2. CASE record.result = None /\ record' = NoRecord
      <3>1. record'.result = None
        BY <2>2 DEF NoRecord
      <3> QED
        BY <1>1, <1>2, <2>2, <3>1, KeyFrees
    <2> QED
      BY <2>1, <2>2
  <1> QED
    BY <1>2, <1>5, <1>6, KeyStep

LEMMA ClaimKeeps ==
  ASSUME SInv, NEW r \in Request, Claim(r)
  PROVE  SInv'
  <1>0. /\ request[r].step = "claim" /\ request[r].via = "key"
        /\ UNCHANGED <<pass, locks, session, answer, faults>>
    BY DEF Claim, At
  <1>1. WellFormed /\ Rows /\ Fits(r) /\ answer[r] = None /\ KeyInv
    BY <1>0, Working DEF SInv
  <1>2. CASE record = NoRecord
    <2>1. record' = [NoRecord EXCEPT !.owner = r] /\ Goes(r, "create")
      BY <1>2 DEF Claim
    <2>2. Alone(r, "create")
      BY <1>0, <1>1, <2>1, GoesFacts DEF Steps
    <2>3. /\ record' \in [owner : Request \cup {None}, result : Request \cup {None, Refusal}]
          /\ record.result = None /\ record'.result = None
      BY <1>2, <2>1 DEF NoRecord
    <2>4. WellFormed'
      <3>1. Rows'
        BY <1>0, <1>1, <2>3 DEF Rows, locks
      <3> QED
        BY <1>0, <1>1, <2>2, <3>1, OnlyTyped
    <2>5. KeyInv'
      BY <1>0, <1>1, <2>2, <2>3, KeyFrees DEF Alone
    <2> QED
      BY <1>0, <2>2, <2>4, <2>5, KeyStep DEF Alone
  <1>3. CASE record # NoRecord
    <2>1. record' = record /\ Goes(r, "look")
      BY <1>3 DEF Claim
    <2>2. Alone(r, "look")
      BY <1>0, <1>1, <2>1, GoesFacts DEF Steps
    <2>3. WellFormed'
      <3>1. Rows'
        BY <1>0, <1>1, <2>1 DEF Rows, locks
      <3>2. Fits(r)'
        BY <1>0, <1>1, <2>2 DEF Fits, Alone
      <3> QED
        BY <1>0, <1>1, <2>2, <3>1, <3>2, OthersFit, TypedParts DEF Alone, Moves
    <2>4. KeyInv'
      BY <1>0, <1>1, <2>1, <2>2, KeyKeeps, Sets DEF Alone
    <2> QED
      BY <1>0, <2>2, <2>3, <2>4, KeyStep DEF Alone
  <1> QED
    BY <1>2, <1>3

\* A request that is answered, the record changing as given.
LEMMA AnswerKeeps ==
  ASSUME SInv, NEW r \in Request, request[r].via = "key", request[r].step # "done",
         NEW what \in Request \cup {None, Refusal}, Answers(r, what),
         UNCHANGED <<pass, locks, session, faults>>,
         record' \in [owner : Request \cup {None}, result : Request \cup {None, Refusal}],
         \/ record' = record /\ (what \in Request => record.result = what)
         \/ record.result = None /\ record'.result = None /\ what = Refusal
         \/ record.result = None /\ record'.owner = r /\ record'.result = what
  PROVE  SInv'
  <1>1. WellFormed /\ Rows /\ answer[r] = None /\ KeyInv
    BY Working DEF SInv
  <1>2. /\ Alone(r, "done") /\ answer'[r] = what
        /\ answer' \in [Request -> Request \cup {None, Refusal}]
    BY <1>1, AnswersFacts
  <1>3. Rows'
    BY <1>1, <1>2 DEF Rows, locks
  <1>4. WellFormed'
    BY <1>1, <1>2, <1>3, OnlyTyped
  <1>5. KeyInv'
    <2>1. CASE record' = record /\ (what \in Request => record.result = what)
      BY <1>1, <1>2, <2>1, KeyKeeps DEF Alone
    <2>2. CASE record.result = None /\ record'.result = None /\ what = Refusal
      BY <1>1, <1>2, <2>2, KeyFrees DEF Alone
    <2>3. CASE record.result = None /\ record'.owner = r /\ record'.result = what
      <3>1. \A q \in Request : request[q].via = "key" => answer[q] \notin Request
        BY <1>1, <2>3, Sets DEF KeyInv
      <3>2. \A q \in Request : q # r /\ request'[q].via = "key" => answer'[q] \notin Request
        BY <1>2, <3>1 DEF Alone, Moves
      <3> QED
        BY <1>2, <2>3, <3>2 DEF KeyInv, Alone
    <2> QED
      BY <2>1, <2>2, <2>3
  <1> QED
    BY <1>2, <1>4, <1>5, KeyStep DEF Alone

LEMMA LookKeeps ==
  ASSUME SInv, NEW r \in Request, Look(r)
  PROVE  SInv'
  <1>0. /\ request[r].step = "look" /\ request[r].via = "key"
        /\ UNCHANGED <<pass, locks, session, record, faults>>
    BY DEF Look, At
  <1>1. WellFormed /\ Rows /\ Fits(r) /\ answer[r] = None /\ KeyInv
    BY <1>0, Working DEF SInv
  <1>2. NoRecord.result = None
    BY DEF NoRecord
  <1>3. CASE record = NoRecord
    BY <1>0, <1>2, <1>3, AgainKeeps DEF Look
  <1>4. CASE record.result # None
    <2>1. Answers(r, record.result)
      BY <1>2, <1>4 DEF Look
    <2> QED
      BY <1>0, <1>1, <2>1, AnswerKeeps DEF Rows
  <1>5. CASE record # NoRecord /\ record.result = None
    <2>1. CASE Answers(r, Refusal)
      BY <1>0, <1>1, <2>1, AnswerKeeps, Sets DEF Rows
    <2>2. CASE /\ request' = [request EXCEPT ![r].step = "take", ![r].seen = record.owner]
               /\ answer' = answer
      <3> DEFINE t == [request[r] EXCEPT !.step = "take", !.seen = record.owner]
      <3>1. request \in [Request -> Requested] /\ request[r] \in Requested
        BY <1>1, TypedParts
      <3>2. request' = [request EXCEPT ![r] = t]
        BY <2>2, <3>1
      <3>3. t \in Requested /\ t.step = "take" /\ t.via = "key" /\ t.tries = request[r].tries
        BY <1>0, <1>1, <3>1 DEF Requested, Rows, Steps
      <3> HIDE DEF t
      <3>4. /\ Moves(r) /\ request'[r].step = "take" /\ request'[r].via = "key"
            /\ request'[r].tries = request[r].tries
        BY <2>2, <3>1, <3>2, <3>3 DEF Moves
      <3>5. Rows' /\ answer' = answer
        BY <1>0, <1>1, <2>2 DEF Rows, locks
      <3>6. Fits(r)'
        BY <1>0, <1>1, <3>4, <3>5 DEF Fits
      <3>7. WellFormed'
        BY <1>0, <1>1, <3>4, <3>5, <3>6, OthersFit, TypedParts DEF Moves
      <3>8. KeyInv'
        BY <1>0, <1>1, <3>4, <3>5, KeyKeeps, Sets
      <3> QED
        BY <1>0, <3>4, <3>7, <3>8, KeyStep
    <2> QED
      BY <1>5, <2>1, <2>2 DEF Look
  <1> QED
    BY <1>3, <1>4, <1>5

LEMMA TakeKeeps ==
  ASSUME SInv, NEW r \in Request, Take(r)
  PROVE  SInv'
  BY AgainKeeps DEF Take, At

LEMMA StoreKeeps ==
  ASSUME SInv, NEW r \in Request, Store(r)
  PROVE  SInv'
  <1>0. /\ request[r].step = "made" /\ request[r].via = "key"
        /\ UNCHANGED <<pass, locks, session, faults>>
    BY DEF Store, At
  <1>1. WellFormed /\ Rows /\ answer[r] = None /\ KeyInv
    BY <1>0, Working DEF SInv
  <1>2. CASE record.owner = r /\ record' = [record EXCEPT !.result = r] /\ Answers(r, r)
    <2>1. record.result = None
      BY <1>0, <1>1, <1>2, Unfinished
    <2>2. /\ record' \in [owner : Request \cup {None}, result : Request \cup {None, Refusal}]
          /\ record'.owner = r /\ record'.result = r
      BY <1>1, <1>2 DEF Rows
    <2> QED
      BY <1>0, <1>2, <2>1, <2>2, AnswerKeeps
  <1>3. CASE Goes(r, "failed") /\ record' = record /\ answer' = answer
    <2>1. Alone(r, "failed")
      BY <1>1, <1>3, GoesFacts DEF Steps
    <2>2. Rows'
      BY <1>0, <1>1, <1>3 DEF Rows, locks
    <2>3. WellFormed'
      BY <1>0, <1>1, <1>3, <2>1, <2>2, OnlyTyped
    <2>4. KeyInv'
      BY <1>0, <1>1, <1>3, <2>1, KeyKeeps, Sets DEF Alone
    <2> QED
      BY <1>0, <2>1, <2>3, <2>4, KeyStep DEF Alone
  <1> QED
    BY <1>2, <1>3 DEF Store

LEMMA StoreErrorKeeps ==
  ASSUME SInv, NEW r \in Request, StoreError(r)
  PROVE  SInv'
  <1>0. /\ request[r].step = "invalid" /\ request[r].via = "key" /\ Answers(r, Refusal)
        /\ UNCHANGED <<pass, locks, session, faults>>
    BY DEF StoreError, At
  <1>1. Rows /\ KeyInv
    BY <1>0, Working DEF SInv
  <1>2. CASE record.owner = r /\ record' = [record EXCEPT !.result = Refusal]
    <2>1. record.result = None
      BY <1>0, <1>1, <1>2, Unfinished
    <2>2. /\ record' \in [owner : Request \cup {None}, result : Request \cup {None, Refusal}]
          /\ record'.owner = r /\ record'.result = Refusal
      BY <1>1, <1>2 DEF Rows
    <2> QED
      BY <1>0, <2>1, <2>2, AnswerKeeps
  <1>3. CASE record' = record
    BY <1>0, <1>1, <1>3, AnswerKeeps, Sets DEF Rows
  <1> QED
    BY <1>2, <1>3 DEF StoreError

LEMMA FreeKeeps ==
  ASSUME SInv, NEW r \in Request, Free(r)
  PROVE  SInv'
  <1>0. /\ request[r].step = "failed" /\ request[r].via = "key" /\ Answers(r, Refusal)
        /\ UNCHANGED <<pass, locks, session, faults>>
    BY DEF Free, At
  <1>1. Rows /\ KeyInv
    BY <1>0, Working DEF SInv
  <1>2. CASE record.owner = r /\ record' = NoRecord
    <2>1. record.result = None
      BY <1>0, <1>1, <1>2, Unfinished
    <2>2. /\ record' \in [owner : Request \cup {None}, result : Request \cup {None, Refusal}]
          /\ record'.result = None
      BY <1>2 DEF NoRecord
    <2> QED
      BY <1>0, <2>1, <2>2, AnswerKeeps
  <1>3. CASE record' = record
    BY <1>0, <1>1, <1>3, AnswerKeeps, Sets DEF Rows
  <1> QED
    BY <1>2, <1>3 DEF Free

-----------------------------------------------------------------------------
(* The rest of the world *)

LEMMA GonerKeeps ==
  ASSUME SInv, Goner
  PROVE  SInv'
  <1>1. /\ UNCHANGED <<request, lock, lapsed, session, record, answer, faults>>
        /\ pass' = [pass EXCEPT !.gone = TRUE]
    BY DEF Goner, locks
  <1>2. WellFormed /\ Rows
    BY TypedParts DEF SInv
  <1>3. pass'.uses = pass.uses /\ pass' \in [uses : 0..MaxUses, gone : BOOLEAN]
    BY <1>1, <1>2 DEF Rows
  <1>4. WellFormed'
    BY <1>1, <1>2, <1>3 DEF WellFormed, TypeOK, Fits
  <1>5. UsesAreStarts' /\ LockInv' /\ KeyInv'
    BY <1>1, <1>3 DEF SInv, UsesAreStarts, Users, LockInv, InLock, Ahead, Attempts, KeyInv
  <1> QED
    BY <1>4, <1>5 DEF SInv

\* The lock of a dead request runs out harmlessly: it was the only one inside.
LEMMA LapseKeeps ==
  ASSUME SInv, Lapse
  PROVE  SInv'
  <1>1. /\ UNCHANGED <<request, pass, session, record, answer, faults>>
        /\ lock # None /\ lock' = None /\ lapsed' = (lapsed \/ request[lock].step # "dead")
    BY DEF Lapse
  <1>2. WellFormed'
    BY <1>1 DEF SInv, WellFormed, TypeOK, Fits
  <1>3. LockInv'
    <2> SUFFICES ASSUME ~lapsed' PROVE LockInv'
      BY DEF LockInv
    <2>1. ~lapsed /\ request[lock].step = "dead"
      BY <1>1
    <2>2. \A q \in Request : ~InLock(q) /\ ~Ahead(q)
      BY <2>1 DEF SInv, LockInv, InLock, Ahead
    <2> QED
      BY <1>1, <2>1, <2>2 DEF SInv, LockInv, InLock, Ahead, Attempts
  <1>4. UsesAreStarts' /\ KeyInv'
    BY <1>1 DEF SInv, UsesAreStarts, Users, KeyInv
  <1> QED
    BY <1>2, <1>3, <1>4 DEF SInv

LEMMA VoidKeeps ==
  ASSUME SInv, NEW r \in Request, Voids(r)
  PROVE  SInv'
  <1>1. /\ UNCHANGED <<request, pass, lock, lapsed, record, answer, faults>>
        /\ session[r] = "counted" /\ session' = [session EXCEPT ![r] = "void"]
    BY DEF Voids, locks
  <1>2. WellFormed /\ Rows
    BY TypedParts DEF SInv
  <1>3. /\ session' \in [Request -> {"none", "counted", "void"}] /\ session'[r] = "void"
        /\ \A q \in Request : q # r => session'[q] = session[q]
    BY <1>1, <1>2 DEF Rows
  <1>4. WellFormed'
    BY <1>1, <1>2, <1>3 DEF WellFormed, TypeOK, Fits
  <1>5. LockInv'
    <2>1. Attempts' \subseteq Attempts /\ Moves(r)
      BY <1>1, <1>2, <1>3, TypedParts DEF Attempts, Moves
    <2> QED
      BY <1>1, <2>1, LockKeeps DEF SInv, LockInv, InLock, Ahead
  <1>6. UsesAreStarts' /\ KeyInv'
    BY <1>1 DEF SInv, UsesAreStarts, Users, KeyInv
  <1> QED
    BY <1>4, <1>5, <1>6 DEF SInv

LEMMA StutterKeeps ==
  ASSUME SInv, UNCHANGED vars
  PROVE  SInv'
  BY DEF vars, SInv, WellFormed, TypeOK, Fits, UsesAreStarts, Users, LockInv, InLock, Ahead, Attempts, KeyInv

-----------------------------------------------------------------------------
(* Theorems *)

LEMMA InitHolds ==
  ASSUME Init
  PROVE  SInv
  <1>1. /\ \A r \in Request : request[r] = Idle /\ answer[r] = None /\ session[r] = "none"
        /\ pass.uses = 0 /\ faults = 0 /\ record.result = None
    BY DEF Init, NoRecord
  <1>2. Idle \in Requested /\ Idle.step = "idle" /\ Idle.via = None /\ Idle.tries = 2
    BY DEF Idle, Requested, Steps
  <1>3. WellFormed
    <2>1. Rows
      <3>1. pass \in [uses : 0..MaxUses, gone : BOOLEAN] /\ faults \in 0..MaxFaults
        BY Sets DEF Init
      <3>2. record \in [owner : Request \cup {None}, result : Request \cup {None, Refusal}]
        BY DEF Init, NoRecord
      <3> QED
        BY <3>1, <3>2 DEF Init, Rows
    <2>2. request \in [Request -> Requested]
      BY <1>2 DEF Init
    <2>3. \A r \in Request : Fits(r)
      BY <1>1, <1>2 DEF Fits
    <2> QED
      BY <2>1, <2>2, <2>3, TypedParts
  <1>4. Users = {} /\ Attempts = {}
    BY <1>1, <1>2, Sets DEF Users, Attempts
  <1>5. Cardinality(Users) = 0 /\ Cardinality(Attempts) = 0
    BY <1>4, FS_EmptySet
  <1>6. UsesAreStarts
    BY <1>1, <1>5, Sets DEF UsesAreStarts
  <1>7. LockInv
    BY <1>1, <1>2, <1>5, Sets DEF LockInv, InLock, Ahead
  <1>8. KeyInv
    BY <1>1, Sets DEF KeyInv
  <1> QED
    BY <1>3, <1>6, <1>7, <1>8 DEF SInv

\* The requests, the pass, the lock and the record fit together.
THEOREM StartsCorrect == Spec => []SInv
  <1>1. Init => SInv
    BY InitHolds
  <1>2. SInv /\ [Next]_vars => SInv'
    BY ArriveKeeps, SentKeeps, LockKept, CountKeeps, EventKeeps, FinishKeeps, UseKeeps,
       GiveBackKeeps, CrashKeeps, CreateKeeps, ClaimKeeps, LookKeeps, TakeKeeps, StoreKeeps,
       StoreErrorKeeps, FreeKeeps, GonerKeeps, LapseKeeps, VoidKeeps, StutterKeeps DEF Next
  <1> QED
    BY <1>1, <1>2, PTL DEF Spec

\* Every request, pass, lock and record keeps its type: no pass has more uses
\* than it allows or fewer than none.
THEOREM StartTypes == Spec => []TypeOK
  <1>1. SInv => TypeOK
    BY DEF SInv, WellFormed
  <1> QED
    BY <1>1, StartsCorrect, PTL

\* The uses of a pass are its starts, however many requests race for the last
\* one, and none is lost while no process dies and no repair fails.
THEOREM UsesAreCounted == Spec => []UsesAreStarts
  <1>1. SInv => UsesAreStarts
    BY DEF SInv
  <1> QED
    BY <1>1, StartsCorrect, PTL

\* Requests of one email, side by side, make no more attempts than it may have,
\* unless a start took longer than its lock.
THEOREM AttemptsStayLimited == Spec => []AttemptsAreLimited
  <1>1. SInv => AttemptsAreLimited
    BY DEF SInv, LockInv, AttemptsAreLimited
  <1> QED
    BY <1>1, StartsCorrect, PTL

\* A key has one answer, whoever takes whose record over.
THEOREM KeysHaveOneAnswer == Spec => []OneAnswer
  <1>1. SInv => OneAnswer
    BY DEF SInv, KeyInv, OneAnswer
  <1> QED
    BY <1>1, StartsCorrect, PTL

-----------------------------------------------------------------------------
(* Sequences *)

LEMMA Nothing == Member(<< >>) = {}
  BY DEF Member

LEMMA Appended ==
  ASSUME NEW S, NEW s \in Seq(S), NEW x \in S
  PROVE  /\ Append(s, x) \in Seq(S) /\ Member(Append(s, x)) = Member(s) \cup {x}
         /\ Len(Append(s, x)) = Len(s) + 1 /\ DOMAIN Append(s, x) = DOMAIN s \cup {Len(s) + 1}
         /\ \A i \in DOMAIN s : Append(s, x)[i] = s[i]
         /\ Append(s, x)[Len(s) + 1] = x /\ Append(s, x) # << >>
  <1>1. DOMAIN Append(s, x) = DOMAIN s \cup {Len(s) + 1}
    OBVIOUS
  <1>2. \A i \in DOMAIN s : Append(s, x)[i] = s[i]
    OBVIOUS
  <1>3. Append(s, x)[Len(s) + 1] = x
    OBVIOUS
  <1>4. Append(s, x) \in Seq(S)
    BY SMTT(20)
  <1>5. Len(Append(s, x)) = Len(s) + 1
    OBVIOUS
  <1>6. Append(s, x) # << >>
    <2>1. Len(s) \in Nat
      OBVIOUS
    <2>2. Len(Append(s, x)) # 0
      BY <1>5, <2>1
    <2>3. Len(<< >>) = 0
      OBVIOUS
    <2> QED BY <2>2, <2>3
  <1> QED BY <1>1, <1>2, <1>3, <1>4, <1>5, <1>6 DEF Member

LEMMA Taking ==
  ASSUME NEW S, NEW s \in Seq(S), s # << >>
  PROVE  /\ Head(s) \in S /\ Tail(s) \in Seq(S) /\ Head(s) = s[1] /\ 1 \in DOMAIN s
         /\ Member(s) = {Head(s)} \cup Member(Tail(s))
         /\ Len(Tail(s)) = Len(s) - 1
         /\ \A i \in DOMAIN Tail(s) : i + 1 \in DOMAIN s /\ Tail(s)[i] = s[i + 1]
  <1>1. Head(s) \in S /\ Tail(s) \in Seq(S) /\ Head(s) = s[1] /\ 1 \in DOMAIN s
        /\ Len(Tail(s)) = Len(s) - 1
    OBVIOUS
  <1>2. \A i \in DOMAIN Tail(s) : i + 1 \in DOMAIN s /\ Tail(s)[i] = s[i + 1]
    OBVIOUS
  <1>3. \A i \in DOMAIN s : i = 1 \/ (i - 1 \in DOMAIN Tail(s) /\ Tail(s)[i - 1] = s[i])
    OBVIOUS
  <1>4. Member(s) \subseteq {Head(s)} \cup Member(Tail(s))
    <2>1. ASSUME NEW i \in DOMAIN s PROVE s[i] \in {Head(s)} \cup Member(Tail(s))
      BY <1>1, <1>3 DEF Member
    <2> QED BY <2>1 DEF Member
  <1>5. {Head(s)} \cup Member(Tail(s)) \subseteq Member(s)
    BY <1>1, <1>2 DEF Member
  <1> QED BY <1>1, <1>2, <1>4, <1>5

LEMMA Joining ==
  ASSUME NEW S, NEW s \in Seq(S), NEW r \in Seq(S)
  PROVE  /\ s \o r \in Seq(S) /\ Member(s \o r) = Member(s) \cup Member(r)
         /\ Len(s \o r) = Len(s) + Len(r)
         /\ \A i \in DOMAIN s : i \in DOMAIN (s \o r) /\ (s \o r)[i] = s[i]
         /\ \A i \in DOMAIN (s \o r) : i \notin DOMAIN s =>
              i - Len(s) \in DOMAIN r /\ (s \o r)[i] = r[i - Len(s)]
         /\ s \o << >> = s
  <1>1. s \o r \in Seq(S) /\ Len(s \o r) = Len(s) + Len(r) /\ s \o << >> = s
    OBVIOUS
  <1>2. \A i \in DOMAIN s : i \in DOMAIN (s \o r) /\ (s \o r)[i] = s[i]
    OBVIOUS
  <1>3. \A i \in DOMAIN (s \o r) : i \notin DOMAIN s =>
              i - Len(s) \in DOMAIN r /\ (s \o r)[i] = r[i - Len(s)]
    OBVIOUS
  <1>4. \A i \in DOMAIN r : i + Len(s) \in DOMAIN (s \o r) /\ (s \o r)[i + Len(s)] = r[i]
    OBVIOUS
  <1>5. Member(s \o r) \subseteq Member(s) \cup Member(r)
    BY <1>2, <1>3 DEF Member
  <1>6. Member(s) \cup Member(r) \subseteq Member(s \o r)
    BY <1>2, <1>4 DEF Member
  <1> QED BY <1>1, <1>2, <1>3, <1>5, <1>6

LEMMA Wider ==
  ASSUME NEW S, NEW T, S \subseteq T
  PROVE  Seq(S) \subseteq Seq(T)
  OBVIOUS

LEMMA Replaced ==
  ASSUME NEW S, NEW K \in Seq(S), NEW s \in DOMAIN K, NEW r \in S
  PROVE  [K EXCEPT ![s] = r] \in Seq(S) /\ Len([K EXCEPT ![s] = r]) = Len(K)
  OBVIOUS

LEMMA Mapped ==
  ASSUME NEW S, NEW n \in Nat, NEW f \in [1..n -> S]
  PROVE  f \in Seq(S) /\ Len(f) = n /\ DOMAIN f = 1..n
  OBVIOUS

LEMMA Inside ==
  ASSUME NEW S, NEW s \in Seq(S)
  PROVE  Member(s) \subseteq S /\ Len(s) \in Nat /\ DOMAIN s = 1..Len(s)
  BY DEF Member

Step(seq, set, f, i) ==
  IF i = 0 THEN << >>
  ELSE IF seq[i] \in set THEN f[i - 1] ELSE Append(f[i - 1], seq[i])

LEMMA Least ==
  ASSUME NEW S \in SUBSET Nat, S # {}
  PROVE  \E x \in S : \A y \in S : x <= y
  <1>1. PICK x \in S : \A y \in S : ~(<<y, x>> \in OpToRel(<, Nat))
    BY WFMin, NatLessThanWellFounded
  <1>2. \A y \in S : ~(y < x)
    BY <1>1, Zenon DEF OpToRel
  <1> QED
    BY <1>2

LEMMA LeftExists ==
  ASSUME NEW seq, NEW set, NEW n \in Nat
  PROVE  \E f : f = [i \in 0..n |-> Step(seq, set, f, i)]
  <1> DEFINE Bad == {m \in Nat : ~ \E f : f = [i \in 0..m |-> Step(seq, set, f, i)]}
  <1>1. ASSUME Bad # {} PROVE FALSE
    <2>1. PICK m \in Bad : \A k \in Bad : m <= k
      BY <1>1, Least
    <2>2. \A k \in Nat : k < m => k \notin Bad
      BY <2>1
    <2>3. m \in Nat /\ ~ \E f : f = [i \in 0..m |-> Step(seq, set, f, i)]
      BY <2>1
    <2>4. CASE m = 0
      <3> DEFINE g == [i \in 0..0 |-> << >>]
      <3>1. g = [i \in 0..0 |-> Step(seq, set, g, i)]
        BY DEF Step
      <3> QED BY <3>1, <2>3, <2>4
    <2>5. CASE m # 0
      <3>1. m - 1 \in Nat /\ m - 1 < m
        BY <2>3, <2>5
      <3>2. PICK f : f = [i \in 0..(m - 1) |-> Step(seq, set, f, i)]
        BY <3>1, <2>2
      <3> DEFINE g == [i \in 0..m |-> IF i < m THEN f[i] ELSE Step(seq, set, f, i)]
      <3>3. ASSUME NEW i \in 0..m PROVE g[i] = Step(seq, set, g, i)
        <4>0. \A k \in 0..(m - 1) : g[k] = f[k] /\ f[k] = Step(seq, set, f, k)
          BY <3>2, <2>3
        <4>1. i # 0 => i - 1 \in 0..(m - 1) /\ g[i - 1] = f[i - 1]
          BY <4>0, <2>3
        <4>2. Step(seq, set, g, i) = Step(seq, set, f, i)
          BY <4>1 DEF Step
        <4>3. g[i] = Step(seq, set, f, i)
          <5>1. CASE i < m
            <6>1. i \in 0..(m - 1)
              BY <5>1, <2>3
            <6> QED BY <6>1, <4>0
          <5>2. CASE ~(i < m)
            BY <5>2
          <5> QED BY <5>1, <5>2
        <4> QED BY <4>2, <4>3
      <3>4. g = [i \in 0..m |-> g[i]]
        OBVIOUS
      <3>5. g = [i \in 0..m |-> Step(seq, set, g, i)]
        <4> HIDE DEF g
        <4> QED BY <3>3, <3>4
      <3> QED BY <3>5, <2>3
    <2> QED BY <2>4, <2>5
  <1> QED BY <1>1

LEMMA WithoutFacts ==
  ASSUME NEW S, NEW seq \in Seq(S), NEW set
  PROVE  /\ Without(seq, set) \in Seq(S)
         /\ Member(Without(seq, set)) = Member(seq) \ set
  <1>0. Len(seq) \in Nat
    OBVIOUS
  <1>1. \E f : f = [i \in 0..Len(seq) |-> Step(seq, set, f, i)]
    BY LeftExists, <1>0
  <1> DEFINE L == CHOOSE g : g = [i \in 0..Len(seq) |-> Step(seq, set, g, i)]
  <1>2. L = [i \in 0..Len(seq) |-> Step(seq, set, L, i)]
    BY <1>1
  <1>3. Without(seq, set) = L[Len(seq)]
    BY DEF Without, Step
  <1> HIDE DEF L
  <1> DEFINE Good(i) == L[i] \in Seq(S) /\ Member(L[i]) = {seq[k] : k \in 1..i} \ set
             Bad == {i \in 0..Len(seq) : ~Good(i)}
  <1>4. ASSUME Bad # {} PROVE FALSE
    <2>0. Bad \in SUBSET Nat
      BY <1>0
    <2>1. PICK m \in Bad : \A k \in Bad : m <= k
      BY <1>4, <2>0, Least
    <2>2. \A k \in 0..Len(seq) : k < m => Good(k)
      <3> HIDE DEF Good
      <3> QED BY <2>1, <1>0
    <2>3. m \in 0..Len(seq) /\ ~Good(m) /\ L[m] = Step(seq, set, L, m)
      BY <2>1, <1>2
    <2>4. CASE m = 0
      BY <2>3, <2>4 DEF Step, Member
    <2>5. CASE m # 0
      <3>0. m - 1 \in 0..Len(seq) /\ m - 1 < m /\ m \in 1..Len(seq) /\ m \in DOMAIN seq
        BY <1>0, <2>3, <2>5
      <3>1. Good(m - 1)
        <4> HIDE DEF Good
        <4> QED BY <2>2, <3>0
      <3>1a. seq[m] \in S /\ 1..m = 1..(m - 1) \cup {m}
        BY <3>0, <1>0
      <3>2. {seq[k] : k \in 1..m} = {seq[k] : k \in 1..(m - 1)} \cup {seq[m]}
        BY <3>1a
      <3>3. CASE seq[m] \in set
        BY <3>1, <3>2, <3>3, <2>3, <2>5 DEF Step
      <3>4. CASE seq[m] \notin set
        <4>1. L[m] = Append(L[m - 1], seq[m])
          BY <2>3, <2>5, <3>4 DEF Step
        <4>2. L[m] \in Seq(S) /\ Member(L[m]) = Member(L[m - 1]) \cup {seq[m]}
          BY <4>1, <3>1, <3>1a, Appended
        <4> QED BY <4>2, <3>1, <3>2, <3>4, <2>3
      <3> QED BY <3>3, <3>4
    <2> QED BY <2>4, <2>5
  <1>5. Good(Len(seq))
    <2> HIDE DEF Good
    <2> QED BY <1>4, <1>0
  <1>6. Member(seq) = {seq[k] : k \in 1..Len(seq)}
    BY DEF Member
  <1> QED BY <1>3, <1>5, <1>6
-----------------------------------------------------------------------------
(* Sockets *)

LEMMA SocketIs ==
  ASSUME NEW r \in SocketRecord
  PROVE  /\ r.tab \in Tabs /\ r.phase \in {"new", "auth", "queued", "ready", "refused"}
         /\ r.open \in BOOLEAN /\ r.closed \in BOOLEAN /\ r.gone \in BOOLEAN
         /\ r.code \in {"none", "superseded", "failed"} /\ r.last \in Nat
         /\ r.up \in Seq(ClientMessage) /\ r.down \in Seq(ServerMessage)
         /\ r = [r EXCEPT !.down = r.down]
  BY DEF SocketRecord

LEMMA UpFacts ==
  ASSUME LiveLinkTypeOK, NEW K \in Seq(SocketRecord), NEW s \in DOMAIN K,
         NEW msgs \in Seq(ClientMessage)
  PROVE  /\ Up(K, s, msgs) \in Seq(SocketRecord) /\ Len(Up(K, s, msgs)) = Len(K)
         /\ Up(K, s, msgs) = [K EXCEPT ![s].up = IF K[s].open THEN K[s].up \o msgs ELSE K[s].up]
  <1>0. K[s] \in SocketRecord
    OBVIOUS
  <1>1. K[s].up \in Seq(ClientMessage)
    BY <1>0, SocketIs
  <1>2. K[s].up \o msgs \in Seq(ClientMessage)
    BY <1>1, Joining
  <1>3. [K[s] EXCEPT !.up = IF K[s].open THEN K[s].up \o msgs ELSE K[s].up] \in SocketRecord
    BY <1>0, <1>1, <1>2 DEF SocketRecord
  <1> QED
    BY <1>3 DEF Up

\* The same socket, but for what is under way to the tab.
Alike(r, k) ==
  /\ r.tab = k.tab /\ r.phase = k.phase /\ r.open = k.open /\ r.closed = k.closed
  /\ r.gone = k.gone /\ r.code = k.code /\ r.last = k.last /\ r.up = k.up

\* D is K after msgs have been sent on s.
Delivers(K, D, s, msgs) ==
  /\ DOMAIN D = DOMAIN K
  /\ \A i \in DOMAIN K : Alike(D[i], K[i])
  /\ \A i \in DOMAIN K : i = s /\ K[i].open => D[i].down = K[i].down \o msgs
  /\ \A i \in DOMAIN K : ~(i = s /\ K[i].open) => D[i].down = K[i].down

LEMMA DownFacts ==
  ASSUME NEW K \in Seq(SocketRecord), NEW s \in 0..Len(K), NEW msgs \in Seq(ServerMessage)
  PROVE  /\ Down(K, s, msgs) \in Seq(SocketRecord) /\ Len(Down(K, s, msgs)) = Len(K)
         /\ Delivers(K, Down(K, s, msgs), s, msgs)
  <1>0. CASE s = 0
    BY <1>0 DEF Down, Delivers, Alike
  <1>a. CASE s # 0
    <2> DEFINE r == [K[s] EXCEPT !.down = IF K[s].open THEN K[s].down \o msgs ELSE K[s].down]
    <2>0. s \in DOMAIN K
      BY <1>a
    <2>1. K[s] \in SocketRecord
      BY <2>0
    <2>2. K[s].down \in Seq(ServerMessage)
      BY <2>1, SocketIs
    <2>3. K[s].down \o msgs \in Seq(ServerMessage)
      BY <2>2, Joining
    <2>4. r \in SocketRecord
      BY <2>1, <2>2, <2>3 DEF SocketRecord
    <2>5. /\ Alike(r, K[s]) /\ (K[s].open => r.down = K[s].down \o msgs)
          /\ (~K[s].open => r.down = K[s].down)
      BY <2>1 DEF Alike, SocketRecord
    <2>6. Down(K, s, msgs) = [K EXCEPT ![s] = r]
      BY <1>a DEF Down
    <2> HIDE DEF r
    <2>7. Down(K, s, msgs) \in Seq(SocketRecord) /\ Len(Down(K, s, msgs)) = Len(K)
      BY <2>0, <2>4, <2>6, Replaced
    <2>8. \A i \in DOMAIN K : Down(K, s, msgs)[i] = IF i = s THEN r ELSE K[i]
      BY <2>6
    <2>9. DOMAIN Down(K, s, msgs) = DOMAIN K
      BY <2>6
    <2> QED
      BY <2>5, <2>7, <2>8, <2>9 DEF Delivers, Alike
  <1> QED
    BY <1>0, <1>a

LEMMA ClosedFacts ==
  ASSUME LiveLinkTypeOK, NEW K \in Seq(SocketRecord), NEW s \in DOMAIN K,
         NEW code \in {"superseded", "failed"}
  PROVE  /\ Closed(K, s, code) \in Seq(SocketRecord) /\ Len(Closed(K, s, code)) = Len(K)
         /\ Closed(K, s, code) =
              [K EXCEPT ![s] = [K[s] EXCEPT !.closed = TRUE, !.open = FALSE,
                                  !.code = IF K[s].open THEN code ELSE K[s].code]]
  <1>1. K[s] \in SocketRecord
    OBVIOUS
  <1>2. [K[s] EXCEPT !.closed = TRUE, !.open = FALSE,
                     !.code = IF K[s].open THEN code ELSE K[s].code] \in SocketRecord
    BY <1>1 DEF SocketRecord
  <1>3. Closed(K, s, code) =
              [K EXCEPT ![s] = [K[s] EXCEPT !.closed = TRUE, !.open = FALSE,
                                  !.code = IF K[s].open THEN code ELSE K[s].code]]
    BY DEF Closed
  <1> QED
    BY <1>2, <1>3

-----------------------------------------------------------------------------
(* The engine's handlers: the turns they add, and what they send of them *)

\* f is the engine e after some turns, a reply begun or broken off and some sends.
Only(e, f) == f = [e EXCEPT !.turns = f.turns, !.gen = f.gen, !.out = f.out]

\* To the turns the engine had, f has added some, and what it sends says so.
Adds(f) ==
  /\ Len(engine.turns) <= Len(f.turns)
  /\ \A i \in DOMAIN engine.turns : f.turns[i] = engine.turns[i]
  /\ \A m \in Member(f.out) : m.type = "saved" /\ m.n <= Len(f.turns)
  /\ \A i \in DOMAIN f.out :
       f.out[i].n <= Len(engine.turns) + 1 \/ \E j \in 1..(i - 1) : f.out[j].n >= f.out[i].n - 1
  /\ \A i \in DOMAIN f.turns : i \in DOMAIN engine.turns \/ SavedMessage(i) \in Member(f.out)

Turn == {AgentTurn} \cup DOMAIN history.said

LEMMA PersistFacts ==
  ASSUME LiveLinkTypeOK, NEW e \in EngineRecord, NEW x \in Turn
  PROVE  LET f == PersistTurn(e, x) IN
         /\ f \in EngineRecord /\ Only(e, f) /\ f.turns = Append(e.turns, x) /\ f.gen = e.gen
         /\ Adds(e) => Adds(f)
  <1> DEFINE f == PersistTurn(e, x)
  <1>0. Append(e.turns, x) \in Seq(Turn) /\ Append(e.out, SavedMessage(Len(e.turns) + 1)) \in Seq(ServerMessage)
    <2>1. e.turns \in Seq(Turn) /\ e.out \in Seq(ServerMessage)
      BY DEF EngineRecord, Turn
    <2>2. SavedMessage(Len(e.turns) + 1) \in ServerMessage
      BY <2>1 DEF SavedMessage, ServerMessage
    <2> QED BY <2>1, <2>2, Appended
  <1>1. e.turns \in Seq(Turn) /\ e.out \in Seq(ServerMessage) /\ engine.turns \in Seq(Turn)
    BY DEF LiveLinkTypeOK, EngineRecord, Turn
  <1>2. SavedMessage(Len(e.turns) + 1) \in ServerMessage
    BY <1>1 DEF SavedMessage, ServerMessage
  <1>3. f = [e EXCEPT !.turns = Append(e.turns, x), !.out = Append(e.out, SavedMessage(Len(e.turns) + 1))]
    BY DEF PersistTurn, Sends, EngineRecord
  <1>4. f.turns = Append(e.turns, x) /\ f.out = Append(e.out, SavedMessage(Len(e.turns) + 1)) /\ f.gen = e.gen
    BY <1>3 DEF EngineRecord
  <1>5. f \in EngineRecord
    BY <1>0, <1>3 DEF EngineRecord, Turn
  <1>6. Only(e, f)
    BY <1>3, <1>4 DEF Only, EngineRecord
  <1>7. ASSUME Adds(e) PROVE Adds(f)
    <2> DEFINE m == SavedMessage(Len(e.turns) + 1)
    <2>0. m.type = "saved" /\ m.n = Len(e.turns) + 1
      BY DEF SavedMessage
    <2>1. /\ Member(f.out) = Member(e.out) \cup {m} /\ DOMAIN f.out = DOMAIN e.out \cup {Len(e.out) + 1}
          /\ \A i \in DOMAIN e.out : f.out[i] = e.out[i]
          /\ f.out[Len(e.out) + 1] = m
      BY <1>1, <1>2, <1>4, Appended
    <2>2. /\ Len(f.turns) = Len(e.turns) + 1 /\ DOMAIN f.turns = DOMAIN e.turns \cup {Len(e.turns) + 1}
          /\ \A i \in DOMAIN e.turns : f.turns[i] = e.turns[i]
      BY <1>1, <1>4, Appended
    <2>3. Len(engine.turns) \in Nat /\ Len(e.turns) \in Nat /\ DOMAIN engine.turns = 1..Len(engine.turns)
          /\ DOMAIN e.turns = 1..Len(e.turns) /\ DOMAIN e.out = 1..Len(e.out) /\ Len(e.out) \in Nat
      BY <1>1
    <2> HIDE DEF f, m
    <2>4. \A i \in DOMAIN engine.turns : f.turns[i] = engine.turns[i]
      BY <1>7, <2>2, <2>3 DEF Adds
    <2>5. \A k \in Member(e.out) : k \in ServerMessage
      BY <1>1, Inside
    <2>6. \A k \in Member(f.out) : k.type = "saved" /\ k.n <= Len(f.turns)
      <3> SUFFICES ASSUME NEW k \in Member(f.out) PROVE k.type = "saved" /\ k.n <= Len(f.turns)
        OBVIOUS
      <3>1. CASE k = m
        BY <2>0, <2>2, <2>3, <3>1
      <3>2. CASE k \in Member(e.out)
        <4>1. k.type = "saved" /\ k.n <= Len(e.turns)
          BY <1>7, <3>2 DEF Adds
        <4>2. k.n \in Nat
          BY <2>5, <3>2, <4>1 DEF ServerMessage
        <4> QED BY <4>1, <4>2, <2>2, <2>3
      <3> QED BY <2>1, <3>1, <3>2
    <2>7. ASSUME NEW i \in DOMAIN f.out
          PROVE  f.out[i].n <= Len(engine.turns) + 1 \/ \E j \in 1..(i - 1) : f.out[j].n >= f.out[i].n - 1
      <3>1. CASE i \in DOMAIN e.out
        <4>1. e.out[i].n <= Len(engine.turns) + 1 \/ \E j \in 1..(i - 1) : e.out[j].n >= e.out[i].n - 1
          BY <1>7, <3>1 DEF Adds
        <4>2. \A j \in 1..(i - 1) : f.out[j] = e.out[j]
          BY <2>1, <2>3, <3>1
        <4> QED BY <4>1, <4>2, <2>1, <3>1
      <3>2. CASE i = Len(e.out) + 1
        <4>1. CASE Len(e.turns) = Len(engine.turns)
          BY <4>1, <3>2, <2>0, <2>1, <2>3
        <4>2. CASE Len(e.turns) # Len(engine.turns)
          <5>1. Len(e.turns) \in DOMAIN e.turns /\ Len(e.turns) \notin DOMAIN engine.turns
            BY <4>2, <1>7, <2>3 DEF Adds
          <5>2. SavedMessage(Len(e.turns)) \in Member(e.out)
            BY <5>1, <1>7 DEF Adds
          <5>3. PICK j \in DOMAIN e.out : e.out[j] = SavedMessage(Len(e.turns))
            BY <5>2 DEF Member
          <5>4. e.out[j].n = Len(e.turns) /\ f.out[j] = e.out[j] /\ j \in 1..(i - 1)
            BY <5>3, <2>1, <2>3, <3>2 DEF SavedMessage
          <5>5. f.out[i].n = Len(e.turns) + 1
            BY <2>0, <2>1, <3>2
          <5> QED BY <5>4, <5>5, <2>3
        <4> QED BY <4>1, <4>2
      <3> QED BY <2>1, <3>1, <3>2
    <2>8. \A i \in DOMAIN f.turns : i \in DOMAIN engine.turns \/ SavedMessage(i) \in Member(f.out)
      BY <1>7, <2>1, <2>2 DEF Adds, m
    <2>9. Len(engine.turns) <= Len(f.turns)
      BY <1>7, <2>2, <2>3 DEF Adds
    <2> QED BY <2>4, <2>6, <2>7, <2>8, <2>9 DEF Adds
  <1> QED
    BY <1>4, <1>5, <1>6, <1>7

LEMMA EngineIs ==
  ASSUME NEW e \in EngineRecord
  PROVE  /\ e.loaded \in BOOLEAN /\ e.st \in {"ACTIVE", "PAUSED", "RECONNECTING"}
         /\ e.wasPaused \in BOOLEAN /\ e.gen \in BOOLEAN
         /\ e.queue \in Seq(TaskRecord) /\ e.busy \in 0..Len(socket) /\ e.transport \in 0..Len(socket)
         /\ e.turns \in Seq(Turn) /\ e.out \in Seq(ServerMessage)
         /\ Only(e, e)
  BY DEF EngineRecord, Turn, Only

\* f has the turns of e, and after them some of agents.
Talks(e, f) ==
  /\ Len(e.turns) <= Len(f.turns)
  /\ \A i \in DOMAIN e.turns : f.turns[i] = e.turns[i]
  /\ \A i \in DOMAIN f.turns : i \in DOMAIN e.turns \/ f.turns[i] = AgentTurn

LEMMA Silent ==
  ASSUME NEW e \in EngineRecord
  PROVE  Talks(e, e)
  BY EngineIs DEF Talks

LEMMA AbortFacts ==
  ASSUME LiveLinkTypeOK, NEW e \in EngineRecord, NEW heard
  PROVE  LET f == AbortGeneration(e, heard) IN
         /\ f \in EngineRecord /\ Only(e, f) /\ Talks(e, f) /\ (Adds(e) => Adds(f))
  <1> DEFINE f == AbortGeneration(e, heard)
             q == [e EXCEPT !.gen = FALSE]
  <1>1. q \in EngineRecord /\ q.turns = e.turns /\ q.out = e.out /\ q.gen = FALSE
    BY DEF EngineRecord
  <1>2. Only(e, q) /\ (Adds(e) => Adds(q)) /\ Talks(e, q)
    <2>1. Only(e, q)
      BY <1>1 DEF Only, EngineRecord
    <2>2. Talks(e, q)
      BY <1>1, EngineIs DEF Talks
    <2> QED BY <1>1, <2>1, <2>2 DEF Adds
  <1>3. CASE e.gen /\ heard
    <2>1. f = PersistTurn(q, AgentTurn)
      BY <1>3 DEF AbortGeneration
    <2>2. AgentTurn \in Turn
      BY DEF Turn
    <2> HIDE DEF f, q
    <2>3. f \in EngineRecord /\ Only(q, f) /\ f.turns = Append(q.turns, AgentTurn) /\ f.gen = FALSE /\ (Adds(q) => Adds(f))
      BY <1>1, <2>1, <2>2, PersistFacts
    <2>4. Only(e, f)
      BY <1>2, <2>3 DEF Only, EngineRecord
    <2>5. Talks(e, f)
      <3>1. e.turns \in Seq(Turn)
        BY EngineIs
      <3> QED BY <3>1, <1>1, <2>2, <2>3, Appended DEF Talks
    <2> QED BY <1>2, <2>3, <2>4, <2>5 DEF f
  <1>4. CASE ~(e.gen /\ heard)
    BY <1>1, <1>2, <1>4 DEF AbortGeneration
  <1> QED BY <1>3, <1>4

LEMMA ScheduleFacts ==
  ASSUME LiveLinkTypeOK, NEW e \in EngineRecord, NEW heard
  PROVE  LET f == ScheduleGeneration(e, heard) IN
         /\ f \in EngineRecord /\ Only(e, f) /\ Talks(e, f) /\ (Adds(e) => Adds(f))
  <1> DEFINE f == ScheduleGeneration(e, heard)
             q == AbortGeneration(e, heard)
  <1>1. CASE e.st # "ACTIVE"
    <2>1. Talks(e, e) /\ Only(e, e)
      BY EngineIs DEF Talks
    <2> QED BY <1>1, <2>1 DEF ScheduleGeneration
  <1>2. CASE e.st = "ACTIVE"
    <2>1. q \in EngineRecord /\ Only(e, q) /\ Talks(e, q) /\ (Adds(e) => Adds(q))
      BY AbortFacts
    <2>2. f = [q EXCEPT !.gen = TRUE]
      BY <1>2 DEF ScheduleGeneration
    <2> HIDE DEF f, q
    <2>3. f \in EngineRecord /\ f.turns = q.turns /\ f.out = q.out /\ f.gen = TRUE
      BY <2>1, <2>2 DEF EngineRecord
    <2>4. Only(e, f)
      BY <2>1, <2>2, <2>3 DEF Only, EngineRecord
    <2> QED BY <2>1, <2>3, <2>4 DEF Talks, Adds, f
  <1> QED BY <1>1, <1>2

LEMMA TakenFacts ==
  ASSUME LiveLinkTypeOK, engine.queue # << >>
  PROVE  /\ Taken \in EngineRecord /\ Adds(Taken) /\ Taken.turns = engine.turns /\ Taken.out = << >>
         /\ Taken.queue = Tail(engine.queue) /\ Taken.st = engine.st /\ Taken.busy = engine.busy
         /\ Taken.transport = engine.transport /\ Taken.loaded = engine.loaded
         /\ Taken.wasPaused = engine.wasPaused /\ Taken.gen = engine.gen
         /\ Head(engine.queue) \in TaskRecord
  <1>1. engine \in EngineRecord /\ engine.out = << >>
    BY DEF LiveLinkTypeOK
  <1>2. engine.queue \in Seq(TaskRecord) /\ engine.turns \in Seq(Turn)
    BY <1>1, EngineIs
  <1>3. Tail(engine.queue) \in Seq(TaskRecord) /\ Head(engine.queue) \in TaskRecord
    BY <1>2, Taking
  <1>4. /\ Taken \in EngineRecord /\ Taken.turns = engine.turns /\ Taken.out = << >>
        /\ Taken.queue = Tail(engine.queue) /\ Taken.st = engine.st /\ Taken.busy = engine.busy
        /\ Taken.transport = engine.transport /\ Taken.loaded = engine.loaded
        /\ Taken.wasPaused = engine.wasPaused /\ Taken.gen = engine.gen
    BY <1>1, <1>3 DEF Taken, EngineRecord
  <1>5. Adds(Taken)
    <2> HIDE DEF Taken
    <2> QED BY <1>2, <1>4, Nothing DEF Adds
  <1> QED BY <1>3, <1>4, <1>5

LEMMA OnFinalFacts ==
  ASSUME LiveLinkTypeOK, NEW e \in EngineRecord, NEW n \in DOMAIN history.said, NEW heard,
         Adds(e), e.out = << >>, e.turns = engine.turns
  PROVE  LET f == OnFinal(e, n, heard) IN
         /\ f \in EngineRecord /\ Only(e, f) /\ Adds(f)
         /\ \A i \in DOMAIN f.turns : i \in DOMAIN e.turns \/ f.turns[i] = AgentTurn
              \/ (f.turns[i] = n /\ i = Len(e.turns) + 1 /\ ~Saved(e, n))
         /\ Saved(e, n) => \E m \in Member(f.out) : e.turns[m.n] = n /\ m.n \in DOMAIN e.turns
         /\ ~Saved(e, n) /\ e.st = "ACTIVE" => Len(f.turns) > Len(e.turns) /\ f.turns[Len(e.turns) + 1] = n
  <1> DEFINE f == OnFinal(e, n, heard)
  <1>0. e.turns \in Seq(Turn) /\ e.out \in Seq(ServerMessage) /\ Only(e, e)
    BY EngineIs
  <1>1. CASE Saved(e, n)
    <2> DEFINE k == SeqOf(e, n)
               m == SavedMessage(k)
    <2>1. k \in DOMAIN e.turns /\ e.turns[k] = n
      BY <1>1 DEF Saved, SeqOf
    <2> HIDE DEF k
    <2>2. m.type = "saved" /\ m.n = k /\ m \in ServerMessage
      BY <1>0, <2>1 DEF SavedMessage, ServerMessage
    <2>3. f = [e EXCEPT !.out = Append(e.out, m)]
      BY <1>1 DEF OnFinal, Sends, k, EngineRecord
    <2> HIDE DEF f, m
    <2>4. /\ Append(e.out, m) \in Seq(ServerMessage) /\ Member(Append(e.out, m)) = {m}
          /\ DOMAIN Append(e.out, m) = {1} /\ Append(e.out, m)[1] = m
      <3>1. Append(e.out, m) = <<m>>
        OBVIOUS
      <3>2. <<m>> \in Seq(ServerMessage) /\ DOMAIN <<m>> = {1} /\ <<m>>[1] = m
        BY <2>2
      <3>3. Member(<<m>>) = {m}
        BY <3>2 DEF Member
      <3> QED BY <3>1, <3>2, <3>3
    <2>5. f \in EngineRecord /\ f.turns = e.turns /\ f.out = Append(e.out, m) /\ f.gen = e.gen
      BY <2>3, <2>4 DEF EngineRecord
    <2>6. Only(e, f)
      BY <2>3, <2>5 DEF Only, EngineRecord
    <2>7. k <= Len(e.turns) /\ Len(e.turns) \in Nat /\ DOMAIN e.turns = 1..Len(e.turns) /\ k \in Nat
      BY <1>0, <2>1
    <2>8. Adds(f)
      <3>1. \A x \in Member(f.out) : x.type = "saved" /\ x.n <= Len(f.turns)
        BY <2>2, <2>4, <2>5, <2>7
      <3>2. \A i \in DOMAIN f.out : f.out[i].n <= Len(engine.turns) + 1
        BY <2>2, <2>4, <2>5, <2>7
      <3> QED BY <3>1, <3>2, <2>5, <2>7 DEF Adds
    <2> QED BY <1>1, <2>1, <2>2, <2>4, <2>5, <2>6, <2>8 DEF f
  <1>2. CASE ~Saved(e, n) /\ e.st # "ACTIVE"
    BY <1>0, <1>2 DEF OnFinal
  <1>3. CASE ~Saved(e, n) /\ e.st = "ACTIVE"
    <2> DEFINE q == PersistTurn(e, n)
    <2>0. n \in Turn
      BY DEF Turn
    <2>1. q \in EngineRecord /\ Only(e, q) /\ q.turns = Append(e.turns, n) /\ Adds(q)
      BY <2>0, PersistFacts
    <2>2. f = ScheduleGeneration(q, heard)
      BY <1>3 DEF OnFinal
    <2> HIDE DEF f, q
    <2>3. f \in EngineRecord /\ Only(q, f) /\ Talks(q, f) /\ Adds(f)
      BY <2>1, <2>2, ScheduleFacts
    <2>4. Only(e, f)
      BY <2>1, <2>3 DEF Only, EngineRecord
    <2>5. /\ Len(q.turns) = Len(e.turns) + 1 /\ DOMAIN q.turns = DOMAIN e.turns \cup {Len(e.turns) + 1}
          /\ q.turns[Len(e.turns) + 1] = n
      BY <1>0, <2>0, <2>1, Appended
    <2>6. f.turns \in Seq(Turn) /\ Len(e.turns) \in Nat /\ Len(f.turns) \in Nat
      BY <2>3, <1>0, EngineIs
    <2>7. f.turns[Len(e.turns) + 1] = n /\ Len(f.turns) > Len(e.turns)
      BY <2>3, <2>5, <2>6 DEF Talks
    <2>8. \A i \in DOMAIN f.turns : i \in DOMAIN e.turns \/ f.turns[i] = AgentTurn
              \/ (f.turns[i] = n /\ i = Len(e.turns) + 1 /\ ~Saved(e, n))
      BY <1>3, <2>3, <2>5, <2>7 DEF Talks
    <2> QED BY <1>3, <2>3, <2>4, <2>7, <2>8 DEF f
  <1> QED BY <1>1, <1>2, <1>3

\* f is the engine e after a control, but for what it has said.
Controls(e, f) ==
  f = [e EXCEPT !.turns = f.turns, !.gen = f.gen, !.out = f.out, !.st = f.st]

LEMMA OnDurableFacts ==
  ASSUME LiveLinkTypeOK, NEW e \in EngineRecord, NEW type, NEW heard, Adds(e)
  PROVE  LET f == OnDurable(e, type, heard) IN
         /\ f \in EngineRecord /\ Talks(e, f) /\ Adds(f)
         /\ Controls(e, f)
         /\ e.st = f.st \/ (e.st # "RECONNECTING" /\ f.st # "RECONNECTING")
  <1> DEFINE f == OnDurable(e, type, heard)
             q == AbortGeneration(e, heard)
  <1>0. Talks(e, e) /\ Controls(e, e)
    BY Silent DEF EngineRecord, Controls
  <1>1. CASE type = "pause" /\ e.st = "ACTIVE"
    <2>1. q \in EngineRecord /\ Only(e, q) /\ Talks(e, q) /\ Adds(q)
      BY AbortFacts
    <2>2. f = [q EXCEPT !.st = "PAUSED"]
      BY <1>1 DEF OnDurable
    <2> HIDE DEF f, q
    <2>3. f \in EngineRecord /\ f.turns = q.turns /\ f.out = q.out /\ f.gen = q.gen /\ f.st = "PAUSED"
      BY <2>1, <2>2 DEF EngineRecord
    <2>4. Controls(e, f)
      BY <2>1, <2>2, <2>3 DEF Only, EngineRecord, Controls
    <2> QED BY <1>1, <2>1, <2>3, <2>4 DEF Talks, Adds, f
  <1>2. CASE type = "resume" /\ e.st = "PAUSED"
    <2>1. f = [e EXCEPT !.st = "ACTIVE"]
      BY <1>2 DEF OnDurable
    <2> HIDE DEF f
    <2>2. f \in EngineRecord /\ f.turns = e.turns /\ f.out = e.out /\ f.gen = e.gen /\ f.st = "ACTIVE"
      BY <2>1 DEF EngineRecord
    <2>3. Controls(e, f)
      BY <2>1, <2>2 DEF EngineRecord, Controls
    <2> QED BY <1>0, <1>2, <2>2, <2>3 DEF Talks, Adds, f
  <1>3. CASE ~(type = "pause" /\ e.st = "ACTIVE") /\ ~(type = "resume" /\ e.st = "PAUSED")
    BY <1>0, <1>3 DEF OnDurable
  <1> QED BY <1>1, <1>2, <1>3

LEMMA OnDetachFacts ==
  ASSUME LiveLinkTypeOK, NEW e \in EngineRecord, NEW s, Adds(e), e.transport # 0 => e.st # "RECONNECTING"
  PROVE  LET f == OnDetach(e, s) IN
         /\ f \in EngineRecord /\ Adds(f) /\ Talks(e, f)
         /\ f = [e EXCEPT !.turns = f.turns, !.gen = f.gen, !.out = f.out, !.st = f.st,
                          !.transport = f.transport, !.wasPaused = f.wasPaused]
         /\ e.transport # s => f = e
         /\ e.transport = s => f.transport = 0
         /\ e.transport = s /\ s # 0 => f.st = "RECONNECTING"
  <1> DEFINE f == OnDetach(e, s)
             q == [e EXCEPT !.transport = 0]
             off == AbortGeneration(q, FALSE)
  <1>0. Talks(e, e) /\ e = [e EXCEPT !.turns = e.turns, !.gen = e.gen, !.out = e.out, !.st = e.st,
                          !.transport = e.transport, !.wasPaused = e.wasPaused]
    BY Silent DEF EngineRecord
  <1>1. CASE e.transport # s
    BY <1>0, <1>1 DEF OnDetach, Stale
  <1>2. CASE e.transport = s
    <2>1. q \in EngineRecord /\ q.turns = e.turns /\ q.out = e.out
      BY SMTT(20) DEF EngineRecord
    <2>2. Adds(q)
      BY <2>1 DEF Adds
    <2>3. off \in EngineRecord /\ Only(q, off) /\ Talks(q, off) /\ Adds(off)
      BY <2>1, <2>2, AbortFacts
    <2>4. f = IF e.st \in {"ACTIVE", "PAUSED"}
              THEN [off EXCEPT !.st = "RECONNECTING", !.wasPaused = (e.st = "PAUSED")]
              ELSE off
      BY <1>2 DEF OnDetach, Stale
    <2>5. off.transport = 0 /\ off.st = e.st
      BY <2>3 DEF Only, EngineRecord
    <2>6. off = [e EXCEPT !.turns = off.turns, !.gen = off.gen, !.out = off.out, !.transport = 0]
      BY <2>3 DEF Only, EngineRecord
    <2> HIDE DEF f, off, q
    <2>7. /\ f \in EngineRecord /\ f.turns = off.turns /\ f.out = off.out /\ f.transport = 0
          /\ e.st # "RECONNECTING" => f.st = "RECONNECTING"
      BY <2>3, <2>4, <2>5 DEF EngineRecord
    <2>8. f = [e EXCEPT !.turns = f.turns, !.gen = f.gen, !.out = f.out, !.st = f.st,
                          !.transport = f.transport, !.wasPaused = f.wasPaused]
      BY <2>3, <2>4, <2>6 DEF EngineRecord
    <2>9. Adds(f) /\ Talks(e, f)
      BY <2>1, <2>3, <2>7 DEF Adds, Talks
    <2> QED BY <1>2, <2>7, <2>8, <2>9 DEF f
  <1> QED BY <1>1, <1>2

-----------------------------------------------------------------------------
(* The transcript of a tab *)

LEMMA Highest ==
  ASSUME NEW S \in SUBSET Nat, NEW h \in S, \A i \in S : i <= h
  PROVE  (CHOOSE n \in S : \A i \in S : i <= n) = h
  <1>1. \A n \in S : (\A i \in S : i <= n) => n = h
    OBVIOUS
  <1> QED BY <1>1

LEMMA ShowsFacts ==
  ASSUME LiveLinkTypeOK, NEW c \in TabRecord, NEW seqs \in SUBSET Nat,
         NEW h \in seqs \cup {c.lastSeq}, \A i \in seqs \cup {c.lastSeq} : i <= h
  PROVE  /\ Shows(c, seqs) \in TabRecord
         /\ Shows(c, seqs) = [c EXCEPT !.lastSeq = h, !.shown = c.shown \cup seqs,
                                       !.pending = Shows(c, seqs).pending]
         /\ Member(Shows(c, seqs).pending) = Member(c.pending) \ {engine.turns[i] : i \in seqs}
  <1> DEFINE d == Shows(c, seqs)
             top == CHOOSE n \in seqs \cup {c.lastSeq} : \A i \in seqs \cup {c.lastSeq} : i <= n
             left == Without(c.pending, {engine.turns[i] : i \in seqs})
  <1>1. c.lastSeq \in Nat /\ c.pending \in Seq(DOMAIN history.said) /\ c.shown \in SUBSET Nat
    BY DEF TabRecord
  <1>2. top = h
    BY <1>1, Highest
  <1>3. /\ left \in Seq(DOMAIN history.said)
        /\ Member(left) = Member(c.pending) \ {engine.turns[i] : i \in seqs}
    BY <1>1, WithoutFacts
  <1>4. d = [c EXCEPT !.lastSeq = top, !.pending = left, !.shown = c.shown \cup seqs]
    BY DEF Shows
  <1> HIDE DEF d, top, left
  <1>5. d \in TabRecord /\ d.pending = left
    BY <1>1, <1>2, <1>3, <1>4 DEF TabRecord
  <1>6. d = [c EXCEPT !.lastSeq = h, !.shown = c.shown \cup seqs, !.pending = d.pending]
    BY <1>2, <1>4, <1>5 DEF TabRecord
  <1> QED BY <1>3, <1>5, <1>6 DEF d

-----------------------------------------------------------------------------
(* Types *)

LEMMA Longer ==
  ASSUME Len(socket) \in Nat, Len(socket') \in Nat, Len(socket) <= Len(socket'),
         DOMAIN socket = 1..Len(socket), DOMAIN socket' = 1..Len(socket'),
         DOMAIN history.said \subseteq DOMAIN history'.said,
         DOMAIN history.sent \subseteq DOMAIN history'.sent
  PROVE  /\ ClientMessage \subseteq ClientMessage' /\ TaskRecord \subseteq TaskRecord'
         /\ TabRecord \subseteq TabRecord' /\ SocketRecord \subseteq SocketRecord'
         /\ EngineRecord \subseteq EngineRecord'
         /\ Seq(SocketRecord) \subseteq Seq(SocketRecord')
  <1> DEFINE S == DOMAIN history.said
             T == DOMAIN history.sent
             U == DOMAIN history'.said
             V == DOMAIN history'.sent
  <1>1. ClientMessage \subseteq ClientMessage'
    BY DEF ClientMessage
  <1>2. 0..Len(socket) \subseteq 0..Len(socket') /\ DOMAIN socket \subseteq DOMAIN socket'
    OBVIOUS
  <1>3. Seq(ClientMessage) \subseteq Seq(ClientMessage')
    BY <1>1, Wider
  <1>4. TaskRecord \subseteq TaskRecord'
    BY <1>1, <1>2 DEF TaskRecord
  <1>5. Seq(TaskRecord) \subseteq Seq(TaskRecord')
    BY <1>4, Wider
  <1>6. Seq(S) \subseteq Seq(U) /\ Seq(T) \subseteq Seq(V)
    BY Wider
  <1>7. Seq({AgentTurn} \cup S) \subseteq Seq({AgentTurn} \cup U)
    <2>1. {AgentTurn} \cup S \subseteq {AgentTurn} \cup U
      OBVIOUS
    <2> QED BY <2>1, Wider
  <1>8. TabRecord \subseteq TabRecord'
    BY <1>2, <1>6 DEF TabRecord
  <1>9. SocketRecord \subseteq SocketRecord'
    BY <1>3 DEF SocketRecord, ServerMessage
  <1>10. EngineRecord \subseteq EngineRecord'
    BY <1>2, <1>5, <1>7 DEF EngineRecord, ServerMessage
  <1> QED BY <1>1, <1>4, <1>8, <1>9, <1>10, Wider

\* No socket opened, nothing new said or sent.
LEMMA AsLong ==
  ASSUME Len(socket') = Len(socket), DOMAIN socket' = DOMAIN socket,
         history'.said = history.said, history'.sent = history.sent
  PROVE  /\ ClientMessage' = ClientMessage /\ TaskRecord' = TaskRecord /\ TabRecord' = TabRecord
         /\ SocketRecord' = SocketRecord /\ EngineRecord' = EngineRecord
  <1>1. ClientMessage' = ClientMessage
    BY DEF ClientMessage
  <1>2. TaskRecord' = TaskRecord
    BY <1>1 DEF TaskRecord
  <1> QED BY <1>1, <1>2 DEF TabRecord, SocketRecord, ServerMessage, EngineRecord

LEMMA Typed ==
  ASSUME LiveLinkTypeOK
  PROVE  /\ socket \in Seq(SocketRecord) /\ Len(socket) \in Nat /\ DOMAIN socket = 1..Len(socket)
         /\ \A s \in DOMAIN socket : socket[s] \in SocketRecord
         /\ tab \in [Tabs -> TabRecord] /\ \A t \in Tabs : tab[t] \in TabRecord
         /\ engine \in EngineRecord /\ engine.out = << >>
         /\ history \in HistoryRecord
         /\ history.said \in Seq(Tabs) /\ DOMAIN history.said = 1..Len(history.said)
         /\ Len(history.said) \in Nat
         /\ history.sent \in Seq([tab: Tabs, type: Durables]) /\ DOMAIN history.sent = 1..Len(history.sent)
         /\ Len(history.sent) \in Nat
         /\ history.handled \in Seq(DOMAIN history.sent)
         /\ history.excused \in SUBSET DOMAIN history.said
  <1>1. /\ socket \in Seq(SocketRecord) /\ tab \in [Tabs -> TabRecord] /\ engine \in EngineRecord
        /\ engine.out = << >> /\ history \in HistoryRecord
    BY DEF LiveLinkTypeOK
  <1>2. /\ history.said \in Seq(Tabs) /\ history.sent \in Seq([tab: Tabs, type: Durables])
        /\ history.handled \in Seq(DOMAIN history.sent)
        /\ history.excused \in SUBSET DOMAIN history.said
    BY <1>1 DEF HistoryRecord
  <1> QED BY <1>1, <1>2

LEMMA TabIs ==
  ASSUME NEW c \in TabRecord
  PROVE  /\ c.status \in {"idle", "live", "superseded", "failed"} /\ c.ws \in 0..Len(socket)
         /\ c.welcomed \in BOOLEAN /\ c.lastSeq \in Nat /\ c.pending \in Seq(DOMAIN history.said)
         /\ c.outbox \in Seq(DOMAIN history.sent) /\ c.shown \in SUBSET Nat
  BY DEF TabRecord

LEMMA InitTypes == LiveLinkInit => LiveLinkTypeOK
  <1> SUFFICES ASSUME LiveLinkInit PROVE LiveLinkTypeOK
    OBVIOUS
  <1>1. socket = << >> /\ socket \in Seq(SocketRecord) /\ Len(socket) = 0
    BY DEF LiveLinkInit
  <1>2. history \in HistoryRecord
    BY DEF LiveLinkInit, HistoryRecord
  <1>3. tab \in [Tabs -> TabRecord]
    BY <1>1 DEF LiveLinkInit, TabRecord
  <1>4. engine \in EngineRecord /\ engine.out = << >>
    BY <1>1 DEF LiveLinkInit, EngineRecord
  <1> QED BY <1>1, <1>2, <1>3, <1>4 DEF LiveLinkTypeOK

LEMMA TypesAsLong ==
  ASSUME LiveLinkTypeOK, socket' \in Seq(SocketRecord), Len(socket') = Len(socket),
         tab' \in [Tabs -> TabRecord], engine' \in EngineRecord, engine'.out = << >>,
         history' \in HistoryRecord, history'.said = history.said, history'.sent = history.sent
  PROVE  LiveLinkTypeOK'
  <1>1. DOMAIN socket' = DOMAIN socket
    BY Typed
  <1>2. /\ TabRecord' = TabRecord /\ SocketRecord' = SocketRecord /\ EngineRecord' = EngineRecord
    BY <1>1, AsLong
  <1>3. HistoryRecord' = HistoryRecord
    BY DEF HistoryRecord
  <1> QED BY <1>2, <1>3 DEF LiveLinkTypeOK

LEMMA Hushed ==
  ASSUME NEW f \in EngineRecord
  PROVE  /\ [f EXCEPT !.out = << >>] \in EngineRecord
         /\ LET e == [f EXCEPT !.out = << >>] IN
              /\ e.out = << >> /\ e.turns = f.turns /\ e.queue = f.queue
              /\ e.st = f.st /\ e.busy = f.busy /\ e.transport = f.transport
              /\ e.loaded = f.loaded /\ e.gen = f.gen /\ e.wasPaused = f.wasPaused
  <1>1. << >> \in Seq(ServerMessage)
    OBVIOUS
  <1>2. PICK nothing \in Seq(ServerMessage) : nothing = << >>
    BY <1>1
  <1>3. [f EXCEPT !.out = nothing] \in EngineRecord
    BY DEF EngineRecord
  <1> QED BY <1>2, <1>3 DEF EngineRecord

LEMMA DoesFacts ==
  ASSUME LiveLinkTypeOK, NEW f \in EngineRecord, NEW K \in Seq(SocketRecord),
         Len(K) = Len(socket), Does(f, K)
  PROVE  /\ engine' \in EngineRecord
         /\ engine'.out = << >> /\ engine'.turns = f.turns /\ engine'.queue = f.queue
         /\ engine'.st = f.st /\ engine'.busy = f.busy /\ engine'.transport = f.transport
         /\ engine'.loaded = f.loaded /\ engine'.gen = f.gen /\ engine'.wasPaused = f.wasPaused
         /\ socket' \in Seq(SocketRecord) /\ Len(socket') = Len(socket) /\ DOMAIN socket' = DOMAIN socket
         /\ Delivers(K, socket', f.transport, f.out)
  <1>1. engine' = [f EXCEPT !.out = << >>] /\ socket' = Down(K, f.transport, f.out)
    BY DEF Does
  <1>2. f.transport \in 0..Len(K) /\ f.out \in Seq(ServerMessage)
    BY EngineIs
  <1>3. /\ socket' \in Seq(SocketRecord) /\ Len(socket') = Len(K)
        /\ Delivers(K, socket', f.transport, f.out)
    BY <1>1, <1>2, DownFacts
  <1>4. DOMAIN socket' = DOMAIN socket
    BY <1>3, Typed
  <1>5. /\ [f EXCEPT !.out = << >>] \in EngineRecord
         /\ LET e == [f EXCEPT !.out = << >>] IN
              /\ e.out = << >> /\ e.turns = f.turns /\ e.queue = f.queue
              /\ e.st = f.st /\ e.busy = f.busy /\ e.transport = f.transport
              /\ e.loaded = f.loaded /\ e.gen = f.gen /\ e.wasPaused = f.wasPaused
    BY Hushed
  <1> QED BY <1>1, <1>3, <1>4, <1>5

LEMMA TypesOpen ==
  ASSUME LiveLinkTypeOK, NEW t \in Tabs, Open(t)
  PROVE  LiveLinkTypeOK'
  <1> DEFINE r == [tab |-> t, phase |-> "new", open |-> TRUE, closed |-> FALSE,
                   gone |-> FALSE, code |-> "none", last |-> 0,
                   up |-> <<Hello(tab[t].lastSeq)>>, down |-> << >>]
  <1>1. tab[t].lastSeq \in Nat
    BY Typed, TabIs
  <1>2. <<Hello(tab[t].lastSeq)>> \in Seq(ClientMessage)
    <2>1. Hello(tab[t].lastSeq) \in ClientMessage
      BY <1>1 DEF Hello, ClientMessage
    <2> HIDE DEF Hello
    <2> QED BY <2>1
  <1>3. r \in SocketRecord
    BY <1>2 DEF SocketRecord
  <1>4. socket' = Append(socket, r) /\ tab' = [tab EXCEPT ![t].ws = Len(socket) + 1, ![t].welcomed = FALSE]
        /\ engine' = engine /\ history' = history
    BY DEF Open
  <1> HIDE DEF r
  <1>5. socket' \in Seq(SocketRecord) /\ Len(socket') = Len(socket) + 1
    BY <1>3, <1>4, Typed, Appended
  <1>6. /\ TabRecord \subseteq TabRecord' /\ Seq(SocketRecord) \subseteq Seq(SocketRecord')
        /\ EngineRecord \subseteq EngineRecord'
    BY <1>4, <1>5, Typed, Longer
  <1>7. tab' \in [Tabs -> TabRecord']
    <2>1. \A u \in Tabs : tab[u] \in TabRecord'
      BY <1>6, Typed
    <2>2. [tab[t] EXCEPT !.ws = Len(socket) + 1, !.welcomed = FALSE] \in TabRecord'
      <3>1. tab[t] \in TabRecord' /\ Len(socket) + 1 \in 0..Len(socket')
        BY <2>1, <1>5, Typed
      <3> QED BY <3>1 DEF TabRecord
    <2>3. tab' = [tab EXCEPT ![t] = [tab[t] EXCEPT !.ws = Len(socket) + 1, !.welcomed = FALSE]]
      BY <1>4
    <2>4. \A u \in Tabs : tab'[u] \in TabRecord'
      BY <2>1, <2>2, <2>3, Typed
    <2>5. tab' = [u \in Tabs |-> tab'[u]]
      BY <2>3, Typed
    <2> QED BY <2>4, <2>5
  <1>8. HistoryRecord' = HistoryRecord
    BY <1>4 DEF HistoryRecord
  <1> QED BY <1>4, <1>5, <1>6, <1>7, <1>8, Typed DEF LiveLinkTypeOK

-----------------------------------------------------------------------------
(* What each action writes *)

\* One socket changes.
OneSocket(s, r) == s \in DOMAIN socket /\ r \in SocketRecord /\ socket' = [socket EXCEPT ![s] = r]

\* One tab changes.
OneTab(t, c) == c \in TabRecord /\ tab' = [tab EXCEPT ![t] = c]

LEMMA OneSocketFacts ==
  ASSUME LiveLinkTypeOK, NEW s, NEW r, OneSocket(s, r)
  PROVE  /\ socket' \in Seq(SocketRecord) /\ Len(socket') = Len(socket) /\ DOMAIN socket' = DOMAIN socket
         /\ socket'[s] = r /\ \A i \in DOMAIN socket : i # s => socket'[i] = socket[i]
  <1>1. socket' = [socket EXCEPT ![s] = r] /\ s \in DOMAIN socket /\ r \in SocketRecord
    BY DEF OneSocket
  <1>2. socket' \in Seq(SocketRecord) /\ Len(socket') = Len(socket)
    BY <1>1, Typed, Replaced
  <1> QED BY <1>1, <1>2

LEMMA OneTabFacts ==
  ASSUME LiveLinkTypeOK, NEW t \in Tabs, NEW c, OneTab(t, c)
  PROVE  /\ tab' \in [Tabs -> TabRecord]
         /\ tab'[t] = c /\ \A u \in Tabs : u # t => tab'[u] = tab[u]
  BY Typed DEF OneTab

LEMMA SocketAt ==
  ASSUME LiveLinkTypeOK, NEW s \in DOMAIN socket
  PROVE  /\ socket[s] \in SocketRecord /\ socket[s].up \in Seq(ClientMessage)
         /\ socket[s].down \in Seq(ServerMessage) /\ socket[s].tab \in Tabs /\ socket[s].last \in Nat
         /\ socket[s].open \in BOOLEAN /\ socket[s].closed \in BOOLEAN /\ socket[s].gone \in BOOLEAN
         /\ socket[s].phase \in {"new", "auth", "queued", "ready", "refused"}
         /\ socket[s].code \in {"none", "superseded", "failed"}
  <1>1. socket[s] \in SocketRecord
    BY Typed
  <1> QED BY <1>1, SocketIs

LEMMA TabAt ==
  ASSUME LiveLinkTypeOK, NEW t \in Tabs
  PROVE  /\ tab[t] \in TabRecord /\ tab[t].ws \in 0..Len(socket) /\ tab[t].welcomed \in BOOLEAN
         /\ tab[t].lastSeq \in Nat /\ tab[t].pending \in Seq(DOMAIN history.said)
         /\ tab[t].outbox \in Seq(DOMAIN history.sent) /\ tab[t].shown \in SUBSET Nat
         /\ tab[t].ws # 0 => tab[t].ws \in DOMAIN socket
  <1>1. tab[t] \in TabRecord
    BY Typed
  <1>2. tab[t].ws \in 0..Len(socket)
    BY <1>1, TabIs
  <1>3. tab[t].ws # 0 => tab[t].ws \in DOMAIN socket
    <2>1. DOMAIN socket = 1..Len(socket) /\ Len(socket) \in Nat
      BY Typed
    <2> QED BY <1>2, <2>1
  <1> QED BY <1>1, <1>2, <1>3, TabIs

\* The utterances and the durable messages that a tab sends at a welcome.
Flushed(c) == [i \in DOMAIN c.pending |-> Final(c.pending[i])]
                \o [i \in DOMAIN c.outbox |-> Durable(c.outbox[i])]

LEMMA FlushFacts ==
  ASSUME LiveLinkTypeOK, NEW c \in TabRecord
  PROVE  /\ Flushed(c) \in Seq(ClientMessage)
         /\ \A n \in Member(c.pending) : Final(n) \in Member(Flushed(c))
         /\ \A m \in Member(Flushed(c)) :
              \/ m.type = "final"
              \/ m.type = "durable" /\ m.n \in Member(c.outbox)
         /\ \A i, j \in DOMAIN Flushed(c) :
              Flushed(c)[i].type = "durable" /\ Flushed(c)[j].type = "durable" /\ i < j
                => \E k, l \in DOMAIN c.outbox :
                     k < l /\ Flushed(c)[i].n = c.outbox[k] /\ Flushed(c)[j].n = c.outbox[l]
  <1> DEFINE fs == [i \in DOMAIN c.pending |-> Final(c.pending[i])]
             ds == [i \in DOMAIN c.outbox |-> Durable(c.outbox[i])]
  <1>0. /\ c.pending \in Seq(DOMAIN history.said) /\ c.outbox \in Seq(DOMAIN history.sent)
        /\ DOMAIN history.said \subseteq Nat /\ DOMAIN history.sent \subseteq Nat
    BY TabIs, Typed
  <1>1. \A n \in DOMAIN history.said : Final(n) \in ClientMessage /\ Final(n).type = "final"
    BY <1>0 DEF ClientMessage, Final
  <1>2. \A n \in DOMAIN history.sent : Durable(n) \in ClientMessage /\ Durable(n).type = "durable" /\ Durable(n).n = n
    BY <1>0 DEF ClientMessage, Durable
  <1> HIDE DEF Flushed
  <1>3. fs \in Seq(ClientMessage) /\ DOMAIN fs = DOMAIN c.pending /\ Len(fs) = Len(c.pending)
        /\ \A i \in DOMAIN fs : fs[i] = Final(c.pending[i])
    <2>1. \A i \in DOMAIN c.pending : Final(c.pending[i]) \in ClientMessage
      BY <1>0, <1>1
    <2>2. Len(c.pending) \in Nat /\ DOMAIN c.pending = 1..Len(c.pending)
      BY <1>0
    <2>3. fs \in [1..Len(c.pending) -> ClientMessage] /\ \A i \in DOMAIN fs : fs[i] = Final(c.pending[i])
      BY <2>1, <2>2
    <2> HIDE DEF fs
    <2> QED BY <2>2, <2>3, Mapped
  <1>4. ds \in Seq(ClientMessage) /\ DOMAIN ds = DOMAIN c.outbox /\ Len(ds) = Len(c.outbox)
        /\ \A i \in DOMAIN ds : ds[i] = Durable(c.outbox[i])
    <2>1. \A i \in DOMAIN c.outbox : Durable(c.outbox[i]) \in ClientMessage
      BY <1>0, <1>2
    <2>2. Len(c.outbox) \in Nat /\ DOMAIN c.outbox = 1..Len(c.outbox)
      BY <1>0
    <2>3. ds \in [1..Len(c.outbox) -> ClientMessage] /\ \A i \in DOMAIN ds : ds[i] = Durable(c.outbox[i])
      BY <2>1, <2>2
    <2> HIDE DEF ds
    <2> QED BY <2>2, <2>3, Mapped
  <1>5. Flushed(c) = fs \o ds
    BY DEF Flushed
  <1> HIDE DEF fs, ds
  <1>6. /\ Flushed(c) \in Seq(ClientMessage) /\ Member(Flushed(c)) = Member(fs) \cup Member(ds)
        /\ \A i \in DOMAIN fs : i \in DOMAIN Flushed(c) /\ Flushed(c)[i] = fs[i]
        /\ \A i \in DOMAIN Flushed(c) : i \notin DOMAIN fs =>
              i - Len(fs) \in DOMAIN ds /\ Flushed(c)[i] = ds[i - Len(fs)]
    BY <1>3, <1>4, <1>5, Joining
  <1>7. \A n \in Member(c.pending) : Final(n) \in Member(fs)
    BY <1>3 DEF Member
  <1>8. \A m \in Member(fs) : m.type = "final"
    BY <1>0, <1>1, <1>3 DEF Member
  <1>9. \A m \in Member(ds) : m.type = "durable" /\ m.n \in Member(c.outbox)
    BY <1>0, <1>2, <1>4 DEF Member
  <1>10. ASSUME NEW i \in DOMAIN Flushed(c), NEW j \in DOMAIN Flushed(c), i < j,
                Flushed(c)[i].type = "durable", Flushed(c)[j].type = "durable"
         PROVE  \E k, l \in DOMAIN c.outbox :
                     k < l /\ Flushed(c)[i].n = c.outbox[k] /\ Flushed(c)[j].n = c.outbox[l]
    <2>1. i \notin DOMAIN fs /\ j \notin DOMAIN fs
      BY <1>10, <1>6, <1>8 DEF Member
    <2>2. /\ i - Len(fs) \in DOMAIN ds /\ Flushed(c)[i] = ds[i - Len(fs)]
          /\ j - Len(fs) \in DOMAIN ds /\ Flushed(c)[j] = ds[j - Len(fs)]
      BY <1>6, <2>1
    <2>3. i - Len(fs) < j - Len(fs)
      BY <1>3, <1>6, <1>10, Inside
    <2>4. Flushed(c)[i].n = c.outbox[i - Len(fs)] /\ Flushed(c)[j].n = c.outbox[j - Len(fs)]
      BY <2>2, <1>0, <1>2, <1>4
    <2> QED BY <2>2, <2>3, <2>4, <1>4
  <1> QED BY <1>6, <1>7, <1>8, <1>9, <1>10

\* The same socket, but for what is under way.
Kept(r, k) ==
  /\ r.tab = k.tab /\ r.phase = k.phase /\ r.open = k.open /\ r.closed = k.closed
  /\ r.gone = k.gone /\ r.code = k.code /\ r.last = k.last

\* The tab c, its socket r and what it sends of d after the welcome m.
Welcomes(t, s, m, c, r, d) ==
  /\ OneTab(t, c) /\ OneSocket(s, r) /\ d \in TabRecord
  /\ c.ws = s /\ c.welcomed = TRUE /\ c.outbox = << >>
  /\ Member(c.pending) = Member(tab[t].pending) \ {engine.turns[i] : i \in (m.n + 1)..m.to}
  /\ c.shown = tab[t].shown \cup (m.n + 1)..m.to
  /\ m.n = tab[t].lastSeq /\ m.n <= m.to => c.lastSeq = m.to
  /\ d.pending = c.pending /\ d.outbox = tab[t].outbox
  /\ Kept(r, socket[s]) /\ r.down = Tail(socket[s].down)
  /\ r.up = IF socket[s].open THEN socket[s].up \o Flushed(d) ELSE socket[s].up

\* The last place of a welcome's transcript, or of what the tab shows.
TabReaches(from, to, last) == IF from + 1 <= to /\ last <= to THEN to ELSE last

LEMMA HighestOf ==
  ASSUME NEW from \in Nat, NEW to \in Nat, NEW last \in Nat
  PROVE  /\ TabReaches(from, to, last) \in ((from + 1)..to) \cup {last}
         /\ \A i \in ((from + 1)..to) \cup {last} : i <= TabReaches(from, to, last)
         /\ from = last /\ from <= to => TabReaches(from, to, last) = to
  BY DEF TabReaches

LEMMA WelcomeFacts ==
  ASSUME LiveLinkTypeOK, NEW t \in Tabs, NEW s \in DOMAIN socket, s = tab[t].ws,
         socket[s].down # << >>, NEW m, m = Head(socket[s].down), m.type = "welcome",
         HandleWelcome(t, s, m)
  PROVE  \E c, r, d : Welcomes(t, s, m, c, r, d)
  <1> DEFINE seqs == (m.n + 1)..m.to
             d == Shows(tab[t], seqs)
             h == TabReaches(m.n, m.to, tab[t].lastSeq)
             c == [d EXCEPT !.welcomed = TRUE, !.outbox = << >>]
             r == [socket[s] EXCEPT !.down = Tail(socket[s].down),
                     !.up = IF socket[s].open THEN socket[s].up \o Flushed(d) ELSE socket[s].up]
  <1>1. m \in ServerMessage /\ Tail(socket[s].down) \in Seq(ServerMessage)
    BY SocketAt, Taking
  <1>2. m.n \in Nat /\ m.to \in Nat /\ seqs \in SUBSET Nat
    BY <1>1 DEF ServerMessage
  <1>3. /\ h \in seqs \cup {tab[t].lastSeq} /\ \A i \in seqs \cup {tab[t].lastSeq} : i <= h
        /\ m.n = tab[t].lastSeq /\ m.n <= m.to => h = m.to
    <2>1. tab[t].lastSeq \in Nat
      BY TabAt
    <2>2. PICK from \in Nat, to \in Nat, last \in Nat : from = m.n /\ to = m.to /\ last = tab[t].lastSeq
      BY <1>2, <2>1
    <2>3. /\ TabReaches(from, to, last) \in ((from + 1)..to) \cup {last}
          /\ \A i \in ((from + 1)..to) \cup {last} : i <= TabReaches(from, to, last)
          /\ from = last /\ from <= to => TabReaches(from, to, last) = to
      BY HighestOf
    <2> QED BY <2>2, <2>3
  <1>4. m.n = tab[t].lastSeq /\ m.n <= m.to => h = m.to
    BY <1>3
  <1> HIDE DEF h, seqs
  <1>5. /\ d \in TabRecord
        /\ d = [tab[t] EXCEPT !.lastSeq = h, !.shown = tab[t].shown \cup seqs, !.pending = d.pending]
        /\ Member(d.pending) = Member(tab[t].pending) \ {engine.turns[i] : i \in seqs}
    BY <1>2, <1>3, TabAt, ShowsFacts
  <1>6. tab' = [tab EXCEPT ![t] = c]
    BY DEF HandleWelcome, seqs
  <1>7. socket' = Up([socket EXCEPT ![s].down = Tail(@)], s, Flushed(d))
    BY DEF HandleWelcome, seqs, Flushed
  <1> HIDE DEF d
  <1>8. d.lastSeq = h /\ d.shown = tab[t].shown \cup seqs /\ d.ws = s /\ d.outbox = tab[t].outbox
    <2>1. tab[t] \in TabRecord
      BY TabAt
    <2> QED BY <1>5, <2>1 DEF TabRecord
  <1>9. /\ c \in TabRecord /\ c.ws = s /\ c.welcomed = TRUE /\ c.outbox = << >> /\ c.lastSeq = h
        /\ c.shown = tab[t].shown \cup seqs /\ c.pending = d.pending
    <2>1. PICK nothing \in Seq(DOMAIN history.sent) : nothing = << >>
      <3>1. << >> \in Seq(DOMAIN history.sent)
        OBVIOUS
      <3> QED BY <3>1
    <2>2. [d EXCEPT !.welcomed = TRUE, !.outbox = nothing] \in TabRecord
      BY <1>5 DEF TabRecord
    <2> QED BY <1>5, <1>8, <2>1, <2>2 DEF TabRecord
  <1>10. Flushed(d) \in Seq(ClientMessage)
    BY <1>5, FlushFacts
  <1>11. socket[s] \in SocketRecord /\ socket[s].up \o Flushed(d) \in Seq(ClientMessage) /\ socket[s].up \in Seq(ClientMessage)
    BY <1>10, SocketAt, Joining
  <1>12. /\ r \in SocketRecord /\ r.down = Tail(socket[s].down) /\ Kept(r, socket[s])
         /\ r.up = IF socket[s].open THEN socket[s].up \o Flushed(d) ELSE socket[s].up
    BY <1>1, <1>11 DEF SocketRecord, Kept
  <1>13. socket' = [socket EXCEPT ![s] = r]
    <2>1. [socket EXCEPT ![s].down = Tail(@)][s].open = socket[s].open
          /\ [socket EXCEPT ![s].down = Tail(@)][s].up = socket[s].up
      BY <1>11 DEF SocketRecord
    <2>2. socket' = [[socket EXCEPT ![s].down = Tail(@)] EXCEPT
                       ![s].up = IF socket[s].open THEN socket[s].up \o Flushed(d) ELSE socket[s].up]
      BY <1>7, <2>1 DEF Up
    <2>3. socket' = [socket EXCEPT ![s] = [[socket[s] EXCEPT !.down = Tail(socket[s].down)] EXCEPT
                       !.up = IF socket[s].open THEN socket[s].up \o Flushed(d) ELSE socket[s].up]]
      BY <2>2, Typed
    <2> QED BY <2>3
  <1> HIDE DEF c, r
  <1>14. OneTab(t, c) /\ OneSocket(s, r)
    BY <1>6, <1>9, <1>12, <1>13 DEF OneTab, OneSocket
  <1> QED
    <2> USE DEF seqs
    <2> WITNESS c, r, d
    <2> QED BY <1>4, <1>5, <1>8, <1>9, <1>12, <1>14 DEF Welcomes

LEMMA SavedFacts ==
  ASSUME LiveLinkTypeOK, NEW t \in Tabs, NEW s \in DOMAIN socket, s = tab[t].ws,
         socket[s].down # << >>, NEW m, m = Head(socket[s].down), m.type = "saved",
         HandleSaved(t, s, m)
  PROVE  \E c, r :
           /\ OneTab(t, c) /\ OneSocket(s, r)
           /\ c.ws = s /\ c.welcomed = tab[t].welcomed /\ c.outbox = tab[t].outbox
           /\ Member(c.pending) = Member(tab[t].pending) \ {engine.turns[m.n]}
           /\ c.shown = tab[t].shown \cup {m.n}
           /\ c.lastSeq = IF tab[t].lastSeq <= m.n THEN m.n ELSE tab[t].lastSeq
           /\ Kept(r, socket[s]) /\ r.down = Tail(socket[s].down) /\ r.up = socket[s].up
  <1> DEFINE seqs == {m.n}
             c == Shows(tab[t], seqs)
             h == IF tab[t].lastSeq <= m.n THEN m.n ELSE tab[t].lastSeq
             r == [socket[s] EXCEPT !.down = Tail(socket[s].down)]
  <1>1. m \in ServerMessage /\ Tail(socket[s].down) \in Seq(ServerMessage)
    BY SocketAt, Taking
  <1>2. m.n \in Nat
    BY <1>1 DEF ServerMessage
  <1>3. h \in seqs \cup {tab[t].lastSeq} /\ (\A i \in seqs \cup {tab[t].lastSeq} : i <= h) /\ seqs \in SUBSET Nat
    BY <1>2, TabAt
  <1>4. seqs = {m.n}
    OBVIOUS
  <1> HIDE DEF h, seqs
  <1>5. /\ c \in TabRecord
        /\ c = [tab[t] EXCEPT !.lastSeq = h, !.shown = tab[t].shown \cup seqs, !.pending = c.pending]
        /\ Member(c.pending) = Member(tab[t].pending) \ {engine.turns[i] : i \in seqs}
    BY <1>3, TabAt, ShowsFacts
  <1>6. tab' = [tab EXCEPT ![t] = c] /\ socket' = [socket EXCEPT ![s] = r]
    BY DEF HandleSaved, seqs
  <1> HIDE DEF c
  <1>8. /\ c.lastSeq = h /\ c.shown = tab[t].shown \cup {m.n} /\ c.ws = s
        /\ c.outbox = tab[t].outbox /\ c.welcomed = tab[t].welcomed
    <2>1. tab[t] \in TabRecord
      BY TabAt
    <2> QED BY <1>4, <1>5, <2>1 DEF TabRecord
  <1>9. socket[s] \in SocketRecord /\ socket[s].up \in Seq(ClientMessage)
    BY SocketAt
  <1>12. r \in SocketRecord /\ r.down = Tail(socket[s].down) /\ Kept(r, socket[s]) /\ r.up = socket[s].up
    BY <1>1, <1>9 DEF SocketRecord, Kept
  <1> HIDE DEF r
  <1>14. OneTab(t, c) /\ OneSocket(s, r)
    BY <1>5, <1>6, <1>12 DEF OneTab, OneSocket
  <1>15. Member(c.pending) = Member(tab[t].pending) \ {engine.turns[m.n]}
    <2>1. {engine.turns[i] : i \in seqs} = {engine.turns[m.n]}
      BY <1>4
    <2> QED BY <1>5, <2>1
  <1> QED
    <2> USE DEF h
    <2> WITNESS c, r
    <2> QED BY <1>8, <1>12, <1>14, <1>15

LEMMA NoticesFacts ==
  ASSUME LiveLinkTypeOK, NEW t \in Tabs, ClientNotices(t)
  PROVE  \E s, c, r :
           /\ OneTab(t, c) /\ OneSocket(s, r) /\ s = tab[t].ws /\ ~socket[s].open
           /\ c.ws = 0 /\ c.welcomed = FALSE /\ c.outbox = tab[t].outbox /\ c.pending = tab[t].pending
           /\ c.shown = tab[t].shown /\ c.lastSeq = tab[t].lastSeq
           /\ Kept(r, socket[s]) /\ r.down = << >> /\ r.up = socket[s].up
           /\ engine' = engine /\ history' = history
  <1> DEFINE s == tab[t].ws
             c == [tab[t] EXCEPT !.ws = 0, !.welcomed = FALSE,
                     !.status = IF socket[s].code = "none" THEN "live" ELSE socket[s].code]
             r == [socket[s] EXCEPT !.down = << >>]
  <1>1. s \in DOMAIN socket /\ ~socket[s].open
    BY TabAt DEF ClientNotices
  <1>2. socket[s] \in SocketRecord /\ socket[s].code \in {"none", "superseded", "failed"}
        /\ socket[s].open \in BOOLEAN
    BY <1>1, SocketAt
  <1>3. tab[t] \in TabRecord
    BY TabAt
  <1>4. /\ c \in TabRecord /\ c.ws = 0 /\ c.welcomed = FALSE /\ c.outbox = tab[t].outbox
        /\ c.pending = tab[t].pending /\ c.shown = tab[t].shown /\ c.lastSeq = tab[t].lastSeq
    <2>1. (IF socket[s].code = "none" THEN "live" ELSE socket[s].code) \in {"idle", "live", "superseded", "failed"}
      BY <1>2
    <2>2. 0 \in 0..Len(socket)
      BY Typed
    <2> HIDE DEF s
    <2> QED BY <1>3, <2>1, <2>2 DEF TabRecord
  <1>5. r \in SocketRecord /\ Kept(r, socket[s]) /\ r.down = << >> /\ r.up = socket[s].up
    <2>1. << >> \in Seq(ServerMessage)
      OBVIOUS
    <2>2. PICK nothing \in Seq(ServerMessage) : nothing = << >>
      BY <2>1
    <2>3. [socket[s] EXCEPT !.down = nothing] \in SocketRecord
      BY <1>2 DEF SocketRecord
    <2> QED BY <1>2, <2>2, <2>3 DEF SocketRecord, Kept
  <1>6. /\ tab' = [tab EXCEPT ![t] = c] /\ socket' = [socket EXCEPT ![s] = r]
        /\ engine' = engine /\ history' = history
    BY DEF ClientNotices
  <1> HIDE DEF c, r
  <1>7. OneTab(t, c) /\ OneSocket(s, r)
    BY <1>1, <1>4, <1>5, <1>6 DEF OneTab, OneSocket
  <1> QED
    <2> WITNESS s, c, r
    <2> QED BY <1>1, <1>4, <1>5, <1>6, <1>7

LEMMA ConnectFacts ==
  ASSUME LiveLinkTypeOK, NEW t \in Tabs, Connect(t)
  PROVE  \E c :
           /\ OneTab(t, c) /\ socket' = socket /\ engine' = engine /\ history' = history
           /\ c.ws = tab[t].ws /\ c.welcomed = tab[t].welcomed /\ c.outbox = tab[t].outbox
           /\ c.pending = tab[t].pending /\ c.shown = tab[t].shown /\ c.lastSeq = tab[t].lastSeq
  <1> DEFINE c == [tab[t] EXCEPT !.status = "live"]
  <1>1. tab[t] \in TabRecord
    BY TabAt
  <1>2. /\ c \in TabRecord /\ c.ws = tab[t].ws /\ c.welcomed = tab[t].welcomed /\ c.outbox = tab[t].outbox
        /\ c.pending = tab[t].pending /\ c.shown = tab[t].shown /\ c.lastSeq = tab[t].lastSeq
    BY <1>1 DEF TabRecord
  <1>3. tab' = [tab EXCEPT ![t] = c] /\ socket' = socket /\ engine' = engine /\ history' = history
    BY DEF Connect
  <1> HIDE DEF c
  <1> QED
    <2> WITNESS c
    <2> QED BY <1>2, <1>3 DEF OneTab

\* A message more on the tab's socket, if it is open.
Posts(t, m) ==
  /\ DOMAIN socket' = DOMAIN socket /\ Len(socket') = Len(socket)
  /\ \A i \in DOMAIN socket : Kept(socket'[i], socket[i]) /\ socket'[i].down = socket[i].down
  /\ \A i \in DOMAIN socket : i = tab[t].ws /\ tab[t].welcomed /\ socket[i].open =>
       socket'[i].up = Append(socket[i].up, m)
  /\ \A i \in DOMAIN socket : ~(i = tab[t].ws /\ tab[t].welcomed /\ socket[i].open) =>
       socket'[i].up = socket[i].up

LEMMA PostFacts ==
  ASSUME LiveLinkTypeOK, NEW t \in Tabs, NEW m \in ClientMessage', ClientMessage \subseteq ClientMessage',
         socket' = IF tab[t].welcomed THEN Up(socket, tab[t].ws, <<m>>) ELSE socket
  PROVE  socket' \in Seq(SocketRecord') /\ Posts(t, m)
  <1> DEFINE s == tab[t].ws
  <1>0. SocketRecord \subseteq SocketRecord' /\ Seq(SocketRecord) \subseteq Seq(SocketRecord')
    <2>1. Seq(ClientMessage) \subseteq Seq(ClientMessage')
      BY Wider
    <2>2. SocketRecord \subseteq SocketRecord'
      BY <2>1 DEF SocketRecord, ServerMessage
    <2> QED BY <2>2, Wider
  <1>1. CASE ~tab[t].welcomed \/ s = 0
    <2>1. socket' = socket
      <3>1. CASE ~tab[t].welcomed
        BY <3>1
      <3>2. CASE tab[t].welcomed /\ s = 0
        <4>1. socket' = [socket EXCEPT ![0] = [socket[0] EXCEPT !.up = IF socket[0].open THEN @ \o <<m>> ELSE @]]
          BY <3>2 DEF Up
        <4>2. 0 \notin DOMAIN socket /\ socket = [i \in DOMAIN socket |-> socket[i]]
          BY Typed
        <4> QED BY <4>1, <4>2
      <3> QED BY <1>1, <3>1, <3>2
    <2>2. 0 \notin DOMAIN socket
      BY Typed
    <2> QED BY <1>0, <1>1, <2>1, <2>2, Typed DEF Posts, Kept
  <1>2. CASE tab[t].welcomed /\ s # 0
    <2> DEFINE r == [socket[s] EXCEPT !.up = IF socket[s].open THEN Append(socket[s].up, m) ELSE socket[s].up]
    <2>1. s \in DOMAIN socket
      BY <1>2, TabAt
    <2>2. socket[s] \in SocketRecord' /\ socket[s] \in SocketRecord
      BY <1>0, <2>1, SocketAt
    <2>3. socket[s].up \in Seq(ClientMessage') /\ Append(socket[s].up, m) \in Seq(ClientMessage')
      <3>1. socket[s].up \in Seq(ClientMessage')
        BY <2>2 DEF SocketRecord
      <3> QED BY <3>1, Appended
    <2>4. /\ r \in SocketRecord' /\ Kept(r, socket[s]) /\ r.down = socket[s].down
          /\ (socket[s].open => r.up = Append(socket[s].up, m))
          /\ (~socket[s].open => r.up = socket[s].up)
      <3>1. r \in SocketRecord'
        BY <2>2, <2>3 DEF SocketRecord
      <3>2. /\ Kept(r, socket[s]) /\ r.down = socket[s].down
            /\ (socket[s].open => r.up = Append(socket[s].up, m))
            /\ (~socket[s].open => r.up = socket[s].up)
        BY <2>2 DEF SocketRecord, Kept
      <3> QED BY <3>1, <3>2
    <2>5. socket' = [socket EXCEPT ![s] = r]
      <3>1. socket[s].up \o <<m>> = Append(socket[s].up, m)
        BY SMTT(20), <2>3
      <3>2. socket' = [socket EXCEPT ![s] = [socket[s] EXCEPT !.up = IF socket[s].open THEN socket[s].up \o <<m>> ELSE socket[s].up]]
        BY <1>2 DEF Up
      <3> QED BY <3>1, <3>2
    <2> HIDE DEF r, s
    <2>6. socket \in Seq(SocketRecord')
      BY <1>0, Typed
    <2>7. socket' \in Seq(SocketRecord') /\ Len(socket') = Len(socket)
      <3>1. PICK K \in Seq(SocketRecord') : K = socket
        BY <2>6
      <3>2. [K EXCEPT ![s] = r] \in Seq(SocketRecord') /\ Len([K EXCEPT ![s] = r]) = Len(K)
        BY <2>1, <2>4, <3>1, Replaced
      <3> QED BY <2>5, <3>1, <3>2
    <2>8. DOMAIN socket' = DOMAIN socket /\ \A i \in DOMAIN socket : socket'[i] = IF i = s THEN r ELSE socket[i]
      BY <2>5
    <2> QED BY <1>2, <2>4, <2>7, <2>8 DEF Posts, Kept, s
  <1> QED BY <1>1, <1>2

LEMMA SayFacts ==
  ASSUME LiveLinkTypeOK, NEW t \in Tabs, Say(t)
  PROVE  LET n == Len(history.said) + 1 IN
         /\ LiveLinkTypeOK' /\ Posts(t, Final(n)) /\ engine' = engine
         /\ \A u \in Tabs : /\ tab'[u].ws = tab[u].ws /\ tab'[u].welcomed = tab[u].welcomed
                            /\ tab'[u].outbox = tab[u].outbox /\ tab'[u].shown = tab[u].shown
                            /\ tab'[u].lastSeq = tab[u].lastSeq
                            /\ tab'[u].pending = IF u = t THEN Append(tab[u].pending, n) ELSE tab[u].pending
         /\ history'.said = Append(history.said, t)
         /\ history'.sent = history.sent /\ history'.handled = history.handled /\ history'.excused = history.excused
  <1> DEFINE n == Len(history.said) + 1
             c == [tab[t] EXCEPT !.pending = Append(tab[t].pending, n)]
  <1>1. /\ history' = [history EXCEPT !.said = Append(history.said, t)]
        /\ tab' = [tab EXCEPT ![t] = c] /\ engine' = engine
        /\ socket' = IF tab[t].welcomed THEN Up(socket, tab[t].ws, <<Final(n)>>) ELSE socket
    BY DEF Say
  <1>2. /\ history'.said = Append(history.said, t) /\ history'.sent = history.sent
        /\ history'.handled = history.handled /\ history'.excused = history.excused
        /\ history'.faults = history.faults
    BY <1>1, Typed DEF HistoryRecord
  <1>3. /\ DOMAIN history'.said = DOMAIN history.said \cup {n} /\ n \in DOMAIN history'.said
        /\ DOMAIN history'.said \subseteq Nat /\ history'.said \in Seq(Tabs) /\ n \in Nat
    BY <1>2, Typed, Appended
  <1>4. history' \in HistoryRecord'
    <2>1. history'.excused \in SUBSET DOMAIN history'.said /\ history'.faults \in Nat /\ history'.handled \in Seq(DOMAIN history'.sent)
      BY <1>2, <1>3, Typed DEF HistoryRecord
    <2>2. history' = [said |-> history'.said, sent |-> history'.sent, handled |-> history'.handled,
                      excused |-> history'.excused, faults |-> history'.faults]
      BY <1>1, Typed DEF HistoryRecord
    <2> QED BY <1>2, <1>3, <2>1, <2>2, Typed DEF HistoryRecord
  <1>5. ClientMessage \subseteq ClientMessage' /\ Final(n) \in ClientMessage'
    BY <1>2, <1>3 DEF ClientMessage, Final
  <1>6. socket' \in Seq(SocketRecord') /\ Posts(t, Final(n))
    BY <1>1, <1>5, PostFacts
  <1>7. Len(socket') = Len(socket) /\ DOMAIN socket' = DOMAIN socket
    BY <1>6 DEF Posts
  <1>8. EngineRecord \subseteq EngineRecord' /\ TabRecord \subseteq TabRecord'
    BY <1>2, <1>3, <1>7, Typed, Longer
  <1>9. c \in TabRecord'
    <2>1. tab[t] \in TabRecord'
      BY <1>8, TabAt
    <2>2. tab[t].pending \in Seq(DOMAIN history'.said)
      BY <2>1 DEF TabRecord
    <2>3. Append(tab[t].pending, n) \in Seq(DOMAIN history'.said)
      BY <2>2, <1>3, Appended
    <2> QED BY <2>1, <2>3 DEF TabRecord
  <1>10. /\ c.ws = tab[t].ws /\ c.welcomed = tab[t].welcomed /\ c.outbox = tab[t].outbox
         /\ c.shown = tab[t].shown /\ c.lastSeq = tab[t].lastSeq /\ c.pending = Append(tab[t].pending, n)
    <2>1. tab[t] \in TabRecord
      BY TabAt
    <2> QED BY <2>1 DEF TabRecord
  <1> HIDE DEF c
  <1>11. tab' \in [Tabs -> TabRecord'] /\ \A u \in Tabs : tab'[u] = IF u = t THEN c ELSE tab[u]
    <2>1. \A u \in Tabs : tab'[u] = IF u = t THEN c ELSE tab[u]
      BY <1>1, Typed
    <2>2. \A u \in Tabs : tab'[u] \in TabRecord'
      BY <2>1, <1>8, <1>9, Typed
    <2>3. tab' = [u \in Tabs |-> tab'[u]]
      BY <1>1, Typed
    <2> QED BY <2>1, <2>2, <2>3
  <1>12. engine' \in EngineRecord' /\ engine'.out = << >>
    BY <1>1, <1>8, Typed
  <1>13. LiveLinkTypeOK'
    BY <1>4, <1>6, <1>11, <1>12 DEF LiveLinkTypeOK
  <1> QED BY <1>1, <1>2, <1>6, <1>10, <1>11, <1>13

LEMMA QueuedFacts ==
  ASSUME NEW S, NEW q \in Seq(S), NEW n \in S
  PROVE  /\ Queued(q, n) \in Seq(S)
         /\ Member(Queued(q, n)) \subseteq Member(q) \cup {n}
         /\ \A i, j \in DOMAIN Queued(q, n) : i < j =>
              \E k \in DOMAIN q :
                /\ Queued(q, n)[i] = q[k]
                /\ Queued(q, n)[j] = n \/ \E l \in DOMAIN q : k < l /\ Queued(q, n)[j] = q[l]
  <1> DEFINE longer == Append(q, n)
  <1>1. /\ longer \in Seq(S) /\ Member(longer) = Member(q) \cup {n} /\ longer # << >>
        /\ Len(longer) = Len(q) + 1 /\ DOMAIN longer = DOMAIN q \cup {Len(q) + 1}
        /\ \A i \in DOMAIN q : longer[i] = q[i]
        /\ longer[Len(q) + 1] = n
    BY Appended
  <1>2. Len(q) \in Nat /\ DOMAIN q = 1..Len(q)
    OBVIOUS
  <1>3. Queued(q, n) = longer \/ Queued(q, n) = Tail(longer)
    BY DEF Queued
  <1> HIDE DEF longer
  <1>4. \A i, j \in DOMAIN longer : i < j =>
              \E k \in DOMAIN q :
                /\ longer[i] = q[k]
                /\ longer[j] = n \/ \E l \in DOMAIN q : k < l /\ longer[j] = q[l]
    <2> SUFFICES ASSUME NEW i \in DOMAIN longer, NEW j \in DOMAIN longer, i < j
                 PROVE  /\ i \in DOMAIN q /\ longer[i] = q[i]
                        /\ longer[j] = n \/ (j \in DOMAIN q /\ longer[j] = q[j])
      OBVIOUS
    <2> QED BY <1>1, <1>2
  <1>5. /\ Tail(longer) \in Seq(S) /\ Member(Tail(longer)) \subseteq Member(longer)
        /\ \A i \in DOMAIN Tail(longer) : i + 1 \in DOMAIN longer /\ Tail(longer)[i] = longer[i + 1]
    BY <1>1, Taking
  <1>6. ASSUME NEW i \in DOMAIN Tail(longer), NEW j \in DOMAIN Tail(longer), i < j
        PROVE  \E k \in DOMAIN q :
                /\ Tail(longer)[i] = q[k]
                /\ Tail(longer)[j] = n \/ \E l \in DOMAIN q : k < l /\ Tail(longer)[j] = q[l]
    <2>1. i + 1 < j + 1
      BY <1>5, <1>6, Inside
    <2> QED BY <2>1, <1>4, <1>5
  <1>7. CASE Queued(q, n) = longer
    BY <1>1, <1>4, <1>7
  <1>8. CASE Queued(q, n) = Tail(longer)
    BY <1>1, <1>5, <1>6, <1>8
  <1> QED BY <1>3, <1>7, <1>8

\* Its socket takes what the tab sends.
Connected(t) == tab[t].welcomed /\ tab[t].ws # 0 /\ socket[tab[t].ws].open

LEMMA DurableFacts ==
  ASSUME LiveLinkTypeOK, NEW t \in Tabs, NEW type \in Durables, SendDurable(t, type)
  PROVE  LET n == Len(history.sent) + 1 IN
         /\ LiveLinkTypeOK' /\ Posts(t, Durable(n)) /\ engine' = engine
         /\ \A u \in Tabs : /\ tab'[u].ws = tab[u].ws /\ tab'[u].welcomed = tab[u].welcomed
                            /\ tab'[u].shown = tab[u].shown /\ tab'[u].lastSeq = tab[u].lastSeq
                            /\ tab'[u].pending = tab[u].pending
         /\ \A u \in Tabs : u # t => tab'[u].outbox = tab[u].outbox
         /\ \/ tab'[t].outbox = tab[t].outbox /\ tab[t].welcomed
            \/ tab'[t].outbox = Queued(tab[t].outbox, n) /\ socket' = socket /\ ~Connected(t)
         /\ history'.sent = Append(history.sent, [tab |-> t, type |-> type])
         /\ history'.said = history.said /\ history'.handled = history.handled /\ history'.excused = history.excused
  <1> DEFINE n == Len(history.sent) + 1
             x == [tab |-> t, type |-> type]
  <1>0. PICK b : \/ b = tab[t].outbox /\ tab' = tab /\ tab[t].welcomed
                    /\ socket' = Up(socket, tab[t].ws, <<Durable(n)>>)
                 \/ b = Queued(tab[t].outbox, n) /\ tab' = [tab EXCEPT ![t].outbox = b]
                    /\ ~Connected(t) /\ socket' = socket
    BY DEF SendDurable, Connected
  <1> DEFINE c == [tab[t] EXCEPT !.outbox = b]
  <1>1. /\ history' = [history EXCEPT !.sent = Append(history.sent, x)]
        /\ tab' = [tab EXCEPT ![t] = c] /\ engine' = engine
    <2>1. CASE b = tab[t].outbox /\ tab' = tab
      <3>1. c = tab[t]
        BY <2>1, TabAt DEF TabRecord
      <3>2. tab' = [tab EXCEPT ![t] = c]
        BY <2>1, <3>1, Typed
      <3> QED BY <3>2 DEF SendDurable
    <2>2. CASE tab' = [tab EXCEPT ![t].outbox = b]
      BY <2>2 DEF SendDurable
    <2> QED BY <1>0, <2>1, <2>2
  <1>a. x \in [tab: Tabs, type: Durables]
    OBVIOUS
  <1> HIDE DEF x
  <1>2. /\ history'.sent = Append(history.sent, x) /\ history'.said = history.said
        /\ history'.handled = history.handled /\ history'.excused = history.excused
        /\ history'.faults = history.faults
    BY <1>1, Typed DEF HistoryRecord
  <1>3. /\ DOMAIN history'.sent = DOMAIN history.sent \cup {n} /\ n \in DOMAIN history'.sent
        /\ DOMAIN history'.sent \subseteq Nat /\ history'.sent \in Seq([tab: Tabs, type: Durables]) /\ n \in Nat
    <2>1. /\ DOMAIN Append(history.sent, x) = DOMAIN history.sent \cup {n}
          /\ Append(history.sent, x) \in Seq([tab: Tabs, type: Durables])
      BY <1>a, Typed, Appended
    <2> QED BY <1>2, <2>1, Typed
  <1>4. history' \in HistoryRecord'
    <2>0. Seq(DOMAIN history.sent) \subseteq Seq(DOMAIN history'.sent)
      BY <1>3, Wider
    <2>1. /\ history'.excused \in SUBSET DOMAIN history'.said /\ history'.faults \in Nat
          /\ history'.handled \in Seq(DOMAIN history'.sent)
      BY <1>2, <2>0, Typed DEF HistoryRecord
    <2>2. history' = [said |-> history'.said, sent |-> history'.sent, handled |-> history'.handled,
                      excused |-> history'.excused, faults |-> history'.faults]
      BY <1>1, Typed DEF HistoryRecord
    <2> QED BY <1>2, <1>3, <2>1, <2>2, Typed DEF HistoryRecord
  <1>5. ClientMessage \subseteq ClientMessage' /\ Durable(n) \in ClientMessage'
    BY <1>2, <1>3 DEF ClientMessage, Durable
  <1>6. socket' \in Seq(SocketRecord') /\ Posts(t, Durable(n))
    <2>1. CASE tab[t].welcomed /\ socket' = Up(socket, tab[t].ws, <<Durable(n)>>)
      BY <1>5, <2>1, PostFacts
    <2>2. CASE socket' = socket /\ ~Connected(t)
      <3>1. SocketRecord \subseteq SocketRecord' /\ socket \in Seq(SocketRecord) /\ 0 \notin DOMAIN socket
        <4>1. Seq(ClientMessage) \subseteq Seq(ClientMessage')
          BY <1>5, Wider
        <4> QED BY <4>1, Typed DEF SocketRecord, ServerMessage
      <3>2. Seq(SocketRecord) \subseteq Seq(SocketRecord')
        BY <3>1, Wider
      <3> QED BY <2>2, <3>1, <3>2 DEF Posts, Kept, Connected
    <2> QED BY <1>0, <2>1, <2>2
  <1>7. Len(socket') = Len(socket) /\ DOMAIN socket' = DOMAIN socket
    BY <1>6 DEF Posts
  <1>8. EngineRecord \subseteq EngineRecord' /\ TabRecord \subseteq TabRecord'
    BY <1>2, <1>3, <1>7, Typed, Longer
  <1>9. c \in TabRecord'
    <2>1. tab[t] \in TabRecord'
      BY <1>8, TabAt
    <2>2. tab[t].outbox \in Seq(DOMAIN history'.sent)
      BY <2>1 DEF TabRecord
    <2>3. Queued(tab[t].outbox, n) \in Seq(DOMAIN history'.sent)
      BY <2>2, <1>3, QueuedFacts
    <2>4. b \in Seq(DOMAIN history'.sent)
      BY <1>0, <2>2, <2>3
    <2> QED BY <2>1, <2>4 DEF TabRecord
  <1>10. /\ c.ws = tab[t].ws /\ c.welcomed = tab[t].welcomed /\ c.pending = tab[t].pending
         /\ c.shown = tab[t].shown /\ c.lastSeq = tab[t].lastSeq
         /\ c.outbox = b
    <2>1. tab[t] \in TabRecord
      BY TabAt
    <2> QED BY <2>1 DEF TabRecord
  <1> HIDE DEF c
  <1>11. tab' \in [Tabs -> TabRecord'] /\ \A u \in Tabs : tab'[u] = IF u = t THEN c ELSE tab[u]
    <2>1. \A u \in Tabs : tab'[u] = IF u = t THEN c ELSE tab[u]
      BY <1>1, Typed
    <2>2. \A u \in Tabs : tab'[u] \in TabRecord'
      BY <2>1, <1>8, <1>9, Typed
    <2>3. tab' = [u \in Tabs |-> tab'[u]]
      BY <1>1, Typed
    <2> QED BY <2>1, <2>2, <2>3
  <1>12. engine' \in EngineRecord' /\ engine'.out = << >>
    BY <1>1, <1>8, Typed
  <1>13. LiveLinkTypeOK'
    BY <1>4, <1>6, <1>11, <1>12 DEF LiveLinkTypeOK
  <1> QED BY <1>0, <1>1, <1>2, <1>6, <1>10, <1>11, <1>13 DEF x

-----------------------------------------------------------------------------
(* The gateway *)

LEMMA HistoryAt ==
  ASSUME LiveLinkTypeOK
  PROVE  \A x \in SUBSET DOMAIN history.said :
           LET h == [history EXCEPT !.excused = x] IN
           /\ h \in HistoryRecord /\ h.said = history.said /\ h.sent = history.sent
           /\ h.handled = history.handled /\ h.excused = x
  BY Typed DEF HistoryRecord

\* What a message that comes in may change.
LEMMA ReceivesFacts ==
  ASSUME LiveLinkTypeOK, NEW s \in Sockets, GatewayReceives(s)
  PROVE  LET m == Head(socket[s].up) IN
         /\ LiveLinkTypeOK' /\ tab' = tab /\ socket[s].up # << >> /\ ~socket[s].gone
         /\ m \in ClientMessage
         /\ history'.said = history.said /\ history'.sent = history.sent /\ history'.handled = history.handled
         /\ \E r : /\ OneSocket(s, r) /\ r.tab = socket[s].tab /\ r.open = socket[s].open
                   /\ r.closed = socket[s].closed /\ r.gone = socket[s].gone /\ r.code = socket[s].code
                   /\ r.down = socket[s].down
                   /\ \/ /\ socket[s].phase = "new" /\ m.type = "hello" /\ r.phase = "auth" /\ r.last = m.n
                         /\ r.up = Tail(socket[s].up) /\ engine' = engine /\ history'.excused = history.excused
                      \/ /\ socket[s].phase # "ready" /\ m.type # "hello" /\ Kept(r, socket[s])
                         /\ r.up = Tail(socket[s].up) /\ engine' = engine
                         /\ history'.excused = history.excused \cup (IF m.type = "final" THEN {m.n} ELSE {})
                      \/ /\ socket[s].phase = "ready" /\ engine.transport = s /\ Kept(r, socket[s])
                         /\ r.up = Tail(socket[s].up)
                         /\ engine' = [engine EXCEPT !.queue = Append(engine.queue, Task("message", s, m))]
                         /\ history'.excused = history.excused
                      \/ /\ socket[s].phase = "ready" /\ engine.transport # s /\ Kept(r, socket[s])
                         /\ r.up = << >> /\ engine' = engine /\ history'.excused = history.excused
  <1> DEFINE m == Head(socket[s].up)
             k == socket[s]
  <1>1. s \in DOMAIN socket /\ socket[s].up # << >> /\ ~socket[s].gone /\ tab' = tab
    BY DEF GatewayReceives, Sockets
  <1>2. k \in SocketRecord /\ m \in ClientMessage /\ Tail(k.up) \in Seq(ClientMessage)
    BY <1>1, SocketAt, Taking
  <1>3. m.n \in Nat /\ (m.type = "final" => m.n \in DOMAIN history.said)
    <2>1. DOMAIN history.said \subseteq Nat /\ DOMAIN history.sent \subseteq Nat
      BY Typed
    <2> QED BY <1>2, <2>1 DEF ClientMessage
  <1>4. PICK nothing \in Seq(ClientMessage) : nothing = << >>
    <2>1. << >> \in Seq(ClientMessage)
      OBVIOUS
    <2> QED BY <2>1
  <1> DEFINE rest == [k EXCEPT !.up = Tail(k.up)]
             none == [k EXCEPT !.up = nothing]
             hi == [k EXCEPT !.up = Tail(k.up), !.phase = "auth", !.last = m.n]
  <1>5. /\ rest \in SocketRecord /\ Kept(rest, k) /\ rest.down = k.down /\ rest.up = Tail(k.up)
        /\ none \in SocketRecord /\ Kept(none, k) /\ none.down = k.down /\ none.up = << >>
    BY <1>2, <1>4 DEF SocketRecord, Kept
  <1>6. /\ hi \in SocketRecord /\ hi.tab = k.tab /\ hi.open = k.open /\ hi.closed = k.closed
        /\ hi.gone = k.gone /\ hi.code = k.code /\ hi.down = k.down /\ hi.phase = "auth"
        /\ hi.last = m.n /\ hi.up = Tail(k.up)
    BY <1>2, <1>3 DEF SocketRecord
  <1>7. /\ [[socket EXCEPT ![s].up = Tail(@)] EXCEPT ![s].phase = "auth", ![s].last = m.n]
                = [socket EXCEPT ![s] = hi]
        /\ [socket EXCEPT ![s].up = Tail(@)] = [socket EXCEPT ![s] = rest]
        /\ [socket EXCEPT ![s].up = << >>] = [socket EXCEPT ![s] = none]
    BY <1>1, <1>4
  <1>8. \/ /\ k.phase = "new" /\ m.type = "hello" /\ socket' = [socket EXCEPT ![s] = hi]
           /\ engine' = engine /\ history' = history
        \/ /\ k.phase # "ready" /\ m.type # "hello" /\ socket' = [socket EXCEPT ![s] = rest]
           /\ engine' = engine
           /\ history' = [history EXCEPT !.excused = IF m.type = "final" THEN history.excused \cup {m.n} ELSE history.excused]
        \/ /\ k.phase = "ready" /\ engine.transport = s /\ socket' = [socket EXCEPT ![s] = rest]
           /\ engine' = [engine EXCEPT !.queue = Append(engine.queue, Task("message", s, m))]
           /\ history' = history
        \/ /\ k.phase = "ready" /\ engine.transport # s /\ socket' = [socket EXCEPT ![s] = none]
           /\ engine' = engine /\ history' = history
    BY <1>7 DEF GatewayReceives, Accepts
  <1> HIDE DEF rest, none, hi
  <1>9. ASSUME NEW r, OneSocket(s, r), history' \in HistoryRecord, engine' \in EngineRecord, engine'.out = << >>,
               history'.said = history.said, history'.sent = history.sent
        PROVE  LiveLinkTypeOK'
    <2>1. socket' \in Seq(SocketRecord) /\ Len(socket') = Len(socket)
      BY <1>9, OneSocketFacts
    <2> QED BY <1>1, <1>9, <2>1, Typed, TypesAsLong
  <1>10. CASE k.phase = "new" /\ m.type = "hello" /\ socket' = [socket EXCEPT ![s] = hi]
           /\ engine' = engine /\ history' = history
    <2>1. OneSocket(s, hi) /\ LiveLinkTypeOK'
      BY <1>1, <1>6, <1>9, <1>10, Typed DEF OneSocket
    <2> QED BY <1>1, <1>2, <1>6, <1>10, <2>1
  <1>11. CASE k.phase # "ready" /\ m.type # "hello" /\ socket' = [socket EXCEPT ![s] = rest]
           /\ engine' = engine
           /\ history' = [history EXCEPT !.excused = IF m.type = "final" THEN history.excused \cup {m.n} ELSE history.excused]
    <2> DEFINE x == history.excused \cup (IF m.type = "final" THEN {m.n} ELSE {})
    <2>1. x \in SUBSET DOMAIN history.said /\ history' = [history EXCEPT !.excused = x]
      BY <1>3, <1>11, Typed
    <2> HIDE DEF x
    <2>2. /\ history' \in HistoryRecord /\ history'.said = history.said /\ history'.sent = history.sent
          /\ history'.handled = history.handled /\ history'.excused = x
      BY <2>1, HistoryAt
    <2>3. OneSocket(s, rest)
      BY <1>1, <1>5, <1>11 DEF OneSocket
    <2>4. LiveLinkTypeOK'
      BY <1>9, <1>11, <2>2, <2>3, Typed
    <2>5. rest.tab = k.tab /\ rest.open = k.open /\ rest.closed = k.closed /\ rest.gone = k.gone /\ rest.code = k.code
      BY <1>5 DEF Kept
    <2> QED BY <1>1, <1>2, <1>5, <1>11, <2>2, <2>3, <2>4, <2>5 DEF x
  <1>12. CASE k.phase = "ready" /\ engine.transport = s /\ socket' = [socket EXCEPT ![s] = rest]
           /\ engine' = [engine EXCEPT !.queue = Append(engine.queue, Task("message", s, m))]
           /\ history' = history
    <2>1. Task("message", s, m) \in TaskRecord
      BY <1>1, <1>2 DEF Task, TaskRecord
    <2>2. Append(engine.queue, Task("message", s, m)) \in Seq(TaskRecord)
      BY <2>1, Typed, EngineIs, Appended
    <2>3. engine' \in EngineRecord /\ engine'.out = << >>
      BY <1>12, <2>2, Typed DEF EngineRecord
    <2>4. OneSocket(s, rest)
      BY <1>1, <1>5, <1>12 DEF OneSocket
    <2>5. LiveLinkTypeOK'
      BY <1>9, <1>12, <2>3, <2>4, Typed
    <2>6. rest.tab = k.tab /\ rest.open = k.open /\ rest.closed = k.closed /\ rest.gone = k.gone /\ rest.code = k.code
      BY <1>5 DEF Kept
    <2> QED BY <1>1, <1>2, <1>5, <1>12, <2>4, <2>5, <2>6
  <1>13. CASE k.phase = "ready" /\ engine.transport # s /\ socket' = [socket EXCEPT ![s] = none]
           /\ engine' = engine /\ history' = history
    <2>1. OneSocket(s, none)
      BY <1>1, <1>5, <1>13 DEF OneSocket
    <2>2. LiveLinkTypeOK'
      BY <1>9, <1>13, <2>1, Typed
    <2>3. none.tab = k.tab /\ none.open = k.open /\ none.closed = k.closed /\ none.gone = k.gone /\ none.code = k.code
      BY <1>5 DEF Kept
    <2> QED BY <1>1, <1>2, <1>5, <1>13, <2>1, <2>2, <2>3
  <1> QED BY <1>8, <1>10, <1>11, <1>12, <1>13

\* Nothing but one socket and the engine's queue and state.
LEMMA TypesOne ==
  ASSUME LiveLinkTypeOK, NEW s, NEW r, OneSocket(s, r), tab' = tab,
         engine' \in EngineRecord, engine'.out = << >>,
         history' \in HistoryRecord, history'.said = history.said, history'.sent = history.sent
  PROVE  LiveLinkTypeOK'
  <1>1. socket' \in Seq(SocketRecord) /\ Len(socket') = Len(socket)
    BY OneSocketFacts
  <1> QED BY <1>1, Typed, TypesAsLong

LEMMA AuthenticatedFacts ==
  ASSUME LiveLinkTypeOK, NEW s \in Sockets, Authenticated(s)
  PROVE  /\ LiveLinkTypeOK' /\ tab' = tab /\ history' = history /\ socket[s].phase = "auth"
         /\ \E r : /\ OneSocket(s, r) /\ r.tab = socket[s].tab /\ r.open = socket[s].open
                   /\ r.closed = socket[s].closed /\ r.gone = socket[s].gone
                   /\ r.up = socket[s].up /\ r.down = socket[s].down /\ r.phase = "queued" /\ r.last = 0
         /\ engine'.queue = Append(engine.queue, Task("attach", s, Hello(socket[s].last)))
         /\ Task("attach", s, Hello(socket[s].last)) \in TaskRecord
         /\ engine'.loaded = TRUE /\ engine'.busy = engine.busy /\ engine'.transport = engine.transport
         /\ engine'.turns = engine.turns
         /\ engine'.st = engine.st \/ (engine'.st = "RECONNECTING" /\ ~engine.loaded)
  <1> DEFINE k == socket[s]
             r == [k EXCEPT !.phase = "queued", !.last = 0]
             a == Task("attach", s, Hello(k.last))
             e == Rebuilt(engine)
  <1>1. s \in DOMAIN socket /\ tab' = tab /\ history' = history /\ k.phase = "auth"
    BY DEF Authenticated, Sockets
  <1>2. k \in SocketRecord /\ k.last \in Nat
    BY <1>1, SocketAt
  <1>3. /\ r \in SocketRecord /\ r.tab = k.tab /\ r.open = k.open /\ r.closed = k.closed /\ r.gone = k.gone
        /\ r.up = k.up /\ r.down = k.down /\ r.phase = "queued" /\ r.last = 0
    BY <1>2 DEF SocketRecord
  <1>4. a \in TaskRecord
    BY <1>1, <1>2 DEF Task, TaskRecord, Hello, ClientMessage
  <1>5. socket' = [socket EXCEPT ![s] = r] /\ engine' = [e EXCEPT !.queue = Append(e.queue, a)]
    BY DEF Authenticated
  <1>6. /\ e \in EngineRecord /\ e.loaded = TRUE /\ e.queue = engine.queue /\ e.busy = engine.busy
        /\ e.transport = engine.transport /\ e.turns = engine.turns /\ e.out = << >>
        /\ e.st = engine.st \/ (e.st = "RECONNECTING" /\ ~engine.loaded)
    BY Typed DEF Rebuilt, EngineRecord
  <1> HIDE DEF e, a
  <1>7. Append(engine.queue, a) \in Seq(TaskRecord)
    BY <1>4, Typed, EngineIs, Appended
  <1>8. /\ engine' \in EngineRecord /\ engine'.out = << >> /\ engine'.queue = Append(engine.queue, a)
        /\ engine'.loaded = TRUE /\ engine'.busy = engine.busy /\ engine'.transport = engine.transport
        /\ engine'.turns = engine.turns /\ engine'.st = e.st
    BY <1>5, <1>6, <1>7 DEF EngineRecord
  <1> HIDE DEF r
  <1>9. OneSocket(s, r)
    BY <1>1, <1>3, <1>5 DEF OneSocket
  <1>10. LiveLinkTypeOK'
    BY <1>1, <1>8, <1>9, Typed, TypesOne
  <1> QED BY <1>1, <1>3, <1>4, <1>6, <1>8, <1>9, <1>10 DEF a

LEMMA FaultAt ==
  ASSUME LiveLinkTypeOK, history' = [history EXCEPT !.faults = @ + 1]
  PROVE  /\ history' \in HistoryRecord /\ history'.said = history.said /\ history'.sent = history.sent
         /\ history'.handled = history.handled /\ history'.excused = history.excused
  BY SMTT(20), Typed DEF HistoryRecord

\* The gateway gives a socket up before it has a connection.
LEMMA GivesUpFacts ==
  ASSUME LiveLinkTypeOK, NEW s \in Sockets, HelloTimeout(s) \/ Refused(s)
  PROVE  /\ LiveLinkTypeOK' /\ tab' = tab /\ engine' = engine
         /\ history'.said = history.said /\ history'.sent = history.sent
         /\ history'.handled = history.handled /\ history'.excused = history.excused
         /\ socket[s].phase \in {"new", "auth", "queued"}
         /\ \E r : /\ OneSocket(s, r) /\ r.tab = socket[s].tab /\ r.open = FALSE
                   /\ r.closed = TRUE /\ r.gone = socket[s].gone
                   /\ r.up = socket[s].up /\ r.down = socket[s].down
                   /\ \/ r.phase = socket[s].phase /\ r.last = socket[s].last
                      \/ r.phase = "refused" /\ socket[s].phase = "auth" /\ r.last = 0
  <1> DEFINE k == socket[s]
             x == [k EXCEPT !.closed = TRUE, !.open = FALSE, !.code = IF k.open THEN "failed" ELSE k.code]
             y == [x EXCEPT !.phase = "refused", !.last = 0]
             C == Closed(socket, s, "failed")
  <1>1. /\ s \in DOMAIN socket /\ tab' = tab /\ engine' = engine
        /\ history' = [history EXCEPT !.faults = @ + 1] /\ k.phase \in {"new", "auth", "queued"}
    BY DEF HelloTimeout, Refused, Sockets
  <1>2. k \in SocketRecord /\ k.code \in {"none", "superseded", "failed"} /\ k.open \in BOOLEAN
    BY <1>1, SocketAt
  <1>3. /\ x \in SocketRecord /\ x.tab = k.tab /\ x.open = FALSE /\ x.closed = TRUE /\ x.gone = k.gone
        /\ x.up = k.up /\ x.down = k.down /\ x.phase = k.phase /\ x.last = k.last
    BY <1>2 DEF SocketRecord
  <1>4. C = [socket EXCEPT ![s] = x]
    BY <1>1, Typed, ClosedFacts
  <1> HIDE DEF x, C
  <1>5. /\ y \in SocketRecord /\ y.tab = k.tab /\ y.open = FALSE /\ y.closed = TRUE /\ y.gone = k.gone
        /\ y.up = k.up /\ y.down = k.down /\ y.phase = "refused" /\ y.last = 0
    BY <1>3 DEF SocketRecord
  <1>6. \/ socket' = [socket EXCEPT ![s] = x]
        \/ socket' = [socket EXCEPT ![s] = y] /\ k.phase = "auth"
    <2>1. CASE HelloTimeout(s)
      BY <2>1, <1>4 DEF HelloTimeout, C
    <2>2. CASE Refused(s)
      <3>1. socket' = [C EXCEPT ![s].phase = "refused", ![s].last = 0] /\ k.phase = "auth"
        BY <2>2 DEF Refused, C
      <3>2. C[s] = x
        BY <1>1, <1>4
      <3> QED BY <3>1, <3>2, <1>1, <1>4
    <2> QED BY <2>1, <2>2
  <1> HIDE DEF y
  <1>7. OneSocket(s, x) \/ (OneSocket(s, y) /\ k.phase = "auth")
    BY <1>1, <1>3, <1>5, <1>6 DEF OneSocket
  <1>8. /\ history' \in HistoryRecord /\ history'.said = history.said /\ history'.sent = history.sent
        /\ history'.handled = history.handled /\ history'.excused = history.excused
    BY <1>1, FaultAt
  <1>9. LiveLinkTypeOK'
    BY <1>1, <1>7, <1>8, Typed, TypesOne
  <1> QED BY <1>1, <1>3, <1>5, <1>7, <1>8, <1>9

LEMMA GoneFacts ==
  ASSUME LiveLinkTypeOK, NEW s \in Sockets, GatewayNotices(s)
  PROVE  /\ LiveLinkTypeOK' /\ tab' = tab /\ history' = history /\ ~socket[s].open /\ ~socket[s].gone
         /\ \E r : /\ OneSocket(s, r) /\ r.tab = socket[s].tab /\ r.open = socket[s].open
                   /\ r.closed = TRUE /\ r.gone = TRUE /\ r.phase = socket[s].phase /\ r.last = socket[s].last
                   /\ r.up = << >> /\ r.down = socket[s].down
         /\ engine'.queue = IF socket[s].phase = "ready"
                            THEN Append(engine.queue, Task("detach", s, NoMessage)) ELSE engine.queue
         /\ Task("detach", s, NoMessage) \in TaskRecord
         /\ engine'.loaded = engine.loaded /\ engine'.busy = engine.busy /\ engine'.st = engine.st
         /\ engine'.transport = engine.transport /\ engine'.turns = engine.turns
  <1> DEFINE k == socket[s]
             a == Task("detach", s, NoMessage)
             q == IF k.phase = "ready" THEN Append(engine.queue, a) ELSE engine.queue
  <1>1. s \in DOMAIN socket /\ tab' = tab /\ history' = history /\ ~k.open /\ ~k.gone
    BY DEF GatewayNotices, Sockets
  <1>2. k \in SocketRecord
    BY <1>1, SocketAt
  <1>3. PICK nothing \in Seq(ClientMessage) : nothing = << >>
    <2>1. << >> \in Seq(ClientMessage)
      OBVIOUS
    <2> QED BY <2>1
  <1> DEFINE r == [k EXCEPT !.gone = TRUE, !.closed = TRUE, !.up = nothing]
  <1>4. /\ r \in SocketRecord /\ r.tab = k.tab /\ r.open = k.open /\ r.closed = TRUE /\ r.gone = TRUE
        /\ r.up = << >> /\ r.down = k.down /\ r.phase = k.phase /\ r.last = k.last
    BY <1>2, <1>3 DEF SocketRecord
  <1>5. socket' = [socket EXCEPT ![s] = r] /\ engine' = [engine EXCEPT !.queue = q]
    BY <1>3 DEF GatewayNotices
  <1> HIDE DEF r
  <1>6. a \in TaskRecord
    BY <1>1 DEF Task, TaskRecord, NoMessage, ClientMessage
  <1> HIDE DEF a
  <1>7. q \in Seq(TaskRecord)
    BY <1>6, Typed, EngineIs, Appended
  <1> HIDE DEF q
  <1>8. /\ engine' \in EngineRecord /\ engine'.out = << >> /\ engine'.queue = q
        /\ engine'.loaded = engine.loaded /\ engine'.busy = engine.busy /\ engine'.st = engine.st
        /\ engine'.transport = engine.transport /\ engine'.turns = engine.turns
    BY <1>5, <1>7, Typed DEF EngineRecord
  <1>9. OneSocket(s, r)
    BY <1>1, <1>4, <1>5 DEF OneSocket
  <1>10. LiveLinkTypeOK'
    BY <1>1, <1>8, <1>9, Typed, TypesOne
  <1> QED BY <1>1, <1>4, <1>6, <1>8, <1>9, <1>10 DEF q, a

LEMMA DropFacts ==
  ASSUME LiveLinkTypeOK, NEW s \in Sockets, Drop(s)
  PROVE  /\ LiveLinkTypeOK' /\ tab' = tab /\ history' = history /\ engine' = engine
         /\ \E r : /\ OneSocket(s, r) /\ r.tab = socket[s].tab /\ r.open = FALSE
                   /\ r.closed = socket[s].closed /\ r.gone = socket[s].gone
                   /\ r.phase = socket[s].phase /\ r.last = socket[s].last
                   /\ r.up = socket[s].up /\ r.down = socket[s].down
  <1> DEFINE k == socket[s]
             r == [k EXCEPT !.open = FALSE]
  <1>1. /\ s \in DOMAIN socket /\ tab' = tab /\ history' = history /\ engine' = engine
        /\ socket' = [socket EXCEPT ![s] = r]
    BY DEF Drop, Sockets
  <1>2. k \in SocketRecord
    BY <1>1, SocketAt
  <1>3. /\ r \in SocketRecord /\ r.tab = k.tab /\ r.open = FALSE /\ r.closed = k.closed /\ r.gone = k.gone
        /\ r.up = k.up /\ r.down = k.down /\ r.phase = k.phase /\ r.last = k.last
    BY <1>2 DEF SocketRecord
  <1> HIDE DEF r
  <1>4. OneSocket(s, r)
    BY <1>1, <1>3 DEF OneSocket
  <1>5. LiveLinkTypeOK'
    BY <1>1, <1>4, Typed, TypesOne
  <1> QED BY <1>1, <1>3, <1>4, <1>5

LEMMA RestartFacts ==
  ASSUME LiveLinkTypeOK, Restart
  PROVE  /\ LiveLinkTypeOK' /\ tab' = tab
         /\ history'.said = history.said /\ history'.sent = history.sent
         /\ history'.handled = history.handled /\ history'.excused = history.excused
         /\ DOMAIN socket' = DOMAIN socket
         /\ \A i \in DOMAIN socket :
              /\ socket'[i].tab = socket[i].tab /\ socket'[i].down = socket[i].down
              /\ socket'[i].phase = "ready" /\ ~socket'[i].open /\ socket'[i].closed
              /\ socket'[i].gone /\ socket'[i].up = << >>
         /\ engine'.queue = << >> /\ engine'.busy = 0 /\ engine'.transport = 0 /\ ~engine'.loaded
         /\ engine'.turns = engine.turns /\ engine'.st = engine.st
  <1>1. PICK nothing \in Seq(ClientMessage) : nothing = << >>
    <2>1. << >> \in Seq(ClientMessage)
      OBVIOUS
    <2> QED BY <2>1
  <1>2. PICK none \in Seq(TaskRecord) : none = << >>
    <2>1. << >> \in Seq(TaskRecord)
      OBVIOUS
    <2> QED BY <2>1
  <1> DEFINE R(i) == [socket[i] EXCEPT !.phase = "ready", !.open = FALSE, !.closed = TRUE,
                                       !.gone = TRUE, !.up = nothing]
  <1>3. /\ tab' = tab /\ history' = [history EXCEPT !.faults = @ + 1]
        /\ socket' = [i \in DOMAIN socket |-> R(i)]
        /\ engine' = [engine EXCEPT !.loaded = FALSE, !.wasPaused = FALSE, !.queue = none,
                                    !.busy = 0, !.transport = 0, !.gen = FALSE]
    BY <1>1, <1>2 DEF Restart
  <1>4. /\ engine' \in EngineRecord /\ engine'.out = << >> /\ engine'.queue = << >>
        /\ engine'.loaded = FALSE /\ engine'.busy = 0 /\ engine'.st = engine.st
        /\ engine'.transport = 0 /\ engine'.turns = engine.turns
    <2>1. 0 \in 0..Len(socket)
      BY Typed
    <2> QED BY <1>2, <1>3, <2>1, Typed DEF EngineRecord
  <1>5. ASSUME NEW i \in DOMAIN socket
        PROVE  /\ R(i) \in SocketRecord /\ R(i).tab = socket[i].tab /\ R(i).down = socket[i].down
               /\ R(i).phase = "ready" /\ ~R(i).open /\ R(i).closed /\ R(i).gone /\ R(i).up = << >>
    <2>1. socket[i] \in SocketRecord
      BY SocketAt
    <2> QED BY <1>1, <2>1 DEF SocketRecord
  <1> HIDE DEF R
  <1>6. DOMAIN socket' = DOMAIN socket /\ \A i \in DOMAIN socket : socket'[i] = R(i)
    BY <1>3
  <1>7. socket' \in Seq(SocketRecord) /\ Len(socket') = Len(socket)
    <2>1. socket' \in [1..Len(socket) -> SocketRecord]
      BY <1>3, <1>5, Typed
    <2> QED BY <2>1, Typed, Mapped
  <1>8. /\ history' \in HistoryRecord /\ history'.said = history.said /\ history'.sent = history.sent
        /\ history'.handled = history.handled /\ history'.excused = history.excused
    BY <1>3, FaultAt
  <1>9. LiveLinkTypeOK'
    BY <1>3, <1>4, <1>7, <1>8, Typed, TypesAsLong
  <1> QED BY <1>3, <1>4, <1>5, <1>6, <1>8, <1>9

-----------------------------------------------------------------------------
(* The steps of the engine *)

LEMMA ScheduleQuiet ==
  ASSUME NEW e \in EngineRecord
  PROVE  LET f == ScheduleGeneration(e, FALSE) IN
         f \in EngineRecord /\ Only(e, f) /\ f.turns = e.turns /\ f.out = e.out
  BY DEF ScheduleGeneration, AbortGeneration, Only, EngineRecord

LEMMA OnlyFacts ==
  ASSUME NEW e \in EngineRecord, NEW f, Only(e, f)
  PROVE  /\ f.loaded = e.loaded /\ f.st = e.st /\ f.wasPaused = e.wasPaused /\ f.queue = e.queue
         /\ f.busy = e.busy /\ f.transport = e.transport
  BY DEF Only, EngineRecord

LEMMA TypesDoes ==
  ASSUME LiveLinkTypeOK, engine' \in EngineRecord, engine'.out = << >>,
         socket' \in Seq(SocketRecord), Len(socket') = Len(socket), tab' = tab,
         history' \in HistoryRecord, history'.said = history.said, history'.sent = history.sent
  PROVE  LiveLinkTypeOK'
  BY Typed, TypesAsLong

\* What attach() leaves when it returns to the gateway.
LEMMA ReturnsFacts ==
  ASSUME LiveLinkTypeOK, NEW f \in EngineRecord, NEW K \in Seq(SocketRecord),
         Len(K) = Len(socket), NEW s \in DOMAIN socket, Returns(f, K, s)
  PROVE  /\ engine' \in EngineRecord /\ engine'.out = << >> /\ engine'.turns = f.turns
         /\ engine'.st = f.st /\ engine'.busy = f.busy /\ engine'.transport = f.transport
         /\ engine'.loaded = f.loaded
         /\ engine'.queue = IF K[s].closed THEN Append(f.queue, Task("detach", s, NoMessage)) ELSE f.queue
         /\ Task("detach", s, NoMessage) \in TaskRecord
         /\ socket' \in Seq(SocketRecord) /\ Len(socket') = Len(socket) /\ DOMAIN socket' = DOMAIN socket
         /\ Delivers([K EXCEPT ![s].phase = "ready"], socket', f.transport, f.out)
  <1> DEFINE a == Task("detach", s, NoMessage)
             r == [K[s] EXCEPT !.phase = "ready"]
             L == [K EXCEPT ![s].phase = "ready"]
             q == IF K[s].closed THEN Append(f.queue, a) ELSE f.queue
             g == [f EXCEPT !.queue = q]
  <1>1. a \in TaskRecord
    BY DEF Task, TaskRecord, NoMessage, ClientMessage
  <1>2. s \in DOMAIN K /\ K[s] \in SocketRecord
    BY Typed
  <1>3. r \in SocketRecord /\ r.closed = K[s].closed
    BY <1>2 DEF SocketRecord
  <1>4. L = [K EXCEPT ![s] = r]
    BY <1>2
  <1> HIDE DEF r
  <1>5. L \in Seq(SocketRecord) /\ Len(L) = Len(socket) /\ L[s].closed = K[s].closed
    BY <1>2, <1>3, <1>4, Replaced
  <1>6. Does([f EXCEPT !.queue = IF K[s].closed THEN Append(@, Task("detach", s, NoMessage)) ELSE @], L)
    BY DEF Returns
  <1> HIDE DEF L, a
  <1>7. f.queue \in Seq(TaskRecord)
    BY EngineIs
  <1>8. q \in Seq(TaskRecord)
    BY <1>1, <1>7, Appended
  <1>9. Does(g, L)
    BY <1>6 DEF a
  <1> HIDE DEF q
  <1>10. /\ g \in EngineRecord /\ g.queue = q /\ g.turns = f.turns /\ g.st = f.st /\ g.busy = f.busy
         /\ g.transport = f.transport /\ g.loaded = f.loaded /\ g.out = f.out
    BY <1>8 DEF EngineRecord
  <1> HIDE DEF g
  <1>11. /\ engine' \in EngineRecord
         /\ engine'.out = << >> /\ engine'.turns = g.turns /\ engine'.queue = g.queue
         /\ engine'.st = g.st /\ engine'.busy = g.busy /\ engine'.transport = g.transport
         /\ engine'.loaded = g.loaded
         /\ socket' \in Seq(SocketRecord) /\ Len(socket') = Len(socket) /\ DOMAIN socket' = DOMAIN socket
         /\ Delivers(L, socket', g.transport, g.out)
    BY <1>5, <1>9, <1>10, DoesFacts
  <1> QED BY <1>1, <1>10, <1>11 DEF q, L, a

\* What no step of the engine changes of the sockets.
Stands(r, k) ==
  /\ r.tab = k.tab /\ r.gone = k.gone /\ r.last = k.last /\ r.up = k.up

LEMMA AttachFacts ==
  ASSUME LiveLinkTypeOK, Attach
  PROVE  LET s == Head(engine.queue).socket
             old == engine.transport
             cut == {old} \ {0, s}
         IN
         /\ LiveLinkTypeOK' /\ tab' = tab /\ history' = history /\ engine.busy = 0
         /\ engine.queue # << >> /\ Head(engine.queue).type = "attach" /\ s \in DOMAIN socket
         /\ Head(engine.queue).msg.n \in Nat
         /\ DOMAIN socket' = DOMAIN socket
         /\ \A i \in DOMAIN socket :
              /\ Stands(socket'[i], socket[i])
              /\ socket'[i].open <=> socket[i].open /\ i \notin cut
              /\ socket'[i].closed <=> socket[i].closed \/ i \in cut
              /\ i # s => socket'[i].phase = socket[i].phase /\ socket'[i].down = socket[i].down
         /\ ~socket[s].open => socket'[s].down = socket[s].down
         /\ socket[s].open =>
              socket'[s].down = socket[s].down \o <<Welcome(engine, Head(engine.queue).msg.n)>>
         /\ Welcome(engine, Head(engine.queue).msg.n) \in ServerMessage
         /\ engine'.transport = s /\ engine'.turns = engine.turns /\ engine'.loaded = engine.loaded
         /\ engine'.st # "RECONNECTING"
         /\ \/ /\ engine'.busy = s /\ socket'[s].phase = socket[s].phase /\ engine'.queue = Tail(engine.queue)
            \/ /\ engine'.busy = 0 /\ socket'[s].phase = "ready"
               /\ engine'.queue = IF socket[s].closed
                                  THEN Append(Tail(engine.queue), Task("detach", s, NoMessage))
                                  ELSE Tail(engine.queue)
  <1> DEFINE h == Head(engine.queue)
             s == h.socket
             old == engine.transport
             K == IF old \in {0, s} THEN socket ELSE Closed(socket, old, "superseded")
             W == Welcome(engine, h.msg.n)
             st == IF engine.st # "RECONNECTING" THEN engine.st
                   ELSE IF engine.wasPaused THEN "PAUSED" ELSE "ACTIVE"
             e == [Taken EXCEPT !.transport = s, !.st = st, !.out = <<W>>]
  <1>1. /\ engine.busy = 0 /\ engine.queue # << >> /\ h.type = "attach" /\ tab' = tab /\ history' = history
    BY DEF Attach, Takes
  <1>2. /\ Taken \in EngineRecord /\ Taken.turns = engine.turns /\ Taken.queue = Tail(engine.queue)
        /\ Taken.st = engine.st /\ Taken.busy = engine.busy /\ Taken.loaded = engine.loaded /\ h \in TaskRecord
    BY <1>1, TakenFacts
  <1>3. s \in DOMAIN socket /\ h.msg \in ClientMessage
    BY <1>2 DEF TaskRecord
  <1>4. h.msg.n \in Nat
    <2>1. DOMAIN history.said \subseteq Nat /\ DOMAIN history.sent \subseteq Nat
      BY Typed
    <2> QED BY <1>3, <2>1 DEF ClientMessage
  <1>5. engine.turns \in Seq(Turn) /\ old \in 0..Len(socket) /\ s \in 0..Len(socket) /\ s # 0
    BY <1>3, Typed, EngineIs
  <1>6. W \in ServerMessage
    BY <1>4, <1>5 DEF Welcome, ServerMessage
  <1>7. \/ /\ e.gen /\ Does([e EXCEPT !.busy = s], K)
        \/ /\ Returns(ScheduleGeneration(e, FALSE), K, s)
        \/ /\ Returns(e, K, s)
    <2>1. e = [Taken EXCEPT !.transport = s,
                            !.st = IF @ # "RECONNECTING" THEN @
                                   ELSE IF engine.wasPaused THEN "PAUSED" ELSE "ACTIVE",
                            !.out = <<Welcome(engine, h.msg.n)>>]
      BY <1>2
    <2> HIDE DEF e, K
    <2>2. \/ e.st = "ACTIVE" /\ NeedsResponse(e) /\ e.gen /\ Does([e EXCEPT !.busy = s], K)
          \/ e.st = "ACTIVE" /\ NeedsResponse(e) /\ ~e.gen /\ Returns(ScheduleGeneration(e, FALSE), K, s)
          \/ ~(e.st = "ACTIVE" /\ NeedsResponse(e)) /\ Returns(e, K, s)
      BY <2>1 DEF Attach, K
    <2> QED BY <2>2
  <1>8. /\ K \in Seq(SocketRecord) /\ Len(K) = Len(socket)
        /\ \A i \in DOMAIN socket :
              /\ Stands(K[i], socket[i]) /\ K[i].phase = socket[i].phase /\ K[i].down = socket[i].down
              /\ K[i].open <=> socket[i].open /\ i \notin {old} \ {0, s}
              /\ K[i].closed <=> socket[i].closed \/ i \in {old} \ {0, s}
    <2>1. CASE old \in {0, s}
      BY <2>1, Typed, SocketAt DEF Stands
    <2>2. CASE old \notin {0, s}
      <3> DEFINE x == [socket[old] EXCEPT !.closed = TRUE, !.open = FALSE,
                                  !.code = IF socket[old].open THEN "superseded" ELSE socket[old].code]
      <3>1. old \in DOMAIN socket
        BY <2>2, <1>5, Typed
      <3>2. socket[old] \in SocketRecord
        BY <3>1, SocketAt
      <3>3. K \in Seq(SocketRecord) /\ Len(K) = Len(socket) /\ K = [socket EXCEPT ![old] = x]
        BY <2>2, <3>1, Typed, ClosedFacts
      <3>4. /\ x.tab = socket[old].tab /\ x.gone = socket[old].gone /\ x.last = socket[old].last
            /\ x.up = socket[old].up /\ x.phase = socket[old].phase /\ x.down = socket[old].down
            /\ x.open = FALSE /\ x.closed = TRUE
        BY <3>2 DEF SocketRecord
      <3> HIDE DEF x, K
      <3>5. \A i \in DOMAIN socket : K[i] = IF i = old THEN x ELSE socket[i]
        BY <3>1, <3>3
      <3> QED BY <2>2, <3>1, <3>3, <3>4, <3>5, SocketAt DEF Stands
    <2> QED BY <2>1, <2>2
  <1> HIDE DEF W, K, st
  <1>9. st \in {"ACTIVE", "PAUSED"}
    BY Typed, EngineIs DEF st
  <1>10. <<W>> \in Seq(ServerMessage)
    BY <1>6
  <1>11. /\ e \in EngineRecord /\ e.transport = s /\ e.st = st /\ e.out = <<W>> /\ e.turns = engine.turns
         /\ e.queue = Tail(engine.queue) /\ e.busy = 0 /\ e.loaded = engine.loaded
    <2>1. PICK w \in Seq(ServerMessage) : w = <<W>>
      BY <1>10
    <2>2. /\ [Taken EXCEPT !.transport = s, !.st = st, !.out = w] \in EngineRecord
      BY <1>2, <1>5, <1>9 DEF EngineRecord
    <2> QED BY <1>1, <1>2, <2>1, <2>2 DEF EngineRecord
  <1> HIDE DEF e
  <1>12. CASE Does([e EXCEPT !.busy = s], K)
    <2> DEFINE f == [e EXCEPT !.busy = s]
    <2>1. /\ f \in EngineRecord /\ f.transport = s /\ f.st = st /\ f.out = <<W>> /\ f.turns = engine.turns
          /\ f.queue = Tail(engine.queue) /\ f.busy = s /\ f.loaded = engine.loaded
      BY <1>5, <1>11 DEF EngineRecord
    <2>2. Does(f, K)
      BY <1>12
    <2> HIDE DEF f
    <2>3. /\ engine' \in EngineRecord
         /\ engine'.out = << >> /\ engine'.turns = f.turns /\ engine'.queue = f.queue
         /\ engine'.st = f.st /\ engine'.busy = f.busy /\ engine'.transport = f.transport
         /\ engine'.loaded = f.loaded
         /\ socket' \in Seq(SocketRecord) /\ Len(socket') = Len(socket) /\ DOMAIN socket' = DOMAIN socket
         /\ Delivers(K, socket', f.transport, f.out)
      BY <1>8, <2>1, <2>2, DoesFacts
    <2>4. LiveLinkTypeOK'
      BY <1>1, <2>3, Typed, TypesDoes
    <2>5. DOMAIN K = DOMAIN socket
      BY <1>8, Typed
    <2>6. /\ \A i \in DOMAIN socket :
              /\ Stands(socket'[i], socket[i])
              /\ socket'[i].open <=> socket[i].open /\ i \notin {old} \ {0, s}
              /\ socket'[i].closed <=> socket[i].closed \/ i \in {old} \ {0, s}
              /\ socket'[i].phase = socket[i].phase
              /\ i # s => socket'[i].down = socket[i].down
      BY <1>8, <2>1, <2>3, <2>5 DEF Delivers, Alike, Stands
    <2>7. /\ ~socket[s].open => socket'[s].down = socket[s].down
          /\ socket[s].open => socket'[s].down = socket[s].down \o <<W>>
      BY ZenonT(40), <1>3, <1>8, <2>1, <2>3, <2>5 DEF Delivers
    <2> QED BY <1>1, <1>3, <1>4, <1>6, <1>9, <2>1, <2>3, <2>4, <2>6, <2>7 DEF W
  <1>13. ASSUME NEW f \in EngineRecord, Only(e, f), f.turns = e.turns, f.out = e.out, Returns(f, K, s)
         PROVE  /\ LiveLinkTypeOK' /\ DOMAIN socket' = DOMAIN socket
                /\ \A i \in DOMAIN socket :
                      /\ Stands(socket'[i], socket[i])
                      /\ socket'[i].open <=> socket[i].open /\ i \notin {old} \ {0, s}
                      /\ socket'[i].closed <=> socket[i].closed \/ i \in {old} \ {0, s}
                      /\ i # s => socket'[i].phase = socket[i].phase /\ socket'[i].down = socket[i].down
                /\ ~socket[s].open => socket'[s].down = socket[s].down
                /\ socket[s].open => socket'[s].down = socket[s].down \o <<W>>
                /\ engine'.transport = s /\ engine'.turns = engine.turns /\ engine'.loaded = engine.loaded
                /\ engine'.st = st
                /\ engine'.busy = 0 /\ socket'[s].phase = "ready"
                /\ engine'.queue = IF socket[s].closed
                                   THEN Append(Tail(engine.queue), Task("detach", s, NoMessage))
                                   ELSE Tail(engine.queue)
    <2>1. f.loaded = e.loaded /\ f.st = e.st /\ f.queue = e.queue /\ f.busy = e.busy /\ f.transport = e.transport
      BY <1>11, <1>13, OnlyFacts
    <2> DEFINE L == [K EXCEPT ![s].phase = "ready"]
    <2>2. /\ engine' \in EngineRecord /\ engine'.out = << >> /\ engine'.turns = f.turns
          /\ engine'.st = f.st /\ engine'.busy = f.busy /\ engine'.transport = f.transport
          /\ engine'.loaded = f.loaded
          /\ engine'.queue = IF K[s].closed THEN Append(f.queue, Task("detach", s, NoMessage)) ELSE f.queue
          /\ socket' \in Seq(SocketRecord) /\ Len(socket') = Len(socket) /\ DOMAIN socket' = DOMAIN socket
          /\ Delivers(L, socket', f.transport, f.out)
      BY SMTT(20), <1>3, <1>8, <1>13, ReturnsFacts
    <2>3. LiveLinkTypeOK'
      BY <1>1, <2>2, Typed, TypesDoes
    <2>4. DOMAIN K = DOMAIN socket
      BY <1>8, Typed
    <2>5. \A i \in DOMAIN K : K[i] \in SocketRecord
      BY <1>8
    <2>6. /\ DOMAIN L = DOMAIN socket
          /\ \A i \in DOMAIN socket : /\ Stands(L[i], K[i]) /\ L[i].open = K[i].open /\ L[i].closed = K[i].closed
                                      /\ L[i].down = K[i].down
                                      /\ L[i].phase = IF i = s THEN "ready" ELSE K[i].phase
      BY <2>4, <2>5 DEF Stands, SocketRecord
    <2> HIDE DEF L
    <2>7. \A i \in DOMAIN socket :
                      /\ Stands(socket'[i], socket[i])
                      /\ socket'[i].open <=> socket[i].open /\ i \notin {old} \ {0, s}
                      /\ socket'[i].closed <=> socket[i].closed \/ i \in {old} \ {0, s}
                      /\ i # s => socket'[i].phase = socket[i].phase /\ socket'[i].down = socket[i].down
      BY <1>8, <1>11, <2>1, <2>2, <2>6 DEF Delivers, Alike, Stands
    <2>8. /\ ~socket[s].open => socket'[s].down = socket[s].down
          /\ socket[s].open => socket'[s].down = socket[s].down \o <<W>>
          /\ socket'[s].phase = "ready"
      <3>1. f.transport = s /\ f.out = <<W>>
        BY <1>11, <1>13, <2>1
      <3>2. s \in DOMAIN L /\ L[s].phase = "ready" /\ L[s].down = socket[s].down /\ (L[s].open <=> socket[s].open)
        BY <1>3, <1>8, <2>6
      <3>3. socket'[s].phase = L[s].phase
        BY <2>2, <3>2 DEF Delivers, Alike
      <3>4. L[s].open => socket'[s].down = L[s].down \o <<W>>
        BY <2>2, <3>1, <3>2 DEF Delivers
      <3>5. ~L[s].open => socket'[s].down = L[s].down
        BY <2>2, <3>1, <3>2 DEF Delivers
      <3> QED BY <3>2, <3>3, <3>4, <3>5
    <2>9. K[s].closed <=> socket[s].closed
      BY <1>3, <1>8
    <2> QED BY ZenonT(40), <1>11, <1>13, <2>1, <2>2, <2>3, <2>7, <2>8, <2>9
  <1>14. CASE Returns(e, K, s)
    <2>1. Only(e, e)
      BY <1>11, EngineIs
    <2> QED BY <1>1, <1>3, <1>4, <1>6, <1>9, <1>11, <1>13, <1>14, <2>1 DEF W
  <1>15. CASE Returns(ScheduleGeneration(e, FALSE), K, s)
    <2> DEFINE f == ScheduleGeneration(e, FALSE)
    <2>1. f \in EngineRecord /\ Only(e, f) /\ f.turns = e.turns /\ f.out = e.out
      BY <1>11, ScheduleQuiet
    <2> HIDE DEF f
    <2>2. Returns(f, K, s)
      BY <1>15 DEF f
    <2> QED BY <1>1, <1>3, <1>4, <1>6, <1>9, <1>13, <2>1, <2>2 DEF W
  <1> QED BY <1>7, <1>12, <1>14, <1>15

\* What the engine has said of the turns it has added.
Announces(out) ==
  /\ Len(engine.turns) <= Len(engine'.turns)
  /\ \A i \in DOMAIN engine.turns : engine'.turns[i] = engine.turns[i]
  /\ \A m \in Member(out) : m.type = "saved" /\ m.n <= Len(engine'.turns)
  /\ \A i \in DOMAIN out :
       out[i].n <= Len(engine.turns) + 1 \/ \E j \in 1..(i - 1) : out[j].n >= out[i].n - 1
  /\ \A i \in DOMAIN engine'.turns : i \in DOMAIN engine.turns \/ SavedMessage(i) \in Member(out)

\* The sockets after the engine has sent out on T.
Carries(T, out) ==
  /\ DOMAIN socket' = DOMAIN socket
  /\ \A i \in DOMAIN socket :
       /\ Stands(socket'[i], socket[i])
       /\ socket'[i].open = socket[i].open /\ socket'[i].closed = socket[i].closed
  /\ \A i \in DOMAIN socket : i = T /\ socket[i].open => socket'[i].down = socket[i].down \o out
  /\ \A i \in DOMAIN socket : ~(i = T /\ socket[i].open) => socket'[i].down = socket[i].down

SamePhases == \A i \in DOMAIN socket : socket'[i].phase = socket[i].phase

\* The turns added are the agent's.
AgentTalks == \A i \in DOMAIN engine'.turns : i \in DOMAIN engine.turns \/ engine'.turns[i] = AgentTurn

LEMMA DoesTells ==
  ASSUME LiveLinkTypeOK, NEW f \in EngineRecord, Adds(f), Does(f, socket)
  PROVE  /\ engine' \in EngineRecord
         /\ engine'.out = << >> /\ engine'.turns = f.turns /\ engine'.queue = f.queue
         /\ engine'.st = f.st /\ engine'.busy = f.busy /\ engine'.transport = f.transport
         /\ engine'.loaded = f.loaded
         /\ socket' \in Seq(SocketRecord) /\ Len(socket') = Len(socket)
         /\ f.out \in Seq(ServerMessage)
         /\ Announces(f.out) /\ Carries(f.transport, f.out) /\ SamePhases
  <1>1. socket \in Seq(SocketRecord)
    BY Typed
  <1>2. /\ engine' \in EngineRecord
        /\ engine'.out = << >> /\ engine'.turns = f.turns /\ engine'.queue = f.queue
        /\ engine'.st = f.st /\ engine'.busy = f.busy /\ engine'.transport = f.transport
        /\ engine'.loaded = f.loaded
        /\ socket' \in Seq(SocketRecord) /\ Len(socket') = Len(socket) /\ DOMAIN socket' = DOMAIN socket
        /\ Delivers(socket, socket', f.transport, f.out)
    BY <1>1, DoesFacts
  <1>3. Announces(f.out)
    BY <1>2 DEF Adds, Announces
  <1>4. Carries(f.transport, f.out) /\ SamePhases
    BY <1>2 DEF Carries, SamePhases, Delivers, Alike, Stands
  <1> QED BY <1>2, <1>3, <1>4, EngineIs

LEMMA AddsNone ==
  ASSUME LiveLinkTypeOK, NEW f, f.turns = engine.turns, f.out = << >>
  PROVE  Adds(f)
  <1>1. engine.turns \in Seq(Turn)
    BY Typed, EngineIs
  <1> QED BY <1>1, Nothing DEF Adds

LEMMA ReplyEndsFacts ==
  ASSUME LiveLinkTypeOK, ReplyEnds
  PROVE  /\ LiveLinkTypeOK' /\ tab' = tab /\ history' = history
         /\ engine'.queue = engine.queue /\ engine'.st = engine.st /\ engine'.busy = engine.busy
         /\ engine'.transport = engine.transport /\ engine'.loaded = engine.loaded
         /\ SamePhases /\ AgentTalks
         /\ \E out \in Seq(ServerMessage) : Announces(out) /\ Carries(engine.transport, out)
  <1> DEFINE q == [engine EXCEPT !.gen = FALSE]
             f == PersistTurn(q, AgentTurn)
  <1>1. Does(f, socket) /\ tab' = tab /\ history' = history
    BY DEF ReplyEnds
  <1>2. /\ q \in EngineRecord /\ q.turns = engine.turns /\ q.out = << >> /\ q.queue = engine.queue
        /\ q.st = engine.st /\ q.busy = engine.busy /\ q.transport = engine.transport
        /\ q.loaded = engine.loaded
    BY Typed DEF EngineRecord
  <1> HIDE DEF q
  <1>3. AgentTurn \in Turn /\ Adds(q) /\ engine.turns \in Seq(Turn)
    BY <1>2, AddsNone, Typed, EngineIs DEF Turn
  <1>4. f \in EngineRecord /\ Only(q, f) /\ f.turns = Append(q.turns, AgentTurn) /\ Adds(f)
    BY <1>2, <1>3, PersistFacts
  <1> HIDE DEF f
  <1>5. /\ f.loaded = q.loaded /\ f.st = q.st /\ f.queue = q.queue
        /\ f.busy = q.busy /\ f.transport = q.transport
    BY <1>2, <1>4, OnlyFacts
  <1>6. /\ engine' \in EngineRecord
        /\ engine'.out = << >> /\ engine'.turns = f.turns /\ engine'.queue = f.queue
        /\ engine'.st = f.st /\ engine'.busy = f.busy /\ engine'.transport = f.transport
        /\ engine'.loaded = f.loaded
        /\ socket' \in Seq(SocketRecord) /\ Len(socket') = Len(socket)
        /\ f.out \in Seq(ServerMessage)
        /\ Announces(f.out) /\ Carries(f.transport, f.out) /\ SamePhases
    BY <1>1, <1>4, DoesTells
  <1>7. LiveLinkTypeOK'
    BY <1>1, <1>6, Typed, TypesDoes
  <1>8. AgentTalks
    <2>1. engine'.turns = Append(engine.turns, AgentTurn)
      BY <1>2, <1>4, <1>6
    <2> QED BY <2>1, <1>3, Appended DEF AgentTalks
  <1>9. \E out \in Seq(ServerMessage) : Announces(out) /\ Carries(engine.transport, out)
    BY <1>2, <1>5, <1>6
  <1> QED BY <1>1, <1>2, <1>5, <1>6, <1>7, <1>8, <1>9

LEMMA HandleFinalFacts ==
  ASSUME LiveLinkTypeOK, HandleFinal
  PROVE  LET n == Head(engine.queue).msg.n IN
         /\ LiveLinkTypeOK' /\ tab' = tab
         /\ engine.queue # << >> /\ Head(engine.queue).type = "message"
         /\ Head(engine.queue).msg.type = "final" /\ engine.busy = 0
         /\ n \in DOMAIN history.said
         /\ history'.said = history.said /\ history'.sent = history.sent /\ history'.handled = history.handled
         /\ history'.excused = IF ~Saved(engine, n) /\ engine.st # "ACTIVE"
                               THEN history.excused \cup {n} ELSE history.excused
         /\ engine'.queue = Tail(engine.queue) /\ engine'.st = engine.st /\ engine'.busy = engine.busy
         /\ engine'.transport = engine.transport /\ engine'.loaded = engine.loaded
         /\ SamePhases
         /\ \A i \in DOMAIN engine'.turns : i \in DOMAIN engine.turns \/ engine'.turns[i] = AgentTurn
              \/ (engine'.turns[i] = n /\ i = Len(engine.turns) + 1 /\ ~Saved(engine, n))
         /\ ~Saved(engine, n) /\ engine.st = "ACTIVE" =>
              Len(engine'.turns) > Len(engine.turns) /\ engine'.turns[Len(engine.turns) + 1] = n
         /\ \E out \in Seq(ServerMessage) :
              /\ Announces(out) /\ Carries(engine.transport, out)
              /\ Saved(engine, n) => \E m \in Member(out) : engine.turns[m.n] = n /\ m.n \in DOMAIN engine.turns
  <1> DEFINE h == Head(engine.queue)
             n == h.msg.n
             x == IF ~Saved(engine, n) /\ engine.st # "ACTIVE" THEN history.excused \cup {n} ELSE history.excused
  <1>1. /\ engine.queue # << >> /\ h.type = "message" /\ h.msg.type = "final" /\ engine.busy = 0 /\ tab' = tab
        /\ history' = [history EXCEPT !.excused = x]
    BY DEF HandleFinal, Takes
  <1>2. PICK heard \in BOOLEAN : Does(OnFinal(Taken, n, heard), socket)
    BY DEF HandleFinal
  <1>3. /\ Taken \in EngineRecord /\ Adds(Taken) /\ Taken.turns = engine.turns /\ Taken.out = << >>
        /\ Taken.queue = Tail(engine.queue) /\ Taken.st = engine.st /\ Taken.busy = engine.busy
        /\ Taken.transport = engine.transport /\ Taken.loaded = engine.loaded
        /\ h \in TaskRecord
    BY <1>1, TakenFacts
  <1>4. n \in DOMAIN history.said
    <2>1. h.msg \in ClientMessage
      BY <1>3 DEF TaskRecord
    <2> QED BY <2>1, <1>1 DEF ClientMessage
  <1>5. x \in SUBSET DOMAIN history.said
    BY <1>4, Typed
  <1> HIDE DEF x
  <1>6. /\ history' \in HistoryRecord /\ history'.said = history.said /\ history'.sent = history.sent
        /\ history'.handled = history.handled /\ history'.excused = x
    BY <1>1, <1>5, HistoryAt
  <1>7. Saved(Taken, n) <=> Saved(engine, n)
    BY <1>3 DEF Saved
  <1> DEFINE f == OnFinal(Taken, n, heard)
  <1>8. /\ f \in EngineRecord /\ Only(Taken, f) /\ Adds(f)
        /\ \A i \in DOMAIN f.turns : i \in DOMAIN Taken.turns \/ f.turns[i] = AgentTurn
             \/ (f.turns[i] = n /\ i = Len(Taken.turns) + 1 /\ ~Saved(Taken, n))
        /\ Saved(Taken, n) => \E m \in Member(f.out) : Taken.turns[m.n] = n /\ m.n \in DOMAIN Taken.turns
        /\ ~Saved(Taken, n) /\ Taken.st = "ACTIVE" => Len(f.turns) > Len(Taken.turns) /\ f.turns[Len(Taken.turns) + 1] = n
    <2> HIDE DEF n
    <2> QED BY <1>3, <1>4, OnFinalFacts
  <1>9. Does(f, socket)
    BY <1>2
  <1> HIDE DEF f
  <1>10. /\ f.loaded = Taken.loaded /\ f.st = Taken.st /\ f.queue = Taken.queue
         /\ f.busy = Taken.busy /\ f.transport = Taken.transport
    BY <1>3, <1>8, OnlyFacts
  <1>11. /\ engine' \in EngineRecord
         /\ engine'.out = << >> /\ engine'.turns = f.turns /\ engine'.queue = f.queue
         /\ engine'.st = f.st /\ engine'.busy = f.busy /\ engine'.transport = f.transport
         /\ engine'.loaded = f.loaded
         /\ socket' \in Seq(SocketRecord) /\ Len(socket') = Len(socket)
         /\ f.out \in Seq(ServerMessage)
         /\ Announces(f.out) /\ Carries(f.transport, f.out) /\ SamePhases
    BY <1>8, <1>9, DoesTells
  <1>12. LiveLinkTypeOK'
    BY <1>1, <1>6, <1>11, Typed, TypesDoes
  <1>13. \E out \in Seq(ServerMessage) :
              /\ Announces(out) /\ Carries(engine.transport, out)
              /\ Saved(engine, n) => \E m \in Member(out) : engine.turns[m.n] = n /\ m.n \in DOMAIN engine.turns
    <2> HIDE DEF n
    <2>1. f.out \in Seq(ServerMessage) /\ Announces(f.out) /\ Carries(engine.transport, f.out)
      BY <1>3, <1>10, <1>11
    <2>2. Saved(engine, n) => \E m \in Member(f.out) : engine.turns[m.n] = n /\ m.n \in DOMAIN engine.turns
      BY <1>3, <1>7, <1>8
    <2> QED BY <2>1, <2>2
  <1> HIDE DEF n, h
  <1>14. /\ \A i \in DOMAIN engine'.turns : i \in DOMAIN engine.turns \/ engine'.turns[i] = AgentTurn
              \/ (engine'.turns[i] = n /\ i = Len(engine.turns) + 1 /\ ~Saved(engine, n))
         /\ ~Saved(engine, n) /\ engine.st = "ACTIVE" =>
              Len(engine'.turns) > Len(engine.turns) /\ engine'.turns[Len(engine.turns) + 1] = n
    <2>1. engine'.turns = f.turns
      BY <1>11
    <2>2. Taken.turns = engine.turns /\ Taken.st = engine.st
      BY <1>3
    <2> QED BY <2>1, <2>2, <1>7, <1>8
  <1>15. /\ engine'.queue = Tail(engine.queue) /\ engine'.st = engine.st /\ engine'.busy = engine.busy
         /\ engine'.transport = engine.transport /\ engine'.loaded = engine.loaded
    BY <1>3, <1>10, <1>11
  <1> QED BY <1>1, <1>4, <1>6, <1>11, <1>12, <1>13, <1>14, <1>15 DEF x, n, h

LEMMA HandleDurableFacts ==
  ASSUME LiveLinkTypeOK, HandleDurable
  PROVE  LET n == Head(engine.queue).msg.n IN
         /\ LiveLinkTypeOK' /\ tab' = tab
         /\ engine.queue # << >> /\ Head(engine.queue).type = "message"
         /\ Head(engine.queue).msg.type = "durable" /\ engine.busy = 0
         /\ n \in DOMAIN history.sent
         /\ history'.said = history.said /\ history'.sent = history.sent
         /\ history'.excused = history.excused /\ history'.handled = Append(history.handled, n)
         /\ engine'.queue = Tail(engine.queue) /\ engine'.busy = engine.busy
         /\ engine'.st = engine.st \/ (engine.st # "RECONNECTING" /\ engine'.st # "RECONNECTING")
         /\ engine'.transport = engine.transport /\ engine'.loaded = engine.loaded
         /\ SamePhases /\ AgentTalks
         /\ \E out \in Seq(ServerMessage) : Announces(out) /\ Carries(engine.transport, out)
  <1> DEFINE h == Head(engine.queue)
             n == h.msg.n
  <1>1. /\ engine.queue # << >> /\ h.type = "message" /\ h.msg.type = "durable" /\ engine.busy = 0 /\ tab' = tab
        /\ history' = [history EXCEPT !.handled = Append(history.handled, n)]
    BY DEF HandleDurable, Takes
  <1>2. PICK heard \in BOOLEAN : Does(OnDurable(Taken, history.sent[n].type, heard), socket)
    BY DEF HandleDurable
  <1>3. /\ Taken \in EngineRecord /\ Adds(Taken) /\ Taken.turns = engine.turns /\ Taken.out = << >>
        /\ Taken.queue = Tail(engine.queue) /\ Taken.st = engine.st /\ Taken.busy = engine.busy
        /\ Taken.transport = engine.transport /\ Taken.loaded = engine.loaded
        /\ h \in TaskRecord
    BY <1>1, TakenFacts
  <1>4. n \in DOMAIN history.sent
    <2>1. h.msg \in ClientMessage
      BY <1>3 DEF TaskRecord
    <2> QED BY <2>1, <1>1 DEF ClientMessage
  <1>5. Append(history.handled, n) \in Seq(DOMAIN history.sent)
    BY <1>4, Typed, Appended
  <1>6. /\ history' \in HistoryRecord /\ history'.said = history.said /\ history'.sent = history.sent
        /\ history'.handled = Append(history.handled, n) /\ history'.excused = history.excused
    BY <1>1, <1>5, Typed DEF HistoryRecord
  <1> DEFINE type == history.sent[n].type
             f == OnDurable(Taken, type, heard)
  <1>8. /\ f \in EngineRecord /\ Talks(Taken, f) /\ Adds(f)
        /\ Controls(Taken, f)
        /\ Taken.st = f.st \/ (Taken.st # "RECONNECTING" /\ f.st # "RECONNECTING")
    <2> HIDE DEF type
    <2> QED BY <1>3, OnDurableFacts
  <1>9. Does(f, socket)
    BY <1>2
  <1> HIDE DEF f
  <1>10. /\ f.loaded = Taken.loaded /\ f.queue = Taken.queue
         /\ f.busy = Taken.busy /\ f.transport = Taken.transport
    BY <1>3, <1>8 DEF EngineRecord, Controls
  <1>11. /\ engine' \in EngineRecord
         /\ engine'.out = << >> /\ engine'.turns = f.turns /\ engine'.queue = f.queue
         /\ engine'.st = f.st /\ engine'.busy = f.busy /\ engine'.transport = f.transport
         /\ engine'.loaded = f.loaded
         /\ socket' \in Seq(SocketRecord) /\ Len(socket') = Len(socket)
         /\ f.out \in Seq(ServerMessage)
         /\ Announces(f.out) /\ Carries(f.transport, f.out) /\ SamePhases
    BY <1>8, <1>9, DoesTells
  <1>12. LiveLinkTypeOK'
    BY <1>1, <1>6, <1>11, Typed, TypesDoes
  <1>13. \E out \in Seq(ServerMessage) : Announces(out) /\ Carries(engine.transport, out)
    BY <1>3, <1>10, <1>11
  <1>14. AgentTalks
    BY <1>3, <1>8, <1>11 DEF AgentTalks, Talks
  <1> QED BY <1>1, <1>3, <1>4, <1>6, <1>8, <1>10, <1>11, <1>12, <1>13, <1>14

LEMMA DetachFacts ==
  ASSUME LiveLinkTypeOK, Detach, engine.transport # 0 => engine.st # "RECONNECTING"
  PROVE  LET s == Head(engine.queue).socket IN
         /\ LiveLinkTypeOK' /\ tab' = tab /\ history' = history
         /\ engine.queue # << >> /\ Head(engine.queue).type = "detach" /\ engine.busy = 0
         /\ s \in DOMAIN socket
         /\ engine'.queue = Tail(engine.queue) /\ engine'.busy = engine.busy
         /\ engine'.loaded = engine.loaded
         /\ \/ engine.transport # s /\ engine'.transport = engine.transport /\ engine'.st = engine.st
            \/ engine.transport = s /\ engine'.transport = 0 /\ engine'.st = "RECONNECTING"
         /\ SamePhases /\ AgentTalks
         /\ \E out \in Seq(ServerMessage) : Announces(out) /\ Carries(engine'.transport, out)
  <1> DEFINE h == Head(engine.queue)
             s == h.socket
  <1>1. /\ engine.queue # << >> /\ h.type = "detach" /\ engine.busy = 0 /\ tab' = tab
        /\ history' = history /\ Does(OnDetach(Taken, s), socket)
    BY DEF Detach, Takes
  <1>3. /\ Taken \in EngineRecord /\ Adds(Taken) /\ Taken.turns = engine.turns /\ Taken.out = << >>
        /\ Taken.queue = Tail(engine.queue) /\ Taken.st = engine.st /\ Taken.busy = engine.busy
        /\ Taken.transport = engine.transport /\ Taken.loaded = engine.loaded
        /\ h \in TaskRecord
    BY <1>1, TakenFacts
  <1>4. s \in DOMAIN socket /\ s # 0
    BY <1>3, Typed DEF TaskRecord
  <1> DEFINE f == OnDetach(Taken, s)
  <1>8. /\ f \in EngineRecord /\ Adds(f) /\ Talks(Taken, f)
        /\ f = [Taken EXCEPT !.turns = f.turns, !.gen = f.gen, !.out = f.out, !.st = f.st,
                         !.transport = f.transport, !.wasPaused = f.wasPaused]
        /\ Taken.transport # s => f = Taken
        /\ Taken.transport = s => f.transport = 0
        /\ Taken.transport = s /\ s # 0 => f.st = "RECONNECTING"
    <2> HIDE DEF s
    <2> QED BY <1>3, OnDetachFacts
  <1>9. Does(f, socket)
    BY <1>1
  <1> HIDE DEF f, s
  <1>10. f.loaded = Taken.loaded /\ f.queue = Taken.queue /\ f.busy = Taken.busy
    <2>1. Taken \in EngineRecord
      BY <1>3
    <2>2. f = [Taken EXCEPT !.turns = f.turns, !.gen = f.gen, !.out = f.out, !.st = f.st,
                          !.transport = f.transport, !.wasPaused = f.wasPaused]
      BY <1>8
    <2> QED BY <2>1, <2>2 DEF EngineRecord
  <1>11. /\ engine' \in EngineRecord
         /\ engine'.out = << >> /\ engine'.turns = f.turns /\ engine'.queue = f.queue
         /\ engine'.st = f.st /\ engine'.busy = f.busy /\ engine'.transport = f.transport
         /\ engine'.loaded = f.loaded
         /\ socket' \in Seq(SocketRecord) /\ Len(socket') = Len(socket)
         /\ f.out \in Seq(ServerMessage)
         /\ Announces(f.out) /\ Carries(f.transport, f.out) /\ SamePhases
    BY <1>8, <1>9, DoesTells
  <1>12. LiveLinkTypeOK'
    BY <1>1, <1>11, Typed, TypesDoes
  <1>13. \E out \in Seq(ServerMessage) : Announces(out) /\ Carries(engine'.transport, out)
    BY <1>11
  <1>14. AgentTalks
    BY <1>3, <1>8, <1>11 DEF AgentTalks, Talks
  <1>15. \/ engine.transport # s /\ engine'.transport = engine.transport /\ engine'.st = engine.st
         \/ engine.transport = s /\ engine'.transport = 0 /\ engine'.st = "RECONNECTING"
    BY <1>3, <1>4, <1>8, <1>11
  <1> QED BY <1>1, <1>3, <1>4, <1>10, <1>11, <1>12, <1>13, <1>14, <1>15 DEF s

LEMMA AttachReturnsFacts ==
  ASSUME LiveLinkTypeOK, AttachReturns
  PROVE  LET s == engine.busy IN
         /\ LiveLinkTypeOK' /\ tab' = tab /\ history' = history /\ s # 0 /\ s \in DOMAIN socket
         /\ engine'.queue = IF socket[s].closed THEN Append(engine.queue, Task("detach", s, NoMessage))
                            ELSE engine.queue
         /\ Task("detach", s, NoMessage) \in TaskRecord
         /\ engine'.busy = 0 /\ engine'.st = engine.st
         /\ engine'.transport = engine.transport /\ engine'.loaded = engine.loaded
         /\ socket'[s].phase = "ready"
         /\ \A i \in DOMAIN socket : i # s => socket'[i].phase = socket[i].phase
         /\ AgentTalks
         /\ \E out \in Seq(ServerMessage) : Announces(out) /\ Carries(engine.transport, out)
  <1> DEFINE s == engine.busy
             q == [engine EXCEPT !.busy = 0]
  <1>1. /\ s # 0 /\ tab' = tab /\ history' = history
        /\ \E heard \in BOOLEAN : Returns(ScheduleGeneration(q, heard), socket, s)
    BY DEF AttachReturns
  <1>2. PICK heard \in BOOLEAN : Returns(ScheduleGeneration(q, heard), socket, s)
    BY <1>1
  <1>3. s \in DOMAIN socket
    <2>1. s \in 0..Len(socket)
      BY Typed, EngineIs
    <2> QED BY <2>1, <1>1, Typed
  <1>4. /\ q \in EngineRecord /\ q.turns = engine.turns /\ q.out = << >> /\ q.queue = engine.queue
        /\ q.st = engine.st /\ q.busy = 0 /\ q.transport = engine.transport
        /\ q.loaded = engine.loaded
    <2>1. 0 \in 0..Len(socket)
      BY Typed
    <2> QED BY <2>1, Typed DEF EngineRecord
  <1> HIDE DEF q
  <1>5. Adds(q)
    BY <1>4, AddsNone
  <1> DEFINE f == ScheduleGeneration(q, heard)
  <1>6. f \in EngineRecord /\ Only(q, f) /\ Talks(q, f) /\ Adds(f)
    BY <1>4, <1>5, ScheduleFacts
  <1>7. Returns(f, socket, s)
    BY <1>2
  <1> HIDE DEF f, s
  <1>8. /\ f.loaded = q.loaded /\ f.st = q.st /\ f.queue = q.queue
        /\ f.busy = q.busy /\ f.transport = q.transport
    BY <1>4, <1>6, OnlyFacts
  <1> DEFINE L == [socket EXCEPT ![s].phase = "ready"]
  <1>9. socket \in Seq(SocketRecord)
    BY Typed
  <1>10. /\ engine' \in EngineRecord /\ engine'.out = << >> /\ engine'.turns = f.turns
         /\ engine'.st = f.st /\ engine'.busy = f.busy /\ engine'.transport = f.transport
         /\ engine'.loaded = f.loaded
         /\ engine'.queue = IF socket[s].closed THEN Append(f.queue, Task("detach", s, NoMessage)) ELSE f.queue
         /\ Task("detach", s, NoMessage) \in TaskRecord
         /\ socket' \in Seq(SocketRecord) /\ Len(socket') = Len(socket) /\ DOMAIN socket' = DOMAIN socket
         /\ Delivers(L, socket', f.transport, f.out)
    BY <1>3, <1>6, <1>7, <1>9, ReturnsFacts
  <1>11. \A i \in DOMAIN socket : socket[i] \in SocketRecord
    BY SocketAt
  <1>12. /\ DOMAIN L = DOMAIN socket
         /\ \A i \in DOMAIN socket : /\ Stands(L[i], socket[i]) /\ L[i].open = socket[i].open /\ L[i].closed = socket[i].closed
                                     /\ L[i].down = socket[i].down
                                     /\ L[i].phase = IF i = s THEN "ready" ELSE socket[i].phase
    BY <1>11 DEF Stands, SocketRecord
  <1> HIDE DEF L
  <1>13. /\ \A i \in DOMAIN socket :
              /\ Stands(socket'[i], socket[i])
              /\ socket'[i].open = socket[i].open /\ socket'[i].closed = socket[i].closed
              /\ socket'[i].phase = IF i = s THEN "ready" ELSE socket[i].phase
    BY <1>10, <1>12 DEF Delivers, Alike, Stands
  <1>14. Carries(f.transport, f.out)
    BY ZenonT(40), <1>10, <1>12, <1>13 DEF Delivers, Carries
  <1>15. Announces(f.out)
    BY <1>6, <1>10 DEF Adds, Announces
  <1>16. AgentTalks
    BY <1>4, <1>6, <1>10 DEF AgentTalks, Talks
  <1>17. LiveLinkTypeOK'
    BY <1>1, <1>10, Typed, TypesDoes
  <1>18. \E out \in Seq(ServerMessage) : Announces(out) /\ Carries(engine.transport, out)
    BY <1>4, <1>6, <1>8, <1>14, <1>15, EngineIs
  <1> QED BY <1>1, <1>3, <1>4, <1>8, <1>10, <1>13, <1>16, <1>17, <1>18 DEF s

-----------------------------------------------------------------------------
(* What is left to say of the actions of the browser *)

LEMMA TypesTab ==
  ASSUME LiveLinkTypeOK, NEW t \in Tabs, NEW c, OneTab(t, c),
         engine' = engine, history' = history,
         socket' \in Seq(SocketRecord), Len(socket') = Len(socket)
  PROVE  LiveLinkTypeOK'
  <1>1. tab' \in [Tabs -> TabRecord]
    BY OneTabFacts
  <1> QED BY <1>1, Typed, TypesAsLong

\* The tab t takes the message m of its socket s, and becomes c, its socket r.
Greeted(t, s, m, c, r) ==
  /\ m.type = "welcome"
  /\ c.welcomed = TRUE /\ c.outbox = << >>
  /\ Member(c.pending) = Member(tab[t].pending) \ {engine.turns[i] : i \in (m.n + 1)..m.to}
  /\ c.shown = tab[t].shown \cup (m.n + 1)..m.to
  /\ m.n = tab[t].lastSeq /\ m.n <= m.to => c.lastSeq = m.to
  /\ \E d \in TabRecord :
       /\ d.pending = c.pending /\ d.outbox = tab[t].outbox
       /\ r.up = IF socket[s].open THEN socket[s].up \o Flushed(d) ELSE socket[s].up

Updated(t, s, m, c, r) ==
  /\ m.type = "saved"
  /\ c.welcomed = tab[t].welcomed /\ c.outbox = tab[t].outbox
  /\ Member(c.pending) = Member(tab[t].pending) \ {engine.turns[m.n]}
  /\ c.shown = tab[t].shown \cup {m.n}
  /\ c.lastSeq = IF tab[t].lastSeq <= m.n THEN m.n ELSE tab[t].lastSeq
  /\ r.up = socket[s].up

Receives(t, s, m, c, r) ==
  /\ s = tab[t].ws /\ socket[s].down # << >> /\ m = Head(socket[s].down)
  /\ OneTab(t, c) /\ OneSocket(s, r) /\ c.ws = s
  /\ Kept(r, socket[s]) /\ r.down = Tail(socket[s].down)
  /\ Greeted(t, s, m, c, r) \/ Updated(t, s, m, c, r)

LEMMA ClientReceivesFacts ==
  ASSUME LiveLinkTypeOK, NEW t \in Tabs, ClientReceives(t)
  PROVE  /\ LiveLinkTypeOK' /\ engine' = engine /\ history' = history
         /\ \E s \in DOMAIN socket, m \in ServerMessage : \E c, r : Receives(t, s, m, c, r)
  <1> DEFINE s == tab[t].ws
             m == Head(socket[s].down)
  <1>1. /\ s # 0 /\ socket[s].down # << >> /\ engine' = engine /\ history' = history
        /\ \/ m.type = "welcome" /\ HandleWelcome(t, s, m)
           \/ m.type = "saved" /\ HandleSaved(t, s, m)
    BY DEF ClientReceives
  <1>2. s \in DOMAIN socket
    BY <1>1, TabAt
  <1>3. m \in ServerMessage
    BY <1>1, <1>2, SocketAt, Taking
  <1> HIDE DEF s, m
  <1>4. ASSUME NEW c, NEW r, OneTab(t, c), OneSocket(s, r)
        PROVE  LiveLinkTypeOK'
    <2>1. socket' \in Seq(SocketRecord) /\ Len(socket') = Len(socket)
      BY <1>4, OneSocketFacts
    <2> QED BY <1>1, <1>4, <2>1, TypesTab
  <1>5. CASE m.type = "welcome" /\ HandleWelcome(t, s, m)
    <2>0. s = tab[t].ws /\ m = Head(socket[s].down)
      BY DEF s, m
    <2>1. \E c, r, d : Welcomes(t, s, m, c, r, d)
      BY <1>1, <1>2, <1>5, <2>0, WelcomeFacts
    <2>2. PICK c, r, d : Welcomes(t, s, m, c, r, d)
      BY <2>1
    <2>3. LiveLinkTypeOK'
      BY <1>4, <2>2 DEF Welcomes
    <2>4. Greeted(t, s, m, c, r)
      BY <1>5, <2>2 DEF Greeted, Welcomes
    <2>5. Receives(t, s, m, c, r)
      BY <1>1, <2>0, <2>2, <2>4 DEF Receives, Welcomes
    <2> QED BY <1>1, <1>2, <1>3, <2>3, <2>5
  <1>6. CASE m.type = "saved" /\ HandleSaved(t, s, m)
    <2>0. s = tab[t].ws /\ m = Head(socket[s].down)
      BY DEF s, m
    <2>1. \E c, r :
           /\ OneTab(t, c) /\ OneSocket(s, r)
           /\ c.ws = s /\ c.welcomed = tab[t].welcomed /\ c.outbox = tab[t].outbox
           /\ Member(c.pending) = Member(tab[t].pending) \ {engine.turns[m.n]}
           /\ c.shown = tab[t].shown \cup {m.n}
           /\ c.lastSeq = IF tab[t].lastSeq <= m.n THEN m.n ELSE tab[t].lastSeq
           /\ Kept(r, socket[s]) /\ r.down = Tail(socket[s].down) /\ r.up = socket[s].up
      BY <1>1, <1>2, <1>6, <2>0, SavedFacts
    <2>2. PICK c, r :
           /\ OneTab(t, c) /\ OneSocket(s, r)
           /\ c.ws = s /\ c.welcomed = tab[t].welcomed /\ c.outbox = tab[t].outbox
           /\ Member(c.pending) = Member(tab[t].pending) \ {engine.turns[m.n]}
           /\ c.shown = tab[t].shown \cup {m.n}
           /\ c.lastSeq = IF tab[t].lastSeq <= m.n THEN m.n ELSE tab[t].lastSeq
           /\ Kept(r, socket[s]) /\ r.down = Tail(socket[s].down) /\ r.up = socket[s].up
      BY <2>1
    <2>3. LiveLinkTypeOK'
      BY <1>4, <2>2
    <2>4. Updated(t, s, m, c, r)
      BY <1>6, <2>2 DEF Updated
    <2>5. Receives(t, s, m, c, r)
      BY <1>1, <2>0, <2>2, <2>4 DEF Receives
    <2> QED BY <1>1, <1>2, <1>3, <2>3, <2>5
  <1> QED BY <1>1, <1>5, <1>6

LEMMA OpenFacts ==
  ASSUME LiveLinkTypeOK, NEW t \in Tabs, Open(t)
  PROVE  LET s == Len(socket) + 1 IN
         /\ LiveLinkTypeOK' /\ engine' = engine /\ history' = history /\ tab[t].ws = 0
         /\ DOMAIN socket' = DOMAIN socket \cup {s} /\ s \notin DOMAIN socket /\ s # 0
         /\ \A i \in DOMAIN socket : socket'[i] = socket[i]
         /\ socket'[s].tab = t /\ socket'[s].phase = "new" /\ socket'[s].open /\ ~socket'[s].closed
         /\ ~socket'[s].gone /\ socket'[s].down = << >>
         /\ socket'[s].up = <<Hello(tab[t].lastSeq)>>
         /\ tab'[t].ws = s /\ tab'[t].welcomed = FALSE /\ tab'[t].lastSeq = tab[t].lastSeq
         /\ tab'[t].pending = tab[t].pending /\ tab'[t].outbox = tab[t].outbox
         /\ tab'[t].shown = tab[t].shown
         /\ \A u \in Tabs : u # t => tab'[u] = tab[u]
  <1> DEFINE r == [tab |-> t, phase |-> "new", open |-> TRUE, closed |-> FALSE,
                   gone |-> FALSE, code |-> "none", last |-> 0,
                   up |-> <<Hello(tab[t].lastSeq)>>, down |-> << >>]
             c == [tab[t] EXCEPT !.ws = Len(socket) + 1, !.welcomed = FALSE]
             s == Len(socket) + 1
  <1>1. /\ LiveLinkTypeOK' /\ engine' = engine /\ history' = history /\ tab[t].ws = 0
        /\ socket' = Append(socket, r) /\ tab' = [tab EXCEPT ![t] = c]
    BY TypesOpen DEF Open, Offline
  <1>2. /\ r.tab = t /\ r.phase = "new" /\ r.open = TRUE /\ r.closed = FALSE
        /\ r.gone = FALSE /\ r.down = << >> /\ r.up = <<Hello(tab[t].lastSeq)>>
    OBVIOUS
  <1>3. /\ c.ws = s /\ c.welcomed = FALSE /\ c.lastSeq = tab[t].lastSeq
        /\ c.pending = tab[t].pending /\ c.outbox = tab[t].outbox /\ c.shown = tab[t].shown
    <2>1. tab[t] \in TabRecord
      BY TabAt
    <2> QED BY <2>1 DEF TabRecord
  <1> HIDE DEF r, c
  <1>4. tab'[t] = c /\ \A u \in Tabs : u # t => tab'[u] = tab[u]
    BY <1>1, Typed
  <1>5. /\ DOMAIN socket' = DOMAIN socket \cup {s} /\ socket'[s] = r
        /\ \A i \in DOMAIN socket : socket'[i] = socket[i]
    <2>1. socket \in Seq(SocketRecord \cup {r}) /\ r \in SocketRecord \cup {r}
      <3>1. Seq(SocketRecord) \subseteq Seq(SocketRecord \cup {r})
        <4>1. SocketRecord \subseteq SocketRecord \cup {r}
          OBVIOUS
        <4> QED BY <4>1, Wider
      <3> QED BY <3>1, Typed
    <2> DEFINE R == SocketRecord \cup {r}
    <2>2. socket \in Seq(R) /\ r \in R
      BY <2>1
    <2> HIDE DEF R
    <2> QED BY <1>1, <2>2, Appended
  <1>6. s \notin DOMAIN socket /\ s # 0
    BY Typed
  <1> HIDE DEF s
  <1> QED BY <1>1, <1>2, <1>3, <1>4, <1>5, <1>6 DEF s

-----------------------------------------------------------------------------
(* The line: who talks to whom.  A socket is read for one hello, then for    *)
(* what comes after it; the engine talks to a socket it has attached.        *)

Queue == Member(engine.queue)

\* attach() has come to the socket.
Attached(s) == socket[s].phase = "ready" \/ engine.busy = s

HelloFirst(up) ==
  /\ up # << >> /\ up[1].type = "hello"
  /\ \A i \in DOMAIN up : i # 1 => up[i].type # "hello"

NoHello(up) == \A i \in DOMAIN up : up[i].type # "hello"

SocketOK(s) ==
  /\ socket[s].open => /\ ~socket[s].closed /\ socket[s].phase # "refused"
                       /\ tab[socket[s].tab].ws = s
  /\ socket[s].gone => socket[s].closed
  /\ socket[s].phase = "new" /\ ~socket[s].gone => HelloFirst(socket[s].up)
  /\ socket[s].phase # "new" => NoHello(socket[s].up)
  /\ socket[s].phase = "ready" /\ ~socket[s].closed => engine.transport = s

TabOK(t) ==
  /\ tab[t].ws = 0 => ~tab[t].welcomed
  /\ tab[t].ws # 0 => socket[tab[t].ws].tab = t

TaskOK(k) ==
  /\ k.type = "attach" => socket[k.socket].phase = "queued" /\ engine.busy # k.socket
  /\ k.type # "attach" => socket[k.socket].phase = "ready"
  /\ k.type = "detach" => socket[k.socket].closed

\* A socket is attached once.
OneEach(queue) ==
  \A i, j \in DOMAIN queue :
    queue[i].type = "attach" /\ queue[j].type = "attach" /\ queue[i].socket = queue[j].socket => i = j

EngineOK ==
  /\ \A k \in Queue : TaskOK(k)
  /\ OneEach(engine.queue)
  /\ engine.busy # 0 => engine.transport = engine.busy /\ socket[engine.busy].phase = "queued"
  /\ engine.transport # 0 => engine.st # "RECONNECTING" /\ Attached(engine.transport)
  /\ ~engine.loaded =>
       /\ engine.transport = 0 /\ engine.busy = 0 /\ engine.queue = << >>
       /\ \A s \in Sockets : socket[s].phase \in {"queued", "ready"} => socket[s].gone
  /\ engine.loaded /\ engine.transport = 0 /\ engine.st # "RECONNECTING"
       => \E k \in Queue : k.type = "attach"

LineInv == (\A s \in Sockets : SocketOK(s)) /\ (\A t \in Tabs : TabOK(t)) /\ EngineOK

LEMMA HelloTail ==
  ASSUME NEW S, NEW up \in Seq(S), up # << >>
  PROVE  /\ HelloFirst(up) => NoHello(Tail(up))
         /\ NoHello(up) => NoHello(Tail(up))
         /\ NoHello(up) => Head(up).type # "hello"
         /\ HelloFirst(up) => Head(up).type = "hello"
  <1>1. /\ Head(up) = up[1] /\ 1 \in DOMAIN up
        /\ \A i \in DOMAIN Tail(up) : i + 1 \in DOMAIN up /\ Tail(up)[i] = up[i + 1] /\ i + 1 # 1
    <2>1. /\ Head(up) = up[1] /\ 1 \in DOMAIN up /\ Tail(up) \in Seq(S)
          /\ \A i \in DOMAIN Tail(up) : i + 1 \in DOMAIN up /\ Tail(up)[i] = up[i + 1]
      BY Taking
    <2>2. \A i \in DOMAIN Tail(up) : i + 1 # 1
      BY <2>1
    <2> QED BY <2>1, <2>2
  <1> QED BY <1>1 DEF HelloFirst, NoHello

LEMMA HelloMore ==
  ASSUME NEW S, NEW up \in Seq(S), NEW r \in Seq(S), NoHello(r)
  PROVE  /\ HelloFirst(up) => HelloFirst(up \o r)
         /\ NoHello(up) => NoHello(up \o r)
  <1>1. /\ \A i \in DOMAIN up : i \in DOMAIN (up \o r) /\ (up \o r)[i] = up[i]
        /\ \A i \in DOMAIN (up \o r) : i \notin DOMAIN up =>
              i - Len(up) \in DOMAIN r /\ (up \o r)[i] = r[i - Len(up)]
    BY Joining
  <1>2. up # << >> => 1 \in DOMAIN up /\ up \o r # << >>
    OBVIOUS
  <1> QED BY <1>1, <1>2 DEF HelloFirst, NoHello

LEMMA HelloNext ==
  ASSUME NEW S, NEW up \in Seq(S), NEW m \in S, m.type # "hello"
  PROVE  /\ HelloFirst(up) => HelloFirst(Append(up, m))
         /\ NoHello(up) => NoHello(Append(up, m))
  <1>1. /\ DOMAIN Append(up, m) = DOMAIN up \cup {Len(up) + 1}
        /\ \A i \in DOMAIN up : Append(up, m)[i] = up[i]
        /\ Append(up, m)[Len(up) + 1] = m /\ Append(up, m) # << >>
    BY Appended
  <1>2. up # << >> => 1 \in DOMAIN up
    OBVIOUS
  <1> QED BY <1>1, <1>2 DEF HelloFirst, NoHello

LEMMA HelloNone == NoHello(<< >>)
  BY DEF NoHello

LEMMA FlushHello ==
  ASSUME LiveLinkTypeOK, NEW d \in TabRecord
  PROVE  NoHello(Flushed(d))
  <1>1. \A m \in Member(Flushed(d)) : m.type # "hello"
    BY FlushFacts
  <1> QED BY <1>1 DEF Member, NoHello

LEMMA OneEachFacts ==
  ASSUME NEW S, NEW q \in Seq(S), OneEach(q)
  PROVE  /\ q # << >> => /\ OneEach(Tail(q))
                         /\ Head(q).type = "attach" =>
                              \A k \in Member(Tail(q)) : k.type = "attach" => k.socket # Head(q).socket
         /\ \A x \in S : (\A k \in Member(q) : ~(k.type = "attach" /\ x.type = "attach" /\ k.socket = x.socket))
              => OneEach(Append(q, x))
  <1>1. ASSUME q # << >>
        PROVE  /\ OneEach(Tail(q))
               /\ Head(q).type = "attach" =>
                    \A k \in Member(Tail(q)) : k.type = "attach" => k.socket # Head(q).socket
    <2>1. /\ Head(q) = q[1] /\ 1 \in DOMAIN q /\ Tail(q) \in Seq(S)
          /\ \A i \in DOMAIN Tail(q) : i + 1 \in DOMAIN q /\ Tail(q)[i] = q[i + 1]
      BY <1>1, Taking
    <2>2. \A i, j \in DOMAIN Tail(q) : i + 1 # 1 /\ (i + 1 = j + 1 => i = j)
      BY <2>1
    <2> QED BY <2>1, <2>2 DEF OneEach, Member
  <1>2. ASSUME NEW x \in S,
               \A k \in Member(q) : ~(k.type = "attach" /\ x.type = "attach" /\ k.socket = x.socket)
        PROVE  OneEach(Append(q, x))
    <2>1. /\ DOMAIN Append(q, x) = DOMAIN q \cup {Len(q) + 1}
          /\ \A i \in DOMAIN q : Append(q, x)[i] = q[i] /\ q[i] \in Member(q)
          /\ Append(q, x)[Len(q) + 1] = x
      BY Appended DEF Member
    <2> QED BY <2>1, <1>2 DEF OneEach
  <1> QED BY <1>1, <1>2

\* What an action does to a socket that is not the one it is about.
Steady(s) ==
  /\ s \in DOMAIN socket'
  /\ socket'[s].tab = socket[s].tab /\ socket'[s].phase = socket[s].phase
  /\ socket[s].closed => socket'[s].closed
  /\ socket[s].gone => socket'[s].gone
  /\ socket'[s].gone => socket[s].gone \/ socket'[s].closed
  /\ socket'[s].open => /\ socket[s].open /\ ~socket'[s].closed
                        /\ tab'[socket[s].tab].ws = tab[socket[s].tab].ws
  /\ ~socket'[s].gone /\ HelloFirst(socket[s].up) => HelloFirst(socket'[s].up)
  /\ NoHello(socket[s].up) => NoHello(socket'[s].up)
  /\ socket[s].phase = "ready" /\ ~socket'[s].closed => engine'.transport = engine.transport

LEMMA SteadyFacts ==
  ASSUME NEW s, SocketOK(s), Steady(s), socket'[s].open \in BOOLEAN, socket'[s].closed \in BOOLEAN,
         socket'[s].gone \in BOOLEAN
  PROVE  SocketOK(s)'
  BY DEF SocketOK, Steady, HelloFirst, NoHello

\* An action that leaves the engine's link as it is.
LEMMA EngineRests ==
  ASSUME LiveLinkTypeOK, EngineOK,
         engine'.queue = engine.queue, engine'.busy = engine.busy,
         engine'.transport = engine.transport, engine'.loaded = engine.loaded, engine'.st = engine.st,
         \A s \in DOMAIN socket :
           /\ s \in DOMAIN socket' /\ (socket[s].closed => socket'[s].closed)
           /\ socket[s].gone => socket'[s].gone
           /\ socket[s].phase \in {"queued", "ready"} => socket'[s].phase = socket[s].phase,
         \A s \in DOMAIN socket' : socket'[s].phase \in {"queued", "ready"} =>
           s \in DOMAIN socket /\ socket[s].phase \in {"queued", "ready"}
  PROVE  EngineOK'
  <1>1. Queue' = Queue
    BY DEF Queue, Member
  <1>2. \A k \in Queue : k.socket \in DOMAIN socket
    <2>1. engine.queue \in Seq(TaskRecord)
      BY Typed, EngineIs
    <2>2. \A k \in Queue : k \in TaskRecord
      BY <2>1, Inside DEF Queue
    <2> QED BY <2>2 DEF TaskRecord
  <1>3. ASSUME NEW k \in Queue PROVE TaskOK(k)'
    <2>1. TaskOK(k) /\ k.socket \in DOMAIN socket
      BY <1>2 DEF EngineOK
    <2> QED BY <2>1 DEF TaskOK
  <1>4. OneEach(engine'.queue)
    BY DEF EngineOK
  <1>5. engine.busy # 0 => engine.busy \in DOMAIN socket
    BY Typed, EngineIs
  <1>6. engine.transport # 0 => engine.transport \in DOMAIN socket
    BY Typed, EngineIs
  <1>7. engine'.busy # 0 => engine'.transport = engine'.busy /\ socket'[engine'.busy].phase = "queued"
    BY <1>5 DEF EngineOK
  <1>8. engine'.transport # 0 => engine'.st # "RECONNECTING" /\ Attached(engine.transport)'
    BY <1>6 DEF EngineOK, Attached
  <1>9. ~engine'.loaded =>
       /\ engine'.transport = 0 /\ engine'.busy = 0 /\ engine'.queue = << >>
       /\ \A s \in Sockets' : socket'[s].phase \in {"queued", "ready"} => socket'[s].gone
    BY DEF EngineOK, Sockets
  <1>10. engine'.loaded /\ engine'.transport = 0 /\ engine'.st # "RECONNECTING"
       => \E k \in Queue' : k.type = "attach"
    BY <1>1 DEF EngineOK
  <1>11. Attached(engine.transport)' <=> (socket'[engine'.transport].phase = "ready" \/ engine'.busy = engine'.transport)
    BY DEF Attached
  <1>12. \A k \in Queue' : TaskOK(k)'
    BY <1>1, <1>3
  <1> QED BY <1>4, <1>7, <1>8, <1>9, <1>10, <1>11, <1>12 DEF EngineOK, Attached

LEMMA LineParts ==
  ASSUME \A s \in DOMAIN socket' : SocketOK(s)', \A t \in Tabs : TabOK(t)', EngineOK'
  PROVE  LineInv'
  BY DEF LineInv, Sockets

LEMMA SocketsAfter ==
  ASSUME LiveLinkTypeOK'
  PROVE  /\ \A s \in DOMAIN socket' :
              /\ socket'[s].open \in BOOLEAN /\ socket'[s].closed \in BOOLEAN /\ socket'[s].gone \in BOOLEAN
              /\ socket'[s].phase \in {"new", "auth", "queued", "ready", "refused"}
              /\ socket'[s].tab \in Tabs
              /\ socket'[s].up \in Seq(ClientMessage') /\ socket'[s].down \in Seq(ServerMessage)
         /\ \A t \in Tabs : tab'[t].welcomed \in BOOLEAN /\ tab'[t].ws \in 0..Len(socket')
         /\ engine'.loaded \in BOOLEAN
  <1>1. /\ socket' \in Seq(SocketRecord') /\ tab' \in [Tabs -> TabRecord'] /\ engine' \in EngineRecord'
    BY DEF LiveLinkTypeOK
  <1>2. \A s \in DOMAIN socket' : socket'[s] \in SocketRecord'
    BY <1>1
  <1>3. \A s \in DOMAIN socket' :
              /\ socket'[s].open \in BOOLEAN /\ socket'[s].closed \in BOOLEAN /\ socket'[s].gone \in BOOLEAN
              /\ socket'[s].phase \in {"new", "auth", "queued", "ready", "refused"}
              /\ socket'[s].tab \in Tabs
              /\ socket'[s].up \in Seq(ClientMessage') /\ socket'[s].down \in Seq(ServerMessage)
    BY <1>2 DEF SocketRecord, ServerMessage
  <1>4. \A t \in Tabs : tab'[t].welcomed \in BOOLEAN /\ tab'[t].ws \in 0..Len(socket')
    BY <1>1 DEF TabRecord
  <1>5. engine'.loaded \in BOOLEAN
    BY <1>1 DEF EngineRecord
  <1> QED BY <1>3, <1>4, <1>5

LEMMA LineAt ==
  ASSUME LiveLinkTypeOK, LineInv
  PROVE  /\ \A s \in DOMAIN socket : SocketOK(s)
         /\ \A t \in Tabs : TabOK(t)
         /\ EngineOK
         /\ \A k \in Queue : TaskOK(k) /\ k \in TaskRecord /\ k.socket \in DOMAIN socket
  <1>1. engine.queue \in Seq(TaskRecord)
    BY Typed, EngineIs
  <1>2. \A k \in Queue : k \in TaskRecord
    BY <1>1, Inside DEF Queue
  <1>3. \A k \in Queue : k.socket \in DOMAIN socket
    BY <1>2 DEF TaskRecord
  <1> QED BY <1>2, <1>3 DEF LineInv, Sockets, EngineOK

LEMMA LineOpen ==
  ASSUME LiveLinkTypeOK, LineInv, NEW t \in Tabs, Open(t)
  PROVE  LineInv'
  <1>0. PICK s : s = Len(socket) + 1
    OBVIOUS
  <1>1. /\ LiveLinkTypeOK' /\ engine' = engine /\ tab[t].ws = 0
        /\ DOMAIN socket' = DOMAIN socket \cup {s} /\ s \notin DOMAIN socket /\ s # 0
        /\ \A i \in DOMAIN socket : socket'[i] = socket[i]
        /\ socket'[s].tab = t /\ socket'[s].phase = "new" /\ socket'[s].open /\ ~socket'[s].closed
        /\ ~socket'[s].gone /\ socket'[s].up = <<Hello(tab[t].lastSeq)>>
        /\ tab'[t].ws = s /\ tab'[t].welcomed = FALSE
        /\ \A u \in Tabs : u # t => tab'[u] = tab[u]
    BY <1>0, OpenFacts
  <1>2. \A i \in DOMAIN socket : SocketOK(i)
    BY DEF LineInv, Sockets
  <1>3. ASSUME NEW i \in DOMAIN socket PROVE SocketOK(i)'
    <2>1. socket[i].open => socket[i].tab \in Tabs /\ socket[i].tab # t /\ ~socket[i].closed
      <3>1. i # 0 /\ socket[i].tab \in Tabs
        BY SocketAt, Typed
      <3> QED BY <3>1, <1>1, <1>2 DEF SocketOK
    <2>2. Steady(i)
      BY <1>1, <2>1 DEF Steady
    <2> QED BY <1>1, <1>2, <2>2, SteadyFacts, SocketsAfter
  <1>4. SocketOK(s)'
    <2>1. HelloFirst(socket'[s].up)
      BY <1>1 DEF HelloFirst, Hello
    <2>2. HelloFirst(socket[s].up)'
      BY <2>1 DEF HelloFirst
    <2> QED BY <1>1, <2>2 DEF SocketOK
  <1>5. ASSUME NEW u \in Tabs PROVE TabOK(u)'
    <2>1. CASE u = t
      BY <1>1, <2>1 DEF TabOK
    <2>2. CASE u # t
      <3>1. TabOK(u) /\ (tab[u].ws # 0 => tab[u].ws \in DOMAIN socket)
        BY TabAt DEF LineInv
      <3> QED BY <1>1, <2>2, <3>1 DEF TabOK
    <2> QED BY <2>1, <2>2
  <1>6. EngineOK'
    <2>1. EngineOK
      BY DEF LineInv
    <2>2. engine'.queue = engine.queue /\ engine'.busy = engine.busy
          /\ engine'.transport = engine.transport /\ engine'.loaded = engine.loaded /\ engine'.st = engine.st
      BY <1>1
    <2> QED BY <1>1, <2>1, <2>2, EngineRests
  <1>7. \A i \in DOMAIN socket' : SocketOK(i)'
    BY <1>1, <1>3, <1>4
  <1> QED BY <1>5, <1>6, <1>7, LineParts

LEMMA LineReceives ==
  ASSUME LiveLinkTypeOK, LineInv, NEW t \in Tabs, ClientReceives(t)
  PROVE  LineInv'
  <1>a. PICK s \in DOMAIN socket, m \in ServerMessage : \E c, r : Receives(t, s, m, c, r)
    BY ClientReceivesFacts
  <1>0. PICK c, r : Receives(t, s, m, c, r)
    BY <1>a
  <1>1. /\ LiveLinkTypeOK' /\ engine' = engine
        /\ s = tab[t].ws /\ OneTab(t, c) /\ OneSocket(s, r) /\ c.ws = s /\ Kept(r, socket[s])
        /\ \/ \E d \in TabRecord :
                r.up = IF socket[s].open THEN socket[s].up \o Flushed(d) ELSE socket[s].up
           \/ r.up = socket[s].up
    <2>1. LiveLinkTypeOK' /\ engine' = engine
      BY ClientReceivesFacts
    <2>2. \/ \E d \in TabRecord :
                r.up = IF socket[s].open THEN socket[s].up \o Flushed(d) ELSE socket[s].up
          \/ r.up = socket[s].up
      BY <1>0 DEF Receives, Greeted, Updated
    <2> QED BY <1>0, <2>1, <2>2 DEF Receives
  <1>2. /\ DOMAIN socket' = DOMAIN socket /\ socket'[s] = r
        /\ \A i \in DOMAIN socket : i # s => socket'[i] = socket[i]
    BY <1>1, OneSocketFacts
  <1>3. tab'[t] = c /\ \A u \in Tabs : u # t => tab'[u] = tab[u]
    BY <1>1, OneTabFacts
  <1>4. \A u \in Tabs : tab'[u].ws = tab[u].ws
    BY <1>1, <1>3
  <1>5. \A i \in DOMAIN socket : SocketOK(i) /\ socket[i].tab \in Tabs
    BY SocketAt DEF LineInv, Sockets
  <1>6. /\ HelloFirst(socket[s].up) => HelloFirst(r.up)
        /\ NoHello(socket[s].up) => NoHello(r.up)
    <2>1. socket[s].up \in Seq(ClientMessage)
      BY SocketAt
    <2>2. ASSUME NEW d \in TabRecord
          PROVE  /\ HelloFirst(socket[s].up) => HelloFirst(socket[s].up \o Flushed(d))
                 /\ NoHello(socket[s].up) => NoHello(socket[s].up \o Flushed(d))
      <3>1. Flushed(d) \in Seq(ClientMessage) /\ NoHello(Flushed(d))
        BY FlushFacts, FlushHello
      <3> QED BY <2>1, <3>1, HelloMore
    <2> QED BY <1>1, <2>2
  <1>7. ASSUME NEW i \in DOMAIN socket PROVE SocketOK(i)'
    <2>1. socket[i].open => ~socket[i].closed
      BY <1>5 DEF SocketOK
    <2>2. Steady(i)
      BY <1>1, <1>2, <1>4, <1>5, <1>6, <2>1 DEF Steady, Kept
    <2> QED BY <1>1, <1>2, <1>5, <2>2, SteadyFacts, SocketsAfter
  <1>8. \A i \in DOMAIN socket : socket'[i].tab = socket[i].tab
    BY <1>1, <1>2 DEF Kept
  <1>9. ASSUME NEW u \in Tabs PROVE TabOK(u)'
    <2>1. TabOK(u) /\ (tab[u].ws # 0 => tab[u].ws \in DOMAIN socket)
      BY TabAt DEF LineInv
    <2>2. s # 0
      BY Typed
    <2>3. u # t => tab'[u].welcomed = tab[u].welcomed
      BY <1>3
    <2>4. u = t => tab[u].ws # 0
      BY <1>1, <2>2
    <2> QED BY <1>4, <1>8, <2>1, <2>3, <2>4 DEF TabOK
  <1>10. EngineOK'
    <2>1. EngineOK
      BY DEF LineInv
    <2> QED BY <1>1, <1>2, <2>1, EngineRests DEF Kept
  <1> QED BY <1>1, <1>2, <1>7, <1>9, <1>10, LineParts

LEMMA LineNotices ==
  ASSUME LiveLinkTypeOK, LineInv, NEW t \in Tabs, ClientNotices(t)
  PROVE  LineInv' /\ LiveLinkTypeOK'
  <1>1. PICK s, c, r :
           /\ OneTab(t, c) /\ OneSocket(s, r) /\ s = tab[t].ws /\ ~socket[s].open
           /\ c.ws = 0 /\ c.welcomed = FALSE
           /\ Kept(r, socket[s]) /\ r.up = socket[s].up
           /\ engine' = engine /\ history' = history
    BY NoticesFacts
  <1>2. /\ DOMAIN socket' = DOMAIN socket /\ socket'[s] = r /\ s \in DOMAIN socket
        /\ socket' \in Seq(SocketRecord) /\ Len(socket') = Len(socket)
        /\ \A i \in DOMAIN socket : i # s => socket'[i] = socket[i]
    BY <1>1, OneSocketFacts DEF OneSocket
  <1>3. tab'[t] = c /\ \A u \in Tabs : u # t => tab'[u] = tab[u]
    BY <1>1, OneTabFacts
  <1>4. LiveLinkTypeOK'
    BY <1>1, <1>2, TypesTab
  <1>5. \A i \in DOMAIN socket : SocketOK(i) /\ socket[i].tab \in Tabs
    BY SocketAt DEF LineInv, Sockets
  <1>7. ASSUME NEW i \in DOMAIN socket PROVE SocketOK(i)'
    <2>1. socket[i].open => ~socket[i].closed /\ socket[i].tab # t
      BY <1>1, <1>5 DEF SocketOK
    <2>2. Steady(i)
      BY <1>1, <1>2, <1>3, <1>5, <2>1 DEF Steady, Kept
    <2> QED BY <1>4, <1>2, <1>5, <2>2, SteadyFacts, SocketsAfter
  <1>8. \A i \in DOMAIN socket : socket'[i].tab = socket[i].tab
    BY <1>1, <1>2 DEF Kept
  <1>9. ASSUME NEW u \in Tabs PROVE TabOK(u)'
    <2>1. TabOK(u) /\ (tab[u].ws # 0 => tab[u].ws \in DOMAIN socket)
      BY TabAt DEF LineInv
    <2> QED BY <1>1, <1>3, <1>8, <2>1 DEF TabOK
  <1>10. EngineOK'
    <2>1. EngineOK
      BY DEF LineInv
    <2> QED BY <1>1, <1>2, <2>1, EngineRests DEF Kept
  <1> QED BY <1>2, <1>4, <1>7, <1>9, <1>10, LineParts

LEMMA LineConnect ==
  ASSUME LiveLinkTypeOK, LineInv, NEW t \in Tabs, Connect(t)
  PROVE  LineInv' /\ LiveLinkTypeOK'
  <1>1. PICK c :
           /\ OneTab(t, c) /\ socket' = socket /\ engine' = engine /\ history' = history
           /\ c.ws = tab[t].ws /\ c.welcomed = tab[t].welcomed
    BY ConnectFacts
  <1>2. \A u \in Tabs : tab'[u].ws = tab[u].ws /\ tab'[u].welcomed = tab[u].welcomed
    BY <1>1, OneTabFacts
  <1>3. LiveLinkTypeOK'
    BY <1>1, TypesTab, Typed
  <1>4. \A i \in DOMAIN socket : SocketOK(i) /\ socket[i].tab \in Tabs
    BY SocketAt DEF LineInv, Sockets
  <1>5. \A i \in DOMAIN socket : SocketOK(i)'
    BY <1>1, <1>2, <1>4 DEF SocketOK, HelloFirst, NoHello
  <1>6. \A u \in Tabs : TabOK(u)'
    BY <1>1, <1>2 DEF LineInv, TabOK
  <1>7. EngineOK'
    BY <1>1, EngineRests DEF LineInv
  <1> QED BY <1>1, <1>3, <1>5, <1>6, <1>7, LineParts

LEMMA LinePosts ==
  ASSUME LiveLinkTypeOK, LiveLinkTypeOK', LineInv, NEW t \in Tabs, NEW m, m.type # "hello",
         Posts(t, m), m \in ClientMessage', ClientMessage \subseteq ClientMessage', engine' = engine,
         \A u \in Tabs : tab'[u].ws = tab[u].ws /\ tab'[u].welcomed = tab[u].welcomed
  PROVE  LineInv'
  <1>1. DOMAIN socket' = DOMAIN socket
    BY DEF Posts
  <1>2. \A i \in DOMAIN socket : SocketOK(i) /\ socket[i].tab \in Tabs
    BY SocketAt DEF LineInv, Sockets
  <1>3. ASSUME NEW i \in DOMAIN socket PROVE SocketOK(i)'
    <2>1. socket[i].open => ~socket[i].closed
      BY <1>2 DEF SocketOK
    <2>2. /\ HelloFirst(socket[i].up) => HelloFirst(socket'[i].up)
          /\ NoHello(socket[i].up) => NoHello(socket'[i].up)
      <3>1. socket[i].up \in Seq(ClientMessage')
        <4>1. Seq(ClientMessage) \subseteq Seq(ClientMessage')
          BY Wider
        <4> QED BY <4>1, SocketAt
      <3>2. /\ HelloFirst(socket[i].up) => HelloFirst(Append(socket[i].up, m))
            /\ NoHello(socket[i].up) => NoHello(Append(socket[i].up, m))
        BY <3>1, HelloNext
      <3> QED BY <3>2 DEF Posts
    <2>3. Kept(socket'[i], socket[i])
      BY DEF Posts
    <2>4. Steady(i)
      BY <1>1, <1>2, <2>1, <2>2, <2>3 DEF Steady, Kept
    <2> QED BY <1>1, <1>2, <2>4, SteadyFacts, SocketsAfter
  <1>8. \A i \in DOMAIN socket : socket'[i].tab = socket[i].tab
    BY DEF Kept, Posts
  <1>9. ASSUME NEW u \in Tabs PROVE TabOK(u)'
    <2>1. TabOK(u) /\ (tab[u].ws # 0 => tab[u].ws \in DOMAIN socket)
      BY TabAt DEF LineInv
    <2> QED BY <1>8, <2>1 DEF TabOK
  <1>10. EngineOK'
    <2>1. EngineOK
      BY DEF LineInv
    <2>2. \A i \in DOMAIN socket : Kept(socket'[i], socket[i])
      BY DEF Posts
    <2> QED BY <1>1, <2>1, <2>2, EngineRests DEF Kept
  <1> QED BY <1>1, <1>3, <1>9, <1>10, LineParts

LEMMA LineSay ==
  ASSUME LiveLinkTypeOK, LineInv, NEW t \in Tabs, Say(t)
  PROVE  LineInv' /\ LiveLinkTypeOK'
  <1> DEFINE n == Len(history.said) + 1
  <1>1. /\ LiveLinkTypeOK' /\ Posts(t, Final(n)) /\ engine' = engine
        /\ \A u \in Tabs : tab'[u].ws = tab[u].ws /\ tab'[u].welcomed = tab[u].welcomed
        /\ history'.said = Append(history.said, t) /\ history'.sent = history.sent
    BY SayFacts
  <1>2. DOMAIN history'.said = DOMAIN history.said \cup {n}
    BY <1>1, Typed, Appended
  <1>3. Final(n) \in ClientMessage' /\ ClientMessage \subseteq ClientMessage' /\ Final(n).type # "hello"
    BY <1>1, <1>2 DEF ClientMessage, Final
  <1> HIDE DEF n
  <1> QED BY <1>1, <1>3, LinePosts

LEMMA LineDurable ==
  ASSUME LiveLinkTypeOK, LineInv, NEW t \in Tabs, NEW type \in Durables, SendDurable(t, type)
  PROVE  LineInv' /\ LiveLinkTypeOK'
  <1> DEFINE n == Len(history.sent) + 1
             x == [tab |-> t, type |-> type]
  <1>1. /\ LiveLinkTypeOK' /\ Posts(t, Durable(n)) /\ engine' = engine
        /\ \A u \in Tabs : tab'[u].ws = tab[u].ws /\ tab'[u].welcomed = tab[u].welcomed
        /\ history'.sent = Append(history.sent, x) /\ history'.said = history.said
    BY DurableFacts
  <1>2. DOMAIN history'.sent = DOMAIN history.sent \cup {n}
    <2>1. x \in [tab: Tabs, type: Durables]
      OBVIOUS
    <2> HIDE DEF x
    <2> QED BY <1>1, <2>1, Typed, Appended
  <1>3. Durable(n) \in ClientMessage' /\ ClientMessage \subseteq ClientMessage' /\ Durable(n).type # "hello"
    BY <1>1, <1>2 DEF ClientMessage, Durable
  <1> HIDE DEF n
  <1> QED BY <1>1, <1>3, LinePosts

\* A task more.
LEMMA EngineGrows ==
  ASSUME LiveLinkTypeOK, EngineOK, NEW x \in TaskRecord,
         engine'.queue = Append(engine.queue, x), engine'.busy = engine.busy,
         engine'.transport = engine.transport, engine'.loaded = TRUE,
         engine.loaded \/ x.type = "attach",
         engine'.st = engine.st \/ (engine'.st = "RECONNECTING" /\ ~engine.loaded),
         TaskOK(x)',
         \A k \in Queue : ~(k.type = "attach" /\ x.type = "attach" /\ k.socket = x.socket),
         \A s \in DOMAIN socket :
           /\ s \in DOMAIN socket' /\ (socket[s].closed => socket'[s].closed)
           /\ socket[s].phase \in {"queued", "ready"} => socket'[s].phase = socket[s].phase
  PROVE  EngineOK'
  <1>1. engine.queue \in Seq(TaskRecord)
    BY Typed, EngineIs
  <1>2. Queue' = Queue \cup {x}
    BY <1>1, Appended DEF Queue, Member
  <1>3. \A k \in Queue : k.socket \in DOMAIN socket
    <2>1. \A k \in Queue : k \in TaskRecord
      BY <1>1, Inside DEF Queue
    <2> QED BY <2>1 DEF TaskRecord
  <1>4. ASSUME NEW k \in Queue PROVE TaskOK(k)'
    <2>1. TaskOK(k) /\ k.socket \in DOMAIN socket
      BY <1>3 DEF EngineOK
    <2> QED BY <2>1 DEF TaskOK
  <1>5. OneEach(engine'.queue)
    BY <1>1, OneEachFacts DEF EngineOK, Queue
  <1>6. engine.busy # 0 => engine.busy \in DOMAIN socket
    BY Typed, EngineIs
  <1>7. engine.transport # 0 => engine.transport \in DOMAIN socket
    BY Typed, EngineIs
  <1>8. engine'.busy # 0 => engine'.transport = engine'.busy /\ socket'[engine'.busy].phase = "queued"
    BY <1>6 DEF EngineOK
  <1>9. engine'.transport # 0 => engine'.st # "RECONNECTING"
          /\ (socket'[engine'.transport].phase = "ready" \/ engine'.busy = engine'.transport)
    BY <1>7 DEF EngineOK, Attached
  <1>10. engine'.loaded /\ engine'.transport = 0 /\ engine'.st # "RECONNECTING"
       => \E k \in Queue' : k.type = "attach"
    BY <1>2 DEF EngineOK
  <1>11. \A k \in Queue' : TaskOK(k)'
    BY <1>2, <1>4
  <1> QED BY <1>5, <1>8, <1>9, <1>10, <1>11 DEF EngineOK, Attached

\* The first task is done, and it was not to attach a socket.
LEMMA EngineTakes ==
  ASSUME LiveLinkTypeOK, EngineOK,
         engine.queue # << >>, Head(engine.queue).type # "attach", engine'.queue = Tail(engine.queue),
         engine.busy = 0, engine'.busy = 0, engine'.loaded = engine.loaded,
         \/ /\ engine'.transport = engine.transport
            /\ engine'.st = engine.st \/ (engine.st # "RECONNECTING" /\ engine'.st # "RECONNECTING")
         \/ engine'.transport = 0 /\ engine'.st = "RECONNECTING",
         SamePhases,
         \A s \in DOMAIN socket : socket'[s].closed = socket[s].closed
  PROVE  EngineOK'
  <1>1. engine.queue \in Seq(TaskRecord)
    BY Typed, EngineIs
  <1>2. Queue = {Head(engine.queue)} \cup Queue'
    BY <1>1, Taking DEF Queue
  <1>3. \A k \in Queue : k.socket \in DOMAIN socket
    <2>1. \A k \in Queue : k \in TaskRecord
      BY <1>1, Inside DEF Queue
    <2> QED BY <2>1 DEF TaskRecord
  <1>4. ASSUME NEW k \in Queue PROVE TaskOK(k)'
    <2>1. TaskOK(k) /\ k.socket \in DOMAIN socket
      BY <1>3 DEF EngineOK
    <2> QED BY <2>1 DEF TaskOK, SamePhases
  <1>5. OneEach(engine'.queue)
    BY <1>1, OneEachFacts DEF EngineOK
  <1>6. engine.transport # 0 => engine.transport \in DOMAIN socket
    BY Typed, EngineIs
  <1>7. engine'.transport # 0 => engine'.st # "RECONNECTING"
          /\ (socket'[engine'.transport].phase = "ready" \/ engine'.busy = engine'.transport)
    BY <1>6 DEF EngineOK, Attached, SamePhases
  <1>8. engine'.loaded
    BY DEF EngineOK
  <1>9. engine'.transport = 0 /\ engine'.st # "RECONNECTING" => \E k \in Queue' : k.type = "attach"
    BY <1>2, <1>8 DEF EngineOK
  <1>10. \A k \in Queue' : TaskOK(k)'
    BY <1>2, <1>4
  <1> QED BY <1>5, <1>7, <1>8, <1>9, <1>10 DEF EngineOK, Attached

\* A step that sends something, takes nothing back and attaches nothing.
LEMMA LineTalks ==
  ASSUME LiveLinkTypeOK, LiveLinkTypeOK', LineInv, tab' = tab, NEW T, NEW out, Carries(T, out),
         SamePhases, EngineOK',
         \/ engine'.transport = engine.transport
         \/ engine.transport # 0 /\ socket[engine.transport].closed
  PROVE  LineInv'
  <1>1. \A i \in DOMAIN socket : SocketOK(i) /\ socket[i].tab \in Tabs
    BY SocketAt DEF LineInv, Sockets
  <1>2. DOMAIN socket' = DOMAIN socket /\ \A i \in DOMAIN socket :
           /\ socket'[i].tab = socket[i].tab /\ socket'[i].gone = socket[i].gone
           /\ socket'[i].up = socket[i].up /\ socket'[i].open = socket[i].open
           /\ socket'[i].closed = socket[i].closed /\ socket'[i].phase = socket[i].phase
    BY DEF Carries, Stands, SamePhases
  <1>3. ASSUME NEW i \in DOMAIN socket PROVE SocketOK(i)'
    <2>1. Steady(i)
      BY <1>1, <1>2 DEF Steady, SocketOK
    <2> QED BY <1>1, <1>2, <2>1, SteadyFacts, SocketsAfter
  <1>4. ASSUME NEW u \in Tabs PROVE TabOK(u)'
    <2>1. TabOK(u) /\ (tab[u].ws # 0 => tab[u].ws \in DOMAIN socket)
      BY TabAt DEF LineInv
    <2> QED BY <1>2, <2>1 DEF TabOK
  <1> QED BY <1>2, <1>3, <1>4, LineParts

\* A step at one socket, whose tab is left alone.
LEMMA LineOne ==
  ASSUME LiveLinkTypeOK, LiveLinkTypeOK', LineInv, tab' = tab, NEW s, NEW r, OneSocket(s, r),
         r.tab = socket[s].tab, engine'.transport = engine.transport, SocketOK(s)', EngineOK'
  PROVE  LineInv'
  <1>1. \A i \in DOMAIN socket : SocketOK(i) /\ socket[i].tab \in Tabs
    BY SocketAt DEF LineInv, Sockets
  <1>2. /\ DOMAIN socket' = DOMAIN socket /\ socket'[s] = r /\ s \in DOMAIN socket
        /\ \A i \in DOMAIN socket : i # s => socket'[i] = socket[i]
    BY OneSocketFacts DEF OneSocket
  <1>3. ASSUME NEW i \in DOMAIN socket, i # s PROVE SocketOK(i)'
    <2>1. Steady(i)
      BY <1>1, <1>2, <1>3 DEF Steady, SocketOK
    <2> QED BY <1>1, <1>2, <1>3, <2>1, SteadyFacts, SocketsAfter
  <1>4. ASSUME NEW u \in Tabs PROVE TabOK(u)'
    <2>1. TabOK(u) /\ (tab[u].ws # 0 => tab[u].ws \in DOMAIN socket)
      BY TabAt DEF LineInv
    <2> QED BY <1>2, <2>1 DEF TabOK
  <1> QED BY <1>2, <1>3, <1>4, LineParts

LEMMA LineGatewayReceives ==
  ASSUME LiveLinkTypeOK, LineInv, NEW s \in Sockets, GatewayReceives(s)
  PROVE  LineInv'
  <1>1. PICK m : m = Head(socket[s].up)
    OBVIOUS
  <1>2. PICK r :
           /\ OneSocket(s, r) /\ r.tab = socket[s].tab /\ r.open = socket[s].open
           /\ r.closed = socket[s].closed /\ r.gone = socket[s].gone
           /\ \/ /\ socket[s].phase = "new" /\ m.type = "hello" /\ r.phase = "auth"
                 /\ r.up = Tail(socket[s].up) /\ engine' = engine
              \/ /\ socket[s].phase # "ready" /\ m.type # "hello" /\ r.phase = socket[s].phase
                 /\ r.up = Tail(socket[s].up) /\ engine' = engine
              \/ /\ socket[s].phase = "ready" /\ engine.transport = s /\ r.phase = socket[s].phase
                 /\ r.up = Tail(socket[s].up)
                 /\ engine' = [engine EXCEPT !.queue = Append(engine.queue, Task("message", s, m))]
              \/ /\ socket[s].phase = "ready" /\ r.phase = socket[s].phase
                 /\ r.up = << >> /\ engine' = engine
    BY <1>1, ReceivesFacts DEF Kept
  <1>3. /\ LiveLinkTypeOK' /\ tab' = tab /\ m \in ClientMessage /\ socket[s].up # << >> /\ ~socket[s].gone
    BY <1>1, ReceivesFacts
  <1>4. /\ DOMAIN socket' = DOMAIN socket /\ socket'[s] = r /\ s \in DOMAIN socket
        /\ \A i \in DOMAIN socket : i # s => socket'[i] = socket[i]
    BY <1>2, OneSocketFacts DEF OneSocket
  <1>5. SocketOK(s) /\ EngineOK
    BY <1>4 DEF LineInv, Sockets
  <1>6. /\ HelloFirst(socket[s].up) => NoHello(Tail(socket[s].up)) /\ m.type = "hello"
        /\ NoHello(socket[s].up) => NoHello(Tail(socket[s].up))
    BY <1>1, <1>3, <1>4, SocketAt, HelloTail
  <1>7. engine'.transport = engine.transport
    BY <1>2, Typed, EngineIs DEF EngineRecord
  <1>8. SocketOK(s)'
    <2>1. r.phase # "new"
      BY <1>2, <1>3, <1>5, <1>6 DEF SocketOK
    <2>2. NoHello(r.up)
      BY <1>2, <1>3, <1>5, <1>6, HelloNone DEF SocketOK
    <2>3. NoHello(r.up) => NoHello(socket[s].up)'
      BY <1>4 DEF NoHello
    <2>4. r.phase = "ready" => socket[s].phase = "ready"
      BY <1>2
    <2>5. r.phase = "refused" => socket[s].phase = "refused"
      BY <1>2
    <2> QED BY <1>2, <1>3, <1>4, <1>5, <1>7, <2>1, <2>2, <2>3, <2>4, <2>5 DEF SocketOK
  <1>9. \A i \in DOMAIN socket :
           /\ i \in DOMAIN socket' /\ (socket[i].closed => socket'[i].closed)
           /\ socket[i].gone => socket'[i].gone
           /\ socket[i].phase \in {"queued", "ready"} => socket'[i].phase = socket[i].phase
           /\ socket'[i].phase \in {"queued", "ready"} => socket[i].phase = socket'[i].phase
    BY <1>2, <1>4
  <1>10. EngineOK'
    <2>1. CASE engine' = engine
      <3>1. engine'.queue = engine.queue /\ engine'.busy = engine.busy
          /\ engine'.transport = engine.transport /\ engine'.loaded = engine.loaded /\ engine'.st = engine.st
        BY <2>1
      <3> QED BY <1>4, <1>5, <1>9, <3>1, EngineRests
    <2>2. CASE socket[s].phase = "ready" /\ engine.transport = s /\ r.phase = socket[s].phase
                 /\ engine' = [engine EXCEPT !.queue = Append(engine.queue, Task("message", s, m))]
      <3>1. PICK x : x = Task("message", s, m)
        OBVIOUS
      <3>2. x \in TaskRecord /\ x.type = "message" /\ x.socket = s
        BY <1>3, <1>4, <3>1 DEF TaskRecord, Task
      <3>3. engine'.queue = Append(engine.queue, x) /\ engine'.busy = engine.busy
          /\ engine'.transport = engine.transport /\ engine'.loaded = engine.loaded /\ engine'.st = engine.st
        BY <2>2, <3>1, Typed DEF EngineRecord
      <3>4. TaskOK(x)'
        BY <2>2, <1>4, <3>2 DEF TaskOK
      <3>5. engine.loaded = TRUE
        <4>1. s # 0 /\ engine.loaded \in BOOLEAN
          BY <1>4, Typed, EngineIs
        <4> QED BY <4>1, <2>2, <1>5 DEF EngineOK
      <3>6. \A k \in Queue : ~(k.type = "attach" /\ x.type = "attach" /\ k.socket = x.socket)
        BY <3>2
      <3> QED BY <1>5, <1>9, <3>2, <3>3, <3>4, <3>5, <3>6, EngineGrows
    <2> QED BY <1>2, <2>1, <2>2
  <1> QED BY <1>2, <1>3, <1>7, <1>8, <1>10, LineOne

LEMMA LineAuthenticated ==
  ASSUME LiveLinkTypeOK, LineInv, NEW s \in Sockets, Authenticated(s)
  PROVE  LineInv'
  <1>1. PICK x : x = Task("attach", s, Hello(socket[s].last))
    OBVIOUS
  <1>2. PICK r :
           /\ OneSocket(s, r) /\ r.tab = socket[s].tab /\ r.open = socket[s].open
           /\ r.closed = socket[s].closed /\ r.gone = socket[s].gone
           /\ r.up = socket[s].up /\ r.phase = "queued"
    BY AuthenticatedFacts
  <1>3. /\ LiveLinkTypeOK' /\ tab' = tab /\ socket[s].phase = "auth"
        /\ engine'.queue = Append(engine.queue, x) /\ x \in TaskRecord
        /\ engine'.loaded = TRUE /\ engine'.busy = engine.busy /\ engine'.transport = engine.transport
        /\ engine'.st = engine.st \/ (engine'.st = "RECONNECTING" /\ ~engine.loaded)
    BY <1>1, AuthenticatedFacts
  <1>4. /\ DOMAIN socket' = DOMAIN socket /\ socket'[s] = r /\ s \in DOMAIN socket
        /\ \A i \in DOMAIN socket : i # s => socket'[i] = socket[i]
    BY <1>2, OneSocketFacts DEF OneSocket
  <1>5. SocketOK(s) /\ EngineOK
    BY <1>4 DEF LineInv, Sockets
  <1>6. x.type = "attach" /\ x.socket = s
    BY <1>1 DEF Task
  <1>7. SocketOK(s)'
    BY <1>2, <1>3, <1>4, <1>5 DEF SocketOK, NoHello
  <1>8. TaskOK(x)'
    <2>1. engine.busy # s
      <3>1. s # 0
        BY <1>4, Typed
      <3> QED BY <1>3, <1>5, <3>1 DEF EngineOK
    <2> QED BY <1>2, <1>3, <1>4, <1>6, <2>1 DEF TaskOK
  <1>9. \A k \in Queue : ~(k.type = "attach" /\ x.type = "attach" /\ k.socket = x.socket)
    BY <1>3, <1>5, <1>6 DEF EngineOK, TaskOK
  <1>10. \A i \in DOMAIN socket :
           /\ i \in DOMAIN socket' /\ (socket[i].closed => socket'[i].closed)
           /\ socket[i].phase \in {"queued", "ready"} => socket'[i].phase = socket[i].phase
    BY <1>2, <1>3, <1>4
  <1>11. EngineOK'
    BY <1>3, <1>5, <1>6, <1>8, <1>9, <1>10, EngineGrows
  <1> QED BY <1>2, <1>3, <1>7, <1>11, LineOne

LEMMA LineGivesUp ==
  ASSUME LiveLinkTypeOK, LineInv, NEW s \in Sockets, HelloTimeout(s) \/ Refused(s)
  PROVE  LineInv'
  <1>1. PICK r :
           /\ OneSocket(s, r) /\ r.tab = socket[s].tab /\ r.open = FALSE
           /\ r.closed = TRUE /\ r.gone = socket[s].gone /\ r.up = socket[s].up
           /\ \/ r.phase = socket[s].phase
              \/ r.phase = "refused" /\ socket[s].phase = "auth"
    BY ZenonT(40), GivesUpFacts
  <1>2. LiveLinkTypeOK' /\ tab' = tab /\ engine' = engine /\ socket[s].phase \in {"new", "auth", "queued"}
    BY GivesUpFacts
  <1>3. /\ DOMAIN socket' = DOMAIN socket /\ socket'[s] = r /\ s \in DOMAIN socket
        /\ \A i \in DOMAIN socket : i # s => socket'[i] = socket[i]
    BY <1>1, OneSocketFacts DEF OneSocket
  <1>4. SocketOK(s) /\ EngineOK
    BY <1>3 DEF LineInv, Sockets
  <1>5. SocketOK(s)'
    BY <1>1, <1>2, <1>3, <1>4 DEF SocketOK, NoHello, HelloFirst
  <1>6. EngineOK'
    <2>1. \A i \in DOMAIN socket :
           /\ i \in DOMAIN socket' /\ (socket[i].closed => socket'[i].closed)
           /\ socket[i].gone => socket'[i].gone
           /\ socket[i].phase \in {"queued", "ready"} => socket'[i].phase = socket[i].phase
           /\ socket'[i].phase \in {"queued", "ready"} => socket[i].phase = socket'[i].phase
      BY <1>1, <1>2, <1>3
    <2>2. engine'.queue = engine.queue /\ engine'.busy = engine.busy
          /\ engine'.transport = engine.transport /\ engine'.loaded = engine.loaded /\ engine'.st = engine.st
      BY <1>2
    <2> QED BY <1>3, <1>4, <2>1, <2>2, EngineRests
  <1> QED BY <1>1, <1>2, <1>5, <1>6, LineOne

LEMMA LineGatewayNotices ==
  ASSUME LiveLinkTypeOK, LineInv, NEW s \in Sockets, GatewayNotices(s)
  PROVE  LineInv'
  <1>1. PICK x : x = Task("detach", s, NoMessage)
    OBVIOUS
  <1>2. PICK r :
           /\ OneSocket(s, r) /\ r.tab = socket[s].tab /\ r.open = socket[s].open
           /\ r.closed = TRUE /\ r.gone = TRUE /\ r.phase = socket[s].phase /\ r.up = << >>
    BY GoneFacts
  <1>3. /\ LiveLinkTypeOK' /\ tab' = tab /\ ~socket[s].open /\ ~socket[s].gone
        /\ engine'.queue = IF socket[s].phase = "ready" THEN Append(engine.queue, x) ELSE engine.queue
        /\ x \in TaskRecord
        /\ engine'.loaded = engine.loaded /\ engine'.busy = engine.busy /\ engine'.st = engine.st
        /\ engine'.transport = engine.transport
    BY <1>1, GoneFacts
  <1>4. /\ DOMAIN socket' = DOMAIN socket /\ socket'[s] = r /\ s \in DOMAIN socket
        /\ \A i \in DOMAIN socket : i # s => socket'[i] = socket[i]
    BY <1>2, OneSocketFacts DEF OneSocket
  <1>5. SocketOK(s) /\ EngineOK
    BY <1>4 DEF LineInv, Sockets
  <1>6. x.type = "detach" /\ x.socket = s
    BY <1>1 DEF Task
  <1>7. SocketOK(s)'
    <2>1. NoHello(<< >>)
      BY HelloNone
    <2> QED BY <1>2, <1>3, <1>4, <1>5, <2>1 DEF SocketOK, NoHello
  <1>8. \A i \in DOMAIN socket :
           /\ i \in DOMAIN socket' /\ (socket[i].closed => socket'[i].closed)
           /\ socket[i].gone => socket'[i].gone
           /\ socket[i].phase \in {"queued", "ready"} => socket'[i].phase = socket[i].phase
           /\ socket'[i].phase \in {"queued", "ready"} => socket[i].phase = socket'[i].phase
    BY <1>2, <1>3, <1>4
  <1>9. EngineOK'
    <2>1. CASE socket[s].phase # "ready"
      BY <2>1, <1>3, <1>4, <1>5, <1>8, EngineRests
    <2>2. CASE socket[s].phase = "ready"
      <3>1. TaskOK(x)'
        BY <2>2, <1>2, <1>4, <1>6 DEF TaskOK
      <3>2. engine.loaded = TRUE
        <4>1. engine.loaded \in BOOLEAN
          BY Typed, EngineIs
        <4> QED BY <4>1, <2>2, <1>3, <1>4, <1>5 DEF EngineOK, Sockets
      <3>3. \A k \in Queue : ~(k.type = "attach" /\ x.type = "attach" /\ k.socket = x.socket)
        BY <1>6
      <3> QED BY <2>2, <1>3, <1>5, <1>8, <3>1, <3>2, <3>3, EngineGrows
    <2> QED BY <2>1, <2>2
  <1> QED BY <1>2, <1>3, <1>7, <1>9, LineOne

LEMMA LineDrop ==
  ASSUME LiveLinkTypeOK, LineInv, NEW s \in Sockets, Drop(s)
  PROVE  LineInv'
  <1>1. PICK r :
           /\ OneSocket(s, r) /\ r.tab = socket[s].tab /\ r.open = FALSE
           /\ r.closed = socket[s].closed /\ r.gone = socket[s].gone
           /\ r.phase = socket[s].phase /\ r.up = socket[s].up
    BY DropFacts
  <1>2. LiveLinkTypeOK' /\ tab' = tab /\ engine' = engine
    BY DropFacts
  <1>3. /\ DOMAIN socket' = DOMAIN socket /\ socket'[s] = r /\ s \in DOMAIN socket
        /\ \A i \in DOMAIN socket : i # s => socket'[i] = socket[i]
    BY <1>1, OneSocketFacts DEF OneSocket
  <1>4. SocketOK(s) /\ EngineOK
    BY <1>3 DEF LineInv, Sockets
  <1>5. SocketOK(s)'
    BY <1>1, <1>2, <1>3, <1>4 DEF SocketOK, NoHello, HelloFirst
  <1>6. EngineOK'
    <2>1. \A i \in DOMAIN socket :
           /\ i \in DOMAIN socket' /\ (socket[i].closed => socket'[i].closed)
           /\ socket[i].gone => socket'[i].gone
           /\ socket'[i].phase = socket[i].phase
      BY <1>1, <1>2, <1>3
    <2>2. engine'.queue = engine.queue /\ engine'.busy = engine.busy
          /\ engine'.transport = engine.transport /\ engine'.loaded = engine.loaded /\ engine'.st = engine.st
      BY <1>2
    <2> QED BY <1>3, <1>4, <2>1, <2>2, EngineRests
  <1> QED BY <1>1, <1>2, <1>5, <1>6, LineOne

LEMMA LineHandles ==
  ASSUME LiveLinkTypeOK, LineInv, HandleFinal \/ HandleDurable
  PROVE  LineInv' /\ LiveLinkTypeOK'
  <1>1. /\ LiveLinkTypeOK' /\ tab' = tab /\ engine.queue # << >> /\ Head(engine.queue).type = "message"
        /\ engine.busy = 0 /\ engine'.queue = Tail(engine.queue) /\ engine'.busy = engine.busy
        /\ engine'.st = engine.st \/ (engine.st # "RECONNECTING" /\ engine'.st # "RECONNECTING")
        /\ engine'.transport = engine.transport /\ engine'.loaded = engine.loaded /\ SamePhases
    <2>1. CASE HandleFinal
      BY <2>1, HandleFinalFacts
    <2>2. CASE HandleDurable
      BY <2>2, HandleDurableFacts
    <2> QED BY <2>1, <2>2
  <1>2. PICK out : Carries(engine.transport, out)
    <2>1. CASE HandleFinal
      BY <2>1, HandleFinalFacts
    <2>2. CASE HandleDurable
      BY <2>2, HandleDurableFacts
    <2> QED BY <2>1, <2>2
  <1>3. EngineOK'
    BY <1>1, <1>2, EngineTakes DEF LineInv, Carries
  <1> QED BY <1>1, <1>2, <1>3, LineTalks

LEMMA LineDetach ==
  ASSUME LiveLinkTypeOK, LineInv, Detach
  PROVE  LineInv' /\ LiveLinkTypeOK'
  <1>0. engine.transport # 0 => engine.st # "RECONNECTING"
    BY DEF LineInv, EngineOK
  <1>1. PICK s : s = Head(engine.queue).socket
    OBVIOUS
  <1>2. /\ LiveLinkTypeOK' /\ tab' = tab /\ engine.queue # << >> /\ Head(engine.queue).type = "detach"
        /\ engine.busy = 0 /\ engine'.queue = Tail(engine.queue) /\ engine'.busy = engine.busy
        /\ engine'.loaded = engine.loaded /\ SamePhases /\ s \in DOMAIN socket
        /\ \/ engine.transport # s /\ engine'.transport = engine.transport /\ engine'.st = engine.st
           \/ engine.transport = s /\ engine'.transport = 0 /\ engine'.st = "RECONNECTING"
    BY <1>0, <1>1, DetachFacts
  <1>3. PICK out : Carries(engine'.transport, out)
    BY <1>0, DetachFacts
  <1>4. EngineOK'
    BY <1>2, <1>3, EngineTakes DEF LineInv, Carries
  <1>5. socket[s].closed /\ s # 0
    <2>1. engine.queue \in Seq(TaskRecord)
      BY Typed, EngineIs
    <2>2. Head(engine.queue) \in Queue
      BY <2>1, <1>2, Taking DEF Queue
    <2>3. s # 0
      BY <1>2, Typed
    <2> QED BY <1>1, <1>2, <2>2, <2>3 DEF LineInv, EngineOK, TaskOK
  <1> QED BY <1>2, <1>3, <1>4, <1>5, LineTalks

LEMMA LineReplyEnds ==
  ASSUME LiveLinkTypeOK, LineInv, ReplyEnds
  PROVE  LineInv' /\ LiveLinkTypeOK'
  <1>1. /\ LiveLinkTypeOK' /\ tab' = tab
        /\ engine'.queue = engine.queue /\ engine'.st = engine.st /\ engine'.busy = engine.busy
        /\ engine'.transport = engine.transport /\ engine'.loaded = engine.loaded /\ SamePhases
    BY ReplyEndsFacts
  <1>2. PICK out : Carries(engine.transport, out)
    BY ReplyEndsFacts
  <1>3. EngineOK'
    <2>1. \A i \in DOMAIN socket :
           /\ i \in DOMAIN socket' /\ (socket[i].closed => socket'[i].closed)
           /\ socket[i].gone => socket'[i].gone
           /\ socket'[i].phase = socket[i].phase
      BY <1>1, <1>2 DEF Carries, Stands, SamePhases
    <2>2. DOMAIN socket' = DOMAIN socket
      BY <1>2 DEF Carries
    <2> QED BY <1>1, <2>1, <2>2, EngineRests DEF LineInv
  <1> QED BY <1>1, <1>2, <1>3, LineTalks

LEMMA LineRestart ==
  ASSUME LiveLinkTypeOK, LineInv, Restart
  PROVE  LineInv' /\ LiveLinkTypeOK'
  <1>1. /\ LiveLinkTypeOK' /\ tab' = tab /\ DOMAIN socket' = DOMAIN socket
        /\ \A i \in DOMAIN socket :
              /\ socket'[i].tab = socket[i].tab
              /\ socket'[i].phase = "ready" /\ ~socket'[i].open /\ socket'[i].closed
              /\ socket'[i].gone /\ socket'[i].up = << >>
        /\ engine'.queue = << >> /\ engine'.busy = 0 /\ engine'.transport = 0 /\ ~engine'.loaded
    BY RestartFacts
  <1>2. ASSUME NEW i \in DOMAIN socket' PROVE SocketOK(i)'
    BY <1>1, HelloNone DEF SocketOK, NoHello
  <1>3. ASSUME NEW u \in Tabs PROVE TabOK(u)'
    <2>1. TabOK(u) /\ (tab[u].ws # 0 => tab[u].ws \in DOMAIN socket)
      BY TabAt DEF LineInv
    <2> QED BY <1>1, <2>1 DEF TabOK
  <1>4. EngineOK'
    <2>1. Queue' = {}
      BY <1>1 DEF Queue, Member
    <2>2. OneEach(engine'.queue)
      BY <1>1 DEF OneEach
    <2> QED BY <1>1, <2>1, <2>2 DEF EngineOK, Sockets
  <1> QED BY <1>1, <1>2, <1>3, <1>4, LineParts

LEMMA LineAttach ==
  ASSUME LiveLinkTypeOK, LineInv, Attach
  PROVE  LineInv' /\ LiveLinkTypeOK'
  <1>0. PICK s, old : s = Head(engine.queue).socket /\ old = engine.transport
    OBVIOUS
  <1>1. /\ LiveLinkTypeOK' /\ tab' = tab /\ engine.busy = 0
        /\ engine.queue # << >> /\ Head(engine.queue).type = "attach" /\ s \in DOMAIN socket
        /\ DOMAIN socket' = DOMAIN socket
        /\ \A i \in DOMAIN socket :
              /\ Stands(socket'[i], socket[i])
              /\ socket'[i].open <=> socket[i].open /\ i \notin {old} \ {0, s}
              /\ socket'[i].closed <=> socket[i].closed \/ i \in {old} \ {0, s}
              /\ i # s => socket'[i].phase = socket[i].phase
        /\ engine'.transport = s /\ engine'.loaded = engine.loaded
        /\ engine'.st # "RECONNECTING"
        /\ \/ /\ engine'.busy = s /\ socket'[s].phase = socket[s].phase /\ engine'.queue = Tail(engine.queue)
           \/ /\ engine'.busy = 0 /\ socket'[s].phase = "ready"
              /\ engine'.queue = IF socket[s].closed
                                 THEN Append(Tail(engine.queue), Task("detach", s, NoMessage))
                                 ELSE Tail(engine.queue)
    BY <1>0, AttachFacts
  <1>2. /\ \A i \in DOMAIN socket : SocketOK(i) /\ socket[i].tab \in Tabs /\ i # 0
        /\ EngineOK /\ s # 0
    <2>1. \A i \in DOMAIN socket : i # 0
      BY Typed
    <2> QED BY <1>1, <2>1, SocketAt DEF LineInv, Sockets
  <1>3. engine.queue \in Seq(TaskRecord)
    BY Typed, EngineIs
  <1>4. /\ Queue = {Head(engine.queue)} \cup Member(Tail(engine.queue))
        /\ Tail(engine.queue) \in Seq(TaskRecord) /\ OneEach(Tail(engine.queue))
        /\ \A k \in Member(Tail(engine.queue)) : k.type = "attach" => k.socket # s
    BY <1>0, <1>1, <1>2, <1>3, Taking, OneEachFacts DEF Queue, EngineOK
  <1>5. socket[s].phase = "queued"
    BY <1>0, <1>1, <1>2, <1>4 DEF EngineOK, TaskOK
  <1>6. ASSUME NEW i \in DOMAIN socket PROVE SocketOK(i)'
    <2>0. /\ Stands(socket'[i], socket[i]) /\ SocketOK(i)
          /\ socket'[i].open => socket[i].open /\ i \notin {old} \ {0, s}
          /\ socket'[i].closed <=> socket[i].closed \/ i \in {old} \ {0, s}
          /\ i # s => socket'[i].phase = socket[i].phase
      BY <1>1, <1>2
    <2>1. CASE i = s
      BY <1>1, <1>5, <2>0, <2>1 DEF SocketOK, Stands, NoHello
    <2>2. CASE i # s
      BY <1>0, <1>1, <1>2, <2>0, <2>2 DEF SocketOK, Stands, NoHello, HelloFirst
    <2> QED BY <2>1, <2>2
  <1>7. ASSUME NEW u \in Tabs PROVE TabOK(u)'
    <2>1. TabOK(u) /\ (tab[u].ws # 0 => tab[u].ws \in DOMAIN socket)
      BY TabAt DEF LineInv
    <2> QED BY <1>1, <2>1 DEF TabOK, Stands
  <1>8. PICK x : x = Task("detach", s, NoMessage)
    OBVIOUS
  <1>9. x \in TaskRecord /\ x.type = "detach" /\ x.socket = s
    BY <1>1, <1>8 DEF Task, TaskRecord, NoMessage, ClientMessage
  <1>10. ASSUME NEW k \in Member(Tail(engine.queue)) PROVE TaskOK(k)'
    <2>1. TaskOK(k) /\ k.socket \in DOMAIN socket /\ (k.type = "attach" => k.socket # s)
      <3>1. k \in TaskRecord
        BY <1>4, Inside
      <3> QED BY <1>2, <1>4, <3>1 DEF EngineOK, TaskRecord
    <2>2. k.socket # 0
      BY <1>2, <2>1
    <2>3. k.socket # s
      BY <1>5, <2>1 DEF TaskOK
    <2> QED BY <1>1, <1>2, <2>1, <2>2, <2>3 DEF TaskOK
  <1>11. Queue' \subseteq Member(Tail(engine.queue)) \cup (IF socket[s].closed /\ engine'.busy = 0 THEN {x} ELSE {})
    <2>0. PICK q : q = Tail(engine.queue)
      OBVIOUS
    <2>1. q \in Seq(TaskRecord)
      BY <1>4, <2>0
    <2>2. Member(Append(q, x)) = Member(q) \cup {x}
      BY <1>9, <2>1, Appended
    <2> QED BY <1>1, <1>2, <1>8, <2>0, <2>2 DEF Queue
  <1>12. ASSUME NEW k \in Queue' PROVE TaskOK(k)'
    <2>1. CASE k \in Member(Tail(engine.queue))
      BY <2>1, <1>10
    <2>2. CASE k = x /\ socket[s].closed /\ engine'.busy = 0
      BY <2>2, <1>1, <1>2, <1>9 DEF TaskOK
    <2> QED BY <1>11, <2>1, <2>2
  <1>13. OneEach(engine'.queue)
    <2>1. OneEach(Append(Tail(engine.queue), x))
      BY <1>4, <1>9, OneEachFacts
    <2> QED BY <1>1, <1>4, <1>8, <2>1
  <1>14. engine.loaded
    BY <1>1, <1>2 DEF EngineOK
  <1>15. EngineOK'
    BY <1>1, <1>2, <1>5, <1>12, <1>13, <1>14 DEF EngineOK, Attached
  <1> QED BY <1>1, <1>6, <1>7, <1>15, LineParts

LEMMA LineAttachReturns ==
  ASSUME LiveLinkTypeOK, LineInv, AttachReturns
  PROVE  LineInv' /\ LiveLinkTypeOK'
  <1>0. PICK s : s = engine.busy
    OBVIOUS
  <1>1. PICK x : x = Task("detach", s, NoMessage)
    OBVIOUS
  <1>2. /\ LiveLinkTypeOK' /\ tab' = tab /\ s # 0 /\ s \in DOMAIN socket
        /\ engine'.queue = IF socket[s].closed THEN Append(engine.queue, x) ELSE engine.queue
        /\ x \in TaskRecord
        /\ engine'.busy = 0 /\ engine'.st = engine.st
        /\ engine'.transport = engine.transport /\ engine'.loaded = engine.loaded
        /\ socket'[s].phase = "ready"
        /\ \A i \in DOMAIN socket : i # s => socket'[i].phase = socket[i].phase
    BY <1>0, <1>1, AttachReturnsFacts
  <1>3. PICK out : Carries(engine.transport, out)
    BY AttachReturnsFacts
  <1>4. /\ DOMAIN socket' = DOMAIN socket
        /\ \A i \in DOMAIN socket :
             /\ socket'[i].tab = socket[i].tab /\ socket'[i].gone = socket[i].gone
             /\ socket'[i].up = socket[i].up /\ socket'[i].open = socket[i].open
             /\ socket'[i].closed = socket[i].closed
    BY <1>3 DEF Carries, Stands
  <1>5. /\ \A i \in DOMAIN socket : SocketOK(i) /\ socket[i].tab \in Tabs /\ i # 0
        /\ EngineOK
    <2>1. \A i \in DOMAIN socket : i # 0
      BY Typed
    <2> QED BY <2>1, SocketAt DEF LineInv, Sockets
  <1>6. engine.transport = s /\ socket[s].phase = "queued" /\ engine.loaded
    BY <1>0, <1>2, <1>5 DEF EngineOK
  <1>7. ASSUME NEW i \in DOMAIN socket PROVE SocketOK(i)'
    <2>1. CASE i = s
      BY <1>2, <1>4, <1>5, <1>6, <2>1 DEF SocketOK, NoHello
    <2>2. CASE i # s
      BY <1>2, <1>4, <1>5, <2>2 DEF SocketOK, NoHello, HelloFirst
    <2> QED BY <2>1, <2>2
  <1>8. ASSUME NEW u \in Tabs PROVE TabOK(u)'
    <2>1. TabOK(u) /\ (tab[u].ws # 0 => tab[u].ws \in DOMAIN socket)
      BY TabAt DEF LineInv
    <2> QED BY <1>2, <1>4, <2>1 DEF TabOK
  <1>9. engine.queue \in Seq(TaskRecord) /\ x.type = "detach" /\ x.socket = s
    BY <1>1, Typed, EngineIs DEF Task
  <1>10. ASSUME NEW k \in Queue PROVE TaskOK(k)'
    <2>1. TaskOK(k) /\ k.socket \in DOMAIN socket
      <3>1. k \in TaskRecord
        BY <1>9, Inside DEF Queue
      <3> QED BY <1>5, <3>1 DEF EngineOK, TaskRecord
    <2>2. k.socket # 0
      BY <1>5, <2>1
    <2>3. k.socket # s
      BY <1>0, <1>6, <2>1 DEF TaskOK
    <2> QED BY <1>2, <1>4, <2>1, <2>2, <2>3 DEF TaskOK
  <1>11. Queue' = Queue \cup (IF socket[s].closed THEN {x} ELSE {})
    <2>1. Member(Append(engine.queue, x)) = Queue \cup {x}
      BY <1>2, <1>9, Appended DEF Queue
    <2> QED BY <1>2, <2>1 DEF Queue
  <1>12. ASSUME NEW k \in Queue' PROVE TaskOK(k)'
    <2>1. CASE k \in Queue
      BY <2>1, <1>10
    <2>2. CASE k = x /\ socket[s].closed
      BY <2>2, <1>2, <1>4, <1>9 DEF TaskOK
    <2> QED BY <1>11, <2>1, <2>2
  <1>13. OneEach(engine'.queue)
    <2>1. OneEach(Append(engine.queue, x))
      BY <1>2, <1>5, <1>9, OneEachFacts DEF EngineOK
    <2> QED BY <1>2, <1>5, <2>1 DEF EngineOK
  <1>14. EngineOK'
    BY <1>2, <1>5, <1>6, <1>12, <1>13 DEF EngineOK, Attached
  <1> QED BY <1>2, <1>4, <1>7, <1>8, <1>14, LineParts

LEMMA LineInit == LiveLinkInit => LineInv
  <1> SUFFICES ASSUME LiveLinkInit PROVE LineInv
    OBVIOUS
  <1>1. DOMAIN socket = {} /\ \A t \in Tabs : tab[t].ws = 0 /\ ~tab[t].welcomed
    BY DEF LiveLinkInit
  <1>2. engine.queue = << >> /\ engine.busy = 0 /\ engine.transport = 0 /\ engine.loaded
        /\ engine.st = "RECONNECTING"
    BY DEF LiveLinkInit
  <1>3. Queue = {} /\ OneEach(engine.queue)
    BY <1>2 DEF Queue, Member, OneEach
  <1> QED BY <1>1, <1>2, <1>3 DEF LineInv, EngineOK, TabOK, Sockets

LEMMA LineStep ==
  ASSUME LiveLinkTypeOK, LineInv, [LiveLinkNext]_liveVars
  PROVE  LiveLinkTypeOK' /\ LineInv'
  <1>1. ASSUME NEW t \in Tabs, Browser(t) \/ Connect(t) \/ Say(t) PROVE LiveLinkTypeOK' /\ LineInv'
    BY <1>1, OpenFacts, LineOpen, ClientReceivesFacts, LineReceives, LineNotices, LineConnect, LineSay DEF Browser
  <1>2. ASSUME NEW t \in Tabs, NEW type \in Durables, SendDurable(t, type)
        PROVE LiveLinkTypeOK' /\ LineInv'
    BY <1>2, LineDurable
  <1>3. ASSUME NEW s \in Sockets, Gateway(s) \/ HelloTimeout(s) \/ Refused(s) \/ Drop(s)
        PROVE LiveLinkTypeOK' /\ LineInv'
    BY <1>3, LineGatewayReceives, ReceivesFacts, LineAuthenticated, AuthenticatedFacts,
       LineGatewayNotices, GoneFacts, LineGivesUp, GivesUpFacts, LineDrop, DropFacts DEF Gateway
  <1>4. ASSUME EngineStep PROVE LiveLinkTypeOK' /\ LineInv'
    BY <1>4, LineAttach, LineAttachReturns, LineHandles, LineDetach, LineReplyEnds DEF EngineStep
  <1>5. ASSUME Restart PROVE LiveLinkTypeOK' /\ LineInv'
    BY <1>5, LineRestart
  <1>6. CASE UNCHANGED liveVars
    <2>1. tab' = tab /\ socket' = socket /\ engine' = engine /\ history' = history
      BY <1>6 DEF liveVars
    <2>2. LiveLinkTypeOK'
      BY <2>1 DEF LiveLinkTypeOK, TabRecord, SocketRecord, EngineRecord, TaskRecord, HistoryRecord, ClientMessage
    <2>3. LineInv'
      BY <2>1 DEF LineInv, Sockets, SocketOK, TabOK, EngineOK, TaskOK, OneEach, Queue, Attached, HelloFirst, NoHello
    <2> QED BY <2>2, <2>3
  <1> QED BY <1>1, <1>2, <1>3, <1>4, <1>5, <1>6 DEF LiveLinkNext

\* The types of the records, and that whatever a record names exists.
THEOREM LinkTypes == LiveLinkSpec => [](LiveLinkTypeOK /\ LineInv)
  <1>1. LiveLinkInit => LiveLinkTypeOK /\ LineInv
    BY InitTypes, LineInit
  <1>2. (LiveLinkTypeOK /\ LineInv) /\ [LiveLinkNext]_liveVars => (LiveLinkTypeOK /\ LineInv)'
    BY LineStep
  <1> QED BY <1>1, <1>2, PTL DEF LiveLinkSpec

-----------------------------------------------------------------------------
(* The transcript: what is under way to a tab continues what it shows.       *)

\* The last turn a message tells of.
High(m) == IF m.type = "welcome" THEN m.to ELSE m.n

\* A tab that has no welcome gets one first, for the turns after its lastSeq, and
\* nothing tells of a turn before all that come earlier.
Told(down, welcomed, seen) ==
  /\ ~welcomed /\ down # << >> =>
       /\ down[1].type = "welcome" /\ down[1].n = seen
       /\ \A i \in DOMAIN down : i # 1 => down[i].type = "saved"
  /\ welcomed => \A i \in DOMAIN down : down[i].type = "saved"
  /\ \A i \in DOMAIN down : down[i].type = "saved" =>
       \/ down[i].n <= seen + 1
       \/ \E j \in DOMAIN down : j < i /\ High(down[j]) >= down[i].n - 1

Reaches(down, seen, last) == seen = last \/ \E i \in DOMAIN down : High(down[i]) >= last

Within(down, last) ==
  \A i \in DOMAIN down : High(down[i]) <= last /\ (down[i].type = "welcome" => down[i].n <= down[i].to)

\* What the handshake of a socket asks for.
Asks(s, seen) ==
  /\ \A i \in DOMAIN socket[s].up : socket[s].up[i].type = "hello" => socket[s].up[i].n = seen
  /\ socket[s].phase = "auth" => socket[s].last = seen
  /\ \A k \in Queue : k.type = "attach" /\ k.socket = s => k.msg.n = seen

\* The line to a tab that has a socket.
Lined(t) ==
  LET s == tab[t].ws
      down == socket[s].down
      seen == tab[t].lastSeq
  IN  /\ ~Attached(s) => down = << >> /\ ~tab[t].welcomed
      /\ Told(down, tab[t].welcomed, seen)
      /\ ~tab[t].welcomed => Asks(s, seen)
      /\ socket[s].open /\ engine.transport = s =>
           Reaches(down, seen, Len(engine.turns)) /\ (tab[t].welcomed \/ down # << >>)

Shown(t) == tab[t].shown = 1..tab[t].lastSeq /\ tab[t].lastSeq <= Len(engine.turns)

ShowInv ==
  /\ \A s \in Sockets : Within(socket[s].down, Len(engine.turns))
  /\ \A t \in Tabs : Shown(t) /\ (tab[t].ws # 0 => Lined(t))

LEMMA MessageIs ==
  ASSUME NEW m \in ServerMessage
  PROVE  /\ m.n \in Nat /\ High(m) \in Nat
         /\ m.type = "welcome" \/ (m.type = "saved" /\ m.n # 0 /\ High(m) = m.n)
         /\ m.type = "welcome" => m.to \in Nat /\ High(m) = m.to
  BY DEF ServerMessage, High

\* What the engine says next continues it.
LEMMA ToldMore ==
  ASSUME NEW down \in Seq(ServerMessage), NEW out \in Seq(ServerMessage), NEW welcomed \in BOOLEAN,
         NEW seen \in Nat, NEW last \in Nat, NEW next \in Nat, last <= next,
         Told(down, welcomed, seen), Reaches(down, seen, last), Within(down, last),
         welcomed \/ down # << >>,
         \A m \in Member(out) : m.type = "saved" /\ m.n <= next,
         \A i \in DOMAIN out : out[i].n <= last + 1 \/ \E j \in 1..(i - 1) : out[j].n >= out[i].n - 1,
         \A i \in 1..next : i \in 1..last \/ SavedMessage(i) \in Member(out)
  PROVE  /\ Told(down \o out, welcomed, seen) /\ Reaches(down \o out, seen, next)
         /\ down \o out # << >> \/ welcomed
  <1> DEFINE all == down \o out
  <1>1. /\ all \in Seq(ServerMessage) /\ Member(all) = Member(down) \cup Member(out)
        /\ \A i \in DOMAIN down : i \in DOMAIN all /\ all[i] = down[i]
        /\ \A i \in DOMAIN all : i \notin DOMAIN down =>
              i - Len(down) \in DOMAIN out /\ all[i] = out[i - Len(down)]
    BY Joining
  <1>2. /\ DOMAIN down = 1..Len(down) /\ DOMAIN out = 1..Len(out) /\ Len(down) \in Nat /\ Len(out) \in Nat
        /\ DOMAIN all = 1..(Len(down) + Len(out))
        /\ \A j \in DOMAIN out : Len(down) + j \in DOMAIN all /\ all[Len(down) + j] = out[j]
    OBVIOUS
  <1>3. \A i \in DOMAIN out : /\ out[i] \in ServerMessage /\ out[i].type = "saved" /\ out[i].n <= next
                              /\ High(out[i]) = out[i].n /\ out[i].n \in Nat
    <2>1. \A i \in DOMAIN out : out[i] \in ServerMessage /\ out[i] \in Member(out)
      BY DEF Member
    <2> QED BY <2>1, MessageIs DEF High
  <1>4. \A i \in DOMAIN down : down[i] \in ServerMessage /\ High(down[i]) \in Nat
    <2>1. \A i \in DOMAIN down : down[i] \in ServerMessage
      OBVIOUS
    <2> QED BY <2>1, MessageIs
  <1>5. down # << >> => 1 \in DOMAIN down /\ all # << >>
    BY <1>1, <1>2
  <1> HIDE DEF all
  <1>6. ~welcomed => /\ all[1].type = "welcome" /\ all[1].n = seen
                     /\ \A i \in DOMAIN all : i # 1 => all[i].type = "saved"
    BY <1>1, <1>3, <1>5 DEF Told
  <1>7. welcomed => \A i \in DOMAIN all : all[i].type = "saved"
    BY <1>1, <1>3 DEF Told
  <1>8. ASSUME NEW i \in DOMAIN all, all[i].type = "saved"
        PROVE  \/ all[i].n <= seen + 1
               \/ \E j \in DOMAIN all : j < i /\ High(all[j]) >= all[i].n - 1
    <2>1. CASE i \in DOMAIN down
      BY <1>1, <1>8, <2>1 DEF Told
    <2>2. CASE i \notin DOMAIN down
      <3>1. PICK k \in DOMAIN out : k = i - Len(down) /\ all[i] = out[k]
        BY <1>1, <2>2
      <3>2. CASE out[k].n <= last + 1
        <4>1. CASE seen = last
          BY <3>1, <3>2, <4>1
        <4>2. CASE \E j \in DOMAIN down : High(down[j]) >= last
          <5>1. PICK j \in DOMAIN down : High(down[j]) >= last
            BY <4>2
          <5>2. j < i
            BY <1>2, <2>2
          <5>3. j \in DOMAIN all /\ all[j] = down[j]
            BY <1>1, <5>1
          <5>4. High(all[j]) >= all[i].n - 1
            BY <1>3, <1>4, <3>1, <3>2, <5>1, <5>3
          <5> QED BY <5>2, <5>3, <5>4
        <4> QED BY <4>1, <4>2 DEF Reaches
      <3>3. CASE \E j \in 1..(k - 1) : out[j].n >= out[k].n - 1
        <4>1. PICK j \in 1..(k - 1) : out[j].n >= out[k].n - 1
          BY <3>3
        <4>2. j \in DOMAIN out /\ Len(down) + j < i
          BY <1>2, <3>1
        <4> QED BY <1>2, <1>3, <3>1, <4>1, <4>2
      <3> QED BY <3>2, <3>3
    <2> QED BY <2>1, <2>2
  <1>9. Reaches(all, seen, next)
    <2>1. CASE next = last
      <3>1. seen = last \/ \E i \in DOMAIN down : High(down[i]) >= last
        BY DEF Reaches
      <3> QED BY <1>1, <2>1, <3>1 DEF Reaches
    <2>2. CASE next # last
      <3>1. next \in 1..next /\ next \notin 1..last
        BY <2>2
      <3>2. SavedMessage(next) \in Member(out)
        BY <3>1
      <3>3. PICK j \in DOMAIN out : out[j] = SavedMessage(next)
        BY <3>2 DEF Member
      <3>4. High(out[j]) >= next
        BY <1>3, <3>3 DEF SavedMessage
      <3> QED BY <1>2, <3>3, <3>4 DEF Reaches
    <2> QED BY <2>1, <2>2
  <1>10. Told(all, welcomed, seen)
    BY <1>6, <1>7, <1>8 DEF Told
  <1> QED BY <1>5, <1>9, <1>10 DEF all

\* The tab reads the first of it.
LEMMA ToldHead ==
  ASSUME NEW down \in Seq(ServerMessage), NEW welcomed \in BOOLEAN, down # << >>,
         NEW seen \in Nat, NEW last \in Nat,
         Told(down, welcomed, seen), Within(down, last)
  PROVE  LET m == Head(down) IN
         /\ High(m) \in Nat /\ High(m) <= last /\ m.n \in Nat
         /\ m.type = "welcome" =>
              /\ ~welcomed /\ m.n = seen /\ m.to \in Nat /\ m.n <= m.to /\ High(m) = m.to
         /\ m.type = "saved" => welcomed /\ m.n # 0 /\ m.n <= seen + 1 /\ High(m) = m.n
  <1>0. PICK m : m = Head(down)
    OBVIOUS
  <1>1. m = down[1] /\ 1 \in DOMAIN down /\ m \in ServerMessage
    BY <1>0, Taking
  <1>4. High(m) <= last /\ (m.type = "welcome" => m.n <= m.to /\ High(m) = m.to)
    BY <1>1 DEF Within, High
  <1>5. /\ High(m) \in Nat /\ m.n \in Nat /\ (m.type = "welcome" => m.to \in Nat)
        /\ m.type = "saved" => m.n # 0 /\ High(m) = m.n
    BY <1>1, MessageIs DEF High
  <1>6. ASSUME m.type = "welcome" PROVE ~welcomed /\ m.n = seen
    BY <1>1, <1>6 DEF Told
  <1>7. ASSUME m.type = "saved" PROVE welcomed /\ m.n <= seen + 1
    <2>1. welcomed
      BY <1>1, <1>7 DEF Told
    <2>2. ~\E j \in DOMAIN down : j < 1
      BY <1>1
    <2> QED BY <2>1, <2>2, <1>1, <1>7 DEF Told
  <1> QED BY <1>0, <1>4, <1>5, <1>6, <1>7

LEMMA ToldRest ==
  ASSUME NEW down \in Seq(ServerMessage), NEW welcomed \in BOOLEAN, down # << >>,
         NEW seen \in Nat, NEW last \in Nat, Told(down, welcomed, seen), Within(down, last),
         NEW then \in Nat, seen <= then, High(Head(down)) <= then, then <= last
  PROVE  Told(Tail(down), TRUE, then) /\ (Reaches(down, seen, last) => Reaches(Tail(down), then, last))
  <1> DEFINE rest == Tail(down)
  <1>0. PICK m : m = Head(down)
    OBVIOUS
  <1>1. /\ m = down[1] /\ 1 \in DOMAIN down /\ rest \in Seq(ServerMessage) /\ m \in ServerMessage
        /\ \A i \in DOMAIN rest : i + 1 \in DOMAIN down /\ rest[i] = down[i + 1]
    BY <1>0, Taking
  <1>2. /\ DOMAIN down = 1..Len(down) /\ Len(down) \in Nat
        /\ \A i \in DOMAIN down : i # 1 => i - 1 \in DOMAIN rest /\ rest[i - 1] = down[i]
        /\ \A i \in DOMAIN rest : i \in Nat /\ i + 1 # 1
    OBVIOUS
  <1>3. \A i \in DOMAIN down : down[i] \in ServerMessage /\ High(down[i]) \in Nat /\ down[i].n \in Nat
    <2>1. \A i \in DOMAIN down : down[i] \in ServerMessage
      OBVIOUS
    <2> QED BY <2>1, MessageIs
  <1>5. High(m) \in Nat /\ High(m) <= then
    BY <1>0, <1>1, MessageIs
  <1> HIDE DEF rest
  <1>11. \A i \in DOMAIN rest : rest[i].type = "saved"
    <2>1. \A i \in DOMAIN down : i # 1 => down[i].type = "saved"
      BY DEF Told
    <2> QED BY <1>1, <1>2, <2>1
  <1>12. ASSUME NEW i \in DOMAIN rest
        PROVE  \/ rest[i].n <= then + 1
               \/ \E j \in DOMAIN rest : j < i /\ High(rest[j]) >= rest[i].n - 1
    <2>1. i + 1 \in DOMAIN down /\ rest[i] = down[i + 1] /\ rest[i].n \in Nat
      BY <1>1, <1>3
    <2>2. CASE down[i + 1].n <= seen + 1
      BY <2>1, <2>2
    <2>3. CASE \E j \in DOMAIN down : j < i + 1 /\ High(down[j]) >= down[i + 1].n - 1
      <3>1. PICK j \in DOMAIN down : j < i + 1 /\ High(down[j]) >= down[i + 1].n - 1
        BY <2>3
      <3>2. CASE j = 1
        BY <1>1, <1>5, <2>1, <3>1, <3>2
      <3>3. CASE j # 1
        <4>1. j - 1 \in DOMAIN rest /\ rest[j - 1] = down[j] /\ j - 1 < i
          BY <1>2, <3>1, <3>3
        <4> QED BY <2>1, <3>1, <4>1
      <3> QED BY <3>2, <3>3
    <2>4. down[i + 1].type = "saved"
      BY <1>11, <2>1
    <2> QED BY <2>1, <2>2, <2>3, <2>4 DEF Told
  <1>13. ASSUME Reaches(down, seen, last) PROVE Reaches(rest, then, last)
    <2>1. CASE seen = last
      BY <2>1 DEF Reaches
    <2>2. CASE \E i \in DOMAIN down : High(down[i]) >= last
      <3>1. PICK i \in DOMAIN down : High(down[i]) >= last
        BY <2>2
      <3>2. CASE i = 1
        BY <1>1, <1>5, <3>1, <3>2 DEF Reaches
      <3>3. CASE i # 1
        BY <1>2, <3>1, <3>3 DEF Reaches
      <3> QED BY <3>2, <3>3
    <2> QED BY <1>13, <2>1, <2>2 DEF Reaches
  <1>14. Told(rest, TRUE, then)
    BY <1>11, <1>12 DEF Told
  <1> QED BY <1>13, <1>14 DEF rest

LEMMA ToldWelcome ==
  ASSUME NEW down \in Seq(ServerMessage), NEW welcomed \in BOOLEAN, down # << >>,
         NEW seen \in Nat, NEW last \in Nat, seen <= last,
         Told(down, welcomed, seen), Within(down, last), Head(down).type = "welcome"
  PROVE  /\ Head(down).n = seen /\ Head(down).n <= Head(down).to /\ Head(down).to <= last
         /\ Head(down).to \in Nat /\ Told(Tail(down), TRUE, Head(down).to)
         /\ Reaches(down, seen, last) => Reaches(Tail(down), Head(down).to, last)
  <1>1. PICK then : then = Head(down).to
    OBVIOUS
  <1>2. Head(down).n = seen /\ Head(down).n <= then /\ then <= last /\ then \in Nat /\ High(Head(down)) = then
    BY <1>1, ToldHead
  <1>3. Told(Tail(down), TRUE, then) /\ (Reaches(down, seen, last) => Reaches(Tail(down), then, last))
    <2>1. then \in Nat /\ seen <= then /\ High(Head(down)) <= then /\ then <= last
      BY <1>2
    <2> QED BY <2>1, ToldRest
  <1> QED BY <1>1, <1>2, <1>3

LEMMA ToldSaved ==
  ASSUME NEW down \in Seq(ServerMessage), NEW welcomed \in BOOLEAN, down # << >>,
         NEW seen \in Nat, NEW last \in Nat, seen <= last,
         Told(down, welcomed, seen), Within(down, last), Head(down).type = "saved",
         NEW then, then = IF seen <= Head(down).n THEN Head(down).n ELSE seen
  PROVE  /\ welcomed /\ Head(down).n \in Nat /\ Head(down).n # 0
         /\ Head(down).n <= seen + 1 /\ Head(down).n <= last
         /\ Told(Tail(down), TRUE, then)
         /\ Reaches(down, seen, last) => Reaches(Tail(down), then, last)
  <1>1. /\ welcomed /\ Head(down).n \in Nat /\ Head(down).n # 0 /\ Head(down).n <= seen + 1
        /\ Head(down).n <= last /\ High(Head(down)) = Head(down).n
    BY ToldHead
  <1>2. then \in Nat /\ seen <= then /\ High(Head(down)) <= then /\ then <= last
    BY <1>1
  <1>3. Told(Tail(down), TRUE, then) /\ (Reaches(down, seen, last) => Reaches(Tail(down), then, last))
    BY <1>2, ToldRest
  <1> QED BY <1>1, <1>3

LEMMA LinedFrame ==
  ASSUME NEW t \in Tabs, Lined(t), NEW s, s = tab[t].ws,
         tab'[t].ws = s, tab'[t].welcomed = tab[t].welcomed, tab'[t].lastSeq = tab[t].lastSeq,
         socket'[s].down = socket[s].down, engine'.turns = engine.turns,
         Attached(s) => socket'[s].phase = "ready" \/ engine'.busy = s,
         socket'[s].open /\ engine'.transport = s => socket[s].open /\ engine.transport = s,
         NEW seen, seen = tab[t].lastSeq, Asks(s, seen) => Asks(s, seen)'
  PROVE  Lined(t)'
  <1>1. Attached(s)' <=> socket'[s].phase = "ready" \/ engine'.busy = s
    BY DEF Attached
  <1>2. Attached(tab[t].ws)' <=> Attached(s)'
    BY DEF Attached
  <1>3. ~tab[t].welcomed => Asks(tab[t].ws, tab[t].lastSeq)'
    <2>1. Asks(s, seen)' => Asks(tab[t].ws, tab[t].lastSeq)'
      BY DEF Asks
    <2> QED BY <2>1 DEF Lined
  <1>4. Told(socket[tab[t].ws].down, tab[t].welcomed, tab[t].lastSeq)'
    BY DEF Lined, Told
  <1>5. socket'[s].open /\ engine'.transport = s =>
           Reaches(socket'[s].down, seen, Len(engine'.turns)) /\ (tab'[t].welcomed \/ socket'[s].down # << >>)
    BY DEF Lined
  <1>6. Reaches(socket'[s].down, seen, Len(engine'.turns))
          => Reaches(socket[tab[t].ws].down, tab[t].lastSeq, Len(engine.turns))'
    BY DEF Reaches
  <1>7. ~Attached(s)' => socket'[s].down = << >> /\ ~tab'[t].welcomed
    BY <1>1 DEF Lined
  <1> QED BY <1>2, <1>3, <1>4, <1>5, <1>6, <1>7 DEF Lined

\* Nothing is said and nothing read.
LEMMA ShowFrame ==
  ASSUME LiveLinkTypeOK, ShowInv, DOMAIN socket' = DOMAIN socket, engine'.turns = engine.turns,
         \A s \in DOMAIN socket :
           /\ socket'[s].down = socket[s].down
           /\ Attached(s) => socket'[s].phase = "ready" \/ engine'.busy = s
           /\ socket'[s].open /\ engine'.transport = s => socket[s].open /\ engine.transport = s
           /\ \A seen \in Nat : Asks(s, seen) => Asks(s, seen)',
         \A t \in Tabs : /\ tab'[t].ws = tab[t].ws /\ tab'[t].welcomed = tab[t].welcomed
                         /\ tab'[t].lastSeq = tab[t].lastSeq /\ tab'[t].shown = tab[t].shown
  PROVE  ShowInv'
  <1>1. \A s \in DOMAIN socket : Within(socket'[s].down, Len(engine'.turns))
    BY DEF ShowInv, Sockets
  <1>2. \A s \in DOMAIN socket : Within(socket'[s].down, Len(engine'.turns)) => Within(socket[s].down, Len(engine.turns))'
    BY DEF Within
  <1>3. ASSUME NEW t \in Tabs PROVE Shown(t)'
    BY DEF ShowInv, Shown
  <1>4. ASSUME NEW t \in Tabs, tab[t].ws # 0 PROVE Lined(t)'
    <2>1. PICK s, seen : s = tab[t].ws /\ seen = tab[t].lastSeq
      OBVIOUS
    <2>2. s \in DOMAIN socket /\ seen \in Nat
      BY <1>4, <2>1, TabAt
    <2>3. Lined(t)
      BY <1>4 DEF ShowInv
    <2>4. /\ socket'[s].down = socket[s].down
          /\ Attached(s) => socket'[s].phase = "ready" \/ engine'.busy = s
          /\ socket'[s].open /\ engine'.transport = s => socket[s].open /\ engine.transport = s
          /\ Asks(s, seen) => Asks(s, seen)'
      BY <2>2
    <2> QED BY <2>1, <2>3, <2>4, LinedFrame
  <1> QED BY <1>1, <1>2, <1>3, <1>4 DEF ShowInv, Sockets

\* A handshake that asks for nothing new.
LEMMA AsksFrame ==
  ASSUME NEW s, NEW seen, Asks(s, seen),
         \A i \in DOMAIN socket'[s].up : socket'[s].up[i].type = "hello" =>
           \E j \in DOMAIN socket[s].up : socket[s].up[j] = socket'[s].up[i],
         socket'[s].phase = "auth" => socket'[s].last = seen,
         \A k \in Queue' : k.type = "attach" /\ k.socket = s => k \in Queue \/ k.msg.n = seen
  PROVE  Asks(s, seen)'
  BY DEF Asks

\* What the engine has to say goes to the tab it talks to, if to anyone.
LEMMA ShowTalks ==
  ASSUME LiveLinkTypeOK, LiveLinkTypeOK', LineInv, ShowInv, tab' = tab,
         NEW out \in Seq(ServerMessage), Announces(out), Carries(engine'.transport, out),
         engine'.transport = engine.transport \/ engine'.transport = 0,
         \A s \in DOMAIN socket :
           /\ Attached(s) => socket'[s].phase = "ready" \/ engine'.busy = s
           /\ socket'[s].phase = "auth" => socket[s].phase = "auth",
         \A k \in Queue' : k.type = "attach" => k \in Queue
  PROVE  ShowInv'
  <1>1. /\ DOMAIN socket' = DOMAIN socket
        /\ \A i \in DOMAIN socket :
             /\ Stands(socket'[i], socket[i]) /\ socket'[i].open = socket[i].open
             /\ socket[i].down \in Seq(ServerMessage) /\ i # 0
             /\ i = engine'.transport /\ socket[i].open => socket'[i].down = socket[i].down \o out
             /\ ~(i = engine'.transport /\ socket[i].open) => socket'[i].down = socket[i].down
    <2>1. \A i \in DOMAIN socket : socket[i].down \in Seq(ServerMessage)
      BY SocketAt
    <2>2. \A i \in DOMAIN socket : i # 0
      BY Typed
    <2> QED BY <2>1, <2>2 DEF Carries
  <1>2. PICK last, next : last = Len(engine.turns) /\ next = Len(engine'.turns)
    OBVIOUS
  <1>3. /\ last \in Nat /\ next \in Nat /\ last <= next
        /\ DOMAIN engine.turns = 1..last /\ DOMAIN engine'.turns = 1..next
    <2>1. engine.turns \in Seq(Turn) /\ engine' \in EngineRecord'
      BY Typed, EngineIs DEF LiveLinkTypeOK
    <2>2. engine'.turns \in Seq({AgentTurn} \cup DOMAIN history'.said)
      BY <2>1 DEF EngineRecord
    <2> QED BY <1>2, <2>1, <2>2 DEF Announces
  <1>4. /\ \A m \in Member(out) : m.type = "saved" /\ m.n <= next
        /\ \A i \in DOMAIN out : out[i].n <= last + 1 \/ \E j \in 1..(i - 1) : out[j].n >= out[i].n - 1
        /\ \A i \in 1..next : i \in 1..last \/ SavedMessage(i) \in Member(out)
    BY <1>2, <1>3 DEF Announces
  <1>5. ASSUME NEW down \in Seq(ServerMessage), Within(down, last)
        PROVE  Within(down, next) /\ Within(down \o out, next)
    <2>1. \A i \in DOMAIN down : down[i] \in ServerMessage /\ High(down[i]) \in Nat
      <3>1. \A i \in DOMAIN down : down[i] \in ServerMessage
        OBVIOUS
      <3> QED BY <3>1, MessageIs
    <2>2. Within(down, next)
      BY <1>3, <1>5, <2>1 DEF Within
    <2>3. \A i \in DOMAIN out : out[i].type = "saved" /\ High(out[i]) <= next
      <3>1. \A i \in DOMAIN out : out[i] \in Member(out)
        BY DEF Member
      <3> QED BY <1>4, <3>1 DEF High
    <2>4. /\ \A i \in DOMAIN down : (down \o out)[i] = down[i]
          /\ \A i \in DOMAIN (down \o out) : i \notin DOMAIN down =>
               i - Len(down) \in DOMAIN out /\ (down \o out)[i] = out[i - Len(down)]
      BY Joining
    <2>5. ASSUME NEW i \in DOMAIN (down \o out)
          PROVE  /\ High((down \o out)[i]) <= next
                 /\ (down \o out)[i].type = "welcome" => (down \o out)[i].n <= (down \o out)[i].to
      BY <2>2, <2>3, <2>4 DEF Within
    <2> QED BY <2>2, <2>5 DEF Within
  <1>6. ASSUME NEW s \in DOMAIN socket PROVE Within(socket[s].down, Len(engine.turns))'
    <2>1. Within(socket[s].down, last)
      BY <1>2 DEF ShowInv, Sockets
    <2>2. Within(socket'[s].down, next)
      BY <1>1, <1>5, <2>1
    <2> QED BY <1>2, <2>2 DEF Within
  <1>7. ASSUME NEW t \in Tabs PROVE Shown(t)'
    BY <1>2, <1>3, TabAt DEF ShowInv, Shown
  <1>8. ASSUME NEW t \in Tabs, tab[t].ws # 0 PROVE Lined(t)'
    <2>1. PICK s, seen : s = tab[t].ws /\ seen = tab[t].lastSeq
      OBVIOUS
    <2>2. s \in DOMAIN socket /\ seen \in Nat /\ tab[t].welcomed \in BOOLEAN /\ seen <= last
      BY <1>2, <1>8, <2>1, TabAt DEF ShowInv, Shown
    <2>3. /\ ~Attached(s) => socket[s].down = << >> /\ ~tab[t].welcomed
          /\ Told(socket[s].down, tab[t].welcomed, seen)
          /\ ~tab[t].welcomed => Asks(s, seen)
          /\ socket[s].open /\ engine.transport = s =>
               Reaches(socket[s].down, seen, last) /\ (tab[t].welcomed \/ socket[s].down # << >>)
          /\ Within(socket[s].down, last)
      BY <1>2, <1>8, <2>1, <2>2 DEF ShowInv, Lined, Sockets
    <2>4. Asks(s, seen) => Asks(s, seen)'
      BY <1>1, <2>2, AsksFrame DEF Stands, Asks
    <2>5. engine'.transport = s => engine.transport = s /\ Attached(s)
      BY <1>1, <2>2 DEF LineInv, EngineOK
    <2>6. /\ Told(socket'[s].down, tab[t].welcomed, seen)
          /\ socket'[s].open /\ engine'.transport = s =>
               Reaches(socket'[s].down, seen, next) /\ (tab[t].welcomed \/ socket'[s].down # << >>)
      <3>1. CASE s = engine'.transport /\ socket[s].open
        <4>1. PICK down \in Seq(ServerMessage) : down = socket[s].down /\ socket'[s].down = down \o out
          BY <1>1, <2>2, <3>1
        <4>2. /\ Told(down \o out, tab[t].welcomed, seen) /\ Reaches(down \o out, seen, next)
              /\ down \o out # << >> \/ tab[t].welcomed
          BY <1>3, <1>4, <2>2, <2>3, <2>5, <3>1, <4>1, ToldMore
        <4> QED BY <4>1, <4>2
      <3>2. CASE ~(s = engine'.transport /\ socket[s].open)
        BY <1>1, <2>2, <2>3, <3>2
      <3> QED BY <3>1, <3>2
    <2>7. ~Attached(s)' => ~Attached(s) /\ engine'.transport # s
      BY <2>2, <2>5 DEF Attached
    <2>8. ~Attached(s)' => socket'[s].down = << >> /\ ~tab[t].welcomed
      BY <1>1, <2>2, <2>3, <2>7
    <2>9. /\ Attached(s)' <=> Attached(tab[t].ws)'
          /\ Asks(s, seen)' => Asks(tab[t].ws, tab[t].lastSeq)'
          /\ Told(socket'[s].down, tab[t].welcomed, seen) => Told(socket[tab[t].ws].down, tab[t].welcomed, tab[t].lastSeq)'
          /\ Reaches(socket'[s].down, seen, next) => Reaches(socket[tab[t].ws].down, tab[t].lastSeq, Len(engine.turns))'
      BY <1>2, <2>1 DEF Attached, Asks, Told, Reaches
    <2> QED BY <2>1, <2>3, <2>4, <2>6, <2>8, <2>9 DEF Lined
  <1> QED BY <1>1, <1>6, <1>7, <1>8 DEF ShowInv, Sockets

\* A step at one socket which sends nothing down.
LEMMA ShowOne ==
  ASSUME LiveLinkTypeOK, ShowInv, tab' = tab, NEW s, NEW r, OneSocket(s, r),
         r.down = socket[s].down, r.open => socket[s].open,
         socket[s].phase = "ready" => r.phase = "ready",
         engine'.turns = engine.turns, engine'.transport = engine.transport, engine'.busy = engine.busy,
         \A k \in Queue' : k.type = "attach" => k \in Queue \/ k.socket = s,
         \A seen \in Nat : Asks(s, seen) => Asks(s, seen)'
  PROVE  ShowInv'
  <1>1. /\ DOMAIN socket' = DOMAIN socket /\ socket'[s] = r /\ s \in DOMAIN socket
        /\ \A i \in DOMAIN socket : i # s => socket'[i] = socket[i]
    BY OneSocketFacts DEF OneSocket
  <1>2. ASSUME NEW i \in DOMAIN socket, NEW seen \in Nat, Asks(i, seen) PROVE Asks(i, seen)'
    <2>1. CASE i = s
      BY <1>2, <2>1
    <2>2. CASE i # s
      <3>1. socket'[i] = socket[i]
        BY <1>1, <2>2
      <3>2. \A k \in Queue' : k.type = "attach" /\ k.socket = i => k \in Queue
        BY <2>2
      <3> QED BY <1>2, <3>1, <3>2 DEF Asks
    <2> QED BY <2>1, <2>2
  <1>3. ASSUME NEW i \in DOMAIN socket
        PROVE  /\ socket'[i].down = socket[i].down
               /\ Attached(i) => socket'[i].phase = "ready" \/ engine'.busy = i
               /\ socket'[i].open /\ engine'.transport = i => socket[i].open /\ engine.transport = i
    BY <1>1 DEF Attached
  <1> QED BY <1>1, <1>2, <1>3, ShowFrame

LEMMA ShowConnect ==
  ASSUME LiveLinkTypeOK, ShowInv, NEW t \in Tabs, Connect(t)
  PROVE  ShowInv'
  <1>1. PICK c :
           /\ OneTab(t, c) /\ socket' = socket /\ engine' = engine
           /\ c.ws = tab[t].ws /\ c.welcomed = tab[t].welcomed
           /\ c.shown = tab[t].shown /\ c.lastSeq = tab[t].lastSeq
    BY ConnectFacts
  <1>2. \A u \in Tabs : /\ tab'[u].ws = tab[u].ws /\ tab'[u].welcomed = tab[u].welcomed
                        /\ tab'[u].lastSeq = tab[u].lastSeq /\ tab'[u].shown = tab[u].shown
    BY <1>1, OneTabFacts
  <1>3. \A s \in DOMAIN socket : \A seen \in Nat : Asks(s, seen) => Asks(s, seen)'
    BY <1>1 DEF Asks, Queue
  <1>4. \A s \in DOMAIN socket :
           /\ socket'[s].down = socket[s].down
           /\ Attached(s) => socket'[s].phase = "ready" \/ engine'.busy = s
           /\ socket'[s].open /\ engine'.transport = s => socket[s].open /\ engine.transport = s
    BY <1>1 DEF Attached
  <1> QED BY <1>1, <1>2, <1>3, <1>4, ShowFrame

LEMMA ShowPosts ==
  ASSUME LiveLinkTypeOK, ShowInv, NEW t \in Tabs, NEW m, m.type # "hello",
         Posts(t, m), m \in ClientMessage', ClientMessage \subseteq ClientMessage', engine' = engine,
         \A u \in Tabs : /\ tab'[u].ws = tab[u].ws /\ tab'[u].welcomed = tab[u].welcomed
                         /\ tab'[u].lastSeq = tab[u].lastSeq /\ tab'[u].shown = tab[u].shown
  PROVE  ShowInv'
  <1>1. /\ DOMAIN socket' = DOMAIN socket
        /\ \A i \in DOMAIN socket : Kept(socket'[i], socket[i]) /\ socket'[i].down = socket[i].down
    BY DEF Posts
  <1>2. ASSUME NEW s \in DOMAIN socket, NEW seen \in Nat, Asks(s, seen) PROVE Asks(s, seen)'
    <2>1. socket[s].up \in Seq(ClientMessage')
      <3>1. Seq(ClientMessage) \subseteq Seq(ClientMessage')
        BY Wider
      <3> QED BY <3>1, SocketAt
    <2>2. socket'[s].up = socket[s].up \/ socket'[s].up = Append(socket[s].up, m)
      BY DEF Posts
    <2>3. /\ DOMAIN Append(socket[s].up, m) = DOMAIN socket[s].up \cup {Len(socket[s].up) + 1}
          /\ \A i \in DOMAIN socket[s].up : Append(socket[s].up, m)[i] = socket[s].up[i]
          /\ Append(socket[s].up, m)[Len(socket[s].up) + 1] = m
      BY <2>1, Appended
    <2>4. \A i \in DOMAIN socket'[s].up : socket'[s].up[i].type = "hello" =>
             \E j \in DOMAIN socket[s].up : socket[s].up[j] = socket'[s].up[i]
      BY <2>2, <2>3
    <2>5. \A k \in Queue' : k \in Queue
      BY DEF Queue
    <2> QED BY <1>1, <1>2, <2>4, <2>5, AsksFrame DEF Kept, Asks
  <1>3. \A s \in DOMAIN socket :
           /\ socket'[s].down = socket[s].down
           /\ Attached(s) => socket'[s].phase = "ready" \/ engine'.busy = s
           /\ socket'[s].open /\ engine'.transport = s => socket[s].open /\ engine.transport = s
    BY <1>1 DEF Attached, Kept
  <1> QED BY <1>1, <1>2, <1>3, ShowFrame

LEMMA ShowSay ==
  ASSUME LiveLinkTypeOK, ShowInv, NEW t \in Tabs, Say(t)
  PROVE  ShowInv'
  <1>0. PICK n : n = Len(history.said) + 1
    OBVIOUS
  <1>1. /\ LiveLinkTypeOK' /\ Posts(t, Final(n)) /\ engine' = engine
        /\ \A u \in Tabs : /\ tab'[u].ws = tab[u].ws /\ tab'[u].welcomed = tab[u].welcomed
                           /\ tab'[u].lastSeq = tab[u].lastSeq /\ tab'[u].shown = tab[u].shown
        /\ history'.said = Append(history.said, t) /\ history'.sent = history.sent
    BY <1>0, SayFacts
  <1>2. DOMAIN history'.said = DOMAIN history.said \cup {n}
    BY <1>0, <1>1, Typed, Appended
  <1>3. Final(n) \in ClientMessage' /\ ClientMessage \subseteq ClientMessage' /\ Final(n).type # "hello"
    BY <1>1, <1>2 DEF ClientMessage, Final
  <1> QED BY <1>1, <1>3, ShowPosts

LEMMA ShowDurable ==
  ASSUME LiveLinkTypeOK, ShowInv, NEW t \in Tabs, NEW type \in Durables, SendDurable(t, type)
  PROVE  ShowInv'
  <1>0. PICK n, x : n = Len(history.sent) + 1 /\ x = [tab |-> t, type |-> type]
    OBVIOUS
  <1>1. /\ LiveLinkTypeOK' /\ Posts(t, Durable(n)) /\ engine' = engine
        /\ \A u \in Tabs : /\ tab'[u].ws = tab[u].ws /\ tab'[u].welcomed = tab[u].welcomed
                           /\ tab'[u].lastSeq = tab[u].lastSeq /\ tab'[u].shown = tab[u].shown
        /\ history'.sent = Append(history.sent, x) /\ history'.said = history.said
    BY <1>0, DurableFacts
  <1>2. DOMAIN history'.sent = DOMAIN history.sent \cup {n}
    <2>1. x \in [tab: Tabs, type: Durables]
      BY <1>0
    <2> QED BY <1>0, <1>1, <2>1, Typed, Appended
  <1>3. Durable(n) \in ClientMessage' /\ ClientMessage \subseteq ClientMessage' /\ Durable(n).type # "hello"
    BY <1>1, <1>2 DEF ClientMessage, Durable
  <1> QED BY <1>1, <1>3, ShowPosts

LEMMA ShowGatewayReceives ==
  ASSUME LiveLinkTypeOK, ShowInv, NEW s \in Sockets, GatewayReceives(s)
  PROVE  ShowInv'
  <1>1. PICK m : m = Head(socket[s].up)
    OBVIOUS
  <1>2. PICK r :
           /\ OneSocket(s, r) /\ r.open = socket[s].open /\ r.down = socket[s].down
           /\ \/ /\ socket[s].phase = "new" /\ m.type = "hello" /\ r.phase = "auth" /\ r.last = m.n
                 /\ r.up = Tail(socket[s].up) /\ engine' = engine
              \/ /\ r.phase = socket[s].phase /\ r.last = socket[s].last
                 /\ r.up = Tail(socket[s].up) /\ engine' = engine
              \/ /\ r.phase = socket[s].phase /\ r.last = socket[s].last
                 /\ r.up = Tail(socket[s].up)
                 /\ engine' = [engine EXCEPT !.queue = Append(engine.queue, Task("message", s, m))]
              \/ /\ r.phase = socket[s].phase /\ r.last = socket[s].last
                 /\ r.up = << >> /\ engine' = engine
    BY <1>1, ReceivesFacts DEF Kept
  <1>3. tab' = tab /\ m \in ClientMessage /\ socket[s].up # << >>
    BY <1>1, ReceivesFacts
  <1>4. s \in DOMAIN socket /\ socket'[s] = r
    BY <1>2, OneSocketFacts DEF OneSocket
  <1>5. /\ socket[s].up[1] = m /\ 1 \in DOMAIN socket[s].up
        /\ \A i \in DOMAIN Tail(socket[s].up) : i + 1 \in DOMAIN socket[s].up /\ Tail(socket[s].up)[i] = socket[s].up[i + 1]
    BY <1>1, <1>3, <1>4, SocketAt, Taking
  <1>6. /\ engine'.turns = engine.turns /\ engine'.transport = engine.transport /\ engine'.busy = engine.busy
        /\ \A k \in Queue' : k.type = "attach" => k \in Queue
    <2>1. engine.queue \in Seq(TaskRecord)
      BY Typed, EngineIs
    <2>2. PICK x : x = Task("message", s, m)
      OBVIOUS
    <2>3. x \in TaskRecord /\ x.type = "message"
      BY <1>3, <1>4, <2>2 DEF TaskRecord, Task
    <2>4. Member(Append(engine.queue, x)) = Queue \cup {x}
      BY <2>1, <2>3, Appended DEF Queue
    <2>5. engine' = engine \/ engine' = [engine EXCEPT !.queue = Append(engine.queue, x)]
      BY <1>2, <2>2
    <2>6. /\ engine'.turns = engine.turns /\ engine'.transport = engine.transport /\ engine'.busy = engine.busy
          /\ engine'.queue = engine.queue \/ engine'.queue = Append(engine.queue, x)
      BY <2>5, Typed DEF EngineRecord
    <2> QED BY <2>3, <2>4, <2>6 DEF Queue
  <1>7. ASSUME NEW seen \in Nat, Asks(s, seen) PROVE Asks(s, seen)'
    <2>1. \A i \in DOMAIN r.up : \E j \in DOMAIN socket[s].up : socket[s].up[j] = r.up[i]
      <3>1. r.up = << >> \/ r.up = Tail(socket[s].up)
        BY <1>2
      <3>2. CASE r.up = << >>
        <4>1. DOMAIN r.up = {}
          BY <3>2
        <4> QED BY <4>1
      <3>3. CASE r.up = Tail(socket[s].up)
        BY <1>5, <3>3
      <3> QED BY <3>1, <3>2, <3>3
    <2>2. r.phase = "auth" => r.last = seen
      BY <1>2, <1>5, <1>7 DEF Asks
    <2> QED BY <1>4, <1>6, <1>7, <2>1, <2>2, AsksFrame
  <1> QED BY <1>2, <1>3, <1>6, <1>7, ShowOne

LEMMA ShowAuthenticated ==
  ASSUME LiveLinkTypeOK, ShowInv, NEW s \in Sockets, Authenticated(s)
  PROVE  ShowInv'
  <1>1. PICK x : x = Task("attach", s, Hello(socket[s].last))
    OBVIOUS
  <1>2. PICK r :
           /\ OneSocket(s, r) /\ r.open = socket[s].open /\ r.up = socket[s].up
           /\ r.down = socket[s].down /\ r.phase = "queued"
    BY AuthenticatedFacts
  <1>3. /\ tab' = tab /\ socket[s].phase = "auth" /\ engine'.turns = engine.turns
        /\ engine'.queue = Append(engine.queue, x) /\ x \in TaskRecord
        /\ engine'.busy = engine.busy /\ engine'.transport = engine.transport
    BY <1>1, AuthenticatedFacts
  <1>4. s \in DOMAIN socket /\ socket'[s] = r
    BY <1>2, OneSocketFacts DEF OneSocket
  <1>5. x.socket = s /\ x.msg.n = socket[s].last
    BY <1>1 DEF Task, Hello
  <1>6. Queue' = Queue \cup {x}
    <2>1. engine.queue \in Seq(TaskRecord)
      BY Typed, EngineIs
    <2> QED BY <1>3, <2>1, Appended DEF Queue
  <1>7. ASSUME NEW seen \in Nat, Asks(s, seen) PROVE Asks(s, seen)'
    <2>1. socket[s].last = seen
      BY <1>3, <1>7 DEF Asks
    <2> QED BY <1>2, <1>4, <1>5, <1>6, <1>7, <2>1, AsksFrame
  <1> QED BY <1>2, <1>3, <1>5, <1>6, <1>7, ShowOne

LEMMA ShowGivesUp ==
  ASSUME LiveLinkTypeOK, ShowInv, NEW s \in Sockets, HelloTimeout(s) \/ Refused(s) \/ Drop(s)
  PROVE  ShowInv'
  <1>1. /\ tab' = tab /\ engine' = engine
        /\ \E r : /\ OneSocket(s, r) /\ r.open = FALSE /\ r.up = socket[s].up /\ r.down = socket[s].down
                  /\ \/ r.phase = socket[s].phase /\ r.last = socket[s].last
                     \/ r.phase = "refused" /\ socket[s].phase = "auth"
    <2>1. CASE HelloTimeout(s) \/ Refused(s)
      <3>1. PICK r : /\ OneSocket(s, r) /\ r.open = FALSE /\ r.up = socket[s].up /\ r.down = socket[s].down
                     /\ \/ r.phase = socket[s].phase /\ r.last = socket[s].last
                        \/ r.phase = "refused" /\ socket[s].phase = "auth" /\ r.last = 0
        BY <2>1, GivesUpFacts
      <3> QED BY <2>1, <3>1, GivesUpFacts
    <2>2. CASE Drop(s)
      <3>1. PICK r : /\ OneSocket(s, r) /\ r.open = FALSE /\ r.up = socket[s].up /\ r.down = socket[s].down
                     /\ r.phase = socket[s].phase /\ r.last = socket[s].last
        BY <2>2, DropFacts
      <3> QED BY <2>2, <3>1, DropFacts
    <2> QED BY <2>1, <2>2
  <1>2. PICK r : /\ OneSocket(s, r) /\ r.open = FALSE /\ r.up = socket[s].up /\ r.down = socket[s].down
                 /\ \/ r.phase = socket[s].phase /\ r.last = socket[s].last
                    \/ r.phase = "refused" /\ socket[s].phase = "auth"
    BY <1>1
  <1>3. s \in DOMAIN socket /\ socket'[s] = r
    BY <1>2, OneSocketFacts DEF OneSocket
  <1>4. engine'.turns = engine.turns /\ engine'.transport = engine.transport
        /\ engine'.busy = engine.busy /\ Queue' = Queue
    BY <1>1 DEF Queue
  <1>5. ASSUME NEW seen \in Nat, Asks(s, seen) PROVE Asks(s, seen)'
    BY <1>2, <1>3, <1>4, <1>5, AsksFrame DEF Asks
  <1> QED BY <1>1, <1>2, <1>4, <1>5, ShowOne

LEMMA ShowGatewayNotices ==
  ASSUME LiveLinkTypeOK, ShowInv, NEW s \in Sockets, GatewayNotices(s)
  PROVE  ShowInv'
  <1>1. PICK x : x = Task("detach", s, NoMessage)
    OBVIOUS
  <1>2. PICK r :
           /\ OneSocket(s, r) /\ r.open = socket[s].open /\ r.phase = socket[s].phase
           /\ r.last = socket[s].last /\ r.up = << >> /\ r.down = socket[s].down
    BY GoneFacts
  <1>3. /\ tab' = tab /\ engine'.turns = engine.turns
        /\ engine'.queue = IF socket[s].phase = "ready" THEN Append(engine.queue, x) ELSE engine.queue
        /\ x \in TaskRecord
        /\ engine'.busy = engine.busy /\ engine'.transport = engine.transport
    BY <1>1, GoneFacts
  <1>4. s \in DOMAIN socket /\ socket'[s] = r
    BY <1>2, OneSocketFacts DEF OneSocket
  <1>5. x.type = "detach"
    BY <1>1 DEF Task
  <1>6. \A k \in Queue' : k.type = "attach" => k \in Queue
    <2>1. engine.queue \in Seq(TaskRecord)
      BY Typed, EngineIs
    <2>2. Member(Append(engine.queue, x)) = Queue \cup {x}
      BY <1>3, <2>1, Appended DEF Queue
    <2> QED BY <1>3, <1>5, <2>2 DEF Queue
  <1>7. ASSUME NEW seen \in Nat, Asks(s, seen) PROVE Asks(s, seen)'
    BY <1>2, <1>4, <1>6, <1>7, AsksFrame DEF Asks
  <1> QED BY <1>2, <1>3, <1>6, <1>7, ShowOne

LEMMA ShowRestart ==
  ASSUME LiveLinkTypeOK, ShowInv, Restart
  PROVE  ShowInv'
  <1>1. /\ tab' = tab /\ DOMAIN socket' = DOMAIN socket
        /\ \A i \in DOMAIN socket :
              /\ socket'[i].down = socket[i].down
              /\ socket'[i].phase = "ready" /\ ~socket'[i].open /\ socket'[i].up = << >>
        /\ engine'.queue = << >> /\ engine'.turns = engine.turns
    BY RestartFacts
  <1>2. Queue' = {}
    BY <1>1 DEF Queue, Member
  <1>3. \A s \in DOMAIN socket : \A seen \in Nat : Asks(s, seen)'
    BY <1>1, <1>2 DEF Asks
  <1> QED BY <1>1, <1>3, ShowFrame

LEMMA QueueTail ==
  ASSUME LiveLinkTypeOK, engine.queue # << >>, engine'.queue = Tail(engine.queue)
  PROVE  Queue = Queue' \cup {Head(engine.queue)} /\ Head(engine.queue) \in TaskRecord
  <1>1. engine.queue \in Seq(TaskRecord)
    BY Typed, EngineIs
  <1> QED BY <1>1, Taking DEF Queue

LEMMA ShowEngine ==
  ASSUME LiveLinkTypeOK, LineInv, ShowInv,
         HandleFinal \/ HandleDurable \/ Detach \/ ReplyEnds \/ AttachReturns
  PROVE  ShowInv'
  <1>1. CASE HandleFinal \/ HandleDurable
    <2>1. /\ LiveLinkTypeOK' /\ tab' = tab /\ engine.queue # << >> /\ engine'.busy = engine.busy
          /\ engine'.queue = Tail(engine.queue) /\ engine'.transport = engine.transport /\ SamePhases
      <3>1. CASE HandleFinal
        BY <3>1, HandleFinalFacts
      <3>2. CASE HandleDurable
        BY <3>2, HandleDurableFacts
      <3> QED BY <1>1, <3>1, <3>2
    <2>2. PICK out \in Seq(ServerMessage) : Announces(out) /\ Carries(engine.transport, out)
      <3>1. CASE HandleFinal
        BY <3>1, HandleFinalFacts
      <3>2. CASE HandleDurable
        BY <3>2, HandleDurableFacts
      <3> QED BY <1>1, <3>1, <3>2
    <2>3. \A s \in DOMAIN socket :
           /\ Attached(s) => socket'[s].phase = "ready" \/ engine'.busy = s
           /\ socket'[s].phase = "auth" => socket[s].phase = "auth"
      BY <2>1 DEF SamePhases, Attached
    <2>4. \A k \in Queue' : k \in Queue
      BY <2>1, QueueTail
    <2> QED BY <2>1, <2>2, <2>3, <2>4, ShowTalks
  <1>2. CASE Detach
    <2>0. engine.transport # 0 => engine.st # "RECONNECTING"
      BY DEF LineInv, EngineOK
    <2>1. /\ LiveLinkTypeOK' /\ tab' = tab /\ engine.queue # << >> /\ engine'.busy = engine.busy
          /\ engine'.queue = Tail(engine.queue) /\ SamePhases
          /\ engine'.transport = engine.transport \/ engine'.transport = 0
      BY <1>2, <2>0, DetachFacts
    <2>2. PICK out \in Seq(ServerMessage) : Announces(out) /\ Carries(engine'.transport, out)
      BY <1>2, <2>0, DetachFacts
    <2>3. \A s \in DOMAIN socket :
           /\ Attached(s) => socket'[s].phase = "ready" \/ engine'.busy = s
           /\ socket'[s].phase = "auth" => socket[s].phase = "auth"
      BY <2>1 DEF SamePhases, Attached
    <2>4. \A k \in Queue' : k \in Queue
      BY <2>1, QueueTail
    <2> QED BY <2>1, <2>2, <2>3, <2>4, ShowTalks
  <1>3. CASE ReplyEnds
    <2>1. /\ LiveLinkTypeOK' /\ tab' = tab /\ engine'.busy = engine.busy
          /\ engine'.queue = engine.queue /\ SamePhases /\ engine'.transport = engine.transport
      BY <1>3, ReplyEndsFacts
    <2>2. PICK out \in Seq(ServerMessage) : Announces(out) /\ Carries(engine.transport, out)
      BY <1>3, ReplyEndsFacts
    <2>3. \A s \in DOMAIN socket :
           /\ Attached(s) => socket'[s].phase = "ready" \/ engine'.busy = s
           /\ socket'[s].phase = "auth" => socket[s].phase = "auth"
      BY <2>1 DEF SamePhases, Attached
    <2>4. \A k \in Queue' : k \in Queue
      BY <2>1 DEF Queue
    <2> QED BY <2>1, <2>2, <2>3, <2>4, ShowTalks
  <1>4. CASE AttachReturns
    <2>0. PICK s, x : s = engine.busy /\ x = Task("detach", s, NoMessage)
      OBVIOUS
    <2>1. /\ LiveLinkTypeOK' /\ tab' = tab /\ s # 0 /\ s \in DOMAIN socket
          /\ engine'.queue = IF socket[s].closed THEN Append(engine.queue, x) ELSE engine.queue
          /\ x \in TaskRecord /\ engine'.busy = 0
          /\ engine'.transport = engine.transport
          /\ socket'[s].phase = "ready"
          /\ \A i \in DOMAIN socket : i # s => socket'[i].phase = socket[i].phase
      BY <1>4, <2>0, AttachReturnsFacts
    <2>2. PICK out \in Seq(ServerMessage) : Announces(out) /\ Carries(engine.transport, out)
      BY <1>4, AttachReturnsFacts
    <2>3. \A i \in DOMAIN socket :
           /\ Attached(i) => socket'[i].phase = "ready" \/ engine'.busy = i
           /\ socket'[i].phase = "auth" => socket[i].phase = "auth"
      BY <2>0, <2>1 DEF Attached
    <2>4. \A k \in Queue' : k.type = "attach" => k \in Queue
      <3>1. engine.queue \in Seq(TaskRecord)
        BY Typed, EngineIs
      <3>2. Member(Append(engine.queue, x)) = Queue \cup {x}
        BY <2>1, <3>1, Appended DEF Queue
      <3>3. x.type = "detach"
        BY <2>0 DEF Task
      <3> QED BY <2>1, <3>2, <3>3 DEF Queue
    <2> QED BY <2>1, <2>2, <2>3, <2>4, ShowTalks
  <1> QED BY <1>1, <1>2, <1>3, <1>4

LEMMA ShowOpen ==
  ASSUME LiveLinkTypeOK, LineInv, ShowInv, NEW t \in Tabs, Open(t)
  PROVE  ShowInv'
  <1>0. PICK s : s = Len(socket) + 1
    OBVIOUS
  <1>1. /\ LiveLinkTypeOK' /\ engine' = engine /\ tab[t].ws = 0
        /\ DOMAIN socket' = DOMAIN socket \cup {s} /\ s \notin DOMAIN socket /\ s # 0
        /\ \A i \in DOMAIN socket : socket'[i] = socket[i]
        /\ socket'[s].phase = "new" /\ socket'[s].down = << >>
        /\ socket'[s].up = <<Hello(tab[t].lastSeq)>>
        /\ tab'[t].ws = s /\ tab'[t].welcomed = FALSE /\ tab'[t].lastSeq = tab[t].lastSeq
        /\ tab'[t].shown = tab[t].shown
        /\ \A u \in Tabs : u # t => tab'[u] = tab[u]
    BY <1>0, OpenFacts
  <1>2. /\ engine.transport # s
        /\ \A k \in Queue : k.socket # s
    <2>1. engine.transport # 0 => engine.transport \in DOMAIN socket
      BY Typed, EngineIs
    <2> QED BY <1>1, <2>1, LineAt
  <1>3. Queue' = Queue
    BY <1>1 DEF Queue
  <1>4. ASSUME NEW i \in DOMAIN socket' PROVE Within(socket[i].down, Len(engine.turns))'
    <2>1. CASE i = s
      <3>1. socket'[i].down = << >>
        BY <1>1, <2>1
      <3> QED BY <3>1 DEF Within
    <2>2. CASE i # s
      <3>1. i \in DOMAIN socket /\ socket'[i].down = socket[i].down
        BY <1>1, <2>2
      <3>2. Within(socket[i].down, Len(engine.turns))
        BY <3>1 DEF ShowInv, Sockets
      <3> QED BY <1>1, <3>1, <3>2 DEF Within
    <2> QED BY <2>1, <2>2
  <1>5. ASSUME NEW u \in Tabs PROVE Shown(u)'
    BY <1>1 DEF ShowInv, Shown
  <1>6. Lined(t)'
    <2>1. socket'[s].down = << >> /\ ~tab'[t].welcomed /\ tab'[t].ws = s
      BY <1>1
    <2>2. Told(socket[tab[t].ws].down, tab[t].welcomed, tab[t].lastSeq)'
      BY <2>1 DEF Told
    <2>3. Asks(tab[t].ws, tab[t].lastSeq)'
      <3>1. \A i \in DOMAIN socket'[s].up : socket'[s].up[i].n = tab[t].lastSeq
        BY <1>1 DEF Hello
      <3> QED BY <1>1, <1>2, <1>3, <3>1 DEF Asks
    <2> QED BY <1>1, <1>2, <2>1, <2>2, <2>3 DEF Lined
  <1>7. ASSUME NEW u \in Tabs, u # t, tab[u].ws # 0 PROVE Lined(u)'
    <2>1. PICK i, seen : i = tab[u].ws /\ seen = tab[u].lastSeq
      OBVIOUS
    <2>2. i \in DOMAIN socket /\ socket'[i] = socket[i] /\ tab'[u] = tab[u]
      BY <1>1, <1>7, <2>1, TabAt
    <2>3. Lined(u)
      BY <1>7 DEF ShowInv
    <2>4. Asks(i, seen) => Asks(i, seen)'
      BY <1>3, <2>2 DEF Asks
    <2>5. Attached(i) => socket'[i].phase = "ready" \/ engine'.busy = i
      BY <1>1, <2>2 DEF Attached
    <2> QED BY <1>1, <2>1, <2>2, <2>3, <2>4, <2>5, LinedFrame
  <1> QED BY <1>1, <1>4, <1>5, <1>6, <1>7 DEF ShowInv, Sockets

\* Only what one tab shows, and its socket, changes.
LEMMA ShowTab ==
  ASSUME LiveLinkTypeOK, LineInv, ShowInv, NEW t \in Tabs, NEW c, OneTab(t, c),
         NEW s, NEW r, OneSocket(s, r), s = tab[t].ws, engine' = engine,
         Within(r.down, Len(engine.turns)), Shown(t)', c.ws # 0 => Lined(t)'
  PROVE  ShowInv'
  <1>1. /\ DOMAIN socket' = DOMAIN socket /\ socket'[s] = r /\ s \in DOMAIN socket
        /\ \A i \in DOMAIN socket : i # s => socket'[i] = socket[i]
        /\ tab'[t] = c /\ \A u \in Tabs : u # t => tab'[u] = tab[u]
    BY OneSocketFacts, OneTabFacts DEF OneSocket
  <1>2. Queue' = Queue
    BY DEF Queue
  <1>3. s # 0 /\ socket[s].tab = t
    <2>1. s # 0
      BY <1>1, Typed
    <2> QED BY <2>1 DEF LineInv, TabOK
  <1>4. ASSUME NEW i \in DOMAIN socket PROVE Within(socket[i].down, Len(engine.turns))'
    <2>1. CASE i = s
      <3>1. socket'[i].down = r.down
        BY <1>1, <2>1
      <3> QED BY <3>1 DEF Within
    <2>2. CASE i # s
      <3>1. socket'[i].down = socket[i].down
        BY <1>1, <2>2
      <3>2. Within(socket[i].down, Len(engine.turns))
        BY DEF ShowInv, Sockets
      <3> QED BY <3>1, <3>2 DEF Within
    <2> QED BY <2>1, <2>2
  <1>5. ASSUME NEW u \in Tabs PROVE Shown(u)'
    <2>1. CASE u = t
      BY <2>1
    <2>2. CASE u # t
      BY <1>1, <2>2 DEF ShowInv, Shown
    <2> QED BY <2>1, <2>2
  <1>7. ASSUME NEW u \in Tabs, u # t, tab[u].ws # 0 PROVE Lined(u)'
    <2>1. PICK i, seen : i = tab[u].ws /\ seen = tab[u].lastSeq
      OBVIOUS
    <2>2. i # s
      BY <1>3, <1>7, <2>1 DEF LineInv, TabOK
    <2>3. i \in DOMAIN socket /\ socket'[i] = socket[i] /\ tab'[u] = tab[u]
      BY <1>1, <1>7, <2>1, <2>2, TabAt
    <2>4. Lined(u)
      BY <1>7 DEF ShowInv
    <2>5. Asks(i, seen) => Asks(i, seen)'
      BY <1>2, <2>3 DEF Asks
    <2>6. Attached(i) => socket'[i].phase = "ready" \/ engine'.busy = i
      BY <2>3 DEF Attached
    <2> QED BY <2>1, <2>3, <2>4, <2>5, <2>6, LinedFrame
  <1> QED BY <1>1, <1>4, <1>5, <1>7 DEF ShowInv, Sockets

LEMMA ShowNotices ==
  ASSUME LiveLinkTypeOK, LineInv, ShowInv, NEW t \in Tabs, ClientNotices(t)
  PROVE  ShowInv'
  <1>1. PICK s, c, r :
           /\ OneTab(t, c) /\ OneSocket(s, r) /\ s = tab[t].ws
           /\ c.ws = 0 /\ c.shown = tab[t].shown /\ c.lastSeq = tab[t].lastSeq
           /\ r.down = << >> /\ engine' = engine
    BY NoticesFacts
  <1>2. Within(r.down, Len(engine.turns))
    BY <1>1 DEF Within
  <1>3. tab'[t] = c
    BY <1>1, OneTabFacts
  <1>4. Shown(t)'
    BY <1>1, <1>3 DEF ShowInv, Shown
  <1> QED BY <1>1, <1>2, <1>4, ShowTab

LEMMA ShowReceives ==
  ASSUME LiveLinkTypeOK, LineInv, ShowInv, NEW t \in Tabs, ClientReceives(t)
  PROVE  ShowInv'
  <1>a. PICK s \in DOMAIN socket, m \in ServerMessage : \E c, r : Receives(t, s, m, c, r)
    BY ClientReceivesFacts
  <1>0. PICK c, r : Receives(t, s, m, c, r)
    BY <1>a
  <1>1. /\ engine' = engine /\ s = tab[t].ws /\ s # 0 /\ socket[s].down # << >> /\ m = Head(socket[s].down)
        /\ OneTab(t, c) /\ OneSocket(s, r) /\ c.ws = s
        /\ Kept(r, socket[s]) /\ r.down = Tail(socket[s].down)
        /\ Greeted(t, s, m, c, r) \/ Updated(t, s, m, c, r)
    <2>1. engine' = engine
      BY ClientReceivesFacts
    <2>2. s # 0
      BY Typed
    <2> QED BY <1>0, <2>1, <2>2 DEF Receives
  <1>2. PICK seen, last : seen = tab[t].lastSeq /\ last = Len(engine.turns)
    OBVIOUS
  <1>3. /\ seen \in Nat /\ last \in Nat /\ seen <= last /\ tab[t].shown = 1..seen
        /\ socket[s].down \in Seq(ServerMessage) /\ tab[t].welcomed \in BOOLEAN
    <2>1. engine.turns \in Seq(Turn)
      BY Typed, EngineIs
    <2>2. socket[s].down \in Seq(ServerMessage)
      BY SocketAt
    <2> QED BY <1>2, <2>1, <2>2, TabAt DEF ShowInv, Shown
  <1>4. PICK down \in Seq(ServerMessage) : down = socket[s].down
    BY <1>3
  <1>5. /\ Attached(s)
        /\ Told(down, tab[t].welcomed, seen) /\ Within(down, last)
        /\ socket[s].open /\ engine.transport = s => Reaches(down, seen, last)
    <2>1. Lined(t)
      BY <1>1 DEF ShowInv
    <2>2. Attached(s) <=> Attached(tab[t].ws)
      BY <1>1 DEF Attached
    <2>3. Within(down, last)
      BY <1>2, <1>4 DEF ShowInv, Sockets
    <2> QED BY <1>1, <1>2, <1>4, <2>1, <2>2, <2>3 DEF Lined
  <1>c. PICK w \in BOOLEAN : w = tab[t].welcomed /\ Told(down, w, seen) /\ Within(down, last)
    BY <1>3, <1>5
  <1>b. down # << >> /\ m = Head(down)
    BY <1>1, <1>4
  <1>6. PICK then \in Nat : /\ then = c.lastSeq /\ c.shown = 1..then /\ then <= last /\ c.welcomed = TRUE
                            /\ Told(Tail(down), TRUE, then)
                            /\ Reaches(down, seen, last) => Reaches(Tail(down), then, last)
    <2>1. CASE Greeted(t, s, m, c, r)
      <3>1. /\ m.type = "welcome" /\ c.welcomed = TRUE /\ c.shown = tab[t].shown \cup (m.n + 1)..m.to
            /\ m.n = tab[t].lastSeq /\ m.n <= m.to => c.lastSeq = m.to
        BY <2>1 DEF Greeted
      <3>2. /\ m.n = seen /\ m.n <= m.to /\ m.to <= last /\ m.to \in Nat
            /\ Told(Tail(down), TRUE, m.to)
            /\ Reaches(down, seen, last) => Reaches(Tail(down), m.to, last)
        BY <1>3, <1>b, <1>c, <3>1, ToldWelcome
      <3>3. c.lastSeq = m.to /\ c.shown = 1..m.to
        BY <1>2, <1>3, <3>1, <3>2
      <3> QED BY <3>1, <3>2, <3>3
    <2>2. CASE Updated(t, s, m, c, r)
      <3>1. /\ m.type = "saved" /\ c.welcomed = tab[t].welcomed
            /\ c.shown = tab[t].shown \cup {m.n}
            /\ c.lastSeq = IF tab[t].lastSeq <= m.n THEN m.n ELSE tab[t].lastSeq
        BY <2>2 DEF Updated
      <3>2. PICK then : then = IF seen <= m.n THEN m.n ELSE seen
        OBVIOUS
      <3>3. /\ tab[t].welcomed /\ m.n \in Nat /\ m.n # 0 /\ m.n <= seen + 1 /\ m.n <= last
            /\ Told(Tail(down), TRUE, then)
            /\ Reaches(down, seen, last) => Reaches(Tail(down), then, last)
        BY <1>3, <1>b, <1>c, <3>1, <3>2, ToldSaved
      <3>4. c.lastSeq = then /\ c.shown = 1..then /\ then <= last /\ then \in Nat
        BY <1>2, <1>3, <3>1, <3>2, <3>3
      <3> QED BY <1>3, <3>1, <3>3, <3>4
    <2> QED BY <1>1, <2>1, <2>2
  <1>7. /\ tab'[t] = c /\ socket'[s] = r /\ Queue' = Queue
    BY <1>1, OneTabFacts, OneSocketFacts DEF Queue
  <1>8. Within(r.down, last)
    <2>1. \A i \in DOMAIN Tail(down) : i + 1 \in DOMAIN down /\ Tail(down)[i] = down[i + 1]
      BY <1>1, <1>4, Taking
    <2> QED BY <1>1, <1>4, <1>5, <2>1 DEF Within
  <1>9. Shown(t)'
    BY <1>1, <1>2, <1>6, <1>7 DEF Shown
  <1>10. Lined(t)'
    <2>1. socket'[s].phase = socket[s].phase /\ socket'[s].open = socket[s].open
          /\ socket'[s].down = Tail(down) /\ tab'[t].ws = s /\ tab'[t].welcomed = TRUE /\ tab'[t].lastSeq = then
      BY <1>1, <1>4, <1>6, <1>7 DEF Kept
    <2>2. Attached(tab[t].ws)'
      BY <1>1, <1>5, <2>1 DEF Attached
    <2>3. Told(socket[tab[t].ws].down, tab[t].welcomed, tab[t].lastSeq)'
      BY <1>6, <2>1 DEF Told
    <2>4. socket'[s].open /\ engine'.transport = s => Reaches(Tail(down), then, last)
      BY <1>1, <1>5, <1>6, <2>1
    <2>5. Reaches(Tail(down), then, last) => Reaches(socket[tab[t].ws].down, tab[t].lastSeq, Len(engine.turns))'
      BY <1>1, <1>2, <2>1 DEF Reaches
    <2> QED BY <2>1, <2>2, <2>3, <2>4, <2>5 DEF Lined
  <1> QED BY <1>1, <1>2, <1>8, <1>9, <1>10, ShowTab

LEMMA ShowAttach ==
  ASSUME LiveLinkTypeOK, LineInv, ShowInv, Attach
  PROVE  ShowInv'
  <1>0. PICK s, old, x, n, last :
           /\ s = Head(engine.queue).socket /\ old = engine.transport /\ x = Task("detach", s, NoMessage)
           /\ n = Head(engine.queue).msg.n /\ last = Len(engine.turns)
    OBVIOUS
  <1>1. /\ LiveLinkTypeOK' /\ tab' = tab /\ engine.busy = 0
        /\ engine.queue # << >> /\ Head(engine.queue).type = "attach" /\ s \in DOMAIN socket
        /\ n \in Nat
        /\ DOMAIN socket' = DOMAIN socket
        /\ \A i \in DOMAIN socket :
              /\ Stands(socket'[i], socket[i])
              /\ socket'[i].open <=> socket[i].open /\ i \notin {old} \ {0, s}
              /\ i # s => socket'[i].phase = socket[i].phase /\ socket'[i].down = socket[i].down
        /\ ~socket[s].open => socket'[s].down = socket[s].down
        /\ socket[s].open => socket'[s].down = socket[s].down \o <<Welcome(engine, n)>>
        /\ Welcome(engine, n) \in ServerMessage
        /\ engine'.transport = s /\ engine'.turns = engine.turns
        /\ \/ /\ engine'.busy = s /\ socket'[s].phase = socket[s].phase /\ engine'.queue = Tail(engine.queue)
           \/ /\ engine'.busy = 0 /\ socket'[s].phase = "ready"
              /\ engine'.queue = IF socket[s].closed THEN Append(Tail(engine.queue), x)
                                 ELSE Tail(engine.queue)
    BY <1>0, AttachFacts
  <1>2. PICK w : w = Welcome(engine, n)
    OBVIOUS
  <1>3. w \in ServerMessage /\ w.type = "welcome" /\ w.n = n /\ w.to = last /\ High(w) = last
    BY <1>0, <1>1, <1>2 DEF Welcome, High
  <1>4. engine.queue \in Seq(TaskRecord) /\ x \in TaskRecord /\ x.type = "detach"
    <2>1. x.type = "detach" /\ x \in TaskRecord
      BY <1>0, <1>1 DEF Task, TaskRecord, NoMessage, ClientMessage
    <2> QED BY <2>1, Typed, EngineIs
  <1>5. /\ Head(engine.queue) \in Queue
        /\ \A k \in Queue' : k.type = "attach" => k \in Queue
    <2>0. PICK q : q = Tail(engine.queue)
      OBVIOUS
    <2>1. q \in Seq(TaskRecord) /\ Queue = {Head(engine.queue)} \cup Member(q)
      BY <1>1, <1>4, <2>0, Taking DEF Queue
    <2>2. Member(Append(q, x)) = Member(q) \cup {x}
      BY <1>4, <2>1, Appended
    <2>3. Queue' \subseteq Member(q) \cup {x}
      BY <1>1, <2>0, <2>2 DEF Queue
    <2> QED BY <1>4, <2>1, <2>3
  <1>6. s # 0 /\ socket[s].phase = "queued" /\ ~Attached(s)
    <2>1. s # 0
      BY <1>1, Typed
    <2>2. socket[s].phase = "queued"
      BY <1>0, <1>1, <1>5 DEF LineInv, EngineOK, TaskOK
    <2> QED BY <1>1, <2>1, <2>2 DEF Attached
  <1>7. /\ Attached(s)'
        /\ \A i \in DOMAIN socket : Attached(i) => socket'[i].phase = "ready" \/ engine'.busy = i
    <2>1. Attached(s)'
      BY <1>1 DEF Attached
    <2>2. \A i \in DOMAIN socket : i # 0
      BY Typed
    <2>3. \A i \in DOMAIN socket : Attached(i) => i # s
      BY <1>6
    <2> QED BY <1>1, <2>1, <2>2, <2>3 DEF Attached
  <1>8. ASSUME NEW i \in DOMAIN socket, NEW seen, Asks(i, seen) PROVE Asks(i, seen)'
    <2>1. socket'[i].up = socket[i].up /\ socket'[i].last = socket[i].last
      BY <1>1 DEF Stands
    <2>2. socket'[i].phase = "auth" => socket[i].phase = "auth"
      BY <1>1, <1>6
    <2> QED BY <1>5, <1>8, <2>1, <2>2, AsksFrame DEF Asks
  \* The tab of the socket.
  <1>9. ASSUME NEW t \in Tabs, tab[t].ws = s
        PROVE  /\ socket[s].down = << >> /\ ~tab[t].welcomed /\ n = tab[t].lastSeq /\ n <= last
               /\ Asks(s, n)
    <2>1. Lined(t) /\ Shown(t)
      BY <1>6, <1>9 DEF ShowInv
    <2>2. ~Attached(tab[t].ws)
      BY <1>6, <1>9 DEF Attached
    <2>3. socket[s].down = << >> /\ ~tab[t].welcomed /\ Asks(s, tab[t].lastSeq)
      BY <1>9, <2>1, <2>2 DEF Lined
    <2>4. n = tab[t].lastSeq
      BY <1>0, <1>1, <1>5, <2>3 DEF Asks
    <2> QED BY <1>0, <2>1, <2>3, <2>4 DEF Shown
  <1>10. ASSUME socket[s].open
         PROVE  socket'[s].down = <<w>> /\ n <= last
    <2>1. socket[s].tab \in Tabs /\ tab[socket[s].tab].ws = s
      BY <1>1, <1>10, SocketAt DEF LineInv, SocketOK, Sockets
    <2>2. socket[s].down = << >> /\ n <= last
      BY <2>1, <1>9
    <2>3. << >> \o <<w>> = <<w>>
      OBVIOUS
    <2> QED BY <1>1, <1>2, <1>10, <2>2, <2>3
  <1>11. ASSUME NEW i \in DOMAIN socket PROVE Within(socket[i].down, Len(engine.turns))'
    <2>1. Within(socket[i].down, last)
      BY <1>0 DEF ShowInv, Sockets
    <2>2. Within(<<w>>, last) \/ ~socket[s].open
      <3>1. last \in Nat
        BY <1>0, Typed, EngineIs
      <3>2. DOMAIN <<w>> = {1} /\ <<w>>[1] = w
        OBVIOUS
      <3> QED BY <1>3, <1>10, <3>1, <3>2 DEF Within
    <2>3. Within(socket'[i].down, last)
      BY <1>1, <1>10, <2>1, <2>2
    <2> QED BY <1>0, <1>1, <2>3 DEF Within
  <1>12. ASSUME NEW t \in Tabs PROVE Shown(t)'
    BY <1>1 DEF ShowInv, Shown
  <1>13. ASSUME NEW t \in Tabs, tab[t].ws # 0 PROVE Lined(t)'
    <2>1. PICK i, seen : i = tab[t].ws /\ seen = tab[t].lastSeq
      OBVIOUS
    <2>2. i \in DOMAIN socket /\ Lined(t) /\ tab'[t] = tab[t]
      BY <1>1, <1>13, <2>1, TabAt DEF ShowInv
    <2>3. CASE i # s
      <3>1. /\ socket'[i].down = socket[i].down
            /\ Attached(i) => socket'[i].phase = "ready" \/ engine'.busy = i
            /\ ~(engine'.transport = i)
            /\ Asks(i, seen) => Asks(i, seen)'
        BY <1>1, <1>7, <1>8, <2>2, <2>3
      <3> QED BY <1>1, <2>1, <2>2, <3>1, LinedFrame
    <2>4. CASE i = s
      <3>1. socket[s].down = << >> /\ ~tab[t].welcomed /\ n = seen /\ n <= last /\ Asks(s, seen)
        BY <1>9, <2>1, <2>4
      <3>2. Asks(s, seen)'
        BY <1>1, <1>8, <3>1
      <3>3. /\ Asks(s, seen)' => Asks(tab[t].ws, tab[t].lastSeq)'
            /\ Attached(s)' => Attached(tab[t].ws)'
        BY <2>1, <2>2, <2>4 DEF Asks, Attached
      <3>4. DOMAIN <<w>> = {1} /\ <<w>>[1] = w /\ <<w>> # << >>
        OBVIOUS
      <3>5. CASE socket[s].open
        <4>1. socket'[s].down = <<w>>
          BY <1>10, <3>5
        <4>2. Told(<<w>>, tab[t].welcomed, seen)
          BY <1>3, <3>1, <3>4 DEF Told
        <4>3. Reaches(<<w>>, seen, last)
          <5>1. High(w) >= last
            <6>1. last \in Nat
              BY <1>0, Typed, EngineIs
            <6> QED BY <1>3, <6>1
          <5> QED BY <3>4, <5>1 DEF Reaches
        <4>4. /\ Told(<<w>>, tab[t].welcomed, seen) => Told(socket[tab[t].ws].down, tab[t].welcomed, tab[t].lastSeq)'
              /\ Reaches(<<w>>, seen, last) => Reaches(socket[tab[t].ws].down, tab[t].lastSeq, Len(engine.turns))'
          <5>1. /\ socket'[tab'[t].ws].down = <<w>> /\ tab'[t].welcomed = tab[t].welcomed
                /\ tab'[t].lastSeq = seen /\ Len(engine'.turns) = last
            <6>1. tab[t].ws = s /\ tab[t].lastSeq = seen /\ tab'[t] = tab[t]
              BY <2>1, <2>2, <2>4
            <6>2. Len(engine'.turns) = last
              BY <1>0, <1>1
            <6> QED BY <4>1, <6>1, <6>2
          <5>2. Told(<<w>>, tab[t].welcomed, seen) => Told(socket[tab[t].ws].down, tab[t].welcomed, tab[t].lastSeq)'
            BY <5>1 DEF Told
          <5>3. Reaches(<<w>>, seen, last) => Reaches(socket[tab[t].ws].down, tab[t].lastSeq, Len(engine.turns))'
            BY <5>1 DEF Reaches
          <5> QED BY <5>2, <5>3
        <4>5. tab'[t].ws = s /\ socket'[tab'[t].ws].down # << >>
          BY <2>1, <2>2, <2>4, <3>4, <4>1
        <4> QED BY <1>7, <3>2, <3>3, <4>2, <4>3, <4>4, <4>5 DEF Lined
      <3>6. CASE ~socket[s].open
        <4>1. socket'[s].down = << >> /\ ~socket'[s].open
          BY <1>1, <3>1, <3>6
        <4>2. Told(socket[tab[t].ws].down, tab[t].welcomed, tab[t].lastSeq)'
          BY <2>1, <2>2, <2>4, <3>1, <4>1 DEF Told
        <4>3. tab'[t].ws = s
          BY <2>1, <2>2, <2>4
        <4> QED BY <1>7, <3>2, <3>3, <4>1, <4>2, <4>3 DEF Lined
      <3> QED BY <3>5, <3>6
    <2> QED BY <2>3, <2>4
  <1> QED BY <1>1, <1>11, <1>12, <1>13 DEF ShowInv, Sockets

LEMMA ShowInit == LiveLinkInit => ShowInv
  <1> SUFFICES ASSUME LiveLinkInit PROVE ShowInv
    OBVIOUS
  <1>1. /\ DOMAIN socket = {} /\ engine.turns = << >>
        /\ \A t \in Tabs : tab[t].ws = 0 /\ tab[t].shown = {} /\ tab[t].lastSeq = 0
    BY DEF LiveLinkInit
  <1>2. ASSUME NEW t \in Tabs PROVE Shown(t)
    <2>1. Len(engine.turns) = 0 /\ tab[t].lastSeq = 0 /\ tab[t].shown = {}
      BY <1>1
    <2>2. 1..0 = {} /\ 0 <= 0
      OBVIOUS
    <2> QED BY <2>1, <2>2 DEF Shown
  <1> QED BY <1>1, <1>2 DEF ShowInv, Sockets

LEMMA ShowStep ==
  ASSUME LiveLinkTypeOK, LineInv, ShowInv, [LiveLinkNext]_liveVars
  PROVE  ShowInv'
  <1>1. ASSUME NEW t \in Tabs, Browser(t) \/ Connect(t) \/ Say(t) PROVE ShowInv'
    BY <1>1, ShowOpen, ShowReceives, ShowNotices, ShowConnect, ShowSay DEF Browser
  <1>2. ASSUME NEW t \in Tabs, NEW type \in Durables, SendDurable(t, type)
        PROVE ShowInv'
    BY <1>2, ShowDurable
  <1>3. ASSUME NEW s \in Sockets, Gateway(s) \/ HelloTimeout(s) \/ Refused(s) \/ Drop(s)
        PROVE ShowInv'
    BY <1>3, ShowGatewayReceives, ShowAuthenticated, ShowGatewayNotices, ShowGivesUp DEF Gateway
  <1>4. ASSUME EngineStep PROVE ShowInv'
    BY <1>4, ShowAttach, ShowEngine DEF EngineStep
  <1>5. ASSUME Restart PROVE ShowInv'
    BY <1>5, ShowRestart
  <1>6. CASE UNCHANGED liveVars
    <2>1. tab' = tab /\ socket' = socket /\ engine' = engine
      BY <1>6 DEF liveVars
    <2>2. \A s \in DOMAIN socket : \A seen \in Nat : Asks(s, seen) => Asks(s, seen)'
      BY <2>1 DEF Asks, Queue
    <2> QED BY <2>1, <2>2, ShowFrame DEF Attached
  <1> QED BY <1>1, <1>2, <1>3, <1>4, <1>5, <1>6 DEF LiveLinkNext

LEMMA Line == LiveLinkSpec => [](LiveLinkTypeOK /\ LineInv /\ ShowInv)
  <1>1. LiveLinkInit => LiveLinkTypeOK /\ LineInv /\ ShowInv
    BY InitTypes, LineInit, ShowInit
  <1>2. (LiveLinkTypeOK /\ LineInv /\ ShowInv) /\ [LiveLinkNext]_liveVars
          => (LiveLinkTypeOK /\ LineInv /\ ShowInv)'
    BY LineStep, ShowStep
  <1> QED BY <1>1, <1>2, PTL DEF LiveLinkSpec

\* At rest the socket of a tab is open, attached and read to the end.
LEMMA AtRest ==
  ASSUME LiveLinkTypeOK, LineInv, ShowInv, Rest, NEW t \in Tabs, tab[t].ws # 0
  PROVE  /\ engine.transport = tab[t].ws /\ tab[t].welcomed
         /\ tab[t].lastSeq = Len(engine.turns)
  <1>1. PICK s : s = tab[t].ws
    OBVIOUS
  <1>2. s \in DOMAIN socket /\ socket[s].tab = t /\ SocketOK(s)
    BY <1>1, TabAt DEF LineInv, TabOK, Sockets
  <1>3. socket[s].open /\ socket[s].up = << >> /\ socket[s].down = << >>
        /\ socket[s].phase \notin {"auth", "queued"}
    BY <1>1, <1>2 DEF Rest, Sockets
  <1>4. socket[s].phase = "ready" /\ engine.transport = s
    <2>1. socket[s].phase # "new"
      BY <1>2, <1>3 DEF SocketOK, HelloFirst
    <2> QED BY <1>2, <1>3, <2>1, SocketAt DEF SocketOK
  <1>5. Reaches(socket[s].down, tab[t].lastSeq, Len(engine.turns)) /\ tab[t].welcomed
    BY <1>1, <1>3, <1>4 DEF ShowInv, Lined
  <1>6. tab[t].lastSeq = Len(engine.turns)
    <2>1. DOMAIN socket[s].down = {}
      BY <1>3
    <2> QED BY <1>5, <2>1 DEF Reaches
  <1> QED BY <1>1, <1>4, <1>5, <1>6

\* A tab shows the transcript without a gap, and all of it when it is connected
\* and nothing is under way (connection.ts, sendWelcome and turn.saved).
THEOREM LinkTranscript == LiveLinkSpec => []TranscriptIsWhole
  <1>1. ASSUME LiveLinkTypeOK, LineInv, ShowInv PROVE TranscriptIsWhole
    <2> SUFFICES ASSUME NEW t \in Tabs
                 PROVE  /\ Shown(t)
                        /\ Rest /\ tab[t].welcomed => tab[t].lastSeq = Len(engine.turns)
      BY DEF TranscriptIsWhole, Shown
    <2>1. tab[t].welcomed => tab[t].ws # 0
      BY <1>1 DEF LineInv, TabOK
    <2> QED BY <1>1, <2>1, AtRest DEF ShowInv
  <1> QED BY <1>1, Line, PTL

\* When nothing is under way, a tab that is connected is the one the engine talks
\* to, and the session stands still exactly when there is none.
THEOREM LinkAgreement == LiveLinkSpec => []LinkAgrees
  <1>1. ASSUME LiveLinkTypeOK, LineInv, ShowInv PROVE LinkAgrees
    <2> SUFFICES ASSUME Rest, engine.loaded
                 PROVE  /\ engine.transport = 0 <=> engine.st = "RECONNECTING"
                        /\ \A t \in Tabs : tab[t].ws # 0 => tab[t].welcomed /\ engine.transport = tab[t].ws
      BY DEF LinkAgrees
    <2>1. Queue = {}
      BY DEF Rest, Queue, Member
    <2>2. engine.transport = 0 <=> engine.st = "RECONNECTING"
      BY <1>1, <2>1 DEF LineInv, EngineOK
    <2>3. \A t \in Tabs : tab[t].ws # 0 => tab[t].welcomed /\ engine.transport = tab[t].ws
      BY <1>1, AtRest
    <2> QED BY <2>2, <2>3
  <1> QED BY <1>1, Line, PTL

-----------------------------------------------------------------------------
(* Utterances: what a connected tab still waits for is under way.            *)

OnItsWay(s, n) ==
  \/ n \in history.excused
  \/ Final(n) \in Member(socket[s].up)
  \/ Task("message", s, Final(n)) \in Queue
  \/ \E m \in Member(socket[s].down) :
       m.type = "saved" /\ m.n \in DOMAIN engine.turns /\ engine.turns[m.n] = n

Awaited(t) ==
  tab[t].welcomed /\ socket[tab[t].ws].open =>
    \A n \in Member(tab[t].pending) : OnItsWay(tab[t].ws, n)

KeptOrSaved ==
  \A n \in DOMAIN history.said : Saved(engine, n) \/ n \in Member(tab[history.said[n]].pending)

SavedOnce ==
  \A i, j \in DOMAIN engine.turns :
    engine.turns[i] # AgentTurn /\ engine.turns[i] = engine.turns[j] => i = j

FinalsInv == KeptOrSaved /\ SavedOnce /\ \A t \in Tabs : Awaited(t)

\* The transcript grows at its end, by replies.
Grows ==
  /\ DOMAIN engine.turns \subseteq DOMAIN engine'.turns
  /\ \A i \in DOMAIN engine.turns : engine'.turns[i] = engine.turns[i]

LEMMA SavedStays ==
  ASSUME Grows, NEW n, Saved(engine, n)
  PROVE  Saved(engine, n)'
  BY DEF Grows, Saved

LEMMA FinalsFrame ==
  ASSUME LiveLinkTypeOK, LineInv, FinalsInv, Grows, AgentTalks,
         history'.said = history.said, history.excused \subseteq history'.excused,
         \A t \in Tabs : tab'[t].ws = tab[t].ws /\ tab'[t].welcomed = tab[t].welcomed
                         /\ tab'[t].pending = tab[t].pending,
         \A i \in DOMAIN socket : socket'[i].open =>
           /\ socket[i].open /\ Member(socket[i].up) \subseteq Member(socket'[i].up)
           /\ Member(socket[i].down) \subseteq Member(socket'[i].down),
         \A k \in Queue : k.type = "message" /\ k.msg.type = "final" => k \in Queue'
  PROVE  FinalsInv'
  <1>1. KeptOrSaved'
    <2> SUFFICES ASSUME NEW n \in DOMAIN history.said
                 PROVE  Saved(engine, n)' \/ n \in Member(tab'[history.said[n]].pending)
      BY DEF KeptOrSaved
    <2>1. history.said[n] \in Tabs
      BY Typed
    <2> QED BY <2>1, SavedStays DEF FinalsInv, KeptOrSaved
  <1>2. SavedOnce'
    BY DEF FinalsInv, SavedOnce, AgentTalks, Grows
  <1>3. ASSUME NEW t \in Tabs, tab[t].welcomed, NEW s, s = tab[t].ws, socket'[s].open,
               NEW n \in Member(tab[t].pending)
        PROVE  OnItsWay(s, n)'
    <2>1. s # 0 /\ s \in DOMAIN socket
      BY <1>3, TabAt DEF LineInv, TabOK
    <2>2. OnItsWay(s, n)
      BY <1>3, <2>1 DEF FinalsInv, Awaited
    <2>3. CASE Final(n) \in Member(socket[s].up)
      BY <1>3, <2>1, <2>3 DEF OnItsWay
    <2>4. CASE Task("message", s, Final(n)) \in Queue
      <3>1. Task("message", s, Final(n)).type = "message" /\ Task("message", s, Final(n)).msg.type = "final"
        BY DEF Task, Final
      <3> QED BY <2>4, <3>1 DEF OnItsWay
    <2>5. CASE \E m \in Member(socket[s].down) :
                 m.type = "saved" /\ m.n \in DOMAIN engine.turns /\ engine.turns[m.n] = n
      BY <1>3, <2>1, <2>5 DEF OnItsWay, Grows
    <2>6. CASE n \in history.excused
      BY <2>6 DEF OnItsWay
    <2> QED BY <2>2, <2>3, <2>4, <2>5, <2>6 DEF OnItsWay
  <1>4. ASSUME NEW t \in Tabs PROVE Awaited(t)'
    <2>1. PICK s : s = tab[t].ws
      OBVIOUS
    <2>2. tab'[t].ws = s /\ tab'[t].welcomed = tab[t].welcomed /\ tab'[t].pending = tab[t].pending
      BY <2>1
    <2>3. tab'[t].welcomed /\ socket'[s].open =>
            \A n \in Member(tab'[t].pending) : OnItsWay(s, n)'
      BY <1>3, <2>1, <2>2
    <2>4. \A n : OnItsWay(s, n)' => OnItsWay(tab[t].ws, n)'
      BY <2>2 DEF OnItsWay
    <2> QED BY <2>2, <2>3, <2>4 DEF Awaited
  <1> QED BY <1>1, <1>2, <1>4 DEF FinalsInv

LEMMA SameTurns ==
  ASSUME engine'.turns = engine.turns
  PROVE  Grows /\ AgentTalks
  BY DEF Grows, AgentTalks

LEMMA GrowsFacts ==
  ASSUME LiveLinkTypeOK, LiveLinkTypeOK', NEW out, Announces(out)
  PROVE  Grows
  <1>1. engine.turns \in Seq(Turn) /\ engine' \in EngineRecord'
    BY Typed, EngineIs DEF LiveLinkTypeOK
  <1>2. engine'.turns \in Seq({AgentTurn} \cup DOMAIN history'.said)
    BY <1>1 DEF EngineRecord
  <1> QED BY <1>1, <1>2 DEF Grows, Announces

LEMMA CarriesMore ==
  ASSUME LiveLinkTypeOK, NEW T, NEW out \in Seq(ServerMessage), Carries(T, out)
  PROVE  \A i \in DOMAIN socket :
           /\ socket'[i].open = socket[i].open /\ socket'[i].up = socket[i].up
           /\ Member(socket[i].down) \subseteq Member(socket'[i].down)
           /\ i = T /\ socket[i].open => Member(out) \subseteq Member(socket'[i].down)
  <1> SUFFICES ASSUME NEW i \in DOMAIN socket
               PROVE  /\ socket'[i].open = socket[i].open /\ socket'[i].up = socket[i].up
                      /\ Member(socket[i].down) \subseteq Member(socket'[i].down)
                      /\ i = T /\ socket[i].open => Member(out) \subseteq Member(socket'[i].down)
    OBVIOUS
  <1>1. Member(socket[i].down \o out) = Member(socket[i].down) \cup Member(out)
    BY SocketAt, Joining
  <1> QED BY <1>1 DEF Carries, Stands

LEMMA FinalsEngine ==
  ASSUME LiveLinkTypeOK, LineInv, FinalsInv, HandleDurable \/ Detach \/ ReplyEnds \/ AttachReturns
  PROVE  FinalsInv'
  <1>0. engine.transport # 0 => engine.st # "RECONNECTING"
    BY DEF LineInv, EngineOK
  <1>a. PICK T : \E out \in Seq(ServerMessage) : Announces(out) /\ Carries(T, out)
    <2>1. CASE HandleDurable
      BY <2>1, HandleDurableFacts
    <2>2. CASE Detach
      BY <1>0, <2>2, DetachFacts
    <2>3. CASE ReplyEnds
      BY <2>3, ReplyEndsFacts
    <2>4. CASE AttachReturns
      BY <2>4, AttachReturnsFacts
    <2> QED BY <2>1, <2>2, <2>3, <2>4
  <1>1. PICK out \in Seq(ServerMessage) : Announces(out) /\ Carries(T, out)
    BY <1>a
  <1>2. /\ LiveLinkTypeOK' /\ tab' = tab /\ history'.said = history.said
        /\ history'.excused = history.excused /\ AgentTalks
        /\ \A k \in Queue : k.type = "message" /\ k.msg.type = "final" => k \in Queue'
    <2>1. CASE HandleDurable
      BY <2>1, HandleDurableFacts, QueueTail
    <2>2. CASE Detach
      BY <1>0, <2>2, DetachFacts, QueueTail
    <2>3. CASE ReplyEnds
      BY <2>3, ReplyEndsFacts DEF Queue
    <2>4. CASE AttachReturns
      <3>1. PICK s, x : s = engine.busy /\ x = Task("detach", s, NoMessage)
        OBVIOUS
      <3>2. /\ engine'.queue = IF socket[s].closed THEN Append(engine.queue, x) ELSE engine.queue
            /\ x \in TaskRecord
        BY <2>4, <3>1, AttachReturnsFacts
      <3>3. Member(Append(engine.queue, x)) = Queue \cup {x}
        <4>1. engine.queue \in Seq(TaskRecord)
          BY Typed, EngineIs
        <4> QED BY <3>2, <4>1, Appended DEF Queue
      <3>4. \A k \in Queue : k \in Queue'
        BY <3>2, <3>3 DEF Queue
      <3> QED BY <2>4, <3>4, AttachReturnsFacts
    <2> QED BY <2>1, <2>2, <2>3, <2>4
  <1>3. Grows
    BY <1>1, <1>2, GrowsFacts
  <1>4. \A i \in DOMAIN socket :
          /\ socket'[i].open = socket[i].open /\ socket'[i].up = socket[i].up
          /\ Member(socket[i].down) \subseteq Member(socket'[i].down)
    BY <1>1, CarriesMore
  <1>5. \A i \in DOMAIN socket : socket'[i].open =>
           /\ socket[i].open /\ Member(socket[i].up) \subseteq Member(socket'[i].up)
           /\ Member(socket[i].down) \subseteq Member(socket'[i].down)
    BY <1>4
  <1> QED BY <1>2, <1>3, <1>5, FinalsFrame

LEMMA FinalsAttach ==
  ASSUME LiveLinkTypeOK, LineInv, FinalsInv, Attach
  PROVE  FinalsInv'
  <1>0. PICK s, old, x, n :
           /\ s = Head(engine.queue).socket /\ old = engine.transport /\ x = Task("detach", s, NoMessage)
           /\ n = Head(engine.queue).msg.n
    OBVIOUS
  <1>1. /\ tab' = tab /\ history' = history /\ engine.queue # << >> /\ Head(engine.queue).type = "attach"
        /\ s \in DOMAIN socket
        /\ \A i \in DOMAIN socket :
              /\ Stands(socket'[i], socket[i])
              /\ socket'[i].open <=> socket[i].open /\ i \notin {old} \ {0, s}
              /\ i # s => socket'[i].down = socket[i].down
        /\ ~socket[s].open => socket'[s].down = socket[s].down
        /\ socket[s].open => socket'[s].down = socket[s].down \o <<Welcome(engine, n)>>
        /\ Welcome(engine, n) \in ServerMessage
        /\ engine'.turns = engine.turns
        /\ \/ engine'.queue = Tail(engine.queue)
           \/ engine'.queue = Append(Tail(engine.queue), x)
    BY <1>0, AttachFacts
  <1>2. \A k \in Queue : k.type # "attach" => k \in Queue'
    <2>0. PICK q : q = Tail(engine.queue)
      OBVIOUS
    <2>1. engine.queue \in Seq(TaskRecord) /\ x \in TaskRecord
      BY <1>0, <1>1, Typed, EngineIs DEF Task, TaskRecord, NoMessage, ClientMessage
    <2>2. q \in Seq(TaskRecord) /\ Queue = {Head(engine.queue)} \cup Member(q)
      BY <1>1, <2>0, <2>1, Taking DEF Queue
    <2>3. Member(Append(q, x)) = Member(q) \cup {x}
      BY <2>1, <2>2, Appended
    <2> QED BY <1>1, <2>0, <2>2, <2>3 DEF Queue
  <1>3. PICK w \in ServerMessage : w = Welcome(engine, n)
    BY <1>1
  <1>4. Member(socket[s].down) \subseteq Member(socket[s].down \o <<w>>)
    <2>a. PICK d \in Seq(ServerMessage) : d = socket[s].down
      BY <1>1, SocketAt
    <2>b. <<w>> \in Seq(ServerMessage)
      OBVIOUS
    <2>1. PICK e \in Seq(ServerMessage) : e = <<w>>
      BY <2>b
    <2>2. Member(d \o e) = Member(d) \cup Member(e)
      BY Joining
    <2> QED BY <2>a, <2>1, <2>2
  <1>5. ASSUME NEW i \in DOMAIN socket, socket'[i].open
        PROVE  /\ socket[i].open /\ Member(socket[i].up) \subseteq Member(socket'[i].up)
               /\ Member(socket[i].down) \subseteq Member(socket'[i].down)
    <2>1. socket[i].open /\ socket'[i].up = socket[i].up
      BY <1>1, <1>5 DEF Stands
    <2>2. socket'[i].down = socket[i].down \/ (i = s /\ socket'[i].down = socket[i].down \o <<w>>)
      BY <1>1, <1>3
    <2> QED BY <1>4, <2>1, <2>2
  <1> QED BY <1>1, <1>2, <1>5, SameTurns, FinalsFrame

\* A step of the gateway or of the network at one socket.
LEMMA FinalsOne ==
  ASSUME LiveLinkTypeOK, LineInv, FinalsInv, tab' = tab, engine'.turns = engine.turns,
         history'.said = history.said, history.excused \subseteq history'.excused,
         NEW s, NEW r, OneSocket(s, r),
         r.open => /\ socket[s].open /\ Member(socket[s].up) \subseteq Member(r.up)
                   /\ Member(socket[s].down) \subseteq Member(r.down),
         \A k \in Queue : k \in Queue'
  PROVE  FinalsInv'
  <1>1. /\ DOMAIN socket' = DOMAIN socket /\ socket'[s] = r
        /\ \A i \in DOMAIN socket : i # s => socket'[i] = socket[i]
    BY OneSocketFacts
  <1>2. \A i \in DOMAIN socket : socket'[i].open =>
           /\ socket[i].open /\ Member(socket[i].up) \subseteq Member(socket'[i].up)
           /\ Member(socket[i].down) \subseteq Member(socket'[i].down)
    BY <1>1
  <1> QED BY <1>2, SameTurns, FinalsFrame

LEMMA FinalsGateway ==
  ASSUME LiveLinkTypeOK, LineInv, FinalsInv, NEW s \in Sockets,
         Authenticated(s) \/ GatewayNotices(s) \/ HelloTimeout(s) \/ Refused(s) \/ Drop(s)
  PROVE  FinalsInv'
  <1>1. CASE Authenticated(s)
    <2>1. PICK x : x = Task("attach", s, Hello(socket[s].last))
      OBVIOUS
    <2>2. PICK r : OneSocket(s, r) /\ r.open = socket[s].open /\ r.up = socket[s].up /\ r.down = socket[s].down
      BY <1>1, AuthenticatedFacts
    <2>3. /\ tab' = tab /\ history' = history /\ engine'.turns = engine.turns
          /\ engine'.queue = Append(engine.queue, x) /\ x \in TaskRecord
      BY <1>1, <2>1, AuthenticatedFacts
    <2>4. \A k \in Queue : k \in Queue'
      <3>1. engine.queue \in Seq(TaskRecord)
        BY Typed, EngineIs
      <3> QED BY <2>3, <3>1, Appended DEF Queue
    <2> QED BY <2>2, <2>3, <2>4, FinalsOne
  <1>2. CASE GatewayNotices(s)
    <2>1. PICK x : x = Task("detach", s, NoMessage)
      OBVIOUS
    <2>2. PICK r : OneSocket(s, r) /\ r.open = socket[s].open
      BY <1>2, GoneFacts
    <2>3. /\ tab' = tab /\ history' = history /\ engine'.turns = engine.turns /\ ~socket[s].open
          /\ engine'.queue = IF socket[s].phase = "ready" THEN Append(engine.queue, x) ELSE engine.queue
          /\ x \in TaskRecord
      BY <1>2, <2>1, GoneFacts
    <2>4. \A k \in Queue : k \in Queue'
      <3>1. engine.queue \in Seq(TaskRecord)
        BY Typed, EngineIs
      <3> QED BY <2>3, <3>1, Appended DEF Queue
    <2> QED BY <2>2, <2>3, <2>4, FinalsOne
  <1>3. CASE HelloTimeout(s) \/ Refused(s)
    <2>1. PICK r : OneSocket(s, r) /\ r.open = FALSE
      BY <1>3, GivesUpFacts
    <2>2. tab' = tab /\ engine' = engine /\ history'.said = history.said /\ history'.excused = history.excused
      BY <1>3, GivesUpFacts
    <2> QED BY <2>1, <2>2, FinalsOne DEF Queue
  <1>4. CASE Drop(s)
    <2>1. PICK r : OneSocket(s, r) /\ r.open = FALSE
      BY <1>4, DropFacts
    <2>2. tab' = tab /\ engine' = engine /\ history' = history
      BY <1>4, DropFacts
    <2> QED BY <2>1, <2>2, FinalsOne DEF Queue
  <1> QED BY <1>1, <1>2, <1>3, <1>4

LEMMA FinalsRestart ==
  ASSUME LiveLinkTypeOK, LineInv, FinalsInv, Restart
  PROVE  FinalsInv'
  <1>1. /\ tab' = tab /\ history'.said = history.said /\ engine'.turns = engine.turns
        /\ \A i \in DOMAIN socket : ~socket'[i].open
    BY RestartFacts
  <1>2. ASSUME NEW t \in Tabs PROVE Awaited(t)'
    <2>1. tab[t].welcomed => tab[t].ws \in DOMAIN socket
      BY TabAt DEF LineInv, TabOK
    <2> QED BY <1>1, <2>1 DEF Awaited
  <1>3. KeptOrSaved'
    BY <1>1 DEF FinalsInv, KeptOrSaved, Saved
  <1>4. SavedOnce'
    BY <1>1 DEF FinalsInv, SavedOnce
  <1> QED BY <1>2, <1>3, <1>4 DEF FinalsInv

LEMMA FinalsConnect ==
  ASSUME LiveLinkTypeOK, LineInv, FinalsInv, NEW t \in Tabs, Connect(t)
  PROVE  FinalsInv'
  <1>1. PICK c :
           /\ OneTab(t, c) /\ socket' = socket /\ engine' = engine /\ history' = history
           /\ c.ws = tab[t].ws /\ c.welcomed = tab[t].welcomed /\ c.pending = tab[t].pending
    BY ConnectFacts
  <1>2. \A u \in Tabs : tab'[u].ws = tab[u].ws /\ tab'[u].welcomed = tab[u].welcomed
                        /\ tab'[u].pending = tab[u].pending
    BY <1>1, OneTabFacts
  <1>3. engine'.turns = engine.turns /\ Queue' = Queue
    BY <1>1 DEF Queue
  <1>4. Grows /\ AgentTalks
    BY <1>3, SameTurns
  <1> QED BY <1>1, <1>2, <1>3, <1>4, FinalsFrame

\* A message more on a tab's socket.
LEMMA PostsMore ==
  ASSUME LiveLinkTypeOK, NEW t \in Tabs, NEW m \in ClientMessage', Posts(t, m),
         ClientMessage \subseteq ClientMessage'
  PROVE  \A i \in DOMAIN socket :
           /\ socket'[i].open = socket[i].open /\ socket'[i].down = socket[i].down
           /\ Member(socket[i].up) \subseteq Member(socket'[i].up)
           /\ i = tab[t].ws /\ tab[t].welcomed /\ socket[i].open => m \in Member(socket'[i].up)
  <1> SUFFICES ASSUME NEW i \in DOMAIN socket
               PROVE  /\ socket'[i].open = socket[i].open /\ socket'[i].down = socket[i].down
                      /\ Member(socket[i].up) \subseteq Member(socket'[i].up)
                      /\ i = tab[t].ws /\ tab[t].welcomed /\ socket[i].open => m \in Member(socket'[i].up)
    OBVIOUS
  <1>1. socket[i].up \in Seq(ClientMessage')
    <2>1. Seq(ClientMessage) \subseteq Seq(ClientMessage')
      BY Wider
    <2> QED BY <2>1, SocketAt
  <1>2. Member(Append(socket[i].up, m)) = Member(socket[i].up) \cup {m}
    BY <1>1, Appended
  <1>3. \/ socket'[i].up = Append(socket[i].up, m)
        \/ socket'[i].up = socket[i].up /\ ~(i = tab[t].ws /\ tab[t].welcomed /\ socket[i].open)
    BY DEF Posts
  <1> QED BY <1>2, <1>3 DEF Posts, Kept

LEMMA FinalsDurable ==
  ASSUME LiveLinkTypeOK, LineInv, FinalsInv, NEW t \in Tabs, NEW type \in Durables, SendDurable(t, type)
  PROVE  FinalsInv'
  <1>0. PICK n, x : n = Len(history.sent) + 1 /\ x = [tab |-> t, type |-> type]
    OBVIOUS
  <1>1. /\ LiveLinkTypeOK' /\ Posts(t, Durable(n)) /\ engine' = engine
        /\ \A u \in Tabs : /\ tab'[u].ws = tab[u].ws /\ tab'[u].welcomed = tab[u].welcomed
                           /\ tab'[u].pending = tab[u].pending
        /\ history'.sent = Append(history.sent, x) /\ history'.said = history.said
        /\ history'.excused = history.excused
    BY <1>0, DurableFacts
  <1>2. DOMAIN history'.sent = DOMAIN history.sent \cup {n}
    <2>1. x \in [tab: Tabs, type: Durables]
      BY <1>0
    <2> QED BY <1>0, <1>1, <2>1, Typed, Appended
  <1>3. Durable(n) \in ClientMessage' /\ ClientMessage \subseteq ClientMessage'
    BY <1>1, <1>2 DEF ClientMessage, Durable
  <1>4. \A i \in DOMAIN socket : socket'[i].open =>
           /\ socket[i].open /\ Member(socket[i].up) \subseteq Member(socket'[i].up)
           /\ Member(socket[i].down) \subseteq Member(socket'[i].down)
    BY <1>1, <1>3, PostsMore
  <1>5. engine'.turns = engine.turns /\ Queue' = Queue
    BY <1>1 DEF Queue
  <1>6. Grows /\ AgentTalks
    BY <1>5, SameTurns
  <1> QED BY <1>1, <1>4, <1>5, <1>6, FinalsFrame

LEMMA FinalsSay ==
  ASSUME LiveLinkTypeOK, LineInv, FinalsInv, NEW t \in Tabs, Say(t)
  PROVE  FinalsInv'
  <1>0. PICK n : n = Len(history.said) + 1
    OBVIOUS
  <1>1. /\ LiveLinkTypeOK' /\ Posts(t, Final(n)) /\ engine' = engine
        /\ \A u \in Tabs : /\ tab'[u].ws = tab[u].ws /\ tab'[u].welcomed = tab[u].welcomed
                           /\ tab'[u].pending = IF u = t THEN Append(tab[u].pending, n) ELSE tab[u].pending
        /\ history'.said = Append(history.said, t) /\ history'.excused = history.excused
        /\ history'.sent = history.sent
    BY <1>0, SayFacts
  <1>2. /\ DOMAIN history'.said = DOMAIN history.said \cup {n}
        /\ \A i \in DOMAIN history.said : history'.said[i] = history.said[i]
        /\ history'.said[n] = t
    BY <1>0, <1>1, Typed, Appended
  <1>3. Final(n) \in ClientMessage' /\ ClientMessage \subseteq ClientMessage'
    BY <1>1, <1>2 DEF ClientMessage, Final
  <1>4. \A i \in DOMAIN socket :
           /\ socket'[i].open = socket[i].open /\ socket'[i].down = socket[i].down
           /\ Member(socket[i].up) \subseteq Member(socket'[i].up)
           /\ i = tab[t].ws /\ tab[t].welcomed /\ socket[i].open => Final(n) \in Member(socket'[i].up)
    BY <1>1, <1>3, PostsMore
  <1>5. Member(tab'[t].pending) = Member(tab[t].pending) \cup {n}
        /\ \A u \in Tabs : u # t => tab'[u].pending = tab[u].pending
    <2>1. tab[t].pending \in Seq(DOMAIN history'.said) /\ n \in DOMAIN history'.said
      <3>1. tab[t].pending \in Seq(DOMAIN history.said)
        BY TabAt
      <3>2. Seq(DOMAIN history.said) \subseteq Seq(DOMAIN history'.said)
        BY <1>2, Wider
      <3> QED BY <1>2, <3>1, <3>2
    <2> QED BY <1>1, <2>1, Appended
  <1>6. KeptOrSaved'
    <2> SUFFICES ASSUME NEW i \in DOMAIN history'.said
                 PROVE  Saved(engine, i)' \/ i \in Member(tab'[history'.said[i]].pending)
      BY DEF KeptOrSaved
    <2>1. CASE i = n
      BY <1>2, <1>5, <2>1
    <2>2. CASE i # n
      <3>1. i \in DOMAIN history.said /\ history'.said[i] = history.said[i] /\ history.said[i] \in Tabs
        BY <1>2, <2>2, Typed
      <3>2. Saved(engine, i) \/ i \in Member(tab[history.said[i]].pending)
        BY <3>1 DEF FinalsInv, KeptOrSaved
      <3>3. Saved(engine, i) => Saved(engine, i)'
        BY <1>1 DEF Saved
      <3> QED BY <1>5, <3>1, <3>2, <3>3
    <2> QED BY <2>1, <2>2
  <1>7. SavedOnce'
    BY <1>1 DEF FinalsInv, SavedOnce
  <1>8. ASSUME NEW u \in Tabs PROVE Awaited(u)'
    <2>1. PICK s : s = tab[u].ws
      OBVIOUS
    <2>2. tab'[u].ws = s /\ tab'[u].welcomed = tab[u].welcomed
      BY <1>1, <2>1
    <2>3. ASSUME tab[u].welcomed, socket'[s].open, NEW i \in Member(tab'[u].pending)
          PROVE  OnItsWay(s, i)'
      <3>1. s \in DOMAIN socket
        BY <2>1, <2>3, TabAt DEF LineInv, TabOK
      <3>2. CASE i \in Member(tab[u].pending)
        <4>1. OnItsWay(s, i)
          BY <1>4, <2>1, <2>3, <3>1, <3>2 DEF FinalsInv, Awaited
        <4>2. Queue' = Queue
          BY <1>1 DEF Queue
        <4> QED BY <1>1, <1>4, <3>1, <4>1, <4>2 DEF OnItsWay
      <3>3. CASE u = t /\ i = n
        BY <1>4, <2>1, <2>3, <3>1, <3>3 DEF OnItsWay
      <3> QED BY <1>5, <2>3, <3>2, <3>3
    <2>4. \A i : OnItsWay(s, i)' => OnItsWay(tab[u].ws, i)'
      BY <2>2 DEF OnItsWay
    <2> QED BY <2>2, <2>3, <2>4 DEF Awaited
  <1> QED BY <1>6, <1>7, <1>8 DEF FinalsInv

\* What one tab does not touch stays awaited.
LEMMA AwaitedFrame ==
  ASSUME LiveLinkTypeOK, LineInv, FinalsInv, NEW u \in Tabs, NEW s, s = tab[u].ws,
         tab'[u].ws = s, tab'[u].welcomed = tab[u].welcomed, tab'[u].pending = tab[u].pending,
         s \in DOMAIN socket => socket'[s] = socket[s],
         engine'.turns = engine.turns, history.excused \subseteq history'.excused,
         \A k \in Queue : k \in Queue'
  PROVE  Awaited(u)'
  <1>1. ASSUME tab[u].welcomed, socket'[s].open, NEW n \in Member(tab[u].pending)
        PROVE  OnItsWay(s, n)'
    <2>1. s \in DOMAIN socket
      BY <1>1, TabAt DEF LineInv, TabOK
    <2>2. OnItsWay(s, n)
      BY <1>1, <2>1 DEF FinalsInv, Awaited
    <2> QED BY <2>1, <2>2 DEF OnItsWay
  <1>2. \A i : OnItsWay(s, i)' => OnItsWay(tab[u].ws, i)'
    BY DEF OnItsWay
  <1> QED BY <1>1, <1>2 DEF Awaited

LEMMA FinalsOpen ==
  ASSUME LiveLinkTypeOK, LineInv, FinalsInv, NEW t \in Tabs, Open(t)
  PROVE  FinalsInv'
  <1>1. /\ engine' = engine /\ history' = history
        /\ \A i \in DOMAIN socket : socket'[i] = socket[i]
        /\ tab'[t].welcomed = FALSE /\ tab'[t].pending = tab[t].pending
        /\ \A u \in Tabs : u # t => tab'[u] = tab[u]
    BY OpenFacts
  <1>2. \A u \in Tabs : tab'[u].pending = tab[u].pending
    BY <1>1
  <1>3. KeptOrSaved'
    BY <1>1, <1>2, Typed DEF FinalsInv, KeptOrSaved, Saved
  <1>4. SavedOnce'
    BY <1>1 DEF FinalsInv, SavedOnce
  <1>5. ASSUME NEW u \in Tabs PROVE Awaited(u)'
    <2>1. CASE u = t
      BY <1>1, <2>1 DEF Awaited
    <2>2. CASE u # t
      <3>1. PICK s : s = tab[u].ws
        OBVIOUS
      <3>2. tab'[u] = tab[u] /\ Queue' = Queue
        BY <1>1, <2>2 DEF Queue
      <3> QED BY <1>1, <3>1, <3>2, AwaitedFrame
    <2> QED BY <2>1, <2>2
  <1> QED BY <1>3, <1>4, <1>5 DEF FinalsInv

\* Another tab has another socket.
LEMMA Apart ==
  ASSUME LiveLinkTypeOK, LineInv, NEW t \in Tabs, NEW u \in Tabs, u # t, tab[t].ws # 0
  PROVE  tab[u].ws # tab[t].ws
  BY DEF LineInv, TabOK

LEMMA FinalsNotices ==
  ASSUME LiveLinkTypeOK, LineInv, FinalsInv, NEW t \in Tabs, ClientNotices(t)
  PROVE  FinalsInv'
  <1>1. PICK s, c, r :
           /\ OneTab(t, c) /\ OneSocket(s, r) /\ s = tab[t].ws
           /\ c.welcomed = FALSE /\ c.pending = tab[t].pending
           /\ engine' = engine /\ history' = history
    BY NoticesFacts
  <1>2. /\ s \in DOMAIN socket /\ tab'[t] = c /\ \A u \in Tabs : u # t => tab'[u] = tab[u]
        /\ \A i \in DOMAIN socket : i # s => socket'[i] = socket[i]
    BY <1>1, OneTabFacts, OneSocketFacts DEF OneSocket
  <1>3. KeptOrSaved'
    <2>1. \A u \in Tabs : tab'[u].pending = tab[u].pending
      BY <1>1, <1>2
    <2>2. history' = history /\ engine' = engine
      BY <1>1
    <2>3. \A n \in DOMAIN history.said : history.said[n] \in Tabs
      BY Typed
    <2> QED BY <2>1, <2>2, <2>3 DEF FinalsInv, KeptOrSaved, Saved
  <1>4. SavedOnce'
    BY <1>1 DEF FinalsInv, SavedOnce
  <1>5. ASSUME NEW u \in Tabs PROVE Awaited(u)'
    <2>1. CASE u = t
      BY <1>1, <1>2, <2>1 DEF Awaited
    <2>2. CASE u # t
      <3>1. PICK i : i = tab[u].ws
        OBVIOUS
      <3>2. tab'[u] = tab[u] /\ Queue' = Queue
        BY <1>1, <1>2, <2>2 DEF Queue
      <3>3. i # s
        <4>1. s # 0
          BY <1>2, Typed
        <4> QED BY <1>1, <2>2, <3>1, <4>1, Apart
      <3> QED BY <1>1, <1>2, <3>1, <3>2, <3>3, AwaitedFrame
    <2> QED BY <2>1, <2>2
  <1> QED BY <1>3, <1>4, <1>5 DEF FinalsInv

LEMMA FinalsReceives ==
  ASSUME LiveLinkTypeOK, LineInv, ShowInv, FinalsInv, NEW t \in Tabs, ClientReceives(t)
  PROVE  FinalsInv'
  <1>a. PICK s \in DOMAIN socket, m \in ServerMessage : \E c, r : Receives(t, s, m, c, r)
    BY ClientReceivesFacts
  <1>0. PICK c, r : Receives(t, s, m, c, r)
    BY <1>a
  <1>1. /\ engine' = engine /\ history' = history /\ s = tab[t].ws /\ s # 0
        /\ socket[s].down # << >> /\ m = Head(socket[s].down)
        /\ OneTab(t, c) /\ OneSocket(s, r) /\ c.ws = s
        /\ Kept(r, socket[s]) /\ r.down = Tail(socket[s].down)
        /\ Greeted(t, s, m, c, r) \/ Updated(t, s, m, c, r)
    <2>1. engine' = engine /\ history' = history
      BY ClientReceivesFacts
    <2>2. s # 0
      BY Typed
    <2> QED BY <1>0, <2>1, <2>2 DEF Receives
  <1>2. /\ tab'[t] = c /\ \A u \in Tabs : u # t => tab'[u] = tab[u]
        /\ socket'[s] = r /\ \A i \in DOMAIN socket : i # s => socket'[i] = socket[i]
        /\ Queue' = Queue
    BY <1>1, OneTabFacts, OneSocketFacts DEF Queue
  <1>3. /\ Member(socket[s].down) = {m} \cup Member(Tail(socket[s].down))
        /\ m = socket[s].down[1] /\ 1 \in DOMAIN socket[s].down
    BY <1>1, SocketAt, Taking
  <1>4. High(m) <= Len(engine.turns) /\ DOMAIN engine.turns = 1..Len(engine.turns) /\ Len(engine.turns) \in Nat
    <2>1. engine.turns \in Seq(Turn)
      BY Typed, EngineIs
    <2> QED BY <1>3, <2>1 DEF ShowInv, Within, Sockets
  <1>5. ASSUME NEW n \in Member(tab[t].pending) PROVE Saved(engine, n) \/ n \in Member(c.pending)
    <2>1. CASE Greeted(t, s, m, c, r)
      <3>1. m.type = "welcome" /\ Member(c.pending) = Member(tab[t].pending) \ {engine.turns[i] : i \in (m.n + 1)..m.to}
        BY <2>1 DEF Greeted
      <3>2. (m.n + 1)..m.to \subseteq DOMAIN engine.turns
        <4>1. m.n \in Nat /\ m.to \in Nat /\ High(m) = m.to
          BY <3>1, MessageIs
        <4> QED BY <1>4, <4>1
      <3> QED BY <3>1, <3>2 DEF Saved
    <2>2. CASE Updated(t, s, m, c, r)
      <3>1. m.type = "saved" /\ Member(c.pending) = Member(tab[t].pending) \ {engine.turns[m.n]}
        BY <2>2 DEF Updated
      <3>2. m.n \in DOMAIN engine.turns
        <4>1. m.n \in Nat /\ m.n # 0 /\ High(m) = m.n
          BY <3>1, MessageIs
        <4> QED BY <1>4, <4>1
      <3> QED BY <3>1, <3>2 DEF Saved
    <2> QED BY <1>1, <2>1, <2>2
  <1>6. KeptOrSaved'
    <2> SUFFICES ASSUME NEW n \in DOMAIN history.said
                 PROVE  Saved(engine, n)' \/ n \in Member(tab'[history.said[n]].pending)
      BY <1>1 DEF KeptOrSaved
    <2>1. history.said[n] \in Tabs /\ (Saved(engine, n) \/ n \in Member(tab[history.said[n]].pending))
      BY Typed DEF FinalsInv, KeptOrSaved
    <2>2. Saved(engine, n) => Saved(engine, n)'
      BY <1>1 DEF Saved
    <2> QED BY <1>2, <1>5, <2>1, <2>2
  <1>7. SavedOnce'
    BY <1>1 DEF FinalsInv, SavedOnce
  <1>8. ASSUME c.welcomed, r.open, NEW n \in Member(c.pending) PROVE OnItsWay(s, n)'
    <2>1. CASE Greeted(t, s, m, c, r)
      <3>1. PICK d \in TabRecord :
               /\ d.pending = c.pending
               /\ r.up = IF socket[s].open THEN socket[s].up \o Flushed(d) ELSE socket[s].up
        BY <2>1 DEF Greeted
      <3>2. Final(n) \in Member(Flushed(d)) /\ Flushed(d) \in Seq(ClientMessage)
        BY <1>8, <3>1, FlushFacts
      <3>3. Member(socket[s].up \o Flushed(d)) = Member(socket[s].up) \cup Member(Flushed(d))
        BY <3>2, SocketAt, Joining
      <3>4. socket[s].open
        BY <1>1, <1>8 DEF Kept
      <3> QED BY <1>2, <3>1, <3>2, <3>3, <3>4 DEF OnItsWay
    <2>2. CASE Updated(t, s, m, c, r)
      <3>1. /\ tab[t].welcomed /\ r.up = socket[s].up /\ socket[s].open
            /\ n \in Member(tab[t].pending) /\ n # engine.turns[m.n]
        BY <1>1, <1>8, <2>2 DEF Updated, Kept
      <3>2. OnItsWay(s, n)
        BY <1>1, <3>1 DEF FinalsInv, Awaited
      <3>3. ASSUME NEW x \in Member(socket[s].down), x.type = "saved", x.n \in DOMAIN engine.turns,
                   engine.turns[x.n] = n
            PROVE  x \in Member(r.down)
        BY <1>1, <1>3, <3>1, <3>3
      <3> QED BY <1>1, <1>2, <3>1, <3>2, <3>3 DEF OnItsWay
    <2> QED BY <1>1, <2>1, <2>2
  <1>9. ASSUME NEW u \in Tabs PROVE Awaited(u)'
    <2>1. CASE u = t
      <3>1. \A n : OnItsWay(s, n)' => OnItsWay(tab[u].ws, n)'
        BY <1>1, <1>2, <2>1 DEF OnItsWay
      <3> QED BY <1>1, <1>2, <1>8, <2>1, <3>1 DEF Awaited
    <2>2. CASE u # t
      <3>1. PICK i : i = tab[u].ws
        OBVIOUS
      <3>2. i # s /\ tab'[u] = tab[u]
        BY <1>1, <1>2, <2>2, <3>1, Apart
      <3> QED BY <1>1, <1>2, <3>1, <3>2, AwaitedFrame
    <2> QED BY <2>1, <2>2
  <1> QED BY <1>6, <1>7, <1>9 DEF FinalsInv

LEMMA FinalsGatewayReceives ==
  ASSUME LiveLinkTypeOK, LineInv, FinalsInv, NEW s \in Sockets, GatewayReceives(s)
  PROVE  FinalsInv'
  <1>0. PICK m, x : m = Head(socket[s].up) /\ x = Task("message", s, m)
    OBVIOUS
  <1>1. PICK r :
           /\ OneSocket(s, r) /\ r.open = socket[s].open /\ r.down = socket[s].down
           /\ \/ /\ socket[s].phase = "new" /\ m.type = "hello"
                 /\ r.up = Tail(socket[s].up) /\ engine' = engine /\ history'.excused = history.excused
              \/ /\ socket[s].phase # "ready" /\ m.type # "hello"
                 /\ r.up = Tail(socket[s].up) /\ engine' = engine
                 /\ history'.excused = history.excused \cup (IF m.type = "final" THEN {m.n} ELSE {})
              \/ /\ socket[s].phase = "ready" /\ engine.transport = s
                 /\ r.up = Tail(socket[s].up)
                 /\ engine' = [engine EXCEPT !.queue = Append(engine.queue, x)]
                 /\ history'.excused = history.excused
              \/ /\ socket[s].phase = "ready" /\ engine.transport # s
                 /\ r.up = << >> /\ engine' = engine /\ history'.excused = history.excused
    BY <1>0, ReceivesFacts
  <1>2. /\ tab' = tab /\ m \in ClientMessage /\ socket[s].up # << >> /\ history'.said = history.said
    BY <1>0, ReceivesFacts
  <1>3. /\ s \in DOMAIN socket /\ socket'[s] = r
        /\ \A i \in DOMAIN socket : i # s => socket'[i] = socket[i]
    BY <1>1, OneSocketFacts DEF OneSocket
  <1>4. x \in TaskRecord
    BY <1>0, <1>2, <1>3 DEF TaskRecord, Task
  <1>5. /\ engine'.turns = engine.turns /\ (\A k \in Queue : k \in Queue')
        /\ history.excused \subseteq history'.excused
        /\ engine' # engine => x \in Queue'
    <2>1. engine.queue \in Seq(TaskRecord)
      BY Typed, EngineIs
    <2>2. Member(Append(engine.queue, x)) = Queue \cup {x}
      BY <1>4, <2>1, Appended DEF Queue
    <2>3. \/ engine' = engine
          \/ engine' = [engine EXCEPT !.queue = Append(engine.queue, x)]
      BY <1>1
    <2>4. engine'.turns = engine.turns /\ (engine' = engine \/ engine'.queue = Append(engine.queue, x))
      BY <2>3, Typed DEF EngineRecord
    <2>5. history.excused \subseteq history'.excused
      BY <1>1
    <2> QED BY <2>2, <2>4, <2>5 DEF Queue
  <1>6. x \in Queue' \/ ~(socket[s].phase = "ready" /\ engine.transport = s)
    <2>1. engine.queue \in Seq(TaskRecord)
      BY Typed, EngineIs
    <2>2. Member(Append(engine.queue, x)) = Queue \cup {x}
      BY <1>4, <2>1, Appended DEF Queue
    <2>3. socket[s].phase = "ready" /\ engine.transport = s =>
            engine' = [engine EXCEPT !.queue = Append(engine.queue, x)]
      BY <1>1
    <2>4. socket[s].phase = "ready" /\ engine.transport = s => engine'.queue = Append(engine.queue, x)
      BY <2>3, Typed DEF EngineRecord
    <2> QED BY <2>2, <2>4 DEF Queue
  <1>7. Member(socket[s].up) = {m} \cup Member(Tail(socket[s].up))
    BY <1>0, <1>2, <1>3, SocketAt, Taking
  <1>8. KeptOrSaved'
    BY <1>2, <1>5, Typed DEF FinalsInv, KeptOrSaved, Saved
  <1>9. SavedOnce'
    BY <1>5 DEF FinalsInv, SavedOnce
  <1>10. ASSUME NEW u \in Tabs PROVE Awaited(u)'
    <2>1. PICK i : i = tab[u].ws
      OBVIOUS
    <2>2. CASE i # s
      BY <1>2, <1>3, <1>5, <2>1, <2>2, AwaitedFrame
    <2>3. CASE i = s
      <3>1. ASSUME tab[u].welcomed, r.open, NEW n \in Member(tab[u].pending) PROVE OnItsWay(s, n)'
        <4>1. socket[s].open /\ OnItsWay(s, n)
          BY <1>1, <2>1, <2>3, <3>1 DEF FinalsInv, Awaited
        <4>2. socket[s].phase = "ready" => engine.transport = s
          BY <1>3, <4>1 DEF LineInv, SocketOK, Sockets
        <4>3. CASE Final(n) \in Member(socket[s].up)
          <5>1. CASE Final(n) \in Member(Tail(socket[s].up))
            <6>1. r.up = Tail(socket[s].up)
              BY <1>1, <4>2
            <6> QED BY <1>3, <5>1, <6>1 DEF OnItsWay
          <5>2. CASE Final(n) = m
            <6>1. m.type = "final" /\ m.n = n
              BY <5>2 DEF Final
            <6>2. CASE socket[s].phase = "ready"
              BY <1>0, <1>6, <4>2, <5>2, <6>2 DEF OnItsWay
            <6>3. CASE socket[s].phase # "ready"
              <7>1. n \in history'.excused
                BY <1>1, <6>1, <6>3
              <7> QED BY <7>1 DEF OnItsWay
            <6> QED BY <6>2, <6>3
          <5> QED BY <1>7, <4>3, <5>1, <5>2
        <4>4. CASE ~(Final(n) \in Member(socket[s].up))
          BY <1>1, <1>3, <1>5, <4>1, <4>4 DEF OnItsWay
        <4> QED BY <4>3, <4>4
      <3>2. \A n : OnItsWay(s, n)' => OnItsWay(tab[u].ws, n)'
        BY <1>2, <2>1, <2>3 DEF OnItsWay
      <3> QED BY <1>2, <1>3, <2>1, <2>3, <3>1, <3>2 DEF Awaited
    <2> QED BY <2>2, <2>3
  <1> QED BY <1>8, <1>9, <1>10 DEF FinalsInv

LEMMA FinalsHandle ==
  ASSUME LiveLinkTypeOK, LineInv, FinalsInv, HandleFinal
  PROVE  FinalsInv'
  <1>0. PICK n, k0 : k0 = Head(engine.queue) /\ n = k0.msg.n
    OBVIOUS
  <1>1. /\ LiveLinkTypeOK' /\ tab' = tab /\ engine.queue # << >> /\ k0.type = "message"
        /\ k0.msg.type = "final" /\ n \in DOMAIN history.said
        /\ history'.said = history.said
        /\ history'.excused = IF ~Saved(engine, n) /\ engine.st # "ACTIVE"
                              THEN history.excused \cup {n} ELSE history.excused
        /\ engine'.queue = Tail(engine.queue)
        /\ \A i \in DOMAIN engine'.turns : i \in DOMAIN engine.turns \/ engine'.turns[i] = AgentTurn
             \/ (engine'.turns[i] = n /\ i = Len(engine.turns) + 1 /\ ~Saved(engine, n))
        /\ ~Saved(engine, n) /\ engine.st = "ACTIVE" =>
             Len(engine'.turns) > Len(engine.turns) /\ engine'.turns[Len(engine.turns) + 1] = n
    BY <1>0, HandleFinalFacts
  <1>2. PICK out \in Seq(ServerMessage) :
           /\ Announces(out) /\ Carries(engine.transport, out)
           /\ Saved(engine, n) => \E m \in Member(out) : engine.turns[m.n] = n /\ m.n \in DOMAIN engine.turns
    BY <1>0, HandleFinalFacts
  <1>3. Grows
    BY <1>1, <1>2, GrowsFacts
  <1>4. \A i \in DOMAIN socket :
           /\ socket'[i].open = socket[i].open /\ socket'[i].up = socket[i].up
           /\ Member(socket[i].down) \subseteq Member(socket'[i].down)
           /\ i = engine.transport /\ socket[i].open => Member(out) \subseteq Member(socket'[i].down)
    BY <1>2, CarriesMore
  <1>5. Queue = Queue' \cup {k0} /\ k0 \in Queue
    BY <1>0, <1>1, QueueTail
  <1>6. KeptOrSaved'
    <2> SUFFICES ASSUME NEW i \in DOMAIN history.said
                 PROVE  Saved(engine, i)' \/ i \in Member(tab[history.said[i]].pending)
      BY <1>1 DEF KeptOrSaved
    <2> QED BY <1>3, SavedStays DEF FinalsInv, KeptOrSaved
  <1>7. SavedOnce'
    <2> SUFFICES ASSUME NEW i \in DOMAIN engine'.turns, NEW j \in DOMAIN engine'.turns,
                        engine'.turns[i] # AgentTurn, engine'.turns[i] = engine'.turns[j]
                 PROVE  i = j
      BY DEF SavedOnce
    <2>1. CASE i \in DOMAIN engine.turns /\ j \in DOMAIN engine.turns
      BY <1>3, <2>1 DEF FinalsInv, SavedOnce, Grows
    <2>2. CASE i \notin DOMAIN engine.turns /\ j \notin DOMAIN engine.turns
      BY <1>1, <2>2
    <2>3. CASE i \in DOMAIN engine.turns /\ j \notin DOMAIN engine.turns
      BY <1>1, <1>3, <2>3 DEF Saved, Grows
    <2>4. CASE i \notin DOMAIN engine.turns /\ j \in DOMAIN engine.turns
      BY <1>1, <1>3, <2>4 DEF Saved, Grows
    <2> QED BY <2>1, <2>2, <2>3, <2>4
  <1>8. ASSUME NEW u \in Tabs, NEW s, s = tab[u].ws, tab[u].welcomed, socket'[s].open,
               NEW p \in Member(tab[u].pending)
        PROVE  OnItsWay(s, p)'
    <2>1. s # 0 /\ s \in DOMAIN socket
      BY <1>8, TabAt DEF LineInv, TabOK
    <2>2. socket[s].open /\ OnItsWay(s, p)
      BY <1>4, <1>8, <2>1 DEF FinalsInv, Awaited
    <2>3. CASE Task("message", s, Final(p)) = k0
      <3>1. k0.socket = s /\ n = p
        BY <1>0, <2>3 DEF Task, Final
      <3>2. engine.transport = s
        <4>1. TaskOK(k0)
          BY <1>5 DEF LineInv, EngineOK
        <4> QED BY <1>1, <2>1, <2>2, <3>1, <4>1 DEF LineInv, TaskOK, SocketOK, Sockets
      <3>3. Member(out) \subseteq Member(socket'[s].down)
        BY <1>4, <2>1, <2>2, <3>2
      <3>4. \A m \in Member(out) : m.type = "saved"
        BY <1>2 DEF Announces
      <3>5. CASE Saved(engine, n)
        <4>1. PICK m \in Member(out) : engine.turns[m.n] = n /\ m.n \in DOMAIN engine.turns
          BY <1>2, <3>5
        <4>2. m.type = "saved" /\ m \in Member(socket'[s].down)
              /\ m.n \in DOMAIN engine'.turns /\ engine'.turns[m.n] = p
          BY <1>3, <3>1, <3>3, <3>4, <4>1 DEF Grows
        <4> QED BY <4>2 DEF OnItsWay
      <3>6. CASE ~Saved(engine, n) /\ engine.st = "ACTIVE"
        <4>1. /\ Len(engine.turns) \in Nat /\ DOMAIN engine.turns = 1..Len(engine.turns)
              /\ Len(engine'.turns) \in Nat /\ DOMAIN engine'.turns = 1..Len(engine'.turns)
          <5>1. engine.turns \in Seq(Turn) /\ engine' \in EngineRecord'
            BY <1>1, Typed, EngineIs DEF LiveLinkTypeOK
          <5>2. engine'.turns \in Seq({AgentTurn} \cup DOMAIN history'.said)
            BY <5>1 DEF EngineRecord
          <5> QED BY <5>1, <5>2
        <4>2. PICK l : l = Len(engine.turns) + 1
          OBVIOUS
        <4>3. l \in DOMAIN engine'.turns /\ l \notin DOMAIN engine.turns /\ engine'.turns[l] = n
          BY <1>1, <3>6, <4>1, <4>2
        <4>4. SavedMessage(l) \in Member(socket'[s].down)
          BY <1>2, <3>3, <4>3 DEF Announces
        <4>5. SavedMessage(l).type = "saved" /\ SavedMessage(l).n = l
          BY DEF SavedMessage
        <4> QED BY <3>1, <4>3, <4>4, <4>5 DEF OnItsWay
      <3>7. CASE ~Saved(engine, n) /\ engine.st # "ACTIVE"
        BY <1>1, <3>1, <3>7 DEF OnItsWay
      <3> QED BY <3>5, <3>6, <3>7
    <2>4. CASE Task("message", s, Final(p)) # k0
      <3>1. history.excused \subseteq history'.excused
        BY <1>1
      <3>2. Task("message", s, Final(p)) \in Queue => Task("message", s, Final(p)) \in Queue'
        BY <1>5, <2>4
      <3>3. ASSUME NEW m \in Member(socket[s].down), m.type = "saved",
                   m.n \in DOMAIN engine.turns, engine.turns[m.n] = p
            PROVE  m \in Member(socket'[s].down) /\ m.n \in DOMAIN engine'.turns /\ engine'.turns[m.n] = p
        BY <1>3, <1>4, <2>1, <3>3 DEF Grows
      <3>4. socket'[s].up = socket[s].up
        BY <1>4, <2>1
      <3> QED BY <2>2, <3>1, <3>2, <3>3, <3>4 DEF OnItsWay
    <2> QED BY <2>3, <2>4
  <1>9. ASSUME NEW u \in Tabs PROVE Awaited(u)'
    <2>1. PICK s : s = tab[u].ws
      OBVIOUS
    <2>2. \A i : OnItsWay(s, i)' => OnItsWay(tab[u].ws, i)'
      BY <1>1, <2>1 DEF OnItsWay
    <2>3. tab[u].welcomed /\ socket'[s].open => \A p \in Member(tab[u].pending) : OnItsWay(s, p)'
      BY <1>8, <2>1
    <2> QED BY <1>1, <2>1, <2>2, <2>3 DEF Awaited
  <1> QED BY <1>6, <1>7, <1>9 DEF FinalsInv

LEMMA FinalsInit == LiveLinkInit => FinalsInv
  <1> SUFFICES ASSUME LiveLinkInit PROVE FinalsInv
    OBVIOUS
  <1>1. /\ DOMAIN history.said = {} /\ DOMAIN engine.turns = {}
        /\ \A t \in Tabs : ~tab[t].welcomed
    BY DEF LiveLinkInit
  <1> QED BY <1>1 DEF FinalsInv, KeptOrSaved, SavedOnce, Awaited

LEMMA FinalsStep ==
  ASSUME LiveLinkTypeOK, LineInv, ShowInv, FinalsInv, [LiveLinkNext]_liveVars
  PROVE  FinalsInv'
  <1>1. ASSUME NEW t \in Tabs, Browser(t) \/ Connect(t) \/ Say(t) PROVE FinalsInv'
    BY <1>1, FinalsOpen, FinalsReceives, FinalsNotices, FinalsConnect, FinalsSay DEF Browser
  <1>2. ASSUME NEW t \in Tabs, NEW type \in Durables, SendDurable(t, type)
        PROVE FinalsInv'
    BY <1>2, FinalsDurable
  <1>3. ASSUME NEW s \in Sockets, Gateway(s) \/ HelloTimeout(s) \/ Refused(s) \/ Drop(s)
        PROVE FinalsInv'
    BY <1>3, FinalsGatewayReceives, FinalsGateway DEF Gateway
  <1>4. ASSUME EngineStep PROVE FinalsInv'
    BY <1>4, FinalsAttach, FinalsEngine, FinalsHandle DEF EngineStep
  <1>5. ASSUME Restart PROVE FinalsInv'
    BY <1>5, FinalsRestart
  <1>6. CASE UNCHANGED liveVars
    <2>1. tab' = tab /\ socket' = socket /\ engine' = engine /\ history' = history
      BY <1>6 DEF liveVars
    <2> QED BY <2>1, SameTurns, FinalsFrame DEF Queue
  <1> QED BY <1>1, <1>2, <1>3, <1>4, <1>5, <1>6 DEF LiveLinkNext

\* At rest a connected tab waits only for what was turned away.
LEMMA FinalsArriveAtRest ==
  ASSUME LiveLinkTypeOK, LineInv, ShowInv, FinalsInv
  PROVE  FinalsArrive
  <1>1. ASSUME Rest, NEW t \in Tabs, tab[t].welcomed, NEW n \in Member(tab[t].pending)
        PROVE  n \in history.excused
    <2>1. PICK s : s = tab[t].ws
      OBVIOUS
    <2>2. s # 0 /\ s \in DOMAIN socket /\ socket[s].tab = t
      BY <1>1, <2>1, TabAt DEF LineInv, TabOK
    <2>3. /\ socket[s].open /\ DOMAIN socket[s].up = {} /\ DOMAIN socket[s].down = {}
          /\ DOMAIN engine.queue = {}
      BY <1>1, <2>1, <2>2 DEF Rest, Sockets
    <2>4. OnItsWay(s, n)
      BY <1>1, <2>1, <2>3 DEF FinalsInv, Awaited
    <2> QED BY <2>3, <2>4 DEF OnItsWay, Queue, Member
  <1> QED BY <1>1 DEF FinalsArrive, FinalsInv, KeptOrSaved, SavedOnce

-----------------------------------------------------------------------------
(* Durable messages: what a tab sent is handled, then queued at the engine,   *)
(* then on the socket the engine listens to, then in the outbox, in order.    *)

SentBy(n) == history.sent[n].tab
IsControl(k) == k.type = "message" /\ k.msg.type = "durable"

InTurn(q) ==
  \A i, j \in DOMAIN q :
    i < j /\ IsControl(q[i]) /\ IsControl(q[j]) /\ SentBy(q[i].msg.n) = SentBy(q[j].msg.n)
      => q[i].msg.n < q[j].msg.n

Ascends(up) ==
  \A i, j \in DOMAIN up :
    i < j /\ up[i].type = "durable" /\ up[j].type = "durable" => up[i].n < up[j].n

Rises(outbox) == \A i, j \in DOMAIN outbox : i < j => outbox[i] < outbox[j]

\* What t sent and is handled or queued came before n.
After(t, n) ==
  /\ \A i \in Member(history.handled) : SentBy(i) = t => i < n
  /\ \A k \in Queue : IsControl(k) /\ SentBy(k.msg.n) = t => k.msg.n < n

QueueFollows ==
  /\ InTurn(engine.queue)
  /\ \A k \in Queue : IsControl(k) =>
       \A i \in Member(history.handled) : SentBy(i) = SentBy(k.msg.n) => i < k.msg.n

SocketFollows(s) ==
  /\ Ascends(socket[s].up)
  /\ \A m \in Member(socket[s].up) : m.type = "durable" =>
       /\ SentBy(m.n) = socket[s].tab /\ After(socket[s].tab, m.n)
       /\ \A b \in Member(tab[socket[s].tab].outbox) : m.n < b

OutboxFollows(t) ==
  /\ Rises(tab[t].outbox)
  /\ \A b \in Member(tab[t].outbox) : SentBy(b) = t /\ After(t, b)
  /\ Connected(t) => tab[t].outbox = << >>

OrderInv ==
  /\ DurablesInOrder /\ QueueFollows
  /\ \A s \in Sockets : \A m \in Member(socket[s].up) : m.type = "durable" => Attached(s)
  /\ engine.transport # 0 => SocketFollows(engine.transport)
  /\ \A t \in Tabs : OutboxFollows(t)

LEMMA InTurnFacts ==
  ASSUME NEW q \in Seq(TaskRecord), InTurn(q)
  PROVE  /\ q # << >> =>
              /\ InTurn(Tail(q))
              /\ \A k \in Member(Tail(q)) :
                   IsControl(Head(q)) /\ IsControl(k) /\ SentBy(Head(q).msg.n) = SentBy(k.msg.n)
                     => Head(q).msg.n < k.msg.n
         /\ \A x \in TaskRecord :
              (\A k \in Member(q) : IsControl(k) /\ IsControl(x) /\ SentBy(k.msg.n) = SentBy(x.msg.n)
                                      => k.msg.n < x.msg.n)
                => InTurn(Append(q, x))
  <1>1. Len(q) \in Nat /\ DOMAIN q = 1..Len(q)
    OBVIOUS
  <1>2. ASSUME q # << >>
        PROVE  /\ InTurn(Tail(q))
               /\ \A k \in Member(Tail(q)) :
                    IsControl(Head(q)) /\ IsControl(k) /\ SentBy(Head(q).msg.n) = SentBy(k.msg.n)
                      => Head(q).msg.n < k.msg.n
    <2>1. PICK p : p = Tail(q)
      OBVIOUS
    <2>2. /\ DOMAIN p = 1..Len(p) /\ Len(p) \in Nat /\ Head(q) = q[1] /\ 1 \in DOMAIN q
          /\ \A i \in DOMAIN p : i + 1 \in DOMAIN q /\ p[i] = q[i + 1]
      BY <1>2, <2>1, Taking, Inside
    <2>3. InTurn(p)
      BY <2>2, <1>1 DEF InTurn
    <2>4. \A k \in Member(p) :
            IsControl(Head(q)) /\ IsControl(k) /\ SentBy(Head(q).msg.n) = SentBy(k.msg.n)
              => Head(q).msg.n < k.msg.n
      BY <2>2, <1>1 DEF InTurn, Member
    <2> QED BY <2>1, <2>3, <2>4
  <1>3. ASSUME NEW x \in TaskRecord,
               \A k \in Member(q) : IsControl(k) /\ IsControl(x) /\ SentBy(k.msg.n) = SentBy(x.msg.n)
                                      => k.msg.n < x.msg.n
        PROVE  InTurn(Append(q, x))
    <2>1. PICK p : p = Append(q, x)
      OBVIOUS
    <2>2. /\ DOMAIN p = 1..(Len(q) + 1) /\ p[Len(q) + 1] = x /\ \A i \in DOMAIN q : p[i] = q[i]
      BY <1>1, <2>1
    <2>3. ASSUME NEW i \in DOMAIN p, NEW j \in DOMAIN p, i < j, IsControl(p[i]), IsControl(p[j]),
                 SentBy(p[i].msg.n) = SentBy(p[j].msg.n)
          PROVE  p[i].msg.n < p[j].msg.n
      <3>1. i \in DOMAIN q
        BY <1>1, <2>2, <2>3
      <3>2. CASE j \in DOMAIN q
        BY <2>2, <2>3, <3>1, <3>2 DEF InTurn
      <3>3. CASE j = Len(q) + 1
        <4>1. q[i] \in Member(q) /\ p[j] = x /\ p[i] = q[i]
          BY <2>2, <3>1, <3>3 DEF Member
        <4> QED BY <1>3, <2>3, <4>1
      <3> QED BY <1>1, <2>2, <3>2, <3>3
    <2> QED BY <2>1, <2>3 DEF InTurn
  <1> QED BY <1>2, <1>3

LEMMA AscendsFacts ==
  ASSUME NEW S, NEW up \in Seq(S), Ascends(up)
  PROVE  /\ up # << >> =>
              /\ Ascends(Tail(up))
              /\ \A m \in Member(Tail(up)) :
                   Head(up).type = "durable" /\ m.type = "durable" => Head(up).n < m.n
         /\ \A x \in S :
              (\A m \in Member(up) : m.type = "durable" /\ x.type = "durable" => m.n < x.n)
                => Ascends(Append(up, x))
         /\ \A r \in Seq(S) :
              /\ Ascends(r)
              /\ \A m \in Member(up) : \A x \in Member(r) :
                   m.type = "durable" /\ x.type = "durable" => m.n < x.n
              => Ascends(up \o r)
  <1>1. Len(up) \in Nat /\ DOMAIN up = 1..Len(up)
    OBVIOUS
  <1>2. ASSUME up # << >>
        PROVE  /\ Ascends(Tail(up))
               /\ \A m \in Member(Tail(up)) :
                    Head(up).type = "durable" /\ m.type = "durable" => Head(up).n < m.n
    <2>1. PICK p : p = Tail(up)
      OBVIOUS
    <2>2. /\ DOMAIN p = 1..Len(p) /\ Len(p) \in Nat /\ Head(up) = up[1] /\ 1 \in DOMAIN up
          /\ \A i \in DOMAIN p : i + 1 \in DOMAIN up /\ p[i] = up[i + 1]
      BY <1>2, <2>1, Taking, Inside
    <2>3. Ascends(p)
      BY <2>2, <1>1 DEF Ascends
    <2>4. \A m \in Member(p) : Head(up).type = "durable" /\ m.type = "durable" => Head(up).n < m.n
      BY <2>2, <1>1 DEF Ascends, Member
    <2> QED BY <2>1, <2>3, <2>4
  <1>3. ASSUME NEW r \in Seq(S), Ascends(r),
               \A m \in Member(up) : \A x \in Member(r) :
                 m.type = "durable" /\ x.type = "durable" => m.n < x.n
        PROVE  Ascends(up \o r)
    <2>1. PICK p : p = up \o r
      OBVIOUS
    <2>2. /\ DOMAIN r = 1..Len(r) /\ Len(r) \in Nat /\ DOMAIN p = 1..(Len(up) + Len(r))
          /\ \A i \in DOMAIN up : p[i] = up[i]
          /\ \A i \in DOMAIN p : i \notin DOMAIN up => i - Len(up) \in DOMAIN r /\ p[i] = r[i - Len(up)]
      BY <1>1, <2>1
    <2>3. ASSUME NEW i \in DOMAIN p, NEW j \in DOMAIN p, i < j, p[i].type = "durable", p[j].type = "durable"
          PROVE  p[i].n < p[j].n
      <3>1. CASE i \in DOMAIN up /\ j \in DOMAIN up
        BY <2>2, <2>3, <3>1 DEF Ascends
      <3>2. CASE i \notin DOMAIN up /\ j \notin DOMAIN up
        BY <1>1, <1>3, <2>2, <2>3, <3>2 DEF Ascends
      <3>3. CASE i \in DOMAIN up /\ j \notin DOMAIN up
        <4>1. up[i] \in Member(up) /\ r[j - Len(up)] \in Member(r)
          BY <2>2, <3>3 DEF Member
        <4> QED BY <1>3, <2>2, <2>3, <3>3, <4>1
      <3> QED BY <1>1, <2>2, <2>3, <3>1, <3>2, <3>3
    <2> QED BY <2>1, <2>3 DEF Ascends
  <1>4. ASSUME NEW x \in S,
               \A m \in Member(up) : m.type = "durable" /\ x.type = "durable" => m.n < x.n
        PROVE  Ascends(Append(up, x))
    <2>1. PICK p : p = Append(up, x)
      OBVIOUS
    <2>2. /\ DOMAIN p = 1..(Len(up) + 1) /\ p[Len(up) + 1] = x /\ \A i \in DOMAIN up : p[i] = up[i]
      BY <1>1, <2>1
    <2>3. ASSUME NEW i \in DOMAIN p, NEW j \in DOMAIN p, i < j, p[i].type = "durable", p[j].type = "durable"
          PROVE  p[i].n < p[j].n
      <3>1. i \in DOMAIN up /\ up[i] \in Member(up)
        BY <1>1, <2>2, <2>3 DEF Member
      <3>2. CASE j \in DOMAIN up
        BY <2>2, <2>3, <3>1, <3>2 DEF Ascends
      <3>3. CASE j = Len(up) + 1
        BY <1>4, <2>2, <2>3, <3>1, <3>3
      <3> QED BY <1>1, <2>2, <3>2, <3>3
    <2> QED BY <2>1, <2>3 DEF Ascends
  <1> QED BY <1>2, <1>3, <1>4

\* An outbox sent is in order; so is one with a message more.
LEMMA FlushAscends ==
  ASSUME LiveLinkTypeOK, NEW d \in TabRecord, Rises(d.outbox)
  PROVE  Ascends(Flushed(d))
  BY FlushFacts DEF Ascends, Rises

LEMMA QueuedRises ==
  ASSUME NEW S, NEW q \in Seq(S), NEW n \in S, Rises(q), \A i \in Member(q) : i < n
  PROVE  Rises(Queued(q, n)) /\ Member(Queued(q, n)) \subseteq Member(q) \cup {n}
  <1>1. \A i, j \in DOMAIN Queued(q, n) : i < j =>
          \E k \in DOMAIN q :
            /\ Queued(q, n)[i] = q[k]
            /\ Queued(q, n)[j] = n \/ \E l \in DOMAIN q : k < l /\ Queued(q, n)[j] = q[l]
    BY QueuedFacts
  <1>2. \A k \in DOMAIN q : q[k] < n /\ \A l \in DOMAIN q : k < l => q[k] < q[l]
    BY DEF Member, Rises
  <1>3. Rises(Queued(q, n))
    <2> SUFFICES ASSUME NEW i \in DOMAIN Queued(q, n), NEW j \in DOMAIN Queued(q, n), i < j
                 PROVE  Queued(q, n)[i] < Queued(q, n)[j]
      BY DEF Rises
    <2> QED BY <1>1, <1>2
  <1> QED BY <1>3, QueuedFacts

\* The same durable messages, in the same order.
LEMMA InTurnStays ==
  ASSUME history'.sent = history.sent, NEW q, InTurn(q)
  PROVE  InTurn(q)'
  BY DEF InTurn, SentBy

\* No socket is opened again.
LEMMA StillConnected ==
  ASSUME LiveLinkTypeOK,
         \A t \in Tabs : tab'[t].welcomed => tab[t].welcomed /\ tab'[t].ws = tab[t].ws,
         \A s \in DOMAIN socket : socket'[s].open => socket[s].open
  PROVE  \A t \in Tabs : Connected(t)' => Connected(t)
  <1> SUFFICES ASSUME NEW t \in Tabs, Connected(t)' PROVE Connected(t)
    OBVIOUS
  <1>1. tab'[t].welcomed /\ tab'[t].ws # 0 /\ socket'[tab'[t].ws].open
    BY DEF Connected
  <1>2. tab[t].welcomed /\ tab'[t].ws = tab[t].ws
    BY <1>1
  <1>3. tab[t].ws \in DOMAIN socket
    BY <1>1, <1>2, TabAt
  <1> QED BY <1>1, <1>2, <1>3 DEF Connected

\* Nothing more is under way, in the queue or in an outbox.
LEMMA OrderFrame ==
  ASSUME LiveLinkTypeOK, OrderInv,
         history'.sent = history.sent, history'.handled = history.handled,
         \A t \in Tabs : tab'[t].outbox = tab[t].outbox /\ (Connected(t)' => Connected(t)),
         InTurn(engine.queue)', \A k \in Queue' : IsControl(k) => k \in Queue,
         DOMAIN socket \subseteq DOMAIN socket',
         \A s \in DOMAIN socket' : \A m \in Member(socket'[s].up) : m.type = "durable" =>
           /\ s \in DOMAIN socket /\ m \in Member(socket[s].up)
           /\ Attached(s) => socket'[s].phase = "ready" \/ engine'.busy = s,
         \A s \in DOMAIN socket : socket'[s].tab = socket[s].tab /\ (Ascends(socket[s].up) => Ascends(socket'[s].up)),
         \/ engine'.transport \in {0, engine.transport}
         \/ /\ Ascends(socket'[engine'.transport].up)
            /\ \A m \in Member(socket'[engine'.transport].up) : m.type # "durable"
  PROVE  OrderInv'
  <1>1. \A n : SentBy(n)' = SentBy(n)
    BY DEF SentBy
  <1>2. ASSUME NEW t, NEW n, After(t, n) PROVE After(t, n)'
    BY <1>1, <1>2 DEF After
  <1>3. DurablesInOrder'
    BY DEF OrderInv, DurablesInOrder
  <1>4. QueueFollows'
    BY <1>1 DEF OrderInv, QueueFollows
  <1>5. ASSUME NEW s \in Sockets', NEW m \in Member(socket'[s].up), m.type = "durable"
        PROVE  Attached(s)'
    BY <1>5 DEF OrderInv, Attached, Sockets
  <1>6. ASSUME NEW t \in Tabs PROVE OutboxFollows(t)'
    <2>1. OutboxFollows(t) /\ tab'[t].outbox = tab[t].outbox /\ (Connected(t)' => Connected(t))
      BY DEF OrderInv
    <2>2. ASSUME NEW b \in Member(tab[t].outbox) PROVE SentBy(b)' = t /\ After(t, b)'
      BY <1>1, <1>2, <2>1, <2>2 DEF OutboxFollows
    <2> QED BY <2>1, <2>2 DEF OutboxFollows
  <1>7. ASSUME engine'.transport # 0 PROVE SocketFollows(engine.transport)'
    <2>0. PICK s : s = engine'.transport
      OBVIOUS
    <2>1. CASE s = engine.transport
      <3>1. s \in DOMAIN socket /\ SocketFollows(s) /\ socket[s].tab \in Tabs /\ socket'[s].tab = socket[s].tab
        <4>1. s \in DOMAIN socket
          BY <1>7, <2>0, <2>1, Typed, EngineIs
        <4> QED BY <1>7, <2>0, <2>1, <4>1, SocketAt DEF OrderInv
      <3>2. PICK t \in Tabs : t = socket[s].tab
        BY <3>1
      <3>3. Ascends(socket'[s].up)
        BY <3>1 DEF SocketFollows
      <3>4. ASSUME NEW m \in Member(socket'[s].up), m.type = "durable"
            PROVE  /\ SentBy(m.n)' = t /\ After(t, m.n)'
                   /\ \A b \in Member(tab[t].outbox) : m.n < b
        <4>1. m \in Member(socket[s].up)
          <5>1. s \in DOMAIN socket'
            BY <3>1
          <5> QED BY <3>4, <5>1
        <4>2. SentBy(m.n) = t /\ After(t, m.n) /\ \A b \in Member(tab[t].outbox) : m.n < b
          BY <3>1, <3>2, <3>4, <4>1 DEF SocketFollows
        <4> QED BY <1>1, <1>2, <4>2
      <3>5. tab'[t].outbox = tab[t].outbox /\ socket'[s].tab = t
        BY <3>1, <3>2
      <3> QED BY <2>0, <3>3, <3>4, <3>5 DEF SocketFollows
    <2>2. CASE s # engine.transport
      BY <1>7, <2>0, <2>2 DEF SocketFollows
    <2> QED BY <2>1, <2>2
  <1> QED BY <1>3, <1>4, <1>5, <1>6, <1>7 DEF OrderInv

\* What the engine adds to the queue, or takes from it, is no durable message.
LEMMA QueueFrame ==
  ASSUME LiveLinkTypeOK, OrderInv, history'.sent = history.sent, NEW x \in TaskRecord, ~IsControl(x),
         NEW q \in Seq(TaskRecord),
         \/ q = engine.queue
         \/ engine.queue # << >> /\ q = Tail(engine.queue),
         engine'.queue = q \/ engine'.queue = Append(q, x)
  PROVE  /\ InTurn(engine.queue)'
         /\ \A k \in Queue' : IsControl(k) => k \in Queue
  <1>1. engine.queue \in Seq(TaskRecord) /\ InTurn(engine.queue)
    BY Typed, EngineIs DEF OrderInv, QueueFollows
  <1>2. InTurn(q) /\ Member(q) \subseteq Queue
    BY <1>1, InTurnFacts, Taking DEF Queue
  <1>3. InTurn(Append(q, x)) /\ Member(Append(q, x)) = Member(q) \cup {x}
    BY <1>2, InTurnFacts, Appended
  <1>4. PICK p : p = engine'.queue
    OBVIOUS
  <1>5. InTurn(p) /\ \A k \in Member(p) : IsControl(k) => k \in Queue
    BY <1>2, <1>3, <1>4
  <1>6. InTurn(p)'
    BY <1>5, InTurnStays
  <1>7. InTurn(p)' => InTurn(engine.queue)'
    BY <1>4 DEF InTurn
  <1>8. \A k \in Queue' : k \in Member(p)
    BY <1>4 DEF Queue
  <1> QED BY <1>5, <1>6, <1>7, <1>8

LEMMA OrderOne ==
  ASSUME LiveLinkTypeOK, OrderInv, tab' = tab, NEW s, NEW r, OneSocket(s, r), r.tab = socket[s].tab,
         history'.sent = history.sent, history'.handled = history.handled,
         InTurn(engine.queue)', \A k \in Queue' : IsControl(k) => k \in Queue,
         engine'.transport = engine.transport, engine'.busy = engine.busy,
         Attached(s) => r.phase = "ready" \/ engine.busy = s, r.open => socket[s].open,
         \A m \in Member(r.up) : m.type = "durable" => m \in Member(socket[s].up),
         Ascends(socket[s].up) => Ascends(r.up)
  PROVE  OrderInv'
  <1>1. /\ DOMAIN socket' = DOMAIN socket /\ socket'[s] = r
        /\ \A i \in DOMAIN socket : i # s => socket'[i] = socket[i]
    BY OneSocketFacts
  <1>2. \A i \in DOMAIN socket' : \A m \in Member(socket'[i].up) : m.type = "durable" =>
           /\ i \in DOMAIN socket /\ m \in Member(socket[i].up)
           /\ Attached(i) => socket'[i].phase = "ready" \/ engine'.busy = i
    BY <1>1 DEF Attached
  <1>3. \A i \in DOMAIN socket : socket'[i].tab = socket[i].tab /\ (Ascends(socket[i].up) => Ascends(socket'[i].up))
    BY <1>1
  <1>4. \A t \in Tabs : Connected(t)' => Connected(t)
    BY <1>1, StillConnected
  <1> QED BY <1>1, <1>2, <1>3, <1>4, OrderFrame

\* The queue, without a durable message more.
LEMMA QueueKept ==
  ASSUME LiveLinkTypeOK, OrderInv, history'.sent = history.sent, engine'.queue = engine.queue
  PROVE  /\ InTurn(engine.queue)'
         /\ \A k \in Queue' : IsControl(k) => k \in Queue
  <1>1. PICK q : q = engine.queue
    OBVIOUS
  <1>2. InTurn(q)
    BY <1>1 DEF OrderInv, QueueFollows
  <1>3. InTurn(q)'
    BY <1>2, InTurnStays
  <1>4. InTurn(q)' => InTurn(engine.queue)'
    BY <1>1 DEF InTurn
  <1> QED BY <1>3, <1>4 DEF Queue

LEMMA OrderGateway ==
  ASSUME LiveLinkTypeOK, LineInv, OrderInv, NEW s \in Sockets,
         Authenticated(s) \/ GatewayNotices(s) \/ HelloTimeout(s) \/ Refused(s) \/ Drop(s)
  PROVE  OrderInv'
  <1>1. CASE Authenticated(s)
    <2>1. PICK x : x = Task("attach", s, Hello(socket[s].last))
      OBVIOUS
    <2>2. PICK r : /\ OneSocket(s, r) /\ r.up = socket[s].up /\ r.tab = socket[s].tab
                   /\ r.open => socket[s].open
      BY ZenonT(40), <1>1, AuthenticatedFacts
    <2>3. /\ tab' = tab /\ history' = history /\ engine'.transport = engine.transport
          /\ engine'.queue = Append(engine.queue, x) /\ x \in TaskRecord /\ engine'.busy = engine.busy
          /\ socket[s].phase = "auth"
      BY <1>1, <2>1, AuthenticatedFacts
    <2>4. ~IsControl(x)
      BY <2>1 DEF IsControl, Task
    <2>5. PICK q : q = engine.queue
      OBVIOUS
    <2>6. q \in Seq(TaskRecord)
      BY <2>5, Typed, EngineIs
    <2>7. InTurn(engine.queue)' /\ \A k \in Queue' : IsControl(k) => k \in Queue
      BY <2>3, <2>4, <2>5, <2>6, QueueFrame
    <2> QED BY <2>2, <2>3, <2>7, OrderOne DEF Attached
  <1>2. CASE GatewayNotices(s)
    <2>1. PICK x : x = Task("detach", s, NoMessage)
      OBVIOUS
    <2>2. PICK r : /\ OneSocket(s, r) /\ r.up = << >> /\ r.tab = socket[s].tab
                   /\ r.open => socket[s].open
                   /\ r.phase = socket[s].phase
      BY <1>2, GoneFacts
    <2>3. /\ tab' = tab /\ history' = history /\ engine'.transport = engine.transport
          /\ engine'.queue = engine.queue \/ engine'.queue = Append(engine.queue, x)
          /\ x \in TaskRecord /\ engine'.busy = engine.busy
      BY <1>2, <2>1, GoneFacts
    <2>4. ~IsControl(x)
      BY <2>1 DEF IsControl, Task
    <2>5. PICK q : q = engine.queue
      OBVIOUS
    <2>6. q \in Seq(TaskRecord)
      BY <2>5, Typed, EngineIs
    <2>7. InTurn(engine.queue)' /\ \A k \in Queue' : IsControl(k) => k \in Queue
      BY <2>3, <2>4, <2>5, <2>6, QueueFrame
    <2>8. Member(r.up) = {} /\ Ascends(r.up)
      BY <2>2 DEF Member, Ascends
    <2> QED BY <2>2, <2>3, <2>7, <2>8, OrderOne DEF Attached
  <1>3. CASE HelloTimeout(s) \/ Refused(s)
    <2>1. PICK r : /\ OneSocket(s, r) /\ r.up = socket[s].up /\ r.tab = socket[s].tab
                   /\ r.open => socket[s].open
                   /\ r.phase = socket[s].phase \/ socket[s].phase = "auth"
      BY <1>3, GivesUpFacts
    <2>2. tab' = tab /\ engine' = engine /\ history'.sent = history.sent /\ history'.handled = history.handled
      BY <1>3, GivesUpFacts
    <2>3. InTurn(engine.queue)' /\ \A k \in Queue' : IsControl(k) => k \in Queue
      BY <2>2, QueueKept
    <2> QED BY <2>1, <2>2, <2>3, OrderOne DEF Attached
  <1>4. CASE Drop(s)
    <2>1. PICK r : /\ OneSocket(s, r) /\ r.up = socket[s].up /\ r.tab = socket[s].tab
                   /\ r.open => socket[s].open
                   /\ r.phase = socket[s].phase
      BY <1>4, DropFacts
    <2>2. tab' = tab /\ engine' = engine /\ history' = history
      BY <1>4, DropFacts
    <2>3. InTurn(engine.queue)' /\ \A k \in Queue' : IsControl(k) => k \in Queue
      BY <2>2, QueueKept
    <2> QED BY <2>1, <2>2, <2>3, OrderOne DEF Attached
  <1> QED BY <1>1, <1>2, <1>3, <1>4

\* A step of the engine that handles no durable message.
LEMMA OrderEngine ==
  ASSUME LiveLinkTypeOK, LineInv, OrderInv, HandleFinal \/ Detach \/ ReplyEnds \/ AttachReturns
  PROVE  OrderInv'
  <1>0. engine.transport # 0 => engine.st # "RECONNECTING"
    BY DEF LineInv, EngineOK
  <1>a. \E T : \E out \in Seq(ServerMessage) : Carries(T, out)
    <2>1. CASE HandleFinal
      BY <2>1, HandleFinalFacts
    <2>2. CASE Detach
      BY <1>0, <2>2, DetachFacts
    <2>3. CASE ReplyEnds
      BY <2>3, ReplyEndsFacts
    <2>4. CASE AttachReturns
      BY <2>4, AttachReturnsFacts
    <2> QED BY <2>1, <2>2, <2>3, <2>4
  <1>1. /\ DOMAIN socket' = DOMAIN socket
        /\ \A i \in DOMAIN socket : /\ socket'[i].up = socket[i].up /\ socket'[i].tab = socket[i].tab
                                    /\ socket'[i].open = socket[i].open
    BY <1>a DEF Carries, Stands
  <1>2. /\ tab' = tab /\ history'.sent = history.sent /\ history'.handled = history.handled
        /\ engine'.transport \in {0, engine.transport}
    <2>1. CASE HandleFinal
      BY <2>1, HandleFinalFacts
    <2>2. CASE Detach
      BY <1>0, <2>2, DetachFacts
    <2>3. CASE ReplyEnds
      BY <2>3, ReplyEndsFacts
    <2>4. CASE AttachReturns
      BY <2>4, AttachReturnsFacts
    <2> QED BY <2>1, <2>2, <2>3, <2>4
  <1>3. \A i \in DOMAIN socket : Attached(i) => socket'[i].phase = "ready" \/ engine'.busy = i
    <2>1. CASE HandleFinal
      BY <2>1, HandleFinalFacts DEF SamePhases, Attached
    <2>2. CASE Detach
      BY <1>0, <2>2, DetachFacts DEF SamePhases, Attached
    <2>3. CASE ReplyEnds
      BY <2>3, ReplyEndsFacts DEF SamePhases, Attached
    <2>4. CASE AttachReturns
      BY <2>4, AttachReturnsFacts DEF Attached
    <2> QED BY <2>1, <2>2, <2>3, <2>4
  <1>4. InTurn(engine.queue)' /\ \A k \in Queue' : IsControl(k) => k \in Queue
    <2>0. PICK p, q, h, x : /\ p = engine.queue /\ q = Tail(engine.queue) /\ h = Head(engine.queue)
                            /\ x = Task("detach", engine.busy, NoMessage)
      OBVIOUS
    <2>1. p \in Seq(TaskRecord) /\ (p # << >> => q \in Seq(TaskRecord) /\ h \in TaskRecord)
      <3>1. engine.queue \in Seq(TaskRecord)
        BY Typed, EngineIs
      <3> QED BY <2>0, <3>1, Taking
    <2>2. CASE HandleFinal \/ Detach
      <3>1. /\ p # << >> /\ engine'.queue = q /\ ~IsControl(h)
        <4>1. CASE HandleFinal
          BY <2>0, <4>1, HandleFinalFacts DEF IsControl
        <4>2. CASE Detach
          BY <1>0, <2>0, <4>2, DetachFacts DEF IsControl
        <4> QED BY <2>2, <4>1, <4>2
      <3> QED BY <1>2, <2>0, <2>1, <3>1, QueueFrame
    <2>3. CASE ReplyEnds
      BY <1>2, <2>3, ReplyEndsFacts, QueueKept
    <2>4. CASE AttachReturns
      <3>1. x \in TaskRecord /\ (engine'.queue = p \/ engine'.queue = Append(p, x))
        BY <2>0, <2>4, AttachReturnsFacts
      <3>2. ~IsControl(x)
        BY <2>0 DEF IsControl, Task
      <3> QED BY <1>2, <2>0, <2>1, <3>1, <3>2, QueueFrame
    <2> QED BY <2>2, <2>3, <2>4
  <1>5. \A s \in DOMAIN socket' : \A m \in Member(socket'[s].up) : m.type = "durable" =>
           /\ s \in DOMAIN socket /\ m \in Member(socket[s].up)
           /\ Attached(s) => socket'[s].phase = "ready" \/ engine'.busy = s
    BY <1>1, <1>3
  <1>6. \A s \in DOMAIN socket : socket'[s].tab = socket[s].tab /\ (Ascends(socket[s].up) => Ascends(socket'[s].up))
    BY <1>1
  <1>7. \A t \in Tabs : Connected(t)' => Connected(t)
    BY <1>1, <1>2, StillConnected
  <1> QED BY <1>1, <1>2, <1>4, <1>5, <1>6, <1>7, OrderFrame

LEMMA OrderRestart ==
  ASSUME LiveLinkTypeOK, OrderInv, Restart
  PROVE  OrderInv'
  <1>1. /\ tab' = tab /\ history'.sent = history.sent /\ history'.handled = history.handled
        /\ DOMAIN socket' = DOMAIN socket
        /\ \A i \in DOMAIN socket : /\ socket'[i].tab = socket[i].tab /\ socket'[i].up = << >>
                                    /\ ~socket'[i].open
        /\ engine'.queue = << >> /\ engine'.transport = 0
    BY RestartFacts
  <1>2. InTurn(engine.queue)' /\ Queue' = {}
    BY <1>1 DEF InTurn, Queue, Member
  <1>3. Member(<< >>) = {} /\ Ascends(<< >>)
    BY DEF Member, Ascends
  <1>4. \A t \in Tabs : Connected(t)' => Connected(t)
    BY <1>1, StillConnected
  <1> QED BY <1>1, <1>2, <1>3, <1>4, OrderFrame

LEMMA OrderAttach ==
  ASSUME LiveLinkTypeOK, LineInv, OrderInv, Attach
  PROVE  OrderInv'
  <1>0. PICK s, x, q : /\ s = Head(engine.queue).socket /\ x = Task("detach", s, NoMessage)
                       /\ q = Tail(engine.queue)
    OBVIOUS
  <1>1. /\ tab' = tab /\ history' = history /\ engine.busy = 0
        /\ engine.queue # << >> /\ Head(engine.queue).type = "attach" /\ s \in DOMAIN socket
        /\ DOMAIN socket' = DOMAIN socket
        /\ \A i \in DOMAIN socket :
              /\ Stands(socket'[i], socket[i]) /\ (socket'[i].open => socket[i].open)
              /\ i # s => socket'[i].phase = socket[i].phase
        /\ engine'.transport = s
        /\ \/ engine'.busy = s /\ engine'.queue = q
           \/ /\ engine'.busy = 0 /\ socket'[s].phase = "ready"
              /\ engine'.queue = q \/ engine'.queue = Append(q, x)
    BY <1>0, AttachFacts
  <1>2. engine.queue \in Seq(TaskRecord) /\ q \in Seq(TaskRecord) /\ Head(engine.queue) \in Queue
    <2>1. engine.queue \in Seq(TaskRecord)
      BY Typed, EngineIs
    <2> QED BY <1>0, <1>1, <2>1, Taking DEF Queue
  <1>3. s # 0 /\ ~Attached(s)
    <2>1. s # 0
      BY <1>1, Typed
    <2>2. socket[s].phase = "queued"
      BY <1>0, <1>1, <1>2 DEF LineInv, EngineOK, TaskOK
    <2> QED BY <1>1, <2>1, <2>2 DEF Attached
  <1>4. x \in TaskRecord /\ ~IsControl(x)
    BY <1>0, <1>1 DEF Task, TaskRecord, NoMessage, ClientMessage, IsControl
  <1>5. InTurn(engine.queue)' /\ \A k \in Queue' : IsControl(k) => k \in Queue
    BY <1>0, <1>1, <1>2, <1>4, QueueFrame
  <1>6. \A m \in Member(socket[s].up) : m.type # "durable"
    BY <1>1, <1>3 DEF OrderInv, Sockets
  <1>7. /\ \A m \in Member(socket'[s].up) : m.type # "durable"
        /\ Ascends(socket'[s].up)
    <2>1. socket'[s].up = socket[s].up
      BY <1>1 DEF Stands
    <2>2. Ascends(socket[s].up)
      BY <1>6 DEF Ascends, Member
    <2> QED BY <1>6, <2>1, <2>2
  <1>8. \A i \in DOMAIN socket' : \A m \in Member(socket'[i].up) : m.type = "durable" =>
           /\ i \in DOMAIN socket /\ m \in Member(socket[i].up)
           /\ Attached(i) => socket'[i].phase = "ready" \/ engine'.busy = i
    <2>1. \A i \in DOMAIN socket : i # 0
      BY Typed
    <2>2. \A i \in DOMAIN socket : socket'[i].up = socket[i].up
      BY <1>1 DEF Stands
    <2> QED BY <1>1, <1>3, <2>1, <2>2 DEF Attached
  <1>9. \A i \in DOMAIN socket : socket'[i].tab = socket[i].tab /\ (Ascends(socket[i].up) => Ascends(socket'[i].up))
    BY <1>1 DEF Stands
  <1>10. \A t \in Tabs : Connected(t)' => Connected(t)
    BY <1>1, StillConnected
  <1> QED BY <1>1, <1>5, <1>7, <1>8, <1>9, <1>10, OrderFrame

\* A step of the browser that adds no durable message.
LEMMA OrderBrowser ==
  ASSUME LiveLinkTypeOK, OrderInv, engine' = engine,
         history'.sent = history.sent, history'.handled = history.handled,
         \A t \in Tabs : tab'[t].outbox = tab[t].outbox /\ (Connected(t)' => Connected(t)),
         DOMAIN socket \subseteq DOMAIN socket',
         \A s \in DOMAIN socket' : s \notin DOMAIN socket =>
            \A m \in Member(socket'[s].up) : m.type # "durable",
         \A s \in DOMAIN socket :
           /\ socket'[s].tab = socket[s].tab /\ socket'[s].phase = socket[s].phase
           /\ \A m \in Member(socket'[s].up) : m.type = "durable" => m \in Member(socket[s].up)
           /\ Ascends(socket[s].up) => Ascends(socket'[s].up)
  PROVE  OrderInv'
  <1>1. \A s \in DOMAIN socket' : \A m \in Member(socket'[s].up) : m.type = "durable" =>
           /\ s \in DOMAIN socket /\ m \in Member(socket[s].up)
           /\ Attached(s) => socket'[s].phase = "ready" \/ engine'.busy = s
    BY DEF Attached
  <1>2. InTurn(engine.queue)' /\ \A k \in Queue' : IsControl(k) => k \in Queue
    BY QueueKept
  <1> QED BY <1>1, <1>2, OrderFrame

LEMMA OrderConnect ==
  ASSUME LiveLinkTypeOK, OrderInv, NEW t \in Tabs, Connect(t)
  PROVE  OrderInv'
  <1>1. PICK c :
           /\ OneTab(t, c) /\ socket' = socket /\ engine' = engine /\ history' = history
           /\ c.ws = tab[t].ws /\ c.welcomed = tab[t].welcomed /\ c.outbox = tab[t].outbox
    BY ConnectFacts
  <1>2. \A u \in Tabs : /\ tab'[u].outbox = tab[u].outbox /\ tab'[u].ws = tab[u].ws
                         /\ tab'[u].welcomed = tab[u].welcomed
    BY <1>1, OneTabFacts
  <1>3. \A u \in Tabs : Connected(u)' => Connected(u)
    BY <1>1, <1>2, StillConnected
  <1> QED BY <1>1, <1>2, <1>3, OrderBrowser

LEMMA OrderNotices ==
  ASSUME LiveLinkTypeOK, OrderInv, NEW t \in Tabs, ClientNotices(t)
  PROVE  OrderInv'
  <1>1. PICK s, c, r :
           /\ OneTab(t, c) /\ OneSocket(s, r) /\ c.welcomed = FALSE /\ c.outbox = tab[t].outbox
           /\ Kept(r, socket[s]) /\ r.up = socket[s].up /\ engine' = engine /\ history' = history
    BY NoticesFacts
  <1>2. tab'[t] = c /\ \A u \in Tabs : u # t => tab'[u] = tab[u]
    BY <1>1, OneTabFacts
  <1>10. \A u \in Tabs : tab'[u].outbox = tab[u].outbox
    BY <1>1, <1>2
  <1>3. DOMAIN socket' = DOMAIN socket /\ socket'[s] = r /\ \A i \in DOMAIN socket : i # s => socket'[i] = socket[i]
    BY <1>1, OneSocketFacts
  <1>4. \A i \in DOMAIN socket : /\ socket'[i].tab = socket[i].tab /\ socket'[i].phase = socket[i].phase
                                /\ socket'[i].up = socket[i].up /\ socket'[i].open = socket[i].open
    BY <1>1, <1>3 DEF Kept
  <1>5. ASSUME NEW u \in Tabs, tab'[u].welcomed
        PROVE  tab[u].welcomed /\ tab'[u].ws = tab[u].ws
    BY <1>1, <1>2, <1>5
  <1>6. \A i \in DOMAIN socket : socket'[i].open => socket[i].open
    BY <1>4
  <1>7. \A u \in Tabs : Connected(u)' => Connected(u)
    BY <1>5, <1>6, StillConnected
  <1>8. /\ engine' = engine /\ history'.sent = history.sent /\ history'.handled = history.handled
        /\ \A i \in DOMAIN socket' : i \in DOMAIN socket
    BY <1>1, <1>3
  <1>9. \A i \in DOMAIN socket :
          /\ socket'[i].tab = socket[i].tab /\ socket'[i].phase = socket[i].phase
          /\ \A m \in Member(socket'[i].up) : m.type = "durable" => m \in Member(socket[i].up)
          /\ Ascends(socket[i].up) => Ascends(socket'[i].up)
    BY <1>4
  <1> QED BY <1>3, <1>7, <1>8, <1>9, <1>10, OrderBrowser

LEMMA OrderOpen ==
  ASSUME LiveLinkTypeOK, OrderInv, NEW t \in Tabs, Open(t)
  PROVE  OrderInv'
  <1>0. PICK s, h : s = Len(socket) + 1 /\ h = Hello(tab[t].lastSeq)
    OBVIOUS
  <1>1. /\ engine' = engine /\ history' = history
        /\ DOMAIN socket' = DOMAIN socket \cup {s}
        /\ \A i \in DOMAIN socket : socket'[i] = socket[i]
        /\ socket'[s].up = <<h>>
        /\ tab'[t].welcomed = FALSE /\ tab'[t].outbox = tab[t].outbox
        /\ \A u \in Tabs : u # t => tab'[u] = tab[u]
    BY <1>0, OpenFacts
  <1>2. \A m \in Member(<<h>>) : m.type # "durable"
    BY <1>0 DEF Member, Hello
  <1>3. \A u \in Tabs : /\ tab'[u].outbox = tab[u].outbox
                         /\ tab'[u].welcomed => tab[u].welcomed /\ tab'[u].ws = tab[u].ws
    BY <1>1
  <1>4. \A u \in Tabs : Connected(u)' => Connected(u)
    BY <1>1, <1>3, StillConnected
  <1> QED BY <1>1, <1>2, <1>3, <1>4, OrderBrowser

LEMMA OrderSay ==
  ASSUME LiveLinkTypeOK, OrderInv, NEW t \in Tabs, Say(t)
  PROVE  OrderInv'
  <1>0. PICK m : m = Final(Len(history.said) + 1)
    OBVIOUS
  <1>1. /\ LiveLinkTypeOK' /\ Posts(t, m) /\ engine' = engine
        /\ \A u \in Tabs : /\ tab'[u].ws = tab[u].ws /\ tab'[u].welcomed = tab[u].welcomed
                           /\ tab'[u].outbox = tab[u].outbox
        /\ history'.sent = history.sent /\ history'.handled = history.handled
    BY <1>0, SayFacts
  <1>2. m.type = "final"
    BY <1>0 DEF Final
  <1>3. ASSUME NEW s \in DOMAIN socket
        PROVE  /\ \A x \in Member(socket'[s].up) : x.type = "durable" => x \in Member(socket[s].up)
               /\ Ascends(socket[s].up) => Ascends(socket'[s].up)
    <2>1. CASE socket'[s].up = socket[s].up
      BY <2>1
    <2>2. CASE socket'[s].up = Append(socket[s].up, m)
      <3>1. PICK S : S = ClientMessage \cup {m}
        OBVIOUS
      <3>2. PICK up \in Seq(S) : up = socket[s].up
        <4>1. Seq(ClientMessage) \subseteq Seq(S)
          BY <3>1, Wider
        <4> QED BY <4>1, SocketAt
      <3>3. Member(Append(up, m)) = Member(up) \cup {m}
        BY <3>1, Appended
      <3>4. Ascends(up) => Ascends(Append(up, m))
        BY <1>2, <3>1, AscendsFacts
      <3> QED BY <1>2, <2>2, <3>2, <3>3, <3>4
    <2> QED BY <1>1, <2>1, <2>2 DEF Posts
  <1>4. /\ DOMAIN socket' = DOMAIN socket
        /\ \A s \in DOMAIN socket : socket'[s].tab = socket[s].tab /\ socket'[s].phase = socket[s].phase
    BY <1>1 DEF Posts, Kept
  <1>5. \A u \in Tabs : Connected(u)' => Connected(u)
    BY <1>1, StillConnected DEF Posts, Kept
  <1> QED BY <1>1, <1>3, <1>4, <1>5, OrderBrowser

\* The engine's queue takes the first durable message of the socket it listens to.
LEMMA OrderGatewayReceives ==
  ASSUME LiveLinkTypeOK, LineInv, OrderInv, NEW s \in Sockets, GatewayReceives(s)
  PROVE  OrderInv'
  <1>0. PICK m, x : m = Head(socket[s].up) /\ x = Task("message", s, m)
    OBVIOUS
  <1>1. PICK r :
           /\ OneSocket(s, r) /\ r.tab = socket[s].tab /\ r.open = socket[s].open
           /\ \/ r.phase = socket[s].phase
              \/ socket[s].phase = "new"
           /\ \/ r.up = Tail(socket[s].up) /\ engine' = engine
              \/ r.up = << >> /\ engine' = engine
              \/ /\ socket[s].phase = "ready" /\ engine.transport = s /\ r.up = Tail(socket[s].up)
                 /\ engine' = [engine EXCEPT !.queue = Append(engine.queue, x)]
    BY <1>0, ReceivesFacts DEF Kept
  <1>2. /\ tab' = tab /\ m \in ClientMessage /\ socket[s].up # << >>
        /\ history'.sent = history.sent /\ history'.handled = history.handled
    BY <1>0, ReceivesFacts
  <1>3. /\ s \in DOMAIN socket /\ socket'[s] = r /\ DOMAIN socket' = DOMAIN socket
        /\ \A i \in DOMAIN socket : i # s => socket'[i] = socket[i]
    BY <1>1, OneSocketFacts DEF OneSocket
  <1>4. x \in TaskRecord /\ x.msg = m /\ (IsControl(x) <=> m.type = "durable")
    BY <1>0, <1>2, <1>3 DEF TaskRecord, Task, IsControl
  <1>5. PICK up, q : up = socket[s].up /\ q = engine.queue
    OBVIOUS
  <1>6. up \in Seq(ClientMessage) /\ q \in Seq(TaskRecord)
    BY <1>3, <1>5, SocketAt, Typed, EngineIs
  <1>7. /\ m \in Member(up) /\ Member(Tail(up)) \subseteq Member(up)
        /\ Ascends(up) => /\ Ascends(Tail(up))
                          /\ \A z \in Member(Tail(up)) :
                               m.type = "durable" /\ z.type = "durable" => m.n < z.n
    BY <1>0, <1>2, <1>5, <1>6, Taking, AscendsFacts
  <1>8. /\ engine'.transport = engine.transport /\ engine'.busy = engine.busy
        /\ engine' = engine \/ engine'.queue = Append(q, x)
    <2>1. engine' = engine \/ engine' = [engine EXCEPT !.queue = Append(engine.queue, x)]
      BY <1>1
    <2> QED BY <1>5, <2>1, Typed DEF EngineRecord
  <1>9. CASE engine' = engine \/ m.type # "durable"
    <2>1. InTurn(engine.queue)' /\ \A k \in Queue' : IsControl(k) => k \in Queue
      <3>1. CASE engine' = engine
        BY <1>2, <3>1, QueueKept
      <3>2. CASE m.type # "durable"
        <4>1. engine'.queue = q \/ engine'.queue = Append(q, x)
          BY <1>5, <1>8
        <4> QED BY <1>2, <1>4, <1>5, <1>6, <3>2, <4>1, QueueFrame
      <3> QED BY <1>9, <3>1, <3>2
    <2>2. Member(r.up) \subseteq Member(up) /\ (Ascends(up) => Ascends(r.up))
      <3>1. Member(<< >>) = {} /\ Ascends(<< >>)
        BY DEF Member, Ascends
      <3>2. r.up = Tail(up) \/ r.up = << >>
        BY <1>1, <1>5
      <3> QED BY <1>7, <3>1, <3>2
    <2>3. Attached(s) => r.phase = "ready" \/ engine.busy = s
      BY <1>1 DEF Attached
    <2> QED BY <1>1, <1>2, <1>5, <1>8, <2>1, <2>2, <2>3, OrderOne
  <1>10. CASE engine' # engine /\ m.type = "durable"
    <2>1. /\ socket[s].phase = "ready" /\ engine.transport = s /\ r.up = Tail(up)
          /\ engine'.queue = Append(q, x) /\ r.phase = "ready"
      BY <1>1, <1>5, <1>8, <1>10
    <2>2. PICK t : t = socket[s].tab
      OBVIOUS
    <2>3. /\ s # 0 /\ t \in Tabs /\ SocketFollows(s) /\ QueueFollows /\ InTurn(q)
      <3>1. s # 0
        BY <1>3, Typed
      <3> QED BY <1>3, <1>5, <2>1, <2>2, <3>1, SocketAt DEF OrderInv, QueueFollows
    <2>4. /\ SentBy(m.n) = t /\ After(t, m.n) /\ Ascends(up)
          /\ \A b \in Member(tab[t].outbox) : m.n < b
      BY <1>5, <1>7, <1>10, <2>2, <2>3 DEF SocketFollows
    <2>5. /\ Queue' = Queue \cup {x} /\ IsControl(x) /\ x.msg.n = m.n
          /\ InTurn(Append(q, x))
      <3>1. Member(Append(q, x)) = Member(q) \cup {x}
        BY <1>4, <1>6, Appended
      <3>2. \A k \in Member(q) : IsControl(k) /\ SentBy(k.msg.n) = SentBy(m.n) => k.msg.n < m.n
        BY <1>5, <2>4 DEF After, Queue
      <3>3. InTurn(Append(q, x))
        BY <1>4, <1>6, <2>3, <3>2, InTurnFacts
      <3> QED BY <1>4, <1>5, <1>10, <2>1, <3>1, <3>3 DEF Queue
    <2>6. \A n : SentBy(n)' = SentBy(n)
      BY <1>2 DEF SentBy
    <2>7. ASSUME NEW u, NEW n, After(u, n), u = t => m.n < n PROVE After(u, n)'
      BY <1>2, <2>4, <2>5, <2>6, <2>7 DEF After
    <2>8. DurablesInOrder'
      BY <1>2 DEF OrderInv, DurablesInOrder
    <2>9. QueueFollows'
      <3>1. PICK p : p = Append(q, x)
        OBVIOUS
      <3>2. InTurn(p)'
        BY <1>2, <2>5, <3>1, InTurnStays
      <3>3. InTurn(engine.queue)'
        BY <2>1, <3>1, <3>2 DEF InTurn
      <3>4. \A i \in Member(history.handled) : SentBy(i) = SentBy(x.msg.n) => i < x.msg.n
        BY <2>4, <2>5 DEF After
      <3> QED BY <1>2, <2>3, <2>5, <2>6, <3>3, <3>4 DEF QueueFollows
    <2>10. ASSUME NEW i \in Sockets', NEW z \in Member(socket'[i].up), z.type = "durable"
           PROVE  Attached(i)'
      <3>1. i \in DOMAIN socket /\ z \in Member(socket[i].up) /\ socket'[i].phase = socket[i].phase
        BY <1>3, <1>5, <1>7, <2>1, <2>10 DEF Sockets
      <3> QED BY <1>8, <2>10, <3>1 DEF OrderInv, Attached, Sockets
    <2>11. SocketFollows(engine.transport)'
      <3>1. /\ engine'.transport = s /\ socket'[s].up = Tail(up) /\ socket'[s].tab = t
        BY <1>1, <1>3, <1>8, <2>1, <2>2
      <3>2. ASSUME NEW z \in Member(Tail(up)), z.type = "durable"
            PROVE  /\ SentBy(z.n)' = t /\ After(t, z.n)'
                   /\ \A b \in Member(tab[t].outbox) : z.n < b
        <4>1. z \in Member(up) /\ m.n < z.n
          BY <1>7, <1>10, <2>4, <3>2
        <4>2. SentBy(z.n) = t /\ After(t, z.n) /\ \A b \in Member(tab[t].outbox) : z.n < b
          BY <1>5, <2>2, <2>3, <3>2, <4>1 DEF SocketFollows
        <4> QED BY <2>6, <2>7, <4>1, <4>2
      <3>3. Ascends(Tail(up))
        BY <1>7, <2>4
      <3> QED BY <1>2, <3>1, <3>2, <3>3 DEF SocketFollows
    <2>12. ASSUME NEW u \in Tabs PROVE OutboxFollows(u)'
      <3>1. OutboxFollows(u) /\ (Connected(u)' => Connected(u))
        BY <1>1, <1>2, <1>3, StillConnected DEF OrderInv
      <3>2. ASSUME NEW b \in Member(tab[u].outbox) PROVE SentBy(b)' = u /\ After(u, b)'
        BY <2>4, <2>6, <2>7, <3>1, <3>2 DEF OutboxFollows
      <3> QED BY <1>2, <3>1, <3>2 DEF OutboxFollows
    <2> QED BY <2>8, <2>9, <2>10, <2>11, <2>12 DEF OrderInv
  <1> QED BY <1>9, <1>10

LEMMA OrderHandleDurable ==
  ASSUME LiveLinkTypeOK, LineInv, OrderInv, HandleDurable
  PROVE  OrderInv'
  <1>0. PICK q, k0, n : q = engine.queue /\ k0 = Head(q) /\ n = k0.msg.n
    OBVIOUS
  <1>1. /\ tab' = tab /\ q # << >> /\ IsControl(k0) /\ n \in DOMAIN history.sent
        /\ history'.sent = history.sent /\ history'.handled = Append(history.handled, n)
        /\ engine'.queue = Tail(q) /\ engine'.busy = engine.busy /\ engine'.transport = engine.transport
        /\ SamePhases
    BY <1>0, HandleDurableFacts DEF IsControl
  <1>2. PICK out \in Seq(ServerMessage) : Carries(engine.transport, out)
    BY HandleDurableFacts
  <1>3. /\ DOMAIN socket' = DOMAIN socket
        /\ \A i \in DOMAIN socket : /\ socket'[i].up = socket[i].up /\ socket'[i].tab = socket[i].tab
                                    /\ socket'[i].phase = socket[i].phase
                                    /\ socket'[i].open = socket[i].open
    BY <1>1, <1>2 DEF Carries, Stands, SamePhases
  <1>4. /\ q \in Seq(TaskRecord) /\ InTurn(q) /\ Queue = {k0} \cup Member(Tail(q)) /\ Queue' = Member(Tail(q))
        /\ InTurn(Tail(q))
        /\ \A k \in Member(Tail(q)) : IsControl(k) /\ SentBy(n) = SentBy(k.msg.n) => n < k.msg.n
    <2>1. q \in Seq(TaskRecord) /\ InTurn(q)
      BY <1>0, Typed, EngineIs DEF OrderInv, QueueFollows
    <2> QED BY <1>0, <1>1, <2>1, Taking, InTurnFacts DEF Queue
  <1>5. PICK h \in Seq(DOMAIN history.sent) : h = history.handled
    BY Typed
  <1>6. /\ Member(Append(h, n)) = Member(h) \cup {n}
        /\ DOMAIN Append(h, n) = DOMAIN h \cup {Len(h) + 1} /\ DOMAIN h = 1..Len(h) /\ Len(h) \in Nat
        /\ Append(h, n)[Len(h) + 1] = n /\ \A i \in DOMAIN h : Append(h, n)[i] = h[i]
    BY <1>1, <1>5, Appended, Inside
  <1>7. \A i : SentBy(i)' = SentBy(i)
    BY <1>1 DEF SentBy
  <1>8. \A i \in Member(h) : SentBy(i) = SentBy(n) => i < n
    BY <1>0, <1>1, <1>4, <1>5 DEF OrderInv, QueueFollows
  <1>9. ASSUME NEW u, NEW b, After(u, b) PROVE After(u, b)'
    <2>1. SentBy(n) = u => n < b
      BY <1>0, <1>1, <1>4, <1>9 DEF After
    <2> QED BY <1>1, <1>4, <1>5, <1>6, <1>7, <1>9, <2>1 DEF After
  <1>10. DurablesInOrder'
    <2>1. \A i, j \in DOMAIN h : i < j /\ SentBy(h[i]) = SentBy(h[j]) => h[i] < h[j]
      BY <1>5 DEF OrderInv, DurablesInOrder, SentBy
    <2>2. \A i \in DOMAIN h : SentBy(h[i]) = SentBy(n) => h[i] < n
      BY <1>8 DEF Member
    <2>3. PICK p : p = Append(h, n)
      OBVIOUS
    <2>4. \A i, j \in DOMAIN p : i < j /\ SentBy(p[i]) = SentBy(p[j]) => p[i] < p[j]
      BY <1>6, <2>1, <2>2, <2>3
    <2>5. history'.handled = p
      BY <1>1, <1>5, <2>3
    <2> QED BY <1>1, <2>4, <2>5 DEF DurablesInOrder, SentBy
  <1>11. QueueFollows'
    <2>1. PICK p : p = Tail(q)
      OBVIOUS
    <2>2. InTurn(p)'
      BY <1>1, <1>4, <2>1, InTurnStays
    <2>3. InTurn(engine.queue)'
      BY <1>1, <2>1, <2>2 DEF InTurn
    <2>4. ASSUME NEW k \in Queue', IsControl(k), NEW i \in Member(Append(h, n)), SentBy(i) = SentBy(k.msg.n)
          PROVE  i < k.msg.n
      <3>1. CASE i = n
        BY <1>4, <2>4, <3>1
      <3>2. CASE i \in Member(h)
        BY <1>4, <1>5, <2>4, <3>2 DEF OrderInv, QueueFollows
      <3> QED BY <1>6, <2>4, <3>1, <3>2
    <2> QED BY <1>1, <1>5, <1>7, <2>3, <2>4 DEF QueueFollows
  <1>12. ASSUME NEW i \in Sockets', NEW z \in Member(socket'[i].up), z.type = "durable"
         PROVE  Attached(i)'
    BY <1>1, <1>3, <1>12 DEF OrderInv, Attached, Sockets
  <1>13. ASSUME engine'.transport # 0 PROVE SocketFollows(engine.transport)'
    <2>1. PICK s : s = engine.transport
      OBVIOUS
    <2>2. s \in DOMAIN socket /\ SocketFollows(s)
      BY <1>1, <1>13, <2>1, Typed, EngineIs DEF OrderInv
    <2>3. PICK u : u = socket[s].tab
      OBVIOUS
    <2>4. ASSUME NEW z \in Member(socket[s].up), z.type = "durable"
          PROVE  /\ SentBy(z.n)' = u /\ After(u, z.n)'
                 /\ \A b \in Member(tab[u].outbox) : z.n < b
      <3>1. /\ SentBy(z.n) = u /\ After(u, z.n)
            /\ \A b \in Member(tab[u].outbox) : z.n < b
        BY <2>2, <2>3, <2>4 DEF SocketFollows
      <3> QED BY <1>7, <1>9, <3>1
    <2>5. engine'.transport = s /\ socket'[s].up = socket[s].up /\ socket'[s].tab = u /\ Ascends(socket[s].up)
      BY <1>1, <1>3, <2>1, <2>2, <2>3 DEF SocketFollows
    <2> QED BY <1>1, <2>4, <2>5 DEF SocketFollows
  <1>14. ASSUME NEW u \in Tabs PROVE OutboxFollows(u)'
    <2>1. OutboxFollows(u) /\ (Connected(u)' => Connected(u))
      BY <1>1, <1>3, StillConnected DEF OrderInv
    <2>2. ASSUME NEW b \in Member(tab[u].outbox) PROVE SentBy(b)' = u /\ After(u, b)'
      BY <1>7, <1>9, <2>1, <2>2 DEF OutboxFollows
    <2> QED BY <1>1, <2>1, <2>2 DEF OutboxFollows
  <1> QED BY <1>10, <1>11, <1>12, <1>13, <1>14 DEF OrderInv

\* The outbox goes out on a socket whose engine has handled what came before.
LEMMA OrderReceives ==
  ASSUME LiveLinkTypeOK, LineInv, ShowInv, OrderInv, NEW t \in Tabs, ClientReceives(t)
  PROVE  OrderInv'
  <1>a. PICK s \in DOMAIN socket, m \in ServerMessage : \E c, r : Receives(t, s, m, c, r)
    BY ClientReceivesFacts
  <1>0. PICK c, r : Receives(t, s, m, c, r)
    BY <1>a
  <1>1. /\ engine' = engine /\ history' = history /\ s = tab[t].ws /\ s # 0
        /\ OneTab(t, c) /\ OneSocket(s, r) /\ Kept(r, socket[s]) /\ socket[s].down # << >> /\ c.ws = s
        /\ Greeted(t, s, m, c, r) \/ Updated(t, s, m, c, r)
    <2>1. engine' = engine /\ history' = history
      BY ClientReceivesFacts
    <2>2. s # 0
      BY Typed
    <2> QED BY <1>0, <2>1, <2>2 DEF Receives
  <1>2. /\ tab'[t] = c /\ \A u \in Tabs : u # t => tab'[u] = tab[u]
        /\ DOMAIN socket' = DOMAIN socket
        /\ socket'[s] = r /\ \A i \in DOMAIN socket : i # s => socket'[i] = socket[i]
        /\ \A i \in DOMAIN socket : /\ socket'[i].tab = socket[i].tab /\ socket'[i].phase = socket[i].phase
                                    /\ socket'[i].open = socket[i].open
        /\ \A u \in Tabs : tab'[u].ws = tab[u].ws
    BY <1>1, OneTabFacts, OneSocketFacts DEF Kept
  <1>3. CASE Updated(t, s, m, c, r)
    <2>1. /\ c.outbox = tab[t].outbox /\ c.welcomed = tab[t].welcomed /\ r.up = socket[s].up
      BY <1>3 DEF Updated
    <2>2. \A u \in Tabs : tab'[u].outbox = tab[u].outbox /\ tab'[u].welcomed = tab[u].welcomed
      BY <1>2, <2>1
    <2>3. \A i \in DOMAIN socket : socket'[i].up = socket[i].up
      BY <1>2, <2>1
    <2>4. \A u \in Tabs : Connected(u)' => Connected(u)
      BY <1>2, <2>2, StillConnected
    <2> QED BY <1>1, <1>2, <2>2, <2>3, <2>4, OrderBrowser
  <1>4. CASE Greeted(t, s, m, c, r)
    <2>0. PICK up : up = socket[s].up
      OBVIOUS
    <2>1. PICK d \in TabRecord :
             /\ c.outbox = << >> /\ d.outbox = tab[t].outbox
             /\ r.up = IF socket[s].open THEN up \o Flushed(d) ELSE up
      BY <1>4, <2>0 DEF Greeted
    <2>2. OutboxFollows(t) /\ Attached(s) /\ socket[s].tab = t
      BY <1>1 DEF OrderInv, ShowInv, Lined, LineInv, TabOK
    <2>3. PICK f : f = Flushed(d)
      OBVIOUS
    <2>4. /\ up \in Seq(ClientMessage) /\ f \in Seq(ClientMessage)
          /\ Member(up \o f) = Member(up) \cup Member(f)
      <3>1. up \in Seq(ClientMessage) /\ f \in Seq(ClientMessage)
        BY <2>0, <2>3, SocketAt, FlushFacts
      <3> QED BY <3>1, Joining
    <2>5. Ascends(f) /\ \A x \in Member(f) : x.type = "durable" => x.n \in Member(tab[t].outbox)
      <3>1. Ascends(f)
        BY <2>1, <2>2, <2>3, FlushAscends DEF OutboxFollows
      <3>2. \A x \in Member(f) : x.type = "durable" => x.n \in Member(tab[t].outbox)
        BY <2>1, <2>3, FlushFacts
      <3> QED BY <3>1, <3>2
    <2>6. /\ \A i : SentBy(i)' = SentBy(i)
          /\ \A u, n : After(u, n) => After(u, n)'
      BY <1>1 DEF SentBy, After, Queue
    <2>7. DurablesInOrder' /\ QueueFollows'
      <3>1. DurablesInOrder'
        BY <1>1 DEF OrderInv, DurablesInOrder
      <3>2. InTurn(engine.queue)'
        BY <1>1, QueueKept
      <3> QED BY <1>1, <2>6, <3>1, <3>2 DEF OrderInv, QueueFollows, Queue
    <2>8. ASSUME NEW i \in Sockets', NEW z \in Member(socket'[i].up), z.type = "durable"
          PROVE  Attached(i)'
      <3>1. i \in DOMAIN socket /\ Attached(i)
        BY <1>2, <2>2, <2>8 DEF OrderInv, Sockets
      <3> QED BY <1>1, <1>2, <3>1 DEF Attached
    <2>9. ASSUME NEW u \in Tabs PROVE OutboxFollows(u)'
      <3>1. CASE u = t
        BY <1>2, <2>1, <3>1 DEF OutboxFollows, Rises, Member
      <3>2. CASE u # t
        <4>1. OutboxFollows(u) /\ tab'[u] = tab[u]
          BY <1>2, <3>2 DEF OrderInv
        <4>3. Connected(u)' => Connected(u)
          <5>1. tab[u].ws # 0 => tab[u].ws \in DOMAIN socket
            BY TabAt
          <5> QED BY <1>2, <4>1, <5>1 DEF Connected
        <4>2. ASSUME NEW b \in Member(tab[u].outbox) PROVE SentBy(b)' = u /\ After(u, b)'
          BY <2>6, <4>1, <4>2 DEF OutboxFollows
        <4> QED BY <4>1, <4>2, <4>3 DEF OutboxFollows
      <3> QED BY <3>1, <3>2
    <2>10. ASSUME engine'.transport # 0 PROVE SocketFollows(engine.transport)'
      <3>1. PICK T, u : T = engine.transport /\ u = socket[T].tab
        OBVIOUS
      <3>2. /\ T \in DOMAIN socket /\ SocketFollows(T) /\ u \in Tabs
            /\ engine'.transport = T /\ socket'[T].tab = u
        <4>1. T \in DOMAIN socket
          BY <1>1, <2>10, <3>1, Typed, EngineIs
        <4> QED BY <1>1, <1>2, <2>10, <3>1, <4>1, SocketAt DEF OrderInv
      <3>3. ASSUME NEW z \in Member(socket[T].up), z.type = "durable"
            PROVE  /\ SentBy(z.n) = u /\ After(u, z.n)
                   /\ \A b \in Member(tab[u].outbox) : z.n < b
        BY <3>1, <3>2, <3>3 DEF SocketFollows
      <3>4. Member(tab'[u].outbox) \subseteq Member(tab[u].outbox)
        <4>1. Member(<< >>) = {}
          BY DEF Member
        <4> QED BY <1>2, <2>1, <3>2, <4>1
      <3>5. CASE T # s \/ ~socket[s].open
        <4>1. socket'[T].up = socket[T].up /\ Ascends(socket[T].up)
          BY <1>2, <2>0, <2>1, <3>2, <3>5 DEF SocketFollows
        <4> QED BY <2>6, <3>2, <3>3, <3>4, <4>1 DEF SocketFollows
      <3>6. CASE T = s /\ socket[s].open
        <4>1. socket'[T].up = up \o f /\ u = t /\ socket[T].up = up /\ Ascends(up)
          BY <1>2, <2>0, <2>1, <2>2, <2>3, <3>1, <3>2, <3>6 DEF SocketFollows
        <4>2. Ascends(up \o f)
          <5>1. \A z \in Member(up) : \A x \in Member(f) :
                  z.type = "durable" /\ x.type = "durable" => z.n < x.n
            BY <2>5, <3>3, <4>1
          <5> QED BY <2>4, <2>5, <4>1, <5>1, AscendsFacts
        <4>3. ASSUME NEW x \in Member(up \o f), x.type = "durable"
              PROVE  SentBy(x.n) = u /\ After(u, x.n)
          <5>1. CASE x \in Member(up)
            BY <3>3, <4>1, <4>3, <5>1
          <5>2. CASE x \in Member(f)
            BY <2>2, <2>5, <4>1, <4>3, <5>2 DEF OutboxFollows
          <5> QED BY <2>4, <4>3, <5>1, <5>2
        <4>4. Member(tab'[u].outbox) = {}
          BY <1>2, <2>1, <4>1 DEF Member
        <4>5. \A x \in Member(up \o f) : x.type = "durable" => SentBy(x.n)' = u /\ After(u, x.n)'
          BY <2>6, <4>3
        <4> QED BY <3>2, <4>1, <4>2, <4>4, <4>5 DEF SocketFollows
      <3> QED BY <3>5, <3>6
    <2> QED BY <2>7, <2>8, <2>9, <2>10 DEF OrderInv
  <1> QED BY <1>1, <1>3, <1>4

\* A durable message more comes after all that were sent.
LEMMA OrderDurable ==
  ASSUME LiveLinkTypeOK, LineInv, ShowInv, OrderInv, NEW t \in Tabs, NEW type \in Durables,
         SendDurable(t, type)
  PROVE  OrderInv'
  <1>0. PICK n, m, x : n = Len(history.sent) + 1 /\ m = Durable(n) /\ x = [tab |-> t, type |-> type]
    OBVIOUS
  <1>1. /\ LiveLinkTypeOK' /\ Posts(t, m) /\ engine' = engine
        /\ \A u \in Tabs : /\ tab'[u].ws = tab[u].ws /\ tab'[u].welcomed = tab[u].welcomed
        /\ \A u \in Tabs : u # t => tab'[u].outbox = tab[u].outbox
        /\ \/ tab'[t].outbox = tab[t].outbox /\ tab[t].welcomed
           \/ tab'[t].outbox = Queued(tab[t].outbox, n) /\ socket' = socket /\ ~Connected(t)
        /\ history'.sent = Append(history.sent, x) /\ history'.handled = history.handled
    BY <1>0, DurableFacts
  <1>2. /\ DOMAIN socket' = DOMAIN socket
        /\ \A i \in DOMAIN socket :
             /\ socket'[i].tab = socket[i].tab /\ socket'[i].phase = socket[i].phase
             /\ \/ socket'[i].up = socket[i].up
                \/ /\ i = tab[t].ws /\ tab[t].welcomed /\ socket[i].open
                   /\ socket'[i].up = Append(socket[i].up, m)
        /\ \A u \in Tabs : Connected(u)' => Connected(u)
    BY <1>1, StillConnected DEF Posts, Kept
  <1>3. PICK D : D = DOMAIN history.sent
    OBVIOUS
  <1>4. /\ D = 1..(n - 1) /\ n \in Nat
        /\ \A i \in D : SentBy(i)' = SentBy(i) /\ i \in Nat /\ i < n
        /\ SentBy(n)' = t
    <2>1. Len(history.sent) \in Nat /\ DOMAIN history.sent = 1..Len(history.sent)
      BY Typed
    <2>2. history.sent \in Seq([tab: Tabs, type: Durables])
      BY Typed
    <2>3. x \in [tab: Tabs, type: Durables]
      BY <1>0
    <2>4. (\A i \in D : history'.sent[i] = history.sent[i]) /\ history'.sent[n] = x
      BY <1>0, <1>1, <1>3, <2>2, <2>3, Appended
    <2>5. D = 1..(n - 1) /\ n \in Nat /\ \A i \in D : i \in Nat /\ i < n
      BY <1>0, <1>3, <2>1
    <2> QED BY <1>0, <2>4, <2>5 DEF SentBy
  <1>5. /\ Member(history.handled) \subseteq D
        /\ \A k \in Queue : IsControl(k) => k.msg.n \in D
        /\ \A i \in DOMAIN socket : \A z \in Member(socket[i].up) : z.type = "durable" => z.n \in D
        /\ \A u \in Tabs : Member(tab[u].outbox) \subseteq D
    <2>1. \A z \in ClientMessage : z.type = "durable" => z.n \in D
      BY <1>3 DEF ClientMessage
    <2>2. Member(history.handled) \subseteq D
      <3>1. history.handled \in Seq(D)
        BY <1>3, Typed
      <3> QED BY <3>1, Inside
    <2>3. \A k \in Queue : k.msg \in ClientMessage
      <3>1. engine.queue \in Seq(TaskRecord)
        BY Typed, EngineIs
      <3>2. Queue \subseteq TaskRecord
        BY <3>1, Inside DEF Queue
      <3> QED BY <3>2 DEF TaskRecord
    <2>4. \A i \in DOMAIN socket : Member(socket[i].up) \subseteq ClientMessage
      BY SocketAt, Inside
    <2>5. ASSUME NEW u \in Tabs PROVE Member(tab[u].outbox) \subseteq D
      <3>1. tab[u].outbox \in Seq(D)
        BY <1>3, TabAt
      <3> QED BY <3>1, Inside
    <2> QED BY <2>1, <2>2, <2>3, <2>4, <2>5 DEF IsControl
  <1>6. ASSUME NEW u, NEW b, After(u, b) PROVE After(u, b)'
    <2>1. \A i \in Member(history.handled) : SentBy(i)' = SentBy(i)
      BY <1>4, <1>5
    <2>2. \A k \in Queue : IsControl(k) => SentBy(k.msg.n)' = SentBy(k.msg.n)
      BY <1>4, <1>5
    <2> QED BY <1>1, <1>6, <2>1, <2>2 DEF After, Queue
  <1>7. ASSUME NEW u PROVE After(u, n)'
    <2>1. \A i \in Member(history.handled) : i < n
      BY <1>4, <1>5
    <2>2. \A k \in Queue : IsControl(k) => k.msg.n < n
      BY <1>4, <1>5
    <2> QED BY <1>1, <2>1, <2>2 DEF After, Queue
  <1>8. DurablesInOrder'
    <2>1. PICK h : h = history.handled
      OBVIOUS
    <2>2. \A i, j \in DOMAIN h : i < j /\ SentBy(h[i]) = SentBy(h[j]) => h[i] < h[j]
      BY <2>1 DEF OrderInv, DurablesInOrder, SentBy
    <2>3. \A i \in DOMAIN h : SentBy(h[i])' = SentBy(h[i])
      BY <1>4, <1>5, <2>1 DEF Member
    <2>4. \A i, j \in DOMAIN h : i < j /\ SentBy(h[i])' = SentBy(h[j])' => h[i] < h[j]
      BY <2>2, <2>3
    <2>5. history'.handled = h
      BY <1>1, <2>1
    <2> QED BY <2>4, <2>5 DEF DurablesInOrder, SentBy
  <1>9. QueueFollows'
    <2>1. InTurn(engine.queue)'
      <3>1. PICK q : q = engine.queue
        OBVIOUS
      <3>2. InTurn(q)
        BY <3>1 DEF OrderInv, QueueFollows
      <3>3. \A i \in DOMAIN q : IsControl(q[i]) => SentBy(q[i].msg.n)' = SentBy(q[i].msg.n)
        BY <1>4, <1>5, <3>1 DEF Queue, Member
      <3>4. InTurn(q)'
        BY <3>2, <3>3 DEF InTurn
      <3> QED BY <1>1, <3>1, <3>4 DEF InTurn
    <2>2. ASSUME NEW k \in Queue, IsControl(k), NEW i \in Member(history.handled),
                 SentBy(i)' = SentBy(k.msg.n)'
          PROVE  i < k.msg.n
      BY <1>4, <1>5, <2>2 DEF OrderInv, QueueFollows
    <2> QED BY <1>1, <2>1, <2>2 DEF QueueFollows, Queue
  <1>10. ASSUME NEW i \in Sockets', NEW z \in Member(socket'[i].up), z.type = "durable"
         PROVE  Attached(i)'
    <2>1. i \in DOMAIN socket
      BY <1>2 DEF Sockets
    <2>2. CASE socket'[i].up = socket[i].up
      BY <1>1, <1>2, <1>10, <2>1, <2>2 DEF OrderInv, Attached, Sockets
    <2>3. CASE i = tab[t].ws /\ tab[t].welcomed
      <3>1. tab[t].ws # 0 /\ Lined(t)
        BY <2>3 DEF LineInv, TabOK, ShowInv
      <3>2. Attached(i)
        BY <2>3, <3>1 DEF Lined
      <3> QED BY <1>1, <1>2, <2>1, <3>2 DEF Attached
    <2> QED BY <1>2, <2>1, <2>2, <2>3
  <1>11. ASSUME NEW u \in Tabs
         PROVE  /\ Rises(tab'[u].outbox)
                /\ \A b \in Member(tab'[u].outbox) :
                     b \in Member(tab[u].outbox) \/ (b = n /\ u = t /\ socket' = socket)
    <2>1. OutboxFollows(u)
      BY DEF OrderInv
    <2>2. CASE tab'[u].outbox = tab[u].outbox
      BY <2>1, <2>2 DEF OutboxFollows
    <2>3. CASE u = t /\ socket' = socket /\ tab'[u].outbox = Queued(tab[u].outbox, n)
      <3>1. PICK q, S : q = tab[u].outbox /\ S = D \cup {n}
        OBVIOUS
      <3>2. q \in Seq(S) /\ \A i \in Member(q) : i < n
        <4>1. tab[u].outbox \in Seq(D) /\ Seq(D) \subseteq Seq(S)
          BY <1>3, <3>1, TabAt, Wider
        <4> QED BY <1>4, <1>5, <3>1, <4>1
      <3>3. Rises(q)
        BY <2>1, <3>1 DEF OutboxFollows
      <3>4. n \in S
        BY <3>1
      <3>5. Rises(Queued(q, n)) /\ Member(Queued(q, n)) \subseteq Member(q) \cup {n}
        BY <3>2, <3>3, <3>4, QueuedRises
      <3> QED BY <2>3, <3>1, <3>5
    <2> QED BY <1>1, <2>2, <2>3
  <1>12. ASSUME NEW u \in Tabs PROVE OutboxFollows(u)'
    <2>1. OutboxFollows(u)
      BY DEF OrderInv
    <2>2. ASSUME NEW b \in Member(tab'[u].outbox) PROVE SentBy(b)' = u /\ After(u, b)'
      <3>1. CASE b \in Member(tab[u].outbox)
        <4>1. b \in D /\ SentBy(b) = u /\ After(u, b)
          BY <1>5, <2>1, <3>1 DEF OutboxFollows
        <4> QED BY <1>4, <1>6, <4>1
      <3>2. CASE b = n /\ u = t
        BY <1>4, <1>7, <3>2
      <3> QED BY <1>11, <2>2, <3>1, <3>2
    <2>3. Connected(u)' => tab'[u].outbox = << >>
      <3>1. Connected(u) => tab[u].outbox = << >>
        BY <2>1 DEF OutboxFollows
      <3> QED BY <1>1, <1>2, <3>1
    <2> QED BY <1>11, <2>2, <2>3 DEF OutboxFollows
  <1>13. ASSUME engine'.transport # 0 PROVE SocketFollows(engine.transport)'
    <2>1. PICK T, u, up : T = engine.transport /\ u = socket[T].tab /\ up = socket[T].up
      OBVIOUS
    <2>2. /\ T \in DOMAIN socket /\ SocketFollows(T) /\ u \in Tabs
          /\ engine'.transport = T /\ socket'[T].tab = u
      <3>1. T \in DOMAIN socket
        BY <1>1, <1>13, <2>1, Typed, EngineIs
      <3> QED BY <1>1, <1>2, <1>13, <2>1, <3>1, SocketAt DEF OrderInv
    <2>3. ASSUME NEW z \in Member(up), z.type = "durable"
          PROVE  /\ SentBy(z.n)' = u /\ After(u, z.n)' /\ z.n < n
                 /\ \A b \in Member(tab'[u].outbox) : z.n < b
      <3>1. /\ SentBy(z.n) = u /\ After(u, z.n) /\ z.n \in D
            /\ \A b \in Member(tab[u].outbox) : z.n < b
        BY <1>5, <2>1, <2>2, <2>3 DEF SocketFollows
      <3> QED BY <1>4, <1>6, <1>11, <2>2, <3>1
    <2>4. CASE socket'[T].up = up
      <3>1. Ascends(up)
        BY <2>1, <2>2 DEF SocketFollows
      <3> QED BY <2>2, <2>3, <2>4, <3>1 DEF SocketFollows
    <2>5. CASE T = tab[t].ws /\ tab[t].welcomed /\ socket[T].open /\ socket'[T].up = Append(up, m)
      <3>1. u = t
        BY <2>1, <2>2, <2>5, Typed DEF LineInv, TabOK
      <3>2. Member(tab'[u].outbox) = {}
        <4>0. T # 0
          BY <1>1, <1>13, <2>1
        <4>1. Connected(t)
          BY <2>5, <4>0 DEF Connected
        <4>2. tab[t].outbox = << >>
          BY <4>1 DEF OrderInv, OutboxFollows
        <4> QED BY <1>1, <3>1, <4>1, <4>2 DEF Member
      <3>3. PICK S : S = ClientMessage \cup {m}
        OBVIOUS
      <3>4. up \in Seq(S) /\ m \in S
        <4>1. Seq(ClientMessage) \subseteq Seq(S)
          BY <3>3, Wider
        <4> QED BY <2>1, <2>2, <3>3, <4>1, SocketAt
      <3>5. m.type = "durable" /\ m.n = n
        BY <1>0 DEF Durable
      <3>6. Ascends(Append(up, m)) /\ Member(Append(up, m)) = Member(up) \cup {m}
        <4>1. Ascends(up)
          BY <2>1, <2>2 DEF SocketFollows
        <4>2. \A z \in Member(up) : z.type = "durable" => z.n < m.n
          BY <2>3, <3>5
        <4> QED BY <3>4, <4>1, <4>2, AscendsFacts, Appended
      <3>7. ASSUME NEW z \in Member(Append(up, m)), z.type = "durable"
            PROVE  SentBy(z.n)' = u /\ After(u, z.n)'
        <4>1. CASE z \in Member(up)
          BY <2>3, <3>7, <4>1
        <4>2. CASE z = m
          BY <1>4, <1>7, <3>1, <3>5, <4>2
        <4> QED BY <3>6, <3>7, <4>1, <4>2
      <3> QED BY <2>2, <2>5, <3>2, <3>6, <3>7 DEF SocketFollows
    <2> QED BY <1>2, <2>1, <2>2, <2>4, <2>5
  <1> QED BY <1>8, <1>9, <1>10, <1>12, <1>13 DEF OrderInv

LEMMA OrderInit == LiveLinkInit => OrderInv
  <1> SUFFICES ASSUME LiveLinkInit PROVE OrderInv
    OBVIOUS
  <1>1. /\ DOMAIN history.handled = {} /\ engine.queue = << >> /\ engine.transport = 0
        /\ DOMAIN socket = {} /\ \A t \in Tabs : tab[t].outbox = << >>
    BY DEF LiveLinkInit
  <1>2. Member(<< >>) = {} /\ InTurn(<< >>) /\ Rises(<< >>)
    BY DEF Member, InTurn, Rises
  <1>3. DurablesInOrder /\ QueueFollows
    BY <1>1, <1>2 DEF DurablesInOrder, QueueFollows, Queue
  <1>4. \A t \in Tabs : OutboxFollows(t)
    BY <1>1, <1>2 DEF OutboxFollows
  <1> QED BY <1>1, <1>3, <1>4 DEF OrderInv, Sockets

LEMMA OrderStep ==
  ASSUME LiveLinkTypeOK, LineInv, ShowInv, OrderInv, [LiveLinkNext]_liveVars
  PROVE  OrderInv'
  <1>1. ASSUME NEW t \in Tabs, Browser(t) \/ Connect(t) \/ Say(t) PROVE OrderInv'
    BY <1>1, OrderOpen, OrderReceives, OrderNotices, OrderConnect, OrderSay DEF Browser
  <1>2. ASSUME NEW t \in Tabs, NEW type \in Durables, SendDurable(t, type)
        PROVE OrderInv'
    BY <1>2, OrderDurable
  <1>3. ASSUME NEW s \in Sockets, Gateway(s) \/ HelloTimeout(s) \/ Refused(s) \/ Drop(s)
        PROVE OrderInv'
    BY <1>3, OrderGatewayReceives, OrderGateway DEF Gateway
  <1>4. ASSUME EngineStep PROVE OrderInv'
    BY <1>4, OrderAttach, OrderEngine, OrderHandleDurable DEF EngineStep
  <1>5. ASSUME Restart PROVE OrderInv'
    BY <1>5, OrderRestart
  <1>6. CASE UNCHANGED liveVars
    <2>1. tab' = tab /\ socket' = socket /\ engine' = engine /\ history' = history
      BY <1>6 DEF liveVars
    <2>2. \A t \in Tabs : Connected(t)' => Connected(t)
      BY <2>1 DEF Connected
    <2> QED BY <2>1, <2>2, OrderBrowser
  <1> QED BY <1>1, <1>2, <1>3, <1>4, <1>5, <1>6 DEF LiveLinkNext

\* An utterance is saved once and kept until it is, a connected tab at rest waits
\* only for what was turned away, and a tab's durable messages are handled in the
\* order they were sent (send(), flush() and handle() of connection.ts, receive()
\* of EngineConnection).
THEOREM LinkDelivers == LiveLinkSpec => []Delivered
  <1> DEFINE IInv == LiveLinkTypeOK /\ LineInv /\ ShowInv /\ FinalsInv /\ OrderInv
  <1>1. LiveLinkInit => IInv
    BY InitTypes, LineInit, ShowInit, FinalsInit, OrderInit
  <1>2. IInv /\ [LiveLinkNext]_liveVars => IInv'
    BY LineStep, ShowStep, FinalsStep, OrderStep
  <1>3. IInv => Delivered
    BY FinalsArriveAtRest DEF Delivered, OrderInv
  <1> HIDE DEF IInv
  <1> QED BY <1>1, <1>2, <1>3, PTL DEF LiveLinkSpec

=============================================================================
