------------------------- MODULE CallBatches_proofs -------------------------
(***************************************************************************)
(* For any number of targets, ticks at the same time, lines and deaths:    *)
(* the types; nobody is called twice; a completed batch is settled; a      *)
(* cancelled one takes nobody any more; a running one has a tick to come.  *)
(***************************************************************************)
EXTENDS CallBatches, FiniteSetTheorems, WellFoundedInduction, TLAPS

-----------------------------------------------------------------------------
(* Types *)

LEMMA Numbers ==
  /\ Concurrency \in Nat /\ Concurrency > 0 /\ MaxDue \in Nat /\ MaxDue > 0
  /\ MaxCrashes \in Nat /\ Target \subseteq Nat /\ IsFiniteSet(Target)
  BY BatchAssumption

\* A set of targets that is not empty has an oldest one.
LEMMA Oldest ==
  ASSUME NEW S \in SUBSET Target, S # {}
  PROVE  Min(S) \in S
  <1>1. \E x \in S : \A y \in S : ~(<<y, x>> \in OpToRel(<, Nat))
    BY WFMin, NatLessThanWellFounded, Numbers
  <1>2. PICK x \in S : \A y \in S : ~(<<y, x>> \in OpToRel(<, Nat))
    BY <1>1
  <1>3. \A y \in S : y \in Nat /\ x \in Nat
    BY Numbers
  <1>4. \A y \in S : ~(y < x)
    BY <1>2, <1>3, Zenon DEF OpToRel
  <1>5. \A y \in S : x <= y
    BY <1>3, <1>4
  <1> QED
    BY <1>5 DEF Min

\* Whatever is in flight, the free lines are between none and all of them.
LEMMA FreeLines ==
  \A n \in Nat : (IF n >= Concurrency THEN 0 ELSE Concurrency - n) \in 0..Concurrency
  BY Numbers

\* A tick that is about to claim, or has claimed, has a target at hand.
AtHand == {"claim", "dial", "failed", "refused"}

TickState ==
  [step : {"idle", "activate", "block", "count", "find", "claim", "dial",
           "failed", "refused", "finish", "complete"},
   slots : 0..Concurrency, on : Target \cup {0}]

\* What a tick has at hand.
TickInv ==
  /\ tick \in [Worker -> TickState]
  /\ \A w \in Worker : tick[w].step \in AtHand => tick[w].on \in Target
  /\ \A w \in Worker : tick[w].step = "claim" => tick[w].slots > 0

\* The rest.
RowsInv ==
  /\ status \in EDITABLE \cup {"RUNNING", "COMPLETED", "CANCELLED"}
  /\ target \in [Target -> TargetStatus]
  /\ placed \in [Target -> Nat]
  /\ due \in 0..MaxDue
  /\ start \in {"none", "read", "now", "future", "lost"}
  /\ cancel \in {"none", "skipped"}
  /\ upload \in [Upload -> UploadState]
  /\ crashes \in 0..MaxCrashes

FlagInv == later \in BOOLEAN /\ late \in BOOLEAN /\ dropped \in BOOLEAN

TypeInv ==
  /\ TypeOK
  /\ \A w \in Worker : tick[w].step \in AtHand => tick[w].on \in Target
  /\ \A w \in Worker : tick[w].step = "claim" => tick[w].slots > 0

LEMMA Parts == TypeInv => TickInv /\ RowsInv /\ FlagInv
  <1>1. TypeInv => TickInv /\ RowsInv
    BY DEF TypeInv, TypeOK, TickInv, TickState, RowsInv
  <1>2. TypeInv => FlagInv
    BY Zenon DEF TypeInv, TypeOK, FlagInv
  <1> QED
    BY <1>1, <1>2

LEMMA Whole == TickInv /\ RowsInv /\ FlagInv => TypeInv
  BY Zenon DEF TypeInv, TypeOK, TickInv, TickState, RowsInv, FlagInv

\* The flags are Booleans after every step.
LEMMA FlagStep == TypeInv /\ Next => FlagInv'
  <1> SUFFICES ASSUME TypeInv, Next PROVE FlagInv'
    OBVIOUS
  <1>1. later \in BOOLEAN /\ late \in BOOLEAN /\ dropped \in BOOLEAN
    BY Parts DEF FlagInv
  <1>2. late' \in BOOLEAN
    <2>1. CASE \E u \in Upload : UploadWrite(u)
      BY <2>1, <1>1, Zenon DEF UploadWrite
    <2>2. CASE ~\E u \in Upload : UploadWrite(u)
      <3>1. UNCHANGED late
        BY <2>2 DEF Next, Take, Activate, Block, Count, Find, Claim, Dial, DialFailed, Finish,
               Complete, TickDies, DelayEnds, StartRead, StartWrite, StartEnqueue, Cancel, UploadRead,
               UploadReplace, UploadCompare, UploadFails, OnCallOutcome, requests
      <3> QED
        BY <1>1, <3>1
    <2> QED
      BY <2>1, <2>2
  <1>3. dropped' \in {dropped, TRUE, FALSE}
    BY DEF Next, Take, Activate, Block, Count, Find, Claim, Dial, DialFailed, Finish,
           Complete, TickDies, DelayEnds, StartRead, StartWrite, StartEnqueue, Cancel, UploadRead,
           UploadReplace, UploadCompare, UploadWrite, UploadFails, OnCallOutcome, fate
  <1>4. later' \in {later, TRUE, FALSE}
    BY DEF Next, Take, Activate, Block, Count, Find, Claim, Dial, DialFailed, Finish,
           Complete, TickDies, DelayEnds, StartRead, StartWrite, StartEnqueue, Cancel, UploadRead,
           UploadReplace, UploadCompare, UploadWrite, UploadFails, OnCallOutcome, jobs
  <1> QED
    BY <1>1, <1>2, <1>3, <1>4, Zenon DEF FlagInv

\* What an upload is made of.
LEMMA UploadStates ==
  /\ NoUpload \in UploadState /\ Uploaded \in UploadState
  /\ \A fresh \in SUBSET Phones(Target) : [step |-> "compared", fresh |-> fresh] \in UploadState
  /\ \A r \in UploadState : \A s \in {"read", "replaced"} : [r EXCEPT !.step = s] \in UploadState
  BY DEF NoUpload, Uploaded, UploadState

LEMMA TypeInit == Init => TypeInv
  <1> SUFFICES ASSUME Init PROVE TypeInv
    OBVIOUS
  <1>1. FlagInv
    BY DEF Init, FlagInv
  <1>2. /\ tick = [w \in Worker |-> [step |-> "idle", slots |-> 0, on |-> 0]]
        /\ status = "DRAFT" /\ target = [t \in Target |-> "NONE"]
        /\ placed = [t \in Target |-> 0] /\ due = 0
        /\ start = "none" /\ cancel = "none" /\ crashes = 0
        /\ upload = [u \in Upload |-> NoUpload]
        /\ late = FALSE /\ dropped = FALSE
    BY DEF Init, Idle
  <1>3. upload \in [Upload -> UploadState]
    BY <1>2, UploadStates
  <1>4. tick \in [Worker -> TickState]
    BY <1>2, Numbers DEF TickState
  <1>5. RowsInv
    BY <1>2, <1>3, Numbers DEF RowsInv, EDITABLE, TargetStatus
  <1>6. TickInv
    BY <1>2, <1>4 DEF TickInv, AtHand
  <1> QED
    BY <1>1, <1>5, <1>6, Whole

LEMMA OneMoreType == TypeInv => OneMore \in 0..MaxDue /\ OneMore > 0
  BY Numbers DEF TypeInv, TypeOK, OneMore

\* The steps of a tick.
LEMMA TypeTick ==
  ASSUME TypeInv, NEW w \in Worker,
         \/ Take(w) \/ Activate(w) \/ Block(w) \/ Count(w) \/ Find(w) \/ Claim(w)
         \/ Dial(w) \/ DialFailed(w) \/ Finish(w) \/ Complete(w) \/ TickDies(w)
  PROVE  TickInv' /\ RowsInv'
  <1> USE Numbers DEF EDITABLE, TargetStatus, AtHand, Does, Loop, Checked, Idle, requests, jobs, fate
  <1>1. CASE Take(w)
    <2>1. due' \in 0..MaxDue
      BY <1>1, Parts DEF Take, RowsInv
    <2>3. \/ UNCHANGED tick
          \/ \E s \in {"activate", "block", "count"} : tick' = [tick EXCEPT ![w].step = s]
      BY <1>1 DEF Take
    <2>4. UNCHANGED <<status, target, placed, start, cancel, upload, late, crashes>> /\ dropped' = FALSE
      BY <1>1 DEF Take
    <2>5. TickInv'
      BY <2>3, Parts DEF TickInv, TickState
    <2>6. RowsInv'
      BY <2>1, <2>4, Parts DEF RowsInv
    <2> QED
      BY <2>5, <2>6
  <1>2. CASE Activate(w)
    BY <1>2, Parts DEF Activate, TickInv, TickState, RowsInv
  <1>3. CASE Block(w)
    BY <1>3, Parts DEF Block, TickInv, TickState, RowsInv
  <1>4. CASE Count(w)
    <2>1. Slots' \in 0..Concurrency
      <3>1. IsFiniteSet(Are("DIALING")')
        BY FS_Subset DEF Are
      <3>2. Inflight' \in Nat
        BY <3>1, FS_CardinalityType DEF Inflight
      <3> QED
        BY <3>2, FreeLines DEF Slots
    <2> QED
      BY <1>4, <2>1, Parts DEF Count, TickInv, TickState, RowsInv
  <1>5. CASE Find(w)
    <2>1. Are("PENDING") # {} => Min(Are("PENDING")) \in Target
      BY Oldest DEF Are
    <2> QED
      BY <1>5, <2>1, Parts DEF Find, TickInv, TickState, RowsInv
  <1>6. CASE Claim(w)
    BY <1>6, Parts DEF Claim, TickInv, TickState, RowsInv
  <1>7. CASE Dial(w)
    <2>1. TickInv'
      BY <1>7, Parts DEF Dial, TickInv, TickState
    <2>2. RowsInv'
      BY <1>7, Parts DEF Dial, TickInv, RowsInv
    <2> QED
      BY <2>1, <2>2
  <1>8. CASE DialFailed(w)
    <2>1. TickInv'
      <3>1. PICK s \in {"block", "find"} : tick' = [tick EXCEPT ![w].step = s, ![w].on = 0]
        BY <1>8 DEF DialFailed
      <3> QED
        BY <3>1, Parts DEF TickInv, TickState
    <2>2. /\ target' = [target EXCEPT ![tick[w].on] = "OVER"]
          /\ UNCHANGED <<status, placed, due, start, cancel, upload, crashes>>
      BY <1>8 DEF DialFailed
    <2>3. RowsInv'
      BY <2>2, Parts DEF RowsInv
    <2> QED
      BY <2>1, <2>3
  <1>9. CASE Finish(w)
    <2>2. /\ tick' \in {[tick EXCEPT ![w].step = "complete"], [tick EXCEPT ![w] = Idle]}
          /\ UNCHANGED <<status, target, placed, due, start, cancel, upload, late, dropped, crashes>>
      BY <1>9, Zenon DEF Finish
    <2> QED
      BY <2>2, Parts DEF TickInv, TickState, RowsInv
  <1>10. CASE Complete(w)
    BY <1>10, Parts DEF Complete, TickInv, TickState, RowsInv
  <1>11. CASE TickDies(w)
    <2>1. TickInv'
      BY <1>11, Parts DEF TickDies, TickInv, TickState
    <2>2. RowsInv'
      BY <1>11, OneMoreType, Parts DEF TickDies, RowsInv
    <2> QED
      BY <2>1, <2>2
  <1> QED
    BY <1>1, <1>2, <1>3, <1>4, <1>5, <1>6, <1>7, <1>8, <1>9, <1>10, <1>11

\* A step of an upload.
Uploading(u) ==
  UploadRead(u) \/ UploadReplace(u) \/ UploadCompare(u) \/ UploadWrite(u) \/ UploadFails(u)

\* The queue, the owner's requests, and what is heard of calls.
LEMMA TypeOthers ==
  ASSUME TypeInv,
         \/ DelayEnds \/ StartRead \/ StartWrite \/ StartEnqueue \/ Cancel
         \/ \E u \in Upload : Uploading(u)
         \/ \E t \in Target : OnCallOutcome(t)
  PROVE  TickInv' /\ RowsInv'
  <1> USE Numbers, OneMoreType DEF EDITABLE, TargetStatus, AtHand, requests, jobs, fate
  <1>1. CASE DelayEnds
    BY <1>1, Parts DEF DelayEnds, TickInv, TickState, RowsInv
  <1>2. CASE StartRead
    BY <1>2, Parts DEF StartRead, TickInv, TickState, RowsInv
  <1>3. CASE StartWrite
    BY <1>3, Parts DEF StartWrite, TickInv, TickState, RowsInv
  <1>4. CASE StartEnqueue
    BY <1>4, Parts DEF StartEnqueue, TickInv, TickState, RowsInv
  <1>5. CASE Cancel
    BY <1>5, Parts DEF Cancel, TickInv, TickState, RowsInv
  <1>0. /\ Uploaded \in UploadState
        /\ \A u \in Upload : \A s \in {"read", "replaced"} :
             upload' = [upload EXCEPT ![u].step = s] => upload' \in [Upload -> UploadState]
    <2>1. \A u \in Upload : upload[u] \in UploadState /\ upload \in [Upload -> UploadState]
      BY Parts DEF TickInv, TickState, RowsInv
    <2>2. \A u \in Upload : \A s \in {"read", "replaced"} : [upload[u] EXCEPT !.step = s] \in UploadState
      BY <2>1, UploadStates
    <2> QED
      BY <2>1, <2>2, UploadStates
  <1>6. ASSUME NEW u \in Upload, UploadRead(u) \/ UploadFails(u) PROVE TickInv' /\ RowsInv'
    BY <1>6, <1>0, Parts DEF UploadRead, UploadFails, Uploads, TickInv, TickState, RowsInv
  <1>7. ASSUME NEW u \in Upload, UploadReplace(u) \/ UploadCompare(u) \/ UploadWrite(u) PROVE TickInv' /\ RowsInv'
    <2>1. CASE UploadReplace(u)
      BY <2>1, <1>0, Parts DEF UploadReplace, Uploads, TickInv, TickState, RowsInv
    <2>2. CASE UploadCompare(u)
      <3>1. PICK fresh \in SUBSET Phones(Target) :
              upload' = [upload EXCEPT ![u] = [step |-> "compared", fresh |-> fresh]]
        BY <2>2 DEF UploadCompare
      <3> QED
        BY <2>2, <3>1, UploadStates, Parts DEF UploadCompare, TickInv, TickState, RowsInv
    <2>3. CASE UploadWrite(u)
      <3>1. target' \in [Target -> TargetStatus]
        BY <2>3, Parts DEF UploadWrite, TickInv, TickState, RowsInv
      <3> QED
        BY <2>3, <3>1, UploadStates, Parts DEF UploadWrite, TickInv, TickState, RowsInv
    <2> QED
      BY <1>7, <2>1, <2>2, <2>3
  <1>8. CASE \E t \in Target : OnCallOutcome(t)
    BY <1>8, Parts DEF OnCallOutcome, TickInv, TickState, RowsInv
  <1> QED
    BY <1>1, <1>2, <1>3, <1>4, <1>5, <1>6, <1>7, <1>8 DEF Uploading

LEMMA TypeStep == TypeInv /\ [Next]_vars => TypeInv'
  <1> SUFFICES ASSUME TypeInv, [Next]_vars PROVE TypeInv'
    OBVIOUS
  <1>1. CASE Next
    <2>1. TickInv' /\ RowsInv'
      BY <1>1, TypeTick, TypeOthers DEF Next, Uploading
    <2>2. FlagInv'
      BY <1>1, FlagStep
    <2> QED
      BY <2>1, <2>2, Zenon DEF TypeInv, TypeOK, TickInv, TickState, RowsInv, FlagInv
  <1>2. CASE UNCHANGED vars
    BY <1>2 DEF vars, TypeInv, TypeOK
  <1> QED
    BY <1>1, <1>2

\* The state of a batch is always of its type.
THEOREM BatchTypeCorrect == Spec => []TypeOK
  <1>1. TypeInv => TypeOK
    BY DEF TypeInv
  <1> QED
    BY <1>1, TypeInit, TypeStep, PTL DEF Spec

LEMMA TypeAlways == Spec => []TypeInv
  BY TypeInit, TypeStep, PTL DEF Spec

-----------------------------------------------------------------------------
(* One call *)

\* Taken: the target left the queue of those that wait, for good.
Taken(t) == target[t] \notin {"NONE", "PENDING"}

\* The tick that dials a target is the one that claimed it, and no call of it was
\* placed; a target with a call never waits again.
OwnerInv ==
  /\ \A t \in Target : placed[t] = 0 \/ (placed[t] = 1 /\ Taken(t))
  /\ \A w \in Worker :
       tick[w].step = "dial" => Taken(tick[w].on) /\ placed[tick[w].on] = 0
  /\ \A v, w \in Worker :
       tick[v].step = "dial" /\ tick[w].step = "dial" /\ tick[v].on = tick[w].on => v = w

LEMMA OwnerInit == Init => OwnerInv
  <1> SUFFICES ASSUME Init PROVE OwnerInv
    OBVIOUS
  <1>1. \A t \in Target : placed[t] = 0
    BY DEF Init
  <1>2. \A w \in Worker : tick[w].step # "dial"
    BY DEF Init, Idle
  <1> QED
    BY <1>1, <1>2 DEF OwnerInv

\* No action makes a taken target wait.
LEMMA TakenForGood ==
  ASSUME TypeInv, Next, NEW t \in Target, Taken(t)
  PROVE  Taken(t)'
  <1> USE DEF Taken, TypeInv, TypeOK
  <1>1. ASSUME NEW w \in Worker, Count(w) PROVE Taken(t)'
    BY <1>1 DEF Count
  <1>2. ASSUME NEW w \in Worker, Claim(w) PROVE Taken(t)'
    BY <1>2 DEF Claim
  <1>3. ASSUME NEW w \in Worker, DialFailed(w) PROVE Taken(t)'
    BY <1>3 DEF DialFailed
  <1>4. CASE Cancel
    BY <1>4 DEF Cancel
  <1>5. ASSUME NEW u \in Upload, UploadReplace(u) \/ UploadWrite(u) PROVE Taken(t)'
    BY <1>5 DEF UploadReplace, UploadWrite, Are
  <1>6. ASSUME NEW u \in Target, OnCallOutcome(u) PROVE Taken(t)'
    BY <1>6 DEF OnCallOutcome
  <1>7. CASE UNCHANGED target
    BY <1>7
  <1> QED
    BY <1>1, <1>2, <1>3, <1>4, <1>5, <1>6, <1>7
    DEF Next, Take, Activate, Block, Find, Dial, Finish, Complete, TickDies, DelayEnds,
        StartRead, StartWrite, StartEnqueue, UploadRead, UploadCompare, UploadFails

\* A step that neither dials nor claims.
LEMMA OwnerRests ==
  ASSUME TypeInv, OwnerInv, Next, UNCHANGED placed,
         \A w \in Worker : tick'[w].step = "dial" => tick[w].step = "dial" /\ tick'[w].on = tick[w].on
  PROVE  OwnerInv'
  <1>1. \A t \in Target : Taken(t) => Taken(t)'
    BY TakenForGood
  <1>2. \A w \in Worker : tick[w].step = "dial" => tick[w].on \in Target
    BY DEF TypeInv, AtHand
  <1>3. \A t \in Target : placed'[t] = 0 \/ (placed'[t] = 1 /\ Taken(t)')
    BY <1>1 DEF OwnerInv
  <1>4. \A w \in Worker :
          tick'[w].step = "dial" => Taken(tick[w].on)' /\ tick'[w].on = tick[w].on /\ placed'[tick[w].on] = 0
    BY <1>1, <1>2 DEF OwnerInv
  <1> QED
    BY <1>3, <1>4 DEF OwnerInv, Taken

LEMMA OwnerClaims ==
  ASSUME TypeInv, OwnerInv, NEW w \in Worker, Claim(w), Next
  PROVE  OwnerInv'
  <1> DEFINE t == tick[w].on
  <1>1. t \in Target /\ tick[w].step = "claim"
    BY DEF Claim, TypeInv, AtHand
  <1>2. CASE target[t] = "PENDING"
    <2>1. /\ target' = [target EXCEPT ![t] = "DIALING"] /\ UNCHANGED placed
          /\ tick' = [tick EXCEPT ![w].step = "dial", ![w].slots = @ - 1]
      BY <1>2 DEF Claim
    <2>2. placed[t] = 0 /\ \A v \in Worker : tick[v].step = "dial" => tick[v].on # t
      BY <1>1, <1>2 DEF OwnerInv, Taken
    <2>3. \A u \in Target : Taken(u) => Taken(u)'
      BY TakenForGood
    <2>4. target'[t] \notin {"NONE", "PENDING"}
      BY <1>1, <2>1 DEF TypeInv, TypeOK, Taken
    <2>5. tick'[w].on = t /\ \A v \in Worker : v # w => tick'[v] = tick[v]
      BY <2>1 DEF TypeInv, TypeOK
    <2>6. \A v \in Worker : tick[v].step = "dial" => tick[v].on \in Target
      BY DEF TypeInv, AtHand
    <2> HIDE DEF t
    <2>7. \A u \in Target : placed'[u] = 0 \/ (placed'[u] = 1 /\ Taken(u)')
      BY <2>1, <2>3 DEF OwnerInv
    <2>8. \A v \in Worker : tick'[v].step = "dial" =>
            target'[tick'[v].on] \notin {"NONE", "PENDING"} /\ placed'[tick'[v].on] = 0
      <3> TAKE v \in Worker
      <3>1. CASE v = w
        BY <3>1, <2>1, <2>2, <2>4, <2>5
      <3>2. CASE v # w
        BY <3>2, <2>1, <2>3, <2>5, <2>6 DEF OwnerInv, Taken
      <3> QED
        BY <3>1, <3>2
    <2>9. \A u, v \in Worker :
            tick'[u].step = "dial" /\ tick'[v].step = "dial" /\ tick'[u].on = tick'[v].on => u = v
      BY <2>2, <2>5 DEF OwnerInv
    <2> QED
      BY <2>7, <2>8, <2>9 DEF OwnerInv, Taken
  <1>3. CASE target[t] # "PENDING"
    <2>1. UNCHANGED placed /\ tick' = [tick EXCEPT ![w].step = "find", ![w].on = 0]
      BY <1>3 DEF Claim, Loop
    <2>2. \A v \in Worker : tick'[v].step = "dial" => tick[v].step = "dial" /\ tick'[v].on = tick[v].on
      BY <2>1 DEF TypeInv, TypeOK
    <2> QED
      BY <2>1, <2>2, OwnerRests
  <1> QED
    BY <1>2, <1>3

LEMMA OwnerDials ==
  ASSUME TypeInv, OwnerInv, NEW w \in Worker, Dial(w), Next
  PROVE  OwnerInv'
  <1> DEFINE t == tick[w].on
  <1>1. t \in Target /\ tick[w].step = "dial" /\ placed[t] = 0 /\ Taken(t)
    BY DEF Dial, TypeInv, AtHand, OwnerInv
  <1>2. tick'[w].step # "dial" /\ \A v \in Worker : v # w => tick'[v] = tick[v]
    BY DEF Dial, Does, Loop, TypeInv, TypeOK
  <1>3. CASE UNCHANGED placed
    BY <1>2, <1>3, OwnerRests
  <1>4. CASE placed' = [placed EXCEPT ![t] = @ + 1]
    <2>1. \A v \in Worker : v # w /\ tick[v].step = "dial" => tick[v].on # t /\ tick[v].on \in Target
      BY <1>1 DEF OwnerInv, TypeInv, AtHand
    <2>2. UNCHANGED target
      BY DEF Dial
    <2>3. placed'[t] = 1 /\ \A u \in Target : u # t => placed'[u] = placed[u]
      BY <1>1, <1>4 DEF TypeInv, TypeOK
    <2> HIDE DEF t
    <2> QED
      BY <1>1, <1>2, <2>1, <2>2, <2>3 DEF OwnerInv, Taken
  <1> QED
    BY <1>3, <1>4 DEF Dial

\* The steps of a tick that do not end in front of a dial.
LEMMA Elsewhere ==
  ASSUME TypeInv, NEW w \in Worker,
         \/ Take(w) \/ Activate(w) \/ Block(w) \/ Count(w) \/ Find(w)
         \/ DialFailed(w) \/ Finish(w) \/ Complete(w) \/ TickDies(w)
  PROVE  \/ UNCHANGED tick
         \/ \E r : tick' = [tick EXCEPT ![w] = r] /\ r.step # "dial"
  <1> DEFINE Goal == \E r : tick' = [tick EXCEPT ![w] = r] /\ r.step # "dial"
  <1>1. \A s : s # "dial" /\ tick' = [tick EXCEPT ![w].step = s] => Goal
    <2> SUFFICES ASSUME NEW s, s # "dial", tick' = [tick EXCEPT ![w].step = s] PROVE Goal
      OBVIOUS
    <2>1. tick' = [tick EXCEPT ![w] = [tick[w] EXCEPT !.step = s]] /\ [tick[w] EXCEPT !.step = s].step # "dial"
      BY DEF TypeInv, TypeOK
    <2> QED
      BY <2>1
  <1>2. \A s : s # "dial" /\ tick' = [tick EXCEPT ![w].step = s, ![w].on = 0] => Goal
    <2> SUFFICES ASSUME NEW s, s # "dial", tick' = [tick EXCEPT ![w].step = s, ![w].on = 0] PROVE Goal
      OBVIOUS
    <2>1. /\ tick' = [tick EXCEPT ![w] = [tick[w] EXCEPT !.step = s, !.on = 0]]
          /\ [tick[w] EXCEPT !.step = s, !.on = 0].step # "dial"
      BY DEF TypeInv, TypeOK
    <2> QED
      BY <2>1
  <1>3. \A r : r.step # "dial" /\ tick' = [tick EXCEPT ![w] = r] => Goal
    OBVIOUS
  <1>4. Idle.step = "idle"
    BY DEF Idle
  <1> HIDE DEF Goal
  <1>5. CASE Take(w)
    BY <1>1, <1>5 DEF Take, Checked, Does, Goal
  <1>6. CASE Activate(w) \/ Complete(w) \/ Block(w) \/ TickDies(w)
    BY <1>1, <1>3, <1>4, <1>6 DEF Activate, Complete, Block, TickDies, Checked, Does, Goal
  <1>7. CASE Count(w)
    <2>1. tick' = [tick EXCEPT ![w] = [Idle EXCEPT !.step = "find", !.slots = Slots']]
      BY <1>7 DEF Count
    <2>2. [Idle EXCEPT !.step = "find", !.slots = Slots'].step = "find"
      BY DEF Idle
    <2> QED
      BY <1>3, <2>1, <2>2 DEF Goal
  <1>8. CASE Find(w)
    <2>1. CASE tick[w].slots > 0 /\ Are("PENDING") # {}
      <3>1. tick' = [tick EXCEPT ![w] = [tick[w] EXCEPT !.step = "claim", !.on = Min(Are("PENDING"))]]
        BY <1>8, <2>1 DEF Find, TypeInv, TypeOK
      <3>2. [tick[w] EXCEPT !.step = "claim", !.on = Min(Are("PENDING"))].step = "claim"
        BY DEF TypeInv, TypeOK
      <3> QED
        BY <1>3, <3>1, <3>2 DEF Goal
    <2>2. CASE ~(tick[w].slots > 0 /\ Are("PENDING") # {})
      BY <1>3, <1>8, <2>2 DEF Find, Idle, Goal
    <2> QED
      BY <2>1, <2>2
  <1>9. CASE DialFailed(w)
    BY <1>2, <1>9 DEF DialFailed, Loop, Goal
  <1>10. CASE Finish(w)
    <2>1. CASE Remaining = {}
      BY <1>1, <1>10, <2>1 DEF Finish, Does, Goal
    <2>2. CASE Remaining # {}
      BY <1>3, <1>4, <1>10, <2>2 DEF Finish, Goal
    <2> QED
      BY <2>1, <2>2
  <1> QED
    BY <1>5, <1>6, <1>7, <1>8, <1>9, <1>10 DEF Goal

LEMMA OwnerStep == TypeInv /\ OwnerInv /\ [Next]_vars => OwnerInv'
  <1> SUFFICES ASSUME TypeInv, OwnerInv, [Next]_vars PROVE OwnerInv'
    OBVIOUS
  <1>1. CASE UNCHANGED vars
    BY <1>1 DEF vars, OwnerInv, Taken
  <1>2. ASSUME Next, NEW w \in Worker,
               \/ Take(w) \/ Activate(w) \/ Block(w) \/ Count(w) \/ Find(w)
               \/ DialFailed(w) \/ Finish(w) \/ Complete(w) \/ TickDies(w)
        PROVE  OwnerInv'
    <2>1. UNCHANGED placed
      BY <1>2 DEF Take, Activate, Block, Count, Find, DialFailed, Finish, Complete, TickDies
    <2>2. \/ UNCHANGED tick
          \/ \E r : tick' = [tick EXCEPT ![w] = r] /\ r.step # "dial"
      BY <1>2, Elsewhere
    <2>3. \A v \in Worker : tick'[v].step = "dial" => tick'[v] = tick[v]
      BY <2>2 DEF TypeInv, TypeOK
    <2> QED
      BY <1>2, <2>1, <2>3, OwnerRests
  <1>3. ASSUME Next,
               \/ DelayEnds \/ StartRead \/ StartWrite \/ StartEnqueue \/ Cancel
               \/ \E u \in Upload : Uploading(u)
               \/ \E t \in Target : OnCallOutcome(t)
        PROVE  OwnerInv'
    <2>1. UNCHANGED <<placed, tick>>
      BY <1>3 DEF DelayEnds, StartRead, StartWrite, StartEnqueue, Cancel, Uploading, UploadRead,
           UploadReplace, UploadCompare, UploadWrite, UploadFails, OnCallOutcome
    <2> QED
      BY <1>3, <2>1, OwnerRests
  <1>4. CASE Next
    BY <1>2, <1>3, <1>4, OwnerClaims, OwnerDials DEF Next, Uploading
  <1> QED
    BY <1>1, <1>4

\* Nobody is called twice, however many ticks run at once, die and run again.
THEOREM CalledOnceAlways == Spec => []CalledOnce
  <1>1. OwnerInv => CalledOnce
    BY DEF OwnerInv, CalledOnce
  <1> QED
    BY <1>1, TypeAlways, OwnerInit, OwnerStep, PTL DEF Spec

-----------------------------------------------------------------------------
(* Completion and cancellation *)

\* Rows are added only by an upload, under somebody's eyes (late) or under nobody's; so when a tick saw that
\* none remains, or a cancellation skipped those that waited, it stays so.
SettledInv ==
  /\ ~late /\ (status = "COMPLETED" \/ \E w \in Worker : tick[w].step = "complete")
       => Remaining = {}
  /\ ~late /\ (status = "CANCELLED" \/ cancel = "skipped") => Are("PENDING") = {}

LEMMA SettledInit == Init => SettledInv
  BY DEF Init, SettledInv, Idle

\* What waits or dials after a step waited before it, but for an upload.
LEMMA NothingNew ==
  ASSUME TypeInv, Next, \A u \in Upload : ~UploadWrite(u)
  PROVE  /\ Remaining' \subseteq Remaining
         /\ Are("PENDING")' \subseteq Are("PENDING")
         /\ UNCHANGED late
  <1> USE DEF TypeInv, TypeOK, Remaining, Are
  <1>1. ASSUME NEW w \in Worker, Count(w) PROVE Remaining' \subseteq Remaining /\ Are("PENDING")' \subseteq Are("PENDING")
    BY <1>1 DEF Count
  <1>2. ASSUME NEW w \in Worker, Claim(w) PROVE Remaining' \subseteq Remaining /\ Are("PENDING")' \subseteq Are("PENDING")
    BY <1>2 DEF Claim
  <1>3. ASSUME NEW w \in Worker, DialFailed(w) PROVE Remaining' \subseteq Remaining /\ Are("PENDING")' \subseteq Are("PENDING")
    BY <1>3 DEF DialFailed
  <1>4. CASE Cancel
    BY <1>4 DEF Cancel
  <1>5. ASSUME NEW u \in Upload, UploadReplace(u) PROVE Remaining' \subseteq Remaining /\ Are("PENDING")' \subseteq Are("PENDING")
    BY <1>5 DEF UploadReplace
  <1>6. ASSUME NEW t \in Target, OnCallOutcome(t) PROVE Remaining' \subseteq Remaining /\ Are("PENDING")' \subseteq Are("PENDING")
    BY <1>6 DEF OnCallOutcome
  <1>7. ASSUME UNCHANGED target PROVE Remaining' \subseteq Remaining /\ Are("PENDING")' \subseteq Are("PENDING")
    BY <1>7
  <1>8. Remaining' \subseteq Remaining /\ Are("PENDING")' \subseteq Are("PENDING")
    BY <1>1, <1>2, <1>3, <1>4, <1>5, <1>6, <1>7
    DEF Next, Take, Activate, Block, Find, Dial, Finish, Complete, TickDies, DelayEnds,
        StartRead, StartWrite, StartEnqueue, UploadRead, UploadCompare, UploadFails
  <1>9. UNCHANGED late
    BY DEF Next, Take, Activate, Block, Count, Find, Claim, Dial, DialFailed, Finish, Complete,
           TickDies, DelayEnds, StartRead, StartWrite, StartEnqueue, Cancel, UploadRead,
           UploadReplace, UploadCompare, UploadFails, OnCallOutcome, requests
  <1> QED
    BY <1>8, <1>9

\* Nobody completes a batch but a tick that saw nothing left, nor cancels one but a
\* request that has skipped what waited.
LEMMA Deciders ==
  ASSUME TypeInv, Next
  PROVE  /\ status' = "COMPLETED" => status = "COMPLETED" \/ \E w \in Worker : tick[w].step = "complete"
         /\ \A w \in Worker : tick'[w].step = "complete" => tick[w].step = "complete" \/ Remaining = {}
         /\ status' = "CANCELLED" => status = "CANCELLED" \/ cancel = "skipped"
         /\ cancel' = "skipped" => cancel = "skipped" \/ Are("PENDING")' = {}
  <1> USE DEF TypeInv, TypeOK
  <1>1. ASSUME NEW w \in Worker,
               \/ Take(w) \/ Activate(w) \/ Block(w) \/ Count(w) \/ Find(w) \/ Claim(w)
               \/ Dial(w) \/ DialFailed(w) \/ TickDies(w)
        PROVE  /\ UNCHANGED cancel /\ status' \in {status, "RUNNING", "BLOCKED"}
               /\ \A v \in Worker : tick'[v].step = "complete" => tick[v].step = "complete"
    <2>1. UNCHANGED cancel /\ status' \in {status, "RUNNING", "BLOCKED"}
      BY <1>1 DEF Take, Activate, Block, Count, Find, Claim, Dial, DialFailed, TickDies, requests
    <2>2. CASE Take(w)
      <3>1. UNCHANGED tick \/ \E s \in {"activate", "block", "count"} : tick' = [tick EXCEPT ![w].step = s]
        BY <2>2 DEF Take, Checked, Does
      <3> QED
        BY <2>1, <3>1
    <2>3. CASE Activate(w) \/ Block(w) \/ TickDies(w)
      BY <2>1, <2>3 DEF Activate, Block, TickDies, Checked, Does, Idle
    <2>4. CASE Count(w) \/ Find(w)
      BY <2>1, <2>4 DEF Count, Find, Idle
    <2>5. CASE Claim(w)
      BY <2>1, <2>5 DEF Claim, Loop
    <2>6. CASE Dial(w)
      BY <2>1, <2>6 DEF Dial, Does, Loop
    <2>7. CASE DialFailed(w)
      BY <2>1, <2>7 DEF DialFailed, Loop
    <2> QED
      BY <1>1, <2>1, <2>2, <2>3, <2>4, <2>5, <2>6, <2>7
  <1>2. ASSUME NEW w \in Worker, Finish(w)
        PROVE  /\ UNCHANGED <<cancel, status>>
               /\ \A v \in Worker : tick'[v].step = "complete" => tick[v].step = "complete" \/ Remaining = {}
    <2>1. UNCHANGED <<cancel, status>>
      BY <1>2 DEF Finish, requests
    <2>2. CASE Remaining # {}
      BY <1>2, <2>1, <2>2 DEF Finish, Idle
    <2> QED
      BY <2>1, <2>2
  <1>3. ASSUME NEW w \in Worker, Complete(w)
        PROVE  /\ tick[w].step = "complete" /\ UNCHANGED cancel /\ status' \in {status, "COMPLETED"}
               /\ \A v \in Worker : tick'[v].step = "complete" => tick[v].step = "complete"
    BY <1>3 DEF Complete, Idle, requests
  <1>4. CASE DelayEnds \/ StartRead \/ StartWrite \/ StartEnqueue \/ (\E u \in Upload : Uploading(u))
             \/ \E t \in Target : OnCallOutcome(t)
    <2>1. UNCHANGED <<cancel, tick>> /\ status' \in {status, "BLOCKED", "RUNNING", "SCHEDULED"}
      BY <1>4 DEF DelayEnds, StartRead, StartWrite, StartEnqueue, Uploading, UploadRead, UploadReplace,
           UploadCompare, UploadWrite, UploadFails, OnCallOutcome, requests
    <2> QED
      BY <2>1
  <1>5. CASE Cancel
    <2>1. cancel = "none" => UNCHANGED status /\ Are("PENDING")' = {}
      BY <1>5 DEF Cancel, Are
    <2>2. UNCHANGED tick /\ (cancel = "none" \/ cancel = "skipped") /\ status' \in {status, "CANCELLED"}
      BY <1>5 DEF Cancel
    <2>3. cancel = "skipped" => cancel' = "none"
      BY <1>5 DEF Cancel
    <2> QED
      BY <2>1, <2>2, <2>3
  <1> QED
    BY <1>1, <1>2, <1>3, <1>4, <1>5 DEF Next, Uploading

LEMMA SettledStep == TypeInv /\ SettledInv /\ [Next]_vars => SettledInv'
  <1> SUFFICES ASSUME TypeInv, SettledInv, [Next]_vars PROVE SettledInv'
    OBVIOUS
  <1>1. CASE UNCHANGED vars
    BY <1>1 DEF vars, SettledInv, Remaining, Are
  <1>2. CASE Next /\ \A u \in Upload : ~UploadWrite(u)
    BY <1>2, NothingNew, Deciders DEF SettledInv
  <1>3. ASSUME NEW u \in Upload, UploadWrite(u) PROVE SettledInv'
    <2>1. PICK new \in SUBSET Are("NONE") :
            /\ target' = [t \in Target |-> IF t \in new THEN "PENDING" ELSE target[t]]
            /\ late' = (late \/ (~Quiet /\ new # {}))
      BY <1>3 DEF UploadWrite
    <2>2. UNCHANGED <<status, tick, cancel>>
      BY <1>3 DEF UploadWrite
    <2>3. CASE Quiet
      <3>1. status' \in EDITABLE /\ cancel' = "none" /\ \A w \in Worker : tick'[w].step = "idle"
        BY <2>2, <2>3 DEF Quiet
      <3> QED
        BY <3>1 DEF SettledInv, EDITABLE
    <2>4. CASE new = {}
      <3>1. target' = target /\ late' = late
        BY <2>1, <2>4 DEF TypeInv, TypeOK
      <3> QED
        BY <2>2, <3>1 DEF SettledInv, Remaining, Are
    <2>5. CASE ~Quiet /\ new # {}
      <3>1. late'
        BY <2>1, <2>5
      <3> QED
        BY <3>1 DEF SettledInv
    <2> QED
      BY <2>3, <2>4, <2>5
  <1> QED
    BY <1>1, <1>2, <1>3

LEMMA SettledAlways == Spec => []SettledInv
  BY TypeAlways, SettledInit, SettledStep, PTL DEF Spec

\* A completed batch has an outcome for every target, with the one exception.
THEOREM CompletedIsSettledAlways == Spec => []CompletedIsSettled
  <1>1. SettledInv => CompletedIsSettled
    BY DEF SettledInv, CompletedIsSettled
  <1> QED
    BY <1>1, SettledAlways, PTL

\* While a batch is cancelled, no target that waits is taken any more.
THEOREM CancelStopsAlways == Spec => CancelStops
  <1>1. SettledInv => [status = "CANCELLED" /\ ~late =>
                         \A t \in Target : target[t] = "PENDING" => target'[t] # "DIALING"]_vars
    BY DEF SettledInv, Are
  <1> QED
    BY <1>1, SettledAlways, PTL DEF CancelStops

-----------------------------------------------------------------------------
(* A running batch is driven *)

LEMMA DrivenInit == Init => Driven
  BY DEF Init, Driven

LEMMA DrivenStep == TypeInv /\ Driven /\ [Next]_vars => Driven'
  <1> SUFFICES ASSUME TypeInv, Driven, [Next]_vars PROVE Driven'
    OBVIOUS
  <1> DEFINE Busy == \E w \in Worker : tick[w].step # "idle"
  <1>1. CASE UNCHANGED vars
    BY <1>1 DEF vars, Driven
  <1>2. ASSUME NEW w \in Worker, Take(w) PROVE Driven'
    <2>1. CASE status = "RUNNING"
      <3>1. tick' = [tick EXCEPT ![w].step = "block"] \/ tick' = [tick EXCEPT ![w].step = "count"]
        BY <1>2, <2>1 DEF Take, Checked, Does
      <3>2. tick'[w].step # "idle"
        BY <3>1 DEF TypeInv, TypeOK
      <3> QED
        BY <3>2 DEF Driven
    <2>2. CASE status # "RUNNING"
      BY <1>2, <2>2 DEF Take, Driven
    <2> QED
      BY <2>1, <2>2
  <1>3. ASSUME NEW w \in Worker, Activate(w) \/ Count(w) \/ Find(w) \/ Claim(w) \/ Dial(w) \/ DialFailed(w)
        PROVE  Driven'
    <2>1. tick'[w].step # "idle"
      <3>1. CASE Activate(w)
        BY <3>1 DEF Activate, Checked, Does, TypeInv, TypeOK
      <3>2. CASE Count(w) \/ Find(w)
        BY <3>2 DEF Count, Find, Idle, TypeInv, TypeOK
      <3>3. CASE Claim(w)
        BY <3>3 DEF Claim, Loop, TypeInv, TypeOK
      <3>4. CASE Dial(w)
        BY <3>4 DEF Dial, Loop, Does, TypeInv, TypeOK
      <3>5. CASE DialFailed(w)
        BY <3>5 DEF DialFailed, Loop, TypeInv, TypeOK
      <3> QED
        BY <1>3, <3>1, <3>2, <3>3, <3>4, <3>5
    <2> QED
      BY <2>1 DEF Driven
  <1>4. ASSUME NEW w \in Worker, Block(w) \/ Complete(w) PROVE Driven'
    <2>1. status' # "RUNNING"
      BY <1>4 DEF Block, Complete
    <2> QED
      BY <2>1 DEF Driven
  <1>5. ASSUME NEW w \in Worker, Finish(w) PROVE Driven'
    <2>1. CASE Remaining = {}
      <3>1. tick'[w].step = "complete"
        BY <1>5, <2>1 DEF Finish, Does, TypeInv, TypeOK
      <3> QED
        BY <3>1 DEF Driven
    <2>2. CASE Remaining # {}
      <3>1. later'
        BY <1>5, <2>2 DEF Finish
      <3> QED
        BY <3>1 DEF Driven
    <2> QED
      BY <2>1, <2>2
  <1>6. ASSUME NEW w \in Worker, TickDies(w) PROVE Driven'
    BY <1>6, OneMoreType DEF TickDies, Driven
  <1>7. CASE DelayEnds
    BY <1>7, OneMoreType DEF DelayEnds, Driven, fate
  <1>8. CASE StartRead \/ StartWrite
    BY <1>8 DEF StartRead, StartWrite, Driven, EDITABLE, jobs, fate
  <1>9. CASE StartEnqueue
    BY <1>9, OneMoreType DEF StartEnqueue, Driven, jobs, fate
  <1>10. CASE Cancel \/ \E u \in Upload : Uploading(u)
    <2>1. UNCHANGED <<tick, due, later, start, dropped>> /\ status' \in {status, "CANCELLED"}
      BY <1>10 DEF Cancel, Uploading, UploadRead, UploadReplace, UploadCompare, UploadWrite,
             UploadFails, jobs, fate
    <2> QED
      BY <2>1 DEF Driven
  <1>11. ASSUME NEW t \in Target, OnCallOutcome(t) PROVE Driven'
    BY <1>11, OneMoreType DEF OnCallOutcome, Driven, requests, fate
  <1> QED
    BY <1>1, <1>2, <1>3, <1>4, <1>5, <1>6, <1>7, <1>8, <1>9, <1>10, <1>11 DEF Next, Uploading

\* A running batch has a tick to come or in progress, but for a lost start and for a tick
\* that the queue gave up after its second death or third error.
THEOREM DrivenAlways == Spec => []Driven
  BY TypeAlways, DrivenInit, DrivenStep, PTL DEF Spec
=============================================================================
