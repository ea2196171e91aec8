---------------------------- MODULE MCCallBatches ----------------------------
(***************************************************************************)
(* CallBatches for TLC, and what its comments say of the lines in use.     *)
(***************************************************************************)
EXTENDS CallBatches, TLC

Targets == 1..2

\* Two rows that may be of one phone: made by two uploads, or one after the other is deleted.
PhoneOf == [t \in Targets |-> "p"]

\* The workers are alike, and so are the uploads.
Alike == Permutations(Worker) \cup Permutations(Upload)

\* batches.service.ts: "A scheduler job on QUEUES.channels dials up to
\* `concurrency` calls at a time".  Two ticks that count the calls in flight
\* before either of them claims a target fill the same slots twice.
AtMostConcurrency == Inflight <= Concurrency

\* batches.service.ts:160-167, 180: an upload skips the phones the batch has
\* (skippedExisting), so that a phone of a batch is called once.  Two uploads
\* that compare before either of them writes make two rows of one phone.
PhonesAreCalledOnce ==
  \A t, u \in Target : placed[t] > 0 /\ placed[u] > 0 /\ Phone[t] = Phone[u] => t = u
=============================================================================
