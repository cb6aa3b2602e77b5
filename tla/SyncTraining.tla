---------------------------- MODULE SyncTraining ----------------------------
(***************************************************************************)
(* What a chain of slices promises: training as if the model was in one    *)
(* piece.  A batch updates every slice exactly once, from the last slice   *)
(* to the first (the order the gradient flows), and the next batch starts  *)
(* when all of them have the new weights.                                  *)
(***************************************************************************)
EXTENDS Integers

CONSTANTS NumSlices, NumBatches

Slice == 0 .. NumSlices - 1

VARIABLES
  batch,     \* batches completed
  version    \* per slice, updates applied to its weights

vars == <<batch, version>>

Init ==
  /\ batch = 0
  /\ version = [w \in Slice |-> 0]

Update(w) ==
  /\ batch < NumBatches
  /\ version[w] = batch
  /\ \A v \in Slice : v > w => version[v] = batch + 1
  /\ version' = [version EXCEPT ![w] = batch + 1]
  /\ UNCHANGED batch

NextBatch ==
  /\ \A w \in Slice : version[w] = batch + 1
  /\ batch' = batch + 1
  /\ UNCHANGED version

Next == NextBatch \/ \E w \in Slice : Update(w)

Spec == Init /\ [][Next]_vars /\ WF_vars(Next)

=============================================================================
