------------------------------ MODULE Pipeline ------------------------------
(***************************************************************************)
(* One epoch of distributed training over a chain of workers: the          *)
(* coordinator cuts every batch in micro-batches and feeds them, each      *)
(* worker runs its forward and backward passes on a single compute thread  *)
(* fed by a FIFO, and the first worker tells the coordinator that the      *)
(* batch is over.  executors/worker.py and executors/distributed.py.       *)
(*                                                                         *)
(* No message is lost and no worker fails here (module Recovery has the    *)
(* failures).  A micro-batch is known by the integer the code puts on the  *)
(* wire; tensors are left out: what is kept of a gradient or a loss is the *)
(* micro-batch it came from.                                               *)
(***************************************************************************)
EXTENDS Integers, Sequences

CONSTANTS
  NumSlices,    \* workers in the chain, one slice each
  NumMicro,     \* micro-batches per batch (n_micro)
  NumBatches    \* batches the data loader yields in the epoch

ASSUME SizesAssumption ==
  /\ NumSlices \in Nat \ {0}
  /\ NumMicro \in Nat \ {0}
  /\ NumBatches \in Nat \ {0}

Slice == 0 .. NumSlices - 1
First == 0
Last == NumSlices - 1

VARIABLES
  phase,      \* what the training loop does next: start, label, input, wait
  batch,      \* batches completed, the number of the current one
  micro,      \* next micro-batch of the current batch to send
  batchDone,  \* the event the training loop waits on
  losses,     \* _batch_losses: the reports received for the current batch
  recorded,   \* per completed batch, the reports its loss was computed from
  fwdLink,    \* activations on their way to each slice (input for the first)
  bwdLink,    \* gradients on their way to each slice
  pool,       \* tasks queued on each worker's compute thread
  labels,     \* last slice: labels waiting for their activation
  outputs,    \* per slice, activations cached for their gradient
  lossSum,    \* last slice: micro-batches whose loss is being averaged
  reports,    \* loss reports handed to their own thread, not yet received
  grad,       \* per slice, micro-batches accumulated in .grad, oldest first
  stepLog,    \* per slice, the gradients each optimizer step consumed
  fwdRun,     \* forward passes run by each slice (history)
  bwdRun      \* backward passes run by each slice (history)

loopVars == <<phase, batch, micro, recorded>>
linkVars == <<fwdLink, bwdLink>>
lossVars == <<batchDone, losses, lossSum, reports>>
computeVars == <<labels, outputs, grad, stepLog, fwdRun, bwdRun>>
vars == <<loopVars, linkVars, lossVars, computeVars, pool>>

-----------------------------------------------------------------------------
(* Micro-batch numbers: batch_id * M + m on the wire, decoded with // and %. *)

\* Mutant: batches counted from one.
OneBasedFirstMicro(b) == (b + 1) * NumMicro
FirstMicro(b) == b * NumMicro
MicroId(b, m) == FirstMicro(b) + m
BatchOf(id) == id \div NumMicro
\* Mutants: off by one at either end of the batch.
FirstTakenForLast(id) == id % NumMicro = 0
NeverLast(id) == id % NumMicro = NumMicro
IsLastMicro(id) == id % NumMicro = NumMicro - 1

MicrosOf(b) == FirstMicro(b) .. FirstMicro(b + 1) - 1
\* The gradient of batch b, micro-batches in the order they were sent.
WholeBatch(b) == [i \in 1 .. NumMicro |-> FirstMicro(b) + i - 1]

Task(kind, id) == [kind |-> kind, id |-> id]
TaskKind == {"label", "forward", "backward"}

NextIs(w, kind) == pool[w] # <<>> /\ Head(pool[w]).kind = kind
NextId(w) == Head(pool[w]).id

-----------------------------------------------------------------------------
Init ==
  /\ phase = "start"
  /\ batch = 0
  /\ micro = 0
  /\ batchDone = FALSE
  /\ losses = <<>>
  /\ recorded = <<>>
  /\ fwdLink = [w \in Slice |-> <<>>]
  /\ bwdLink = [w \in Slice |-> <<>>]
  /\ pool = [w \in Slice |-> <<>>]
  /\ labels = {}
  /\ outputs = [w \in Slice |-> {}]
  /\ lossSum = {}
  /\ reports = {}
  /\ grad = [w \in Slice |-> <<>>]
  /\ stepLog = [w \in Slice |-> <<>>]
  /\ fwdRun = [w \in Slice |-> 0]
  /\ bwdRun = [w \in Slice |-> 0]

-----------------------------------------------------------------------------
(* The training loop of the coordinator. *)

StartBatch ==
  /\ phase = "start"
  /\ batch < NumBatches
  /\ losses' = <<>>
  /\ batchDone' = FALSE
  /\ micro' = 0
  /\ phase' = "label"
  /\ UNCHANGED <<batch, recorded, lossSum, reports, linkVars, computeVars, pool>>

\* The label is sent by a unary call (or handed over in-process): when the loop
\* goes on, the task is already queued on the last worker.
SendLabel ==
  /\ phase = "label"
  /\ pool' = [pool EXCEPT ![Last] = Append(@, Task("label", MicroId(batch, micro)))]
  /\ phase' = "input"
  /\ UNCHANGED <<batch, micro, recorded, linkVars, lossVars, computeVars>>

\* The input may travel on a tensor stream, which nobody waits for.
SendInput ==
  /\ phase = "input"
  /\ fwdLink' = [fwdLink EXCEPT ![First] = Append(@, MicroId(batch, micro))]
  /\ micro' = micro + 1
  /\ phase' = IF micro + 1 < NumMicro THEN "label" ELSE "wait"
  /\ UNCHANGED <<batch, recorded, bwdLink, lossVars, computeVars, pool>>

FinishBatch ==
  /\ phase = "wait"
  /\ batchDone
  /\ recorded' = Append(recorded, losses)
  /\ batch' = batch + 1
  /\ phase' = "start"
  /\ UNCHANGED <<micro, linkVars, lossVars, computeVars, pool>>

ReceiveMetrics(r) ==
  /\ r \in reports
  /\ reports' = reports \ {r}
  /\ losses' = Append(losses, r)
  /\ UNCHANGED <<batchDone, lossSum, loopVars, linkVars, computeVars, pool>>

-----------------------------------------------------------------------------
(* Message arrival: the handler only queues a task for the compute thread. *)

ReceiveForward(w) ==
  /\ fwdLink[w] # <<>>
  /\ pool' = [pool EXCEPT ![w] = Append(@, Task("forward", Head(fwdLink[w])))]
  /\ fwdLink' = [fwdLink EXCEPT ![w] = Tail(@)]
  /\ UNCHANGED <<loopVars, bwdLink, lossVars, computeVars>>

ReceiveBackward(w) ==
  /\ bwdLink[w] # <<>>
  /\ pool' = [pool EXCEPT ![w] = Append(@, Task("backward", Head(bwdLink[w])))]
  /\ bwdLink' = [bwdLink EXCEPT ![w] = Tail(@)]
  /\ UNCHANGED <<loopVars, fwdLink, lossVars, computeVars>>

-----------------------------------------------------------------------------
(* The compute thread of worker w. *)

Dequeue(w) == pool' = [pool EXCEPT ![w] = Tail(@)]

\* out.backward() adds to .grad; the last micro-batch also steps the optimizer,
\* which consumes .grad.
Accumulate(w, id) ==
  /\ bwdRun' = [bwdRun EXCEPT ![w] = @ + 1]
  /\ IF IsLastMicro(id)
       THEN /\ stepLog' = [stepLog EXCEPT ![w] = Append(@, Append(grad[w], id))]
            /\ grad' = [grad EXCEPT ![w] = <<>>]
       ELSE /\ grad' = [grad EXCEPT ![w] = Append(@, id)]
            /\ UNCHANGED stepLog

\* Mutant: the first slice reports every micro-batch, not the last one.
DoneAfterAnyMicro(w, id) ==
  IF w # First
    THEN /\ bwdLink' = [bwdLink EXCEPT ![w - 1] = Append(@, id)]
         /\ UNCHANGED batchDone
    ELSE /\ batchDone' = TRUE
         /\ UNCHANGED bwdLink

\* The gradient goes to the previous slice; the first slice has none and reports
\* the end of the batch instead.
SendBackward(w, id) ==
  IF w # First
    THEN /\ bwdLink' = [bwdLink EXCEPT ![w - 1] = Append(@, id)]
         /\ UNCHANGED batchDone
    ELSE /\ batchDone' = (batchDone \/ IsLastMicro(id))
         /\ UNCHANGED bwdLink

\* Mutant: the report carries the loss of the last micro-batch only.
ReportLastLoss(id) ==
  IF IsLastMicro(id)
    THEN /\ reports' = reports \union {{id}}
         /\ lossSum' = lossSum \ MicrosOf(BatchOf(id))
    ELSE /\ lossSum' = lossSum \union {id}
         /\ UNCHANGED reports

\* The loss of a batch is averaged over its micro-batches and leaves in a thread
\* of its own before the backward pass.
ReportLoss(id) ==
  LET summed == lossSum \union {id}
      whole == {i \in summed : BatchOf(i) = BatchOf(id)}
  IN IF IsLastMicro(id)
       THEN /\ reports' = reports \union {whole}
            /\ lossSum' = summed \ whole
       ELSE /\ lossSum' = summed
            /\ UNCHANGED reports

BackwardLast(id) ==
  /\ ReportLoss(id)
  /\ Accumulate(Last, id)
  /\ SendBackward(Last, id)

Forward(w) ==
  /\ w # Last
  /\ NextIs(w, "forward")
  /\ Dequeue(w)
  /\ fwdRun' = [fwdRun EXCEPT ![w] = @ + 1]
  /\ outputs' = [outputs EXCEPT ![w] = @ \union {NextId(w)}]
  /\ fwdLink' = [fwdLink EXCEPT ![w + 1] = Append(@, NextId(w))]
  /\ UNCHANGED <<loopVars, bwdLink, lossVars, labels, grad, stepLog, bwdRun>>

\* Mutant: the activation does not look for a label that came first.
ForwardLastAlwaysCaches ==
  /\ NextIs(Last, "forward")
  /\ Dequeue(Last)
  /\ fwdRun' = [fwdRun EXCEPT ![Last] = @ + 1]
  /\ outputs' = [outputs EXCEPT ![Last] = @ \union {NextId(Last)}]
  /\ UNCHANGED <<loopVars, linkVars, lossVars, labels, grad, stepLog, bwdRun>>

\* The last slice pairs the activation with its label, whichever came first.
ForwardLast ==
  /\ NextIs(Last, "forward")
  /\ Dequeue(Last)
  /\ fwdRun' = [fwdRun EXCEPT ![Last] = @ + 1]
  /\ IF NextId(Last) \in labels
       THEN /\ labels' = labels \ {NextId(Last)}
            /\ BackwardLast(NextId(Last))
            /\ UNCHANGED outputs
       ELSE /\ outputs' = [outputs EXCEPT ![Last] = @ \union {NextId(Last)}]
            /\ UNCHANGED <<labels, grad, stepLog, bwdRun, bwdLink, lossSum, reports, batchDone>>
  /\ UNCHANGED <<loopVars, fwdLink, losses>>

TakeLabel ==
  /\ NextIs(Last, "label")
  /\ Dequeue(Last)
  /\ IF NextId(Last) \in outputs[Last]
       THEN /\ outputs' = [outputs EXCEPT ![Last] = @ \ {NextId(Last)}]
            /\ BackwardLast(NextId(Last))
            /\ UNCHANGED labels
       ELSE /\ labels' = labels \union {NextId(Last)}
            /\ UNCHANGED <<outputs, grad, stepLog, bwdRun, bwdLink, lossSum, reports, batchDone>>
  /\ UNCHANGED <<loopVars, fwdLink, losses, fwdRun>>

\* A gradient whose activation is not cached is dropped with a warning.
Backward(w) ==
  /\ NextIs(w, "backward")
  /\ Dequeue(w)
  /\ IF NextId(w) \in outputs[w]
       THEN /\ outputs' = [outputs EXCEPT ![w] = @ \ {NextId(w)}]
            /\ Accumulate(w, NextId(w))
            /\ SendBackward(w, NextId(w))
       ELSE UNCHANGED <<outputs, grad, stepLog, bwdRun, bwdLink, batchDone>>
  /\ UNCHANGED <<loopVars, fwdLink, losses, lossSum, reports, labels, fwdRun>>

-----------------------------------------------------------------------------
Compute(w) ==
  \/ Forward(w)
  \/ Backward(w)
  \/ w = Last /\ (ForwardLast \/ TakeLabel)

\* The epoch is over: the loader has no batch left.
EpochOver ==
  /\ phase = "start"
  /\ batch = NumBatches
  /\ UNCHANGED vars

Loop == StartBatch \/ SendLabel \/ SendInput \/ FinishBatch

Next ==
  \/ Loop
  \/ \E r \in reports : ReceiveMetrics(r)
  \/ \E w \in Slice : ReceiveForward(w) \/ ReceiveBackward(w) \/ Compute(w)
  \/ EpochOver

\* The training loop, the receiving threads and the compute threads are threads
\* that never stop while they have work; the report thread is one too, but
\* nothing below relies on it.
Fairness ==
  /\ WF_vars(Loop)
  /\ \A w \in Slice : /\ WF_vars(ReceiveForward(w))
                      /\ WF_vars(ReceiveBackward(w))
                      /\ WF_vars(Compute(w))

Spec == Init /\ [][Next]_vars /\ Fairness

-----------------------------------------------------------------------------
(* Properties. *)

MicroIds == 0 .. NumBatches * NumMicro - 1

\* Every variable has its type.
TypeOK ==
  /\ phase \in {"start", "label", "input", "wait"}
  /\ batch \in 0 .. NumBatches
  /\ micro \in 0 .. NumMicro
  /\ batchDone \in BOOLEAN
  /\ losses \in Seq(SUBSET MicroIds)
  /\ recorded \in Seq(Seq(SUBSET MicroIds))
  /\ fwdLink \in [Slice -> Seq(MicroIds)]
  /\ bwdLink \in [Slice -> Seq(MicroIds)]
  /\ pool \in [Slice -> Seq([kind : TaskKind, id : MicroIds])]
  /\ labels \subseteq MicroIds
  /\ outputs \in [Slice -> SUBSET MicroIds]
  /\ lossSum \subseteq MicroIds
  /\ reports \subseteq SUBSET MicroIds
  /\ grad \in [Slice -> Seq(MicroIds)]
  /\ stepLog \in [Slice -> Seq(Seq(MicroIds))]
  /\ fwdRun \in [Slice -> Nat]
  /\ bwdRun \in [Slice -> Nat]

\* GPipe is a synchronous schedule: the k-th optimizer step of every slice
\* consumes the gradient of each micro-batch of batch k-1 exactly once and of no
\* other batch, however messages and tasks interleave (_run_backward_stage,
\* _run_backward_last step on is_last_micro alone, and nothing counts arrivals).
StepsAreWholeBatches ==
  \A w \in Slice : \A k \in DOMAIN stepLog[w] : stepLog[w][k] = WholeBatch(k - 1)

\* An activation is cached only as long as the weights that computed it are the
\* slice's weights: its gradient is applied to the weights it was taken at.
\* Nothing in the workers checks it; it rests on the coordinator starting a batch
\* only after the first slice's last backward pass.
ActivationsAreFresh ==
  \A w \in Slice : \A id \in outputs[w] : BatchOf(id) = Len(stepLog[w])

\* When the coordinator believes a batch over, nothing of it is left anywhere in
\* the chain, so that _batch_done needs no batch number and the caches of the
\* workers (_labels, _outputs, _micro_losses) do not grow with the epoch.
QuietBetweenBatches ==
  phase = "start" =>
    /\ labels = {} /\ lossSum = {}
    /\ \A w \in Slice : /\ fwdLink[w] = <<>> /\ bwdLink[w] = <<>>
                         /\ pool[w] = <<>> /\ outputs[w] = {} /\ grad[w] = <<>>

\* The label is always there when its activation is run on the last slice: the
\* activation is never cached (_forward_last's "label is None" never happens as
\* long as every label is acknowledged before its input is sent).
LabelBeforeActivation == outputs[Last] = {}

\* Every loss that leaves the last worker averages the micro-batches of one batch,
\* all of them.
ReportsAreWhole ==
  \A r \in reports : \E b \in 0 .. batch : r = MicrosOf(b)

\* A batch that is over is over everywhere, and what it reports is all its own.
BatchesEndWhole == QuietBetweenBatches /\ ReportsAreWhole

\* The chain trains like the unsplit model; since the abstract batches go on, so do
\* the batches of the chain: every one that was sent is completed.
Abstract == INSTANCE SyncTraining WITH version <- [w \in Slice |-> Len(stepLog[w])]
TrainsInSync == Abstract!Spec

=============================================================================
