--------------------------- MODULE Messages_proofs ---------------------------
(***************************************************************************)
(* Proofs about the messages of a run (module Pipeline) and the tunnels    *)
(* they go through (module Router), for any number of workers,             *)
(* micro-batches and batches, and any number of calls, streams that break  *)
(* and keepers of a tunnel.                                                *)
(***************************************************************************)
EXTENDS Pipeline, Router, FiniteSetTheorems, SequenceTheorems, TLAPS

--------------------
(* Micro-batch numbers. *)

\* The numbers of the micro-batches of a batch start where those of the batch before end.
LEMMA FirstMicroNext ==
  ASSUME NEW b \in Nat
  PROVE  /\ FirstMicro(b) \in Nat
         /\ FirstMicro(b + 1) = FirstMicro(b) + NumMicro
BY SizesAssumption DEF FirstMicro

\* A micro-batch of one of the epoch's batches has one of the epoch's numbers.
LEMMA MicroIdType ==
  ASSUME NEW b \in 0 .. NumBatches - 1, NEW m \in 0 .. NumMicro - 1
  PROVE  MicroId(b, m) \in MicroIds
<1>1. PICK k \in Nat : NumBatches = b + 1 + k BY SizesAssumption
<1>2. NumBatches * NumMicro = b * NumMicro + NumMicro + k * NumMicro BY <1>1, SizesAssumption
<1>3. b * NumMicro \in Nat /\ k * NumMicro \in Nat BY <1>1, SizesAssumption
<1> QED BY <1>2, <1>3, SizesAssumption DEF MicroId, FirstMicro, MicroIds

--------------------
(* Types. *)

\* While a batch is sent or awaited it is one of the epoch's, and so is the
\* micro-batch about to be sent.
LoopInv ==
  /\ phase # "start" => batch < NumBatches
  /\ phase \in {"label", "input"} => micro < NumMicro

TypeInv == TypeOK /\ LoopInv

LEMMA SliceType ==
  /\ First \in Slice /\ Last \in Slice
  /\ \A w \in Slice : /\ w # First => w - 1 \in Slice
                      /\ w # Last => w + 1 \in Slice
BY SizesAssumption DEF Slice, First, Last

LEMMA TypeInvInit == Init => TypeInv
<1> SUFFICES ASSUME Init PROVE TypeInv
  OBVIOUS
<1>1. \A S : <<>> \in Seq(S) BY EmptySeq
<1>2. 0 \in 0 .. NumBatches /\ 0 \in 0 .. NumMicro BY SizesAssumption
<1> QED BY <1>1, <1>2 DEF Init, TypeInv, TypeOK, LoopInv

\* What the head of a worker's queue is.
LEMMA NextType ==
  ASSUME TypeOK, NEW w \in Slice, NEW kind, NextIs(w, kind)
  PROVE  /\ NextId(w) \in MicroIds
         /\ Tail(pool[w]) \in Seq([kind : TaskKind, id : MicroIds])
<1>1. pool[w] \in Seq([kind : TaskKind, id : MicroIds]) /\ pool[w] # <<>> BY DEF TypeOK, NextIs
<1>2. /\ Head(pool[w]) \in [kind : TaskKind, id : MicroIds]
      /\ Tail(pool[w]) \in Seq([kind : TaskKind, id : MicroIds])
  BY <1>1, HeadTailProperties
<1> QED BY <1>2 DEF NextId

LEMMA DequeueType ==
  ASSUME TypeOK, NEW w \in Slice, NEW kind, NextIs(w, kind), Dequeue(w)
  PROVE  pool' \in [Slice -> Seq([kind : TaskKind, id : MicroIds])]
BY NextType DEF TypeOK, Dequeue

LEMMA ExceptType ==
  ASSUME NEW S, NEW T, NEW f \in [S -> T], NEW x \in S, NEW y \in T
  PROVE  [f EXCEPT ![x] = y] \in [S -> T]
OBVIOUS

LEMMA CountType ==
  ASSUME NEW S, NEW f \in [S -> Nat], NEW x \in S
  PROVE  f[x] + 1 \in Nat
<1>1. f[x] \in Nat OBVIOUS
<1> QED BY <1>1

LEMMA AccumulateType ==
  ASSUME TypeOK, NEW w \in Slice, NEW id \in MicroIds, Accumulate(w, id)
  PROVE  /\ grad' \in [Slice -> Seq(MicroIds)]
         /\ stepLog' \in [Slice -> Seq(Seq(MicroIds))]
         /\ bwdRun' \in [Slice -> Nat]
<1>1. Append(grad[w], id) \in Seq(MicroIds) BY DEF TypeOK
<1>2. Append(stepLog[w], Append(grad[w], id)) \in Seq(Seq(MicroIds))
  BY <1>1, AppendProperties DEF TypeOK
<1>3. bwdRun[w] + 1 \in Nat BY CountType DEF TypeOK
<1>4. bwdRun' \in [Slice -> Nat] BY <1>3 DEF TypeOK, Accumulate
<1>5. /\ grad' \in {[grad EXCEPT ![w] = <<>>], [grad EXCEPT ![w] = Append(@, id)]}
      /\ stepLog' \in {stepLog, [stepLog EXCEPT ![w] = Append(@, Append(grad[w], id))]}
  BY DEF Accumulate
<1>6. grad \in [Slice -> Seq(MicroIds)] /\ stepLog \in [Slice -> Seq(Seq(MicroIds))]
  BY DEF TypeOK
<1>7. <<>> \in Seq(MicroIds) BY EmptySeq
<1> QED BY <1>1, <1>2, <1>4, <1>5, <1>6, <1>7

LEMMA SendBackwardType ==
  ASSUME TypeOK, NEW w \in Slice, NEW id \in MicroIds, SendBackward(w, id)
  PROVE  /\ bwdLink' \in [Slice -> Seq(MicroIds)]
         /\ batchDone' \in BOOLEAN
<1>1. CASE w = First BY <1>1 DEF TypeOK, SendBackward
<1>2. CASE w # First
  <2>1. w - 1 \in Slice BY <1>2, SliceType
  <2>2. Append(bwdLink[w - 1], id) \in Seq(MicroIds) BY <2>1 DEF TypeOK
  <2> QED BY <1>2, <2>2 DEF TypeOK, SendBackward
<1> QED BY <1>1, <1>2

LEMMA ReportLossType ==
  ASSUME TypeOK, NEW id \in MicroIds, ReportLoss(id)
  PROVE  lossSum' \subseteq MicroIds /\ reports' \subseteq SUBSET MicroIds
<1> DEFINE summed == lossSum \union {id}
           whole == {i \in summed : BatchOf(i) = BatchOf(id)}
<1>1. summed \subseteq MicroIds /\ whole \subseteq MicroIds BY DEF TypeOK
<1>2. /\ lossSum' \in {summed, summed \ whole}
      /\ reports' \in {reports, reports \union {whole}}
  BY DEF ReportLoss
<1> QED BY <1>1, <1>2 DEF TypeOK

LEMMA BackwardLastType ==
  ASSUME TypeOK, NEW id \in MicroIds, BackwardLast(id)
  PROVE  /\ grad' \in [Slice -> Seq(MicroIds)]
         /\ stepLog' \in [Slice -> Seq(Seq(MicroIds))]
         /\ bwdRun' \in [Slice -> Nat]
         /\ bwdLink' \in [Slice -> Seq(MicroIds)]
         /\ batchDone' \in BOOLEAN
         /\ lossSum' \subseteq MicroIds
         /\ reports' \subseteq SUBSET MicroIds
BY SliceType, AccumulateType, SendBackwardType, ReportLossType DEF BackwardLast

\* A step keeps the types, one action at a time.
LEMMA TypeInvNext == TypeInv /\ [Next]_vars => TypeInv'
<1> SUFFICES ASSUME TypeInv, [Next]_vars PROVE TypeInv'
  OBVIOUS
<1> USE DEF TypeInv
<1>1. CASE StartBatch
  <2>1. losses' \in Seq(SUBSET MicroIds) BY <1>1, EmptySeq DEF StartBatch
  <2>2. micro' \in 0 .. NumMicro /\ micro' < NumMicro BY <1>1, SizesAssumption DEF StartBatch
  <2>3. phase' = "label" /\ batch' < NumBatches /\ batchDone' = FALSE BY <1>1 DEF StartBatch
  <2> QED BY <1>1, <2>1, <2>2, <2>3 DEF TypeOK, LoopInv, StartBatch, linkVars, computeVars
<1>2. CASE SendLabel
  <2>1. MicroId(batch, micro) \in MicroIds
    BY <1>2, MicroIdType, SizesAssumption DEF TypeOK, LoopInv, SendLabel
  <2>2. Task("label", MicroId(batch, micro)) \in [kind : TaskKind, id : MicroIds]
    BY <2>1 DEF Task, TaskKind
  <2>3. pool' \in [Slice -> Seq([kind : TaskKind, id : MicroIds])]
    BY <1>2, <2>2, SliceType, AppendProperties, ExceptType DEF TypeOK, SendLabel
  <2> QED BY <1>2, <2>3 DEF TypeOK, LoopInv, SendLabel, linkVars, lossVars, computeVars
<1>3. CASE SendInput
  <2>1. MicroId(batch, micro) \in MicroIds
    BY <1>3, MicroIdType, SizesAssumption DEF TypeOK, LoopInv, SendInput
  <2>2. fwdLink' \in [Slice -> Seq(MicroIds)]
    BY <1>3, <2>1, SliceType, AppendProperties, ExceptType DEF TypeOK, SendInput
  <2>3. micro' \in 0 .. NumMicro BY <1>3, SizesAssumption DEF TypeOK, LoopInv, SendInput
  <2>4. /\ phase' \in {"label", "wait"}
        /\ phase' = "label" => micro' < NumMicro
        /\ batch' < NumBatches
    BY <1>3 DEF TypeOK, LoopInv, SendInput
  <2> QED BY <1>3, <2>2, <2>3, <2>4 DEF TypeOK, LoopInv, SendInput, lossVars, computeVars
<1>4. CASE FinishBatch
  <2>1. recorded' \in Seq(Seq(SUBSET MicroIds))
    BY <1>4, AppendProperties DEF TypeOK, FinishBatch
  <2>2. batch' \in 0 .. NumBatches BY <1>4, SizesAssumption DEF TypeOK, LoopInv, FinishBatch
  <2> QED BY <1>4, <2>1, <2>2 DEF TypeOK, LoopInv, FinishBatch, linkVars, lossVars, computeVars
<1>5. ASSUME NEW r \in reports, ReceiveMetrics(r) PROVE TypeInv'
  <2>1. losses' \in Seq(SUBSET MicroIds) BY <1>5, AppendProperties DEF TypeOK, ReceiveMetrics
  <2> QED BY <1>5, <2>1 DEF TypeOK, LoopInv, ReceiveMetrics, loopVars, linkVars, computeVars
<1>6. ASSUME NEW w \in Slice, ReceiveForward(w) PROVE TypeInv'
  <2>1. /\ Head(fwdLink[w]) \in MicroIds
        /\ Tail(fwdLink[w]) \in Seq(MicroIds)
    BY <1>6, HeadTailProperties DEF TypeOK, ReceiveForward
  <2>2. Task("forward", Head(fwdLink[w])) \in [kind : TaskKind, id : MicroIds]
    BY <2>1 DEF Task, TaskKind
  <2>3. pool' \in [Slice -> Seq([kind : TaskKind, id : MicroIds])]
    BY <1>6, <2>2, AppendProperties, ExceptType DEF TypeOK, ReceiveForward
  <2>4. fwdLink' \in [Slice -> Seq(MicroIds)]
    BY <1>6, <2>1, ExceptType DEF TypeOK, ReceiveForward
  <2> QED
    BY <1>6, <2>3, <2>4 DEF TypeOK, LoopInv, ReceiveForward, loopVars, lossVars, computeVars
<1>7. ASSUME NEW w \in Slice, ReceiveBackward(w) PROVE TypeInv'
  <2>1. /\ Head(bwdLink[w]) \in MicroIds
        /\ Tail(bwdLink[w]) \in Seq(MicroIds)
    BY <1>7, HeadTailProperties DEF TypeOK, ReceiveBackward
  <2>2. Task("backward", Head(bwdLink[w])) \in [kind : TaskKind, id : MicroIds]
    BY <2>1 DEF Task, TaskKind
  <2>3. pool' \in [Slice -> Seq([kind : TaskKind, id : MicroIds])]
    BY <1>7, <2>2, AppendProperties, ExceptType DEF TypeOK, ReceiveBackward
  <2>4. bwdLink' \in [Slice -> Seq(MicroIds)]
    BY <1>7, <2>1, ExceptType DEF TypeOK, ReceiveBackward
  <2> QED
    BY <1>7, <2>3, <2>4 DEF TypeOK, LoopInv, ReceiveBackward, loopVars, lossVars, computeVars
<1>8. ASSUME NEW w \in Slice, Forward(w) PROVE TypeInv'
  <2>1. NextId(w) \in MicroIds /\ pool' \in [Slice -> Seq([kind : TaskKind, id : MicroIds])]
    BY <1>8, NextType, DequeueType DEF Forward
  <2>2. w + 1 \in Slice BY <1>8, SliceType DEF Forward
  <2>3. fwdLink' \in [Slice -> Seq(MicroIds)]
    BY <1>8, <2>1, <2>2, AppendProperties, ExceptType DEF TypeOK, Forward
  <2>4. fwdRun' \in [Slice -> Nat] /\ outputs' \in [Slice -> SUBSET MicroIds]
    BY <1>8, <2>1 DEF TypeOK, Forward
  <2> QED BY <1>8, <2>1, <2>3, <2>4 DEF TypeOK, LoopInv, Forward, loopVars, lossVars
<1>9. CASE ForwardLast
  <2>1. NextId(Last) \in MicroIds /\ pool' \in [Slice -> Seq([kind : TaskKind, id : MicroIds])]
    BY <1>9, SliceType, NextType, DequeueType DEF ForwardLast
  <2>2. fwdRun' \in [Slice -> Nat]
    <3>1. fwdRun[Last] + 1 \in Nat
      <4>1. fwdRun \in [Slice -> Nat] /\ Last \in Slice BY SliceType DEF TypeOK
      <4> HIDE DEF Last
      <4> QED BY <4>1, CountType
    <3> QED BY <1>9, <3>1, SliceType, ExceptType DEF TypeOK, ForwardLast
  <2>3. CASE NextId(Last) \in labels
    BY <1>9, <2>1, <2>2, <2>3, BackwardLastType
    DEF TypeOK, LoopInv, ForwardLast, loopVars
  <2>4. CASE NextId(Last) \notin labels
    <3>1. outputs' \in [Slice -> SUBSET MicroIds]
      <4>1. outputs[Last] \union {NextId(Last)} \in SUBSET MicroIds
        BY <2>1, SliceType DEF TypeOK
      <4>2. outputs' = [outputs EXCEPT ![Last] = outputs[Last] \union {NextId(Last)}]
        BY <1>9, <2>4 DEF ForwardLast
      <4>3. outputs \in [Slice -> SUBSET MicroIds] BY DEF TypeOK
      <4> QED BY <4>1, <4>2, <4>3
    <3> QED BY <1>9, <2>1, <2>2, <2>4, <3>1 DEF TypeOK, LoopInv, ForwardLast, loopVars
  <2> QED BY <2>3, <2>4
<1>10. CASE TakeLabel
  <2>1. NextId(Last) \in MicroIds /\ pool' \in [Slice -> Seq([kind : TaskKind, id : MicroIds])]
    BY <1>10, SliceType, NextType, DequeueType DEF TakeLabel
  <2>2. CASE NextId(Last) \in outputs[Last]
    <3>1. outputs' \in [Slice -> SUBSET MicroIds]
      <4>1. outputs[Last] \ {NextId(Last)} \in SUBSET MicroIds BY SliceType DEF TypeOK
      <4>2. outputs' = [outputs EXCEPT ![Last] = outputs[Last] \ {NextId(Last)}]
        BY <1>10, <2>2 DEF TakeLabel
      <4>3. outputs \in [Slice -> SUBSET MicroIds] BY DEF TypeOK
      <4> QED BY <4>1, <4>2, <4>3
    <3> QED
      BY <1>10, <2>1, <2>2, <3>1, BackwardLastType
      DEF TypeOK, LoopInv, TakeLabel, loopVars
  <2>3. CASE NextId(Last) \notin outputs[Last]
    BY <1>10, <2>1, <2>3 DEF TypeOK, LoopInv, TakeLabel, loopVars
  <2> QED BY <2>2, <2>3
<1>11. ASSUME NEW w \in Slice, Backward(w) PROVE TypeInv'
  <2>1. NextId(w) \in MicroIds /\ pool' \in [Slice -> Seq([kind : TaskKind, id : MicroIds])]
    BY <1>11, NextType, DequeueType DEF Backward
  <2>2. CASE NextId(w) \in outputs[w]
    <3>1. outputs' \in [Slice -> SUBSET MicroIds]
      <4>1. outputs[w] \ {NextId(w)} \in SUBSET MicroIds BY DEF TypeOK
      <4>2. outputs' = [outputs EXCEPT ![w] = outputs[w] \ {NextId(w)}]
        BY <1>11, <2>2 DEF Backward
      <4>3. outputs \in [Slice -> SUBSET MicroIds] BY DEF TypeOK
      <4> QED BY <4>1, <4>2, <4>3
    <3> QED
      BY <1>11, <2>1, <2>2, <3>1, AccumulateType, SendBackwardType
      DEF TypeOK, LoopInv, Backward, loopVars
  <2>3. CASE NextId(w) \notin outputs[w]
    BY <1>11, <2>1, <2>3 DEF TypeOK, LoopInv, Backward, loopVars
  <2> QED BY <2>2, <2>3
<1>12. CASE UNCHANGED vars
  BY <1>12 DEF TypeOK, LoopInv, vars, loopVars, linkVars, lossVars, computeVars
<1> QED
  BY <1>1, <1>2, <1>3, <1>4, <1>5, <1>6, <1>7, <1>8, <1>9, <1>10, <1>11, <1>12
  DEF Next, Loop, Compute, EpochOver

\* Every variable keeps its type: no micro-batch number ever leaves the epoch's range,
\* and the loop never counts more batches or micro-batches than there are.
THEOREM TypeCorrect == Spec => []TypeOK
<1>1. Spec => []TypeInv BY TypeInvInit, TypeInvNext, PTL DEF Spec
<1>2. TypeInv => TypeOK BY DEF TypeInv
<1> QED BY <1>1, <1>2, PTL

--------------------
(* The inductive invariant.  Micro-batches travel in the order of their numbers: *)
(* each slice has received those its neighbours sent, or they wait in a link or  *)
(* in its pool. *)

\* A link holds the numbers from lo up to hi, in order.
Consecutive(link, lo, hi) ==
  /\ Len(link) = hi - lo
  /\ \A i \in DOMAIN link : link[i] = lo + i - 1

\* So do the tasks of one kind in a pool, among the others.
Queued(tasks, kind, lo, hi) ==
  /\ \A i \in DOMAIN tasks : tasks[i].kind = kind => tasks[i].id \in lo .. hi - 1
  /\ \A i, j \in DOMAIN tasks :
       i < j /\ tasks[i].kind = kind /\ tasks[j].kind = kind => tasks[i].id < tasks[j].id
  /\ \A id \in lo .. hi - 1 : \E i \in DOMAIN tasks : tasks[i] = Task(kind, id)

\* A label that is not taken yet is queued before its activation.
LabelFirst(tasks, taken) ==
  \A j \in DOMAIN tasks : tasks[j].kind = "forward" /\ tasks[j].id >= taken =>
    \E i \in DOMAIN tasks : i < j /\ tasks[i] = Task("label", tasks[j].id)

\* Inputs and labels the training loop has sent.
InputsSent == FirstMicro(batch) + (IF phase = "start" THEN 0 ELSE micro)
LabelsSent == InputsSent + (IF phase = "input" THEN 1 ELSE 0)

\* What each slice was sent by its neighbours.
FwdIn(w) == IF w = First THEN InputsSent ELSE fwdRun[w - 1]
BwdIn(w) == IF w = Last THEN bwdRun[w] ELSE bwdRun[w + 1]

\* Of the numbers up to sent, those from run wait: first in the pool, then in the link.
Channel(link, tasks, kind, sent, run) ==
  /\ run + Len(link) <= sent
  /\ Consecutive(link, sent - Len(link), sent)
  /\ Queued(tasks, kind, run, sent - Len(link))

FwdInOrder(w) == Channel(fwdLink[w], pool[w], "forward", FwdIn(w), fwdRun[w])
BwdInOrder(w) == Channel(bwdLink[w], pool[w], "backward", BwdIn(w), bwdRun[w])

LabelsInOrder ==
  \E taken \in Nat :
    /\ taken <= LabelsSent
    /\ bwdRun[Last] <= taken
    /\ labels = bwdRun[Last] .. taken - 1
    /\ Queued(pool[Last], "label", taken, LabelsSent)
    /\ LabelFirst(pool[Last], taken)

\* The activations cached are those of the micro-batches between the two passes.
CachesMatch(w) ==
  /\ bwdRun[w] <= fwdRun[w]
  /\ outputs[w] = bwdRun[w] .. fwdRun[w] - 1

\* The steps taken and the gradient accumulated account for every backward pass.
StepsMatch(w) ==
  /\ Len(grad[w]) < NumMicro
  /\ grad[w] = [i \in 1 .. Len(grad[w]) |-> FirstMicro(Len(stepLog[w])) + i - 1]
  /\ bwdRun[w] = FirstMicro(Len(stepLog[w])) + Len(grad[w])
  /\ \A k \in DOMAIN stepLog[w] : stepLog[w][k] = WholeBatch(k - 1)

SliceInv(w) == FwdInOrder(w) /\ BwdInOrder(w) /\ CachesMatch(w) /\ StepsMatch(w)

\* No slice is ahead of the one that feeds it.
Chained ==
  /\ \A w \in Slice : fwdRun[w] <= InputsSent
  /\ \A v, w \in Slice : v < w => fwdRun[w] <= fwdRun[v] /\ bwdRun[v] <= bwdRun[w]

\* The training loop waits for the first slice's last backward pass.
Barrier ==
  /\ phase = "wait" => micro = NumMicro
  /\ bwdRun[First] >= FirstMicro(batch)
  /\ phase # "start" /\ batchDone => bwdRun[First] = FirstMicro(batch + 1)

OrderInv ==
  /\ \A w \in Slice : SliceInv(w)
  /\ LabelBeforeActivation
  /\ LabelsInOrder
  /\ Chained
  /\ Barrier

IInv == TypeInv /\ OrderInv

--------------------
(* Links and pools: what adding at the end and taking from the front do. *)

LEMMA ConsecutiveAppend ==
  ASSUME NEW link \in Seq(Int), NEW lo \in Int, NEW hi \in Int, Consecutive(link, lo, hi)
  PROVE  Consecutive(Append(link, hi), lo, hi + 1)
BY AppendProperties DEF Consecutive

LEMMA ConsecutiveTail ==
  ASSUME NEW link \in Seq(Int), NEW lo \in Int, NEW hi \in Int, Consecutive(link, lo, hi),
         link # <<>>
  PROVE  /\ Head(link) = lo
         /\ lo < hi
         /\ Consecutive(Tail(link), lo + 1, hi)
<1>1. Len(link) > 0 /\ 1 \in DOMAIN link OBVIOUS
<1>2. /\ Tail(link) \in Seq(Int)
      /\ Len(Tail(link)) = Len(link) - 1
      /\ \A i \in 1 .. Len(Tail(link)) : Tail(link)[i] = link[i + 1]
  BY HeadTailProperties
<1>3. Head(link) = lo /\ Len(link) = hi - lo BY <1>1 DEF Consecutive
<1>4. lo < hi BY <1>1, <1>3
<1>5. \A i \in DOMAIN Tail(link) : Tail(link)[i] = lo + 1 + i - 1
  <2> SUFFICES ASSUME NEW i \in 1 .. Len(Tail(link)) PROVE Tail(link)[i] = lo + 1 + i - 1
    BY <1>2
  <2>1. i \in Int /\ i + 1 \in 1 .. Len(link) BY <1>1, <1>2
  <2>2. i + 1 \in DOMAIN link BY <2>1
  <2>3. \A k \in DOMAIN link : link[k] = lo + k - 1 BY Zenon DEF Consecutive
  <2>4. link[i + 1] = lo + (i + 1) - 1 BY <2>2, <2>3, Zenon
  <2>5. Tail(link)[i] = link[i + 1] BY <1>2
  <2> QED BY <2>1, <2>4, <2>5
<1> QED BY <1>2, <1>3, <1>4, <1>5 DEF Consecutive

LEMMA QueuedAppend ==
  ASSUME NEW S, NEW tasks \in Seq(S), NEW kind, NEW lo \in Int, NEW hi \in Int, lo <= hi,
         Queued(tasks, kind, lo, hi), Task(kind, hi) \in S
  PROVE  Queued(Append(tasks, Task(kind, hi)), kind, lo, hi + 1)
<1> DEFINE new == Append(tasks, Task(kind, hi))
           n == Len(tasks) + 1
<1>1. /\ DOMAIN new = 1 .. n
      /\ new[n] = Task(kind, hi)
      /\ \A i \in DOMAIN tasks : i \in DOMAIN new /\ i < n /\ new[i] = tasks[i]
      /\ \A i \in DOMAIN new : i # n => i \in DOMAIN tasks
      /\ n \in DOMAIN new
  BY AppendProperties
<1>2. Task(kind, hi).kind = kind /\ Task(kind, hi).id = hi BY DEF Task
<1> HIDE DEF new, n
<1>3. \A i \in DOMAIN new : new[i].kind = kind => new[i].id \in lo .. hi
  BY <1>1, <1>2 DEF Queued
<1>4. \A i, j \in DOMAIN new :
        i < j /\ new[i].kind = kind /\ new[j].kind = kind => new[i].id < new[j].id
  <2> SUFFICES ASSUME NEW i \in DOMAIN new, NEW j \in DOMAIN new, i < j,
                      new[i].kind = kind, new[j].kind = kind
               PROVE  new[i].id < new[j].id
    OBVIOUS
  <2>1. i # n /\ i \in DOMAIN tasks /\ new[i] = tasks[i] BY <1>1 DEF n
  <2>2. tasks[i].id \in lo .. hi - 1 BY <2>1 DEF Queued
  <2>3. CASE j = n BY <1>1, <1>2, <2>1, <2>2, <2>3
  <2>4. CASE j # n BY <1>1, <2>1, <2>4 DEF Queued
  <2> QED BY <2>3, <2>4
<1>5. \A id \in lo .. hi : \E i \in DOMAIN new : new[i] = Task(kind, id)
  <2> SUFFICES ASSUME NEW id \in lo .. hi PROVE \E i \in DOMAIN new : new[i] = Task(kind, id)
    OBVIOUS
  <2>1. CASE id = hi BY <1>1, <2>1
  <2>2. CASE id # hi
    <3>1. id \in lo .. hi - 1 BY <2>2
    <3>2. PICK i \in DOMAIN tasks : tasks[i] = Task(kind, id) BY <3>1 DEF Queued
    <3> QED BY <1>1, <3>2
  <2> QED BY <2>1, <2>2
<1>6. (hi + 1) - 1 = hi OBVIOUS
<1> QED BY <1>3, <1>4, <1>5, <1>6 DEF Queued, new

\* A task of another kind changes nothing.
LEMMA QueuedAppendOther ==
  ASSUME NEW S, NEW tasks \in Seq(S), NEW kind, NEW lo \in Int, NEW hi \in Int,
         Queued(tasks, kind, lo, hi), NEW task \in S, task.kind # kind
  PROVE  Queued(Append(tasks, task), kind, lo, hi)
<1> DEFINE new == Append(tasks, task)
           n == Len(tasks) + 1
<1>1. /\ new[n] = task
      /\ \A i \in DOMAIN tasks : i \in DOMAIN new /\ new[i] = tasks[i]
      /\ \A i \in DOMAIN new : i # n => i \in DOMAIN tasks
  BY AppendProperties
<1> HIDE DEF new, n
<1>2. \A i \in DOMAIN new : new[i].kind = kind => i \in DOMAIN tasks /\ new[i] = tasks[i]
  BY <1>1
<1>3. \A id \in lo .. hi - 1 : \E i \in DOMAIN new : new[i] = Task(kind, id) BY <1>1 DEF Queued
<1> QED BY <1>2, <1>3 DEF Queued, new

LEMMA QueuedTail ==
  ASSUME NEW S, NEW tasks \in Seq(S), NEW kind, NEW lo \in Int, NEW hi \in Int,
         Queued(tasks, kind, lo, hi), tasks # <<>>, Head(tasks).kind = kind
  PROVE  /\ Head(tasks).id = lo
         /\ lo < hi
         /\ Queued(Tail(tasks), kind, lo + 1, hi)
<1> DEFINE new == Tail(tasks)
<1>1. /\ 1 \in DOMAIN tasks
      /\ Head(tasks) = tasks[1]
      /\ \A i \in DOMAIN new : i \in Nat /\ i + 1 \in DOMAIN tasks /\ 1 < i + 1 /\ new[i] = tasks[i + 1]
      /\ \A i \in DOMAIN tasks : i # 1 => i - 1 \in DOMAIN new /\ new[i - 1] = tasks[i]
  BY HeadTailProperties
<1> HIDE DEF new
<1>2. tasks[1].id \in lo .. hi - 1 BY <1>1 DEF Queued
<1>3. PICK i \in DOMAIN tasks : tasks[i] = Task(kind, lo) BY <1>2 DEF Queued
<1>4. tasks[i].kind = kind /\ tasks[i].id = lo BY <1>3 DEF Task
<1>5. i = 1
  <2> SUFFICES ASSUME i # 1 PROVE FALSE
    OBVIOUS
  <2>1. 1 < i OBVIOUS
  <2>2. tasks[1].id < lo BY <1>1, <1>4, <2>1 DEF Queued
  <2> QED BY <1>2, <2>2
<1>6. Head(tasks).id = lo /\ lo < hi BY <1>1, <1>2, <1>4, <1>5
<1>7. \A j \in DOMAIN new : new[j].kind = kind => new[j].id \in lo + 1 .. hi - 1
  <2> SUFFICES ASSUME NEW j \in DOMAIN new, new[j].kind = kind
               PROVE  new[j].id \in lo + 1 .. hi - 1
    OBVIOUS
  <2>1. /\ j + 1 \in DOMAIN tasks /\ 1 < j + 1
        /\ tasks[j + 1].kind = kind /\ new[j].id = tasks[j + 1].id
    BY <1>1
  <2>2. tasks[j + 1].id \in lo .. hi - 1 BY <2>1 DEF Queued
  <2>3. lo < tasks[j + 1].id BY <1>1, <1>4, <1>5, <2>1 DEF Queued
  <2> QED BY <2>1, <2>2, <2>3
<1>8. \A j, k \in DOMAIN new :
        j < k /\ new[j].kind = kind /\ new[k].kind = kind => new[j].id < new[k].id
  <2> SUFFICES ASSUME NEW j \in DOMAIN new, NEW k \in DOMAIN new, j < k,
                      new[j].kind = kind, new[k].kind = kind
               PROVE  new[j].id < new[k].id
    OBVIOUS
  <2>1. /\ j + 1 \in DOMAIN tasks /\ k + 1 \in DOMAIN tasks /\ j + 1 < k + 1
        /\ new[j] = tasks[j + 1] /\ new[k] = tasks[k + 1]
    BY <1>1
  <2> QED BY <2>1 DEF Queued
<1>9. \A id \in lo + 1 .. hi - 1 : \E j \in DOMAIN new : new[j] = Task(kind, id)
  <2> SUFFICES ASSUME NEW id \in lo + 1 .. hi - 1
               PROVE  \E j \in DOMAIN new : new[j] = Task(kind, id)
    OBVIOUS
  <2>1. PICK j \in DOMAIN tasks : tasks[j] = Task(kind, id) BY DEF Queued
  <2>2. j # 1 BY <1>4, <1>5, <2>1 DEF Task
  <2> QED BY <1>1, <2>1, <2>2
<1> QED BY <1>6, <1>7, <1>8, <1>9 DEF Queued, new

LEMMA QueuedTailOther ==
  ASSUME NEW S, NEW tasks \in Seq(S), NEW kind, NEW lo \in Int, NEW hi \in Int,
         Queued(tasks, kind, lo, hi), tasks # <<>>, Head(tasks).kind # kind
  PROVE  Queued(Tail(tasks), kind, lo, hi)
<1> DEFINE new == Tail(tasks)
<1>1. /\ Head(tasks) = tasks[1]
      /\ \A i \in DOMAIN new : i \in Nat /\ i + 1 \in DOMAIN tasks /\ new[i] = tasks[i + 1]
      /\ \A i \in DOMAIN tasks : i # 1 => i - 1 \in DOMAIN new /\ new[i - 1] = tasks[i]
  BY HeadTailProperties
<1> HIDE DEF new
<1>2. \A j \in DOMAIN new : new[j].kind = kind => new[j].id \in lo .. hi - 1 BY <1>1 DEF Queued
<1>3. \A j, k \in DOMAIN new :
        j < k /\ new[j].kind = kind /\ new[k].kind = kind => new[j].id < new[k].id
  <2> SUFFICES ASSUME NEW j \in DOMAIN new, NEW k \in DOMAIN new, j < k,
                      new[j].kind = kind, new[k].kind = kind
               PROVE  new[j].id < new[k].id
    OBVIOUS
  <2>1. /\ j + 1 \in DOMAIN tasks /\ k + 1 \in DOMAIN tasks /\ j + 1 < k + 1
        /\ new[j] = tasks[j + 1] /\ new[k] = tasks[k + 1]
    BY <1>1
  <2> QED BY <2>1 DEF Queued
<1>4. \A id \in lo .. hi - 1 : \E j \in DOMAIN new : new[j] = Task(kind, id)
  <2> SUFFICES ASSUME NEW id \in lo .. hi - 1
               PROVE  \E j \in DOMAIN new : new[j] = Task(kind, id)
    OBVIOUS
  <2>1. PICK j \in DOMAIN tasks : tasks[j] = Task(kind, id) BY DEF Queued
  <2>2. j # 1 BY <1>1, <2>1 DEF Task
  <2> QED BY <1>1, <2>1, <2>2
<1> QED BY <1>2, <1>3, <1>4 DEF Queued, new

\* A queue that expects nothing holds no task of the kind, wherever it starts.
LEMMA QueuedNone ==
  ASSUME NEW tasks, NEW kind, NEW lo \in Int, Queued(tasks, kind, lo, lo), NEW at \in Int
  PROVE  Queued(tasks, kind, at, at)
BY DEF Queued

LEMMA LabelFirstAppendLabel ==
  ASSUME NEW S, NEW tasks \in Seq(S), NEW taken \in Int, LabelFirst(tasks, taken),
         NEW task \in S, task.kind # "forward"
  PROVE  LabelFirst(Append(tasks, task), taken)
<1> DEFINE new == Append(tasks, task)
           n == Len(tasks) + 1
<1>1. /\ new[n] = task
      /\ \A i \in DOMAIN tasks : i \in DOMAIN new /\ new[i] = tasks[i]
      /\ \A i \in DOMAIN new : i # n => i \in DOMAIN tasks
  BY AppendProperties
<1> HIDE DEF new, n
<1>2. \A j \in DOMAIN new : new[j].kind = "forward" => j \in DOMAIN tasks /\ new[j] = tasks[j]
  BY <1>1
<1> QED BY <1>1, <1>2 DEF LabelFirst, new

\* The activation that arrives has its label taken or queued.
LEMMA LabelFirstAppendForward ==
  ASSUME NEW S, NEW tasks \in Seq(S), NEW taken \in Int, LabelFirst(tasks, taken),
         NEW hi \in Int, Queued(tasks, "label", taken, hi),
         NEW id \in Int, id < hi, Task("forward", id) \in S
  PROVE  LabelFirst(Append(tasks, Task("forward", id)), taken)
<1> DEFINE new == Append(tasks, Task("forward", id))
           n == Len(tasks) + 1
<1>1. /\ new[n] = Task("forward", id)
      /\ \A i \in DOMAIN tasks : i \in DOMAIN new /\ i < n /\ new[i] = tasks[i]
      /\ \A i \in DOMAIN new : i # n => i \in DOMAIN tasks
  BY AppendProperties
<1>2. Task("forward", id).id = id BY DEF Task
<1> HIDE DEF new, n
<1> SUFFICES ASSUME NEW j \in DOMAIN new, new[j].kind = "forward", new[j].id >= taken
             PROVE  \E i \in DOMAIN new : i < j /\ new[i] = Task("label", new[j].id)
  BY DEF LabelFirst, new
<1>3. CASE j = n
  <2>1. new[j].id = id /\ id \in taken .. hi - 1 BY <1>1, <1>2, <1>3
  <2>2. PICK i \in DOMAIN tasks : tasks[i] = Task("label", id) BY <2>1 DEF Queued
  <2> QED BY <1>1, <1>3, <2>1, <2>2
<1>4. CASE j # n
  <2>1. j \in DOMAIN tasks /\ new[j] = tasks[j] BY <1>1, <1>4
  <2>2. PICK i \in DOMAIN tasks : i < j /\ tasks[i] = Task("label", new[j].id)
    BY <2>1 DEF LabelFirst
  <2> QED BY <1>1, <2>2
<1> QED BY <1>3, <1>4

LEMMA LabelFirstTail ==
  ASSUME NEW S, \A t \in S : t.id \in Int, NEW tasks \in Seq(S), NEW taken \in Int, LabelFirst(tasks, taken),
         tasks # <<>>, NEW next \in Int, next >= taken,
         Head(tasks).kind = "label" => Head(tasks).id < next
  PROVE  LabelFirst(Tail(tasks), next)
<1> DEFINE new == Tail(tasks)
<1>1. /\ Head(tasks) = tasks[1]
      /\ \A i \in DOMAIN new : i \in Nat /\ i + 1 \in DOMAIN tasks /\ new[i] = tasks[i + 1]
      /\ \A i \in DOMAIN tasks : i # 1 => i - 1 \in DOMAIN new /\ new[i - 1] = tasks[i]
  BY HeadTailProperties
<1> HIDE DEF new
<1> SUFFICES ASSUME NEW j \in DOMAIN new, new[j].kind = "forward", new[j].id >= next
             PROVE  \E i \in DOMAIN new : i < j /\ new[i] = Task("label", new[j].id)
  BY DEF LabelFirst, new
<1>2. /\ j + 1 \in DOMAIN tasks /\ new[j] = tasks[j + 1] /\ tasks[j + 1] \in S
      /\ new[j].id >= taken
  BY <1>1
<1>3. PICK i \in DOMAIN tasks : i < j + 1 /\ tasks[i] = Task("label", new[j].id)
  BY <1>2 DEF LabelFirst
<1>4. i # 1 BY <1>1, <1>3 DEF Task
<1> QED BY <1>1, <1>3, <1>4

\* An activation at the head has its label taken.
LEMMA LabelFirstHead ==
  ASSUME NEW S, NEW tasks \in Seq(S), NEW taken \in Int, LabelFirst(tasks, taken),
         tasks # <<>>, Head(tasks).kind = "forward", Head(tasks).id \in Int
  PROVE  Head(tasks).id < taken
<1>1. 1 \in DOMAIN tasks /\ Head(tasks) = tasks[1] OBVIOUS
<1>2. \A i \in DOMAIN tasks : ~(i < 1) OBVIOUS
<1> QED BY <1>1, <1>2 DEF LabelFirst

--------------------
(* Batches: where the last micro-batch is. *)

LEMMA LastMicro ==
  ASSUME NEW b \in Nat, NEW m \in 0 .. NumMicro - 1
  PROVE  IsLastMicro(FirstMicro(b) + m) <=> m = NumMicro - 1
<1>1. (b * NumMicro + m) % NumMicro = m BY SizesAssumption
<1> QED BY <1>1, SizesAssumption DEF IsLastMicro, FirstMicro

LEMMA BatchOfMicro ==
  ASSUME NEW b \in Nat, NEW m \in 0 .. NumMicro - 1
  PROVE  BatchOf(FirstMicro(b) + m) = b
<1>1. (b * NumMicro + m) \div NumMicro = b BY SizesAssumption
<1> QED BY <1>1 DEF BatchOf, FirstMicro

\* Batches are numbered in order.
LEMMA FirstMicroOrder ==
  ASSUME NEW a \in Nat, NEW b \in Nat
  PROVE  /\ a < b => FirstMicro(a) + NumMicro <= FirstMicro(b)
         /\ a <= b => FirstMicro(a) <= FirstMicro(b)
<1>1. CASE a < b
  <2>1. PICK k \in Nat : b = a + 1 + k BY <1>1
  <2>2. b * NumMicro = a * NumMicro + NumMicro + k * NumMicro BY <2>1, SizesAssumption
  <2>3. k * NumMicro \in Nat /\ a * NumMicro \in Nat BY SizesAssumption
  <2> QED BY <2>2, <2>3, SizesAssumption DEF FirstMicro
<1>2. CASE ~(a < b) BY <1>2, SizesAssumption DEF FirstMicro
<1> QED BY <1>1, <1>2

--------------------
(* A channel: a link, then the tasks of one kind in the pool. *)

TaskSet == [kind : TaskKind, id : MicroIds]

LEMMA MicroIdsAreInts == MicroIds \subseteq Nat /\ \A t \in TaskSet : t.id \in Int
BY DEF MicroIds, TaskSet

LEMMA ChannelSend ==
  ASSUME NEW link \in Seq(Int), NEW tasks, NEW kind, NEW sent \in Int, NEW run \in Int,
         Channel(link, tasks, kind, sent, run)
  PROVE  Channel(Append(link, sent), tasks, kind, sent + 1, run)
<1>1. Len(Append(link, sent)) = Len(link) + 1 /\ Len(link) \in Nat BY AppendProperties
<1>2. (sent + 1) - (Len(link) + 1) = sent - Len(link) BY <1>1
<1>3. Consecutive(Append(link, sent), sent - Len(link), sent + 1)
  BY <1>1, ConsecutiveAppend DEF Channel
<1> QED BY <1>1, <1>2, <1>3 DEF Channel

LEMMA ChannelReceive ==
  ASSUME NEW link \in Seq(Int), NEW S, NEW tasks \in Seq(S), NEW kind, NEW sent \in Int,
         NEW run \in Int, Channel(link, tasks, kind, sent, run), link # <<>>,
         Task(kind, Head(link)) \in S
  PROVE  Channel(Tail(link), Append(tasks, Task(kind, Head(link))), kind, sent, run)
<1> DEFINE lo == sent - Len(link)
<1>1. Len(link) \in Nat /\ Len(Tail(link)) = Len(link) - 1 BY HeadTailProperties
<1>2. sent - Len(Tail(link)) = lo + 1 /\ lo \in Int BY <1>1
<1>3. Head(link) = lo /\ Consecutive(Tail(link), lo + 1, sent)
  BY <1>2, ConsecutiveTail DEF Channel
<1>4. run <= lo BY <1>1 DEF Channel
<1>5. Queued(Append(tasks, Task(kind, lo)), kind, run, lo + 1)
  BY <1>2, <1>3, <1>4, QueuedAppend DEF Channel
<1> QED BY <1>1, <1>2, <1>3, <1>4, <1>5 DEF Channel

LEMMA ChannelRun ==
  ASSUME NEW link \in Seq(Int), NEW S, NEW tasks \in Seq(S), NEW kind, NEW sent \in Int,
         NEW run \in Int, Channel(link, tasks, kind, sent, run), tasks # <<>>,
         Head(tasks).kind = kind
  PROVE  /\ Head(tasks).id = run
         /\ run < sent
         /\ Channel(link, Tail(tasks), kind, sent, run + 1)
<1>1. Len(link) \in Nat /\ sent - Len(link) \in Int OBVIOUS
<1>2. /\ Head(tasks).id = run
      /\ run < sent - Len(link)
      /\ Queued(Tail(tasks), kind, run + 1, sent - Len(link))
  BY <1>1, QueuedTail DEF Channel
<1> QED BY <1>1, <1>2 DEF Channel

LEMMA ChannelAppendOther ==
  ASSUME NEW link \in Seq(Int), NEW S, NEW tasks \in Seq(S), NEW kind, NEW sent \in Int,
         NEW run \in Int, Channel(link, tasks, kind, sent, run), NEW task \in S,
         task.kind # kind
  PROVE  Channel(link, Append(tasks, task), kind, sent, run)
<1>1. sent - Len(link) \in Int OBVIOUS
<1> QED BY <1>1, QueuedAppendOther DEF Channel

LEMMA ChannelTailOther ==
  ASSUME NEW link \in Seq(Int), NEW S, NEW tasks \in Seq(S), NEW kind, NEW sent \in Int,
         NEW run \in Int, Channel(link, tasks, kind, sent, run), tasks # <<>>,
         Head(tasks).kind # kind
  PROVE  Channel(link, Tail(tasks), kind, sent, run)
<1>1. sent - Len(link) \in Int OBVIOUS
<1> QED BY <1>1, QueuedTailOther DEF Channel

\* Nothing was sent that was not run: the channel is empty, wherever it starts.
LEMMA ChannelNone ==
  ASSUME NEW link \in Seq(Int), NEW tasks, NEW kind, NEW run \in Int, NEW at \in Int,
         Channel(link, tasks, kind, run, run)
  PROVE  link = <<>> /\ Channel(link, tasks, kind, at, at)
<1>1. Len(link) = 0 BY DEF Channel
<1>2. run - Len(link) = run /\ at - Len(link) = at BY <1>1
<1>3. Queued(tasks, kind, at, at) BY <1>2, QueuedNone DEF Channel
<1> QED BY <1>1, <1>2, <1>3 DEF Channel, Consecutive

\* One backward pass more, of the micro-batch whose turn it is.
LEMMA StepsAccumulate ==
  ASSUME TypeOK, NEW w \in Slice, StepsMatch(w), Accumulate(w, bwdRun[w])
  PROVE  StepsMatch(w)'
<1> DEFINE n == Len(stepLog[w])
           m == Len(grad[w])
           id == bwdRun[w]
<1>1. /\ n \in Nat /\ m \in Nat /\ m \in 0 .. NumMicro - 1
      /\ stepLog[w] \in Seq(Seq(MicroIds)) /\ grad[w] \in Seq(MicroIds)
      /\ id = FirstMicro(n) + m
  BY SizesAssumption DEF TypeOK, StepsMatch
<1>2. FirstMicro(n) \in Nat /\ FirstMicro(n + 1) = FirstMicro(n) + NumMicro
  BY <1>1, FirstMicroNext
<1>3. Append(grad[w], id) = [i \in 1 .. m + 1 |-> FirstMicro(n) + i - 1]
  BY <1>1, <1>2 DEF StepsMatch
<1>4. bwdRun'[w] = id + 1 BY DEF Accumulate, TypeOK
<1>5. CASE m = NumMicro - 1
  <2>1. IsLastMicro(id) BY <1>1, <1>5, LastMicro
  <2>2. stepLog'[w] = Append(stepLog[w], Append(grad[w], id)) /\ grad'[w] = <<>>
    BY <2>1 DEF Accumulate, TypeOK
  <2>3. Append(grad[w], id) = WholeBatch(n) BY <1>3, <1>5, SizesAssumption DEF WholeBatch
  <2>4. Len(stepLog'[w]) = n + 1 BY <1>1, <2>2
  <2>5. \A k \in DOMAIN stepLog'[w] : stepLog'[w][k] = WholeBatch(k - 1)
    <3> SUFFICES ASSUME NEW k \in DOMAIN stepLog'[w] PROVE stepLog'[w][k] = WholeBatch(k - 1)
      OBVIOUS
    <3>1. CASE k = n + 1
      <4>1. k - 1 = n /\ stepLog'[w][k] = Append(grad[w], id) BY <1>1, <2>2, <3>1
      <4> QED BY <2>3, <4>1
    <3>2. CASE k # n + 1
      <4>1. k \in DOMAIN stepLog[w] /\ stepLog'[w][k] = stepLog[w][k] BY <1>1, <2>2, <2>4, <3>2
      <4> QED BY <4>1 DEF StepsMatch
    <3> QED BY <3>1, <3>2
  <2>6. Len(grad'[w]) = 0 /\ grad'[w] = [i \in 1 .. 0 |-> FirstMicro(n + 1) + i - 1] BY <2>2
  <2>7. bwdRun'[w] = FirstMicro(n + 1) + 0 BY <1>1, <1>2, <1>4, <1>5, SizesAssumption
  <2> HIDE DEF n, m, id
  <2> QED BY <2>4, <2>5, <2>6, <2>7, SizesAssumption DEF StepsMatch
<1>6. CASE m # NumMicro - 1
  <2>1. ~IsLastMicro(id) BY <1>1, <1>6, LastMicro
  <2>2. stepLog'[w] = stepLog[w] /\ grad'[w] = Append(grad[w], id)
    BY <2>1 DEF Accumulate, TypeOK
  <2>3. Len(grad'[w]) = m + 1 /\ m + 1 < NumMicro BY <1>1, <1>6, <2>2, SizesAssumption
  <2>4. bwdRun'[w] = FirstMicro(n) + (m + 1) BY <1>1, <1>2, <1>4
  <2>5. Len(stepLog'[w]) = n BY <2>2
  <2> QED BY <1>3, <2>2, <2>3, <2>4, <2>5 DEF StepsMatch
<1> QED BY <1>5, <1>6

\* The other slices keep their gradients and their steps.
LEMMA StepsOther ==
  ASSUME TypeOK, NEW w \in Slice, NEW id, Accumulate(w, id), NEW v \in Slice, v # w
  PROVE  /\ grad'[v] = grad[v] /\ stepLog'[v] = stepLog[v] /\ bwdRun'[v] = bwdRun[v]
         /\ StepsMatch(v) => StepsMatch(v)'
<1>1. grad'[v] = grad[v] /\ stepLog'[v] = stepLog[v] /\ bwdRun'[v] = bwdRun[v]
  BY DEF Accumulate, TypeOK
<1> QED BY <1>1 DEF StepsMatch

--------------------
(* Every action keeps the invariant. *)

LEMMA LoopTypes ==
  ASSUME TypeOK
  PROVE  /\ batch \in Nat /\ micro \in Nat /\ NumMicro \in Nat \ {0} /\ micro <= NumMicro
         /\ FirstMicro(batch) \in Nat
         /\ FirstMicro(batch + 1) = FirstMicro(batch) + NumMicro
<1>1. batch \in Nat /\ micro \in Nat /\ micro <= NumMicro BY SizesAssumption DEF TypeOK
<1> QED BY <1>1, FirstMicroNext, SizesAssumption

LEMMA Types ==
  ASSUME TypeOK
  PROVE  /\ InputsSent \in Nat /\ LabelsSent \in Nat
         /\ \A w \in Slice : /\ fwdLink[w] \in Seq(Int) /\ bwdLink[w] \in Seq(Int)
                             /\ pool[w] \in Seq(TaskSet)
                             /\ fwdRun[w] \in Nat /\ bwdRun[w] \in Nat
                             /\ FwdIn(w) \in Nat /\ BwdIn(w) \in Nat
<1>1. InputsSent \in Nat /\ LabelsSent \in Nat BY LoopTypes DEF InputsSent, LabelsSent
<1>2. MicroIds \subseteq Int BY MicroIdsAreInts
<1>3. Seq(MicroIds) \subseteq Seq(Int) BY <1>2, SeqMonotonic
<1>4. ASSUME NEW w \in Slice
      PROVE  /\ fwdLink[w] \in Seq(Int) /\ bwdLink[w] \in Seq(Int)
             /\ pool[w] \in Seq(TaskSet)
             /\ fwdRun[w] \in Nat /\ bwdRun[w] \in Nat
  BY <1>3 DEF TypeOK, TaskSet
<1>5. ASSUME NEW w \in Slice PROVE FwdIn(w) \in Nat /\ BwdIn(w) \in Nat
  BY <1>1, SliceType DEF FwdIn, BwdIn, TypeOK
<1> QED BY <1>1, <1>4, <1>5

\* A slice none of whose queues and counters is touched.
LEMMA FwdFrame ==
  ASSUME NEW v \in Slice, FwdInOrder(v), fwdLink'[v] = fwdLink[v], pool'[v] = pool[v],
         FwdIn(v)' = FwdIn(v), fwdRun'[v] = fwdRun[v]
  PROVE  FwdInOrder(v)'
BY DEF FwdInOrder

LEMMA BwdFrame ==
  ASSUME NEW v \in Slice, BwdInOrder(v), bwdLink'[v] = bwdLink[v], pool'[v] = pool[v],
         BwdIn(v)' = BwdIn(v), bwdRun'[v] = bwdRun[v]
  PROVE  BwdInOrder(v)'
BY DEF BwdInOrder

LEMMA CachesFrame ==
  ASSUME NEW v \in Slice, CachesMatch(v), outputs'[v] = outputs[v],
         fwdRun'[v] = fwdRun[v], bwdRun'[v] = bwdRun[v]
  PROVE  CachesMatch(v)'
BY DEF CachesMatch

LEMMA StepsFrame ==
  ASSUME NEW v \in Slice, StepsMatch(v), grad'[v] = grad[v], stepLog'[v] = stepLog[v],
         bwdRun'[v] = bwdRun[v]
  PROVE  StepsMatch(v)'
BY DEF StepsMatch

\* The training loop moves on: nothing changes but what it has sent.
LEMMA LoopFrame ==
  ASSUME OrderInv, InputsSent' = InputsSent, LabelsSent' = LabelsSent, Barrier',
         UNCHANGED <<linkVars, computeVars, pool>>
  PROVE  OrderInv'
<1> USE DEF linkVars, computeVars
<1>1. \A w \in Slice : FwdIn(w)' = FwdIn(w) /\ BwdIn(w)' = BwdIn(w) BY DEF FwdIn, BwdIn
<1>2. \A w \in Slice : SliceInv(w)'
  BY <1>1, FwdFrame, BwdFrame, CachesFrame, StepsFrame DEF OrderInv, SliceInv
<1>3. LabelsInOrder' BY DEF OrderInv, LabelsInOrder
<1>4. Chained' BY DEF OrderInv, Chained
<1> QED BY <1>2, <1>3, <1>4 DEF OrderInv, LabelBeforeActivation

LEMMA StartBatchInv == IInv /\ StartBatch => OrderInv'
<1> SUFFICES ASSUME IInv, StartBatch PROVE OrderInv'
  OBVIOUS
<1>1. InputsSent' = InputsSent /\ LabelsSent' = LabelsSent
  BY DEF StartBatch, InputsSent, LabelsSent
<1>2. Barrier' BY DEF IInv, OrderInv, Barrier, StartBatch, computeVars
<1> QED BY <1>1, <1>2, LoopFrame DEF IInv, StartBatch

LEMMA FinishBatchInv == IInv /\ FinishBatch => OrderInv'
<1> SUFFICES ASSUME IInv, FinishBatch PROVE OrderInv'
  OBVIOUS
<1>1. /\ FirstMicro(batch) \in Nat
      /\ FirstMicro(batch + 1) = FirstMicro(batch) + NumMicro
      /\ micro = NumMicro
  BY LoopTypes DEF IInv, TypeInv, OrderInv, Barrier, FinishBatch
<1>2. InputsSent' = InputsSent /\ LabelsSent' = LabelsSent
  BY <1>1, SizesAssumption DEF FinishBatch, InputsSent, LabelsSent
<1>3. Barrier' BY <1>1, SizesAssumption DEF IInv, OrderInv, Barrier, FinishBatch, computeVars
<1> QED BY <1>2, <1>3, LoopFrame DEF IInv, FinishBatch

LEMMA SendLabelInv == IInv /\ SendLabel => OrderInv'
<1> SUFFICES ASSUME IInv, SendLabel PROVE OrderInv'
  OBVIOUS
<1> DEFINE label == Task("label", InputsSent)
<1>1. TypeOK /\ TypeOK' BY TypeInvNext DEF IInv, TypeInv, Next, Loop
<1>2. /\ InputsSent = MicroId(batch, micro) /\ LabelsSent = InputsSent
      /\ InputsSent' = InputsSent /\ LabelsSent' = LabelsSent + 1
  BY <1>1, Types DEF SendLabel, InputsSent, LabelsSent, MicroId
<1>3. label \in TaskSet /\ label.kind = "label"
  <2>1. InputsSent \in MicroIds
    BY <1>2, MicroIdType, SizesAssumption DEF IInv, TypeInv, TypeOK, LoopInv, SendLabel
  <2> QED BY <2>1 DEF Task, TaskSet, TaskKind
<1>4. /\ pool'[Last] = Append(pool[Last], label)
      /\ \A v \in Slice : v # Last => pool'[v] = pool[v]
  BY <1>1, <1>2, SliceType DEF SendLabel, TypeOK
<1> USE DEF linkVars, computeVars, lossVars
<1>5. ASSUME NEW v \in Slice PROVE SliceInv(v)'
  <2>1. FwdIn(v)' = FwdIn(v) /\ BwdIn(v)' = BwdIn(v) BY <1>2 DEF FwdIn, BwdIn, SendLabel
  <2>2. CachesMatch(v)' /\ StepsMatch(v)'
    BY CachesFrame, StepsFrame DEF IInv, OrderInv, SliceInv, SendLabel
  <2>3. FwdInOrder(v)' /\ BwdInOrder(v)'
    <3>1. FwdInOrder(v) /\ BwdInOrder(v) BY DEF IInv, OrderInv, SliceInv
    <3>2. CASE v = Last
      BY <1>1, <1>3, <1>4, <2>1, <3>1, <3>2, Types, ChannelAppendOther
      DEF FwdInOrder, BwdInOrder, SendLabel
    <3>3. CASE v # Last BY <1>4, <2>1, <3>1, <3>3, FwdFrame, BwdFrame DEF SendLabel
    <3> QED BY <3>2, <3>3
  <2> QED BY <2>2, <2>3 DEF SliceInv
<1>6. LabelsInOrder'
  <2>1. PICK taken \in Nat :
          /\ taken <= LabelsSent
          /\ bwdRun[Last] <= taken
          /\ labels = bwdRun[Last] .. taken - 1
          /\ Queued(pool[Last], "label", taken, LabelsSent)
          /\ LabelFirst(pool[Last], taken)
    BY DEF IInv, OrderInv, LabelsInOrder
  <2>2. Queued(pool'[Last], "label", taken, LabelsSent')
    BY <1>1, <1>2, <1>3, <1>4, <2>1, Types, SliceType, QueuedAppend
  <2>3. LabelFirst(pool'[Last], taken)
    BY <1>1, <1>3, <1>4, <2>1, Types, SliceType, LabelFirstAppendLabel
  <2>4. taken <= LabelsSent' /\ bwdRun' = bwdRun /\ labels' = labels
    BY <1>1, <1>2, <2>1, Types DEF SendLabel
  <2> QED BY <2>1, <2>2, <2>3, <2>4 DEF LabelsInOrder
<1>7. Chained' /\ LabelBeforeActivation' /\ Barrier'
  BY <1>2 DEF IInv, OrderInv, Chained, LabelBeforeActivation, Barrier, SendLabel
<1> QED BY <1>5, <1>6, <1>7 DEF OrderInv

LEMMA SendInputInv == IInv /\ SendInput => OrderInv'
<1> SUFFICES ASSUME IInv, SendInput PROVE OrderInv'
  OBVIOUS
<1>1. TypeOK /\ LoopInv BY DEF IInv, TypeInv
<1>2. /\ InputsSent = MicroId(batch, micro) /\ LabelsSent = InputsSent + 1
      /\ InputsSent' = InputsSent + 1 /\ LabelsSent' = LabelsSent
  <2>1. FirstMicro(batch) \in Nat /\ micro \in Nat BY <1>1, LoopTypes
  <2> QED BY <2>1 DEF SendInput, InputsSent, LabelsSent, MicroId
<1>3. /\ fwdLink'[First] = Append(fwdLink[First], InputsSent)
      /\ \A v \in Slice : v # First => fwdLink'[v] = fwdLink[v]
  BY <1>1, <1>2, SliceType DEF SendInput, TypeOK
<1> USE DEF computeVars, lossVars
<1>4. ASSUME NEW v \in Slice PROVE SliceInv(v)'
  <2>1. FwdInOrder(v) /\ BwdInOrder(v) /\ CachesMatch(v) /\ StepsMatch(v)
    BY DEF IInv, OrderInv, SliceInv
  <2>2. BwdIn(v)' = BwdIn(v) BY DEF BwdIn, SendInput
  <2>3. BwdInOrder(v)' /\ CachesMatch(v)' /\ StepsMatch(v)'
    BY <2>1, <2>2, BwdFrame, CachesFrame, StepsFrame DEF SendInput
  <2>4. CASE v = First
    <3>1. FwdIn(v) = InputsSent /\ FwdIn(v)' = InputsSent + 1 BY <1>2, <2>4 DEF FwdIn
    <3>2. Channel(fwdLink'[v], pool[v], "forward", InputsSent + 1, fwdRun[v])
      <4>1. /\ fwdLink[v] \in Seq(Int) /\ fwdRun[v] \in Int /\ InputsSent \in Int
            /\ Channel(fwdLink[v], pool[v], "forward", InputsSent, fwdRun[v])
            /\ fwdLink'[v] = Append(fwdLink[v], InputsSent)
        BY <1>1, <1>3, <2>1, <2>4, <3>1, Types DEF FwdInOrder
      <4> QED BY <4>1, ChannelSend
    <3> QED BY <2>3, <3>1, <3>2 DEF FwdInOrder, SliceInv, SendInput
  <2>5. CASE v # First
    <3>1. FwdIn(v)' = FwdIn(v) BY <2>5 DEF FwdIn, SendInput
    <3> QED BY <1>3, <2>1, <2>3, <2>5, <3>1, FwdFrame DEF SliceInv, SendInput
  <2> QED BY <2>4, <2>5
<1>5. LabelsInOrder' /\ LabelBeforeActivation'
  BY <1>2 DEF IInv, OrderInv, LabelsInOrder, LabelBeforeActivation, SendInput
<1>6. Chained' BY <1>1, <1>2, Types DEF IInv, OrderInv, Chained, SendInput
<1>7. Barrier' BY <1>1, SizesAssumption DEF TypeOK, LoopInv, IInv, OrderInv, Barrier, SendInput
<1> QED BY <1>4, <1>5, <1>6, <1>7 DEF OrderInv

LEMMA ReceiveMetricsInv ==
  ASSUME IInv, NEW r \in reports, ReceiveMetrics(r) PROVE OrderInv'
<1>1. InputsSent' = InputsSent /\ LabelsSent' = LabelsSent
  BY DEF ReceiveMetrics, loopVars, InputsSent, LabelsSent
<1>2. Barrier' BY DEF IInv, OrderInv, Barrier, ReceiveMetrics, loopVars, computeVars
<1> QED BY <1>1, <1>2, LoopFrame DEF IInv, ReceiveMetrics

\* What has been sent is untouched by everything but the training loop.
LEMMA SentFrame ==
  ASSUME UNCHANGED loopVars
  PROVE  InputsSent' = InputsSent /\ LabelsSent' = LabelsSent
BY DEF loopVars, InputsSent, LabelsSent

\* No input or gradient is run before it is sent, and labels go ahead of inputs.
LEMMA SentOrder ==
  ASSUME IInv
  PROVE  /\ InputsSent <= LabelsSent
         /\ InputsSent <= FirstMicro(batch) + NumMicro
         /\ \A w \in Slice : FwdIn(w) <= InputsSent
<1>1. TypeOK BY DEF IInv, TypeInv
<1>2. InputsSent <= LabelsSent BY <1>1, Types DEF LabelsSent
<1>3. InputsSent <= FirstMicro(batch) + NumMicro
  <2>1. micro <= NumMicro /\ 0 <= NumMicro /\ micro \in Int /\ NumMicro \in Int
    BY <1>1, LoopTypes
  <2>2. FirstMicro(batch) \in Int BY <1>1, LoopTypes
  <2> QED BY <2>1, <2>2 DEF InputsSent
<1>4. ASSUME NEW w \in Slice PROVE FwdIn(w) <= InputsSent
  <2>1. CASE w = First BY <1>1, <2>1, Types DEF FwdIn
  <2>2. CASE w # First BY <2>2, SliceType DEF FwdIn, IInv, OrderInv, Chained
  <2> QED BY <2>1, <2>2
<1> QED BY <1>2, <1>3, <1>4

LEMMA ReceiveForwardInv ==
  ASSUME IInv, NEW w \in Slice, ReceiveForward(w) PROVE OrderInv'
<1> DEFINE id == Head(fwdLink[w])
           task == Task("forward", id)
<1>1. TypeOK BY DEF IInv, TypeInv
<1>2. /\ InputsSent' = InputsSent /\ LabelsSent' = LabelsSent
      /\ \A v \in Slice : FwdIn(v)' = FwdIn(v) /\ BwdIn(v)' = BwdIn(v)
  BY SentFrame DEF ReceiveForward, FwdIn, BwdIn, computeVars
<1>3. id \in MicroIds /\ task \in TaskSet /\ task.kind = "forward"
  <2>1. id \in MicroIds BY <1>1, HeadTailProperties DEF TypeOK, ReceiveForward
  <2> QED BY <2>1 DEF Task, TaskSet, TaskKind
<1>4. /\ fwdLink[w] # <<>> /\ fwdLink'[w] = Tail(fwdLink[w]) /\ pool'[w] = Append(pool[w], task)
      /\ \A v \in Slice : v # w => fwdLink'[v] = fwdLink[v] /\ pool'[v] = pool[v]
  BY <1>1 DEF TypeOK, ReceiveForward
<1>5. /\ FwdInOrder(w) /\ BwdInOrder(w)
      /\ fwdLink[w] \in Seq(Int) /\ bwdLink[w] \in Seq(Int) /\ pool[w] \in Seq(TaskSet)
      /\ FwdIn(w) \in Int /\ BwdIn(w) \in Int /\ fwdRun[w] \in Int /\ bwdRun[w] \in Int
  BY <1>1, Types DEF IInv, OrderInv, SliceInv
<1>6. id < FwdIn(w) BY <1>4, <1>5, ConsecutiveTail DEF FwdInOrder, Channel
<1> HIDE DEF task
<1> USE DEF computeVars, loopVars, lossVars
<1>7. ASSUME NEW v \in Slice PROVE SliceInv(v)'
  <2>1. FwdInOrder(v) /\ BwdInOrder(v) /\ CachesMatch(v) /\ StepsMatch(v)
    BY DEF IInv, OrderInv, SliceInv
  <2>2. CachesMatch(v)' /\ StepsMatch(v)' BY <2>1, CachesFrame, StepsFrame DEF ReceiveForward
  <2>3. CASE v = w
    <3>1. FwdInOrder(w)'
      <4>1. Channel(Tail(fwdLink[w]), Append(pool[w], Task("forward", id)), "forward", FwdIn(w), fwdRun[w])
        BY <1>3, <1>4, <1>5, ChannelReceive DEF FwdInOrder, task
      <4> QED BY <1>2, <1>4, <4>1 DEF FwdInOrder, ReceiveForward, task
    <3>2. BwdInOrder(w)'
      <4>1. Channel(bwdLink[w], Append(pool[w], task), "backward", BwdIn(w), bwdRun[w])
        BY <1>3, <1>5, ChannelAppendOther DEF BwdInOrder
      <4> QED BY <1>2, <1>4, <4>1 DEF BwdInOrder, ReceiveForward
    <3> QED BY <2>2, <2>3, <3>1, <3>2 DEF SliceInv
  <2>4. CASE v # w
    BY <1>2, <1>4, <2>1, <2>2, <2>4, FwdFrame, BwdFrame DEF SliceInv, ReceiveForward
  <2> QED BY <2>3, <2>4
<1>8. LabelsInOrder'
  <2>1. PICK taken \in Nat :
          /\ taken <= LabelsSent
          /\ bwdRun[Last] <= taken
          /\ labels = bwdRun[Last] .. taken - 1
          /\ Queued(pool[Last], "label", taken, LabelsSent)
          /\ LabelFirst(pool[Last], taken)
    BY DEF IInv, OrderInv, LabelsInOrder
  <2>2. Queued(pool'[Last], "label", taken, LabelsSent) /\ LabelFirst(pool'[Last], taken)
    <3>1. CASE w = Last
      <4>1. id \in Int /\ id < LabelsSent /\ LabelsSent \in Int
        <5>1. id \in Int /\ LabelsSent \in Int /\ InputsSent \in Int
          BY <1>1, <1>3, Types DEF MicroIds
        <5>2. FwdIn(w) <= InputsSent /\ InputsSent <= LabelsSent BY SentOrder
        <5> QED BY <1>5, <1>6, <5>1, <5>2
      <4>2. Queued(pool'[Last], "label", taken, LabelsSent)
        <5>1. pool[Last] \in Seq(TaskSet) /\ pool'[Last] = Append(pool[Last], task)
          BY <1>4, <1>5, <3>1
        <5>2. task.kind # "label" BY <1>3
        <5> QED BY <1>3, <2>1, <4>1, <5>1, <5>2, QueuedAppendOther
      <4>3. LabelFirst(Append(pool[Last], Task("forward", id)), taken)
        BY <1>3, <1>5, <2>1, <3>1, <4>1, LabelFirstAppendForward DEF task
      <4> QED BY <1>4, <3>1, <4>2, <4>3 DEF task
    <3>2. CASE w # Last BY <1>4, <2>1, <3>2, SliceType
    <3> QED BY <3>1, <3>2
  <2> QED BY <1>2, <2>1, <2>2 DEF LabelsInOrder, ReceiveForward
<1>9. Chained' /\ LabelBeforeActivation' /\ Barrier'
  BY <1>2 DEF IInv, OrderInv, Chained, LabelBeforeActivation, Barrier, ReceiveForward
<1> QED BY <1>7, <1>8, <1>9 DEF OrderInv

\* The last slice receives no gradient.
LEMMA LastHasNoGradient ==
  ASSUME IInv
  PROVE  /\ bwdLink[Last] = <<>>
         /\ \A at \in Int : Channel(bwdLink[Last], pool[Last], "backward", at, at)
<1>1. /\ Channel(bwdLink[Last], pool[Last], "backward", bwdRun[Last], bwdRun[Last])
      /\ bwdLink[Last] \in Seq(Int) /\ bwdRun[Last] \in Int
  BY SliceType, Types DEF IInv, TypeInv, OrderInv, SliceInv, BwdInOrder, BwdIn
<1> QED BY <1>1, ChannelNone

LEMMA ReceiveBackwardInv ==
  ASSUME IInv, NEW w \in Slice, ReceiveBackward(w) PROVE OrderInv'
<1> DEFINE id == Head(bwdLink[w])
           task == Task("backward", id)
<1>1. TypeOK BY DEF IInv, TypeInv
<1>2. /\ InputsSent' = InputsSent /\ LabelsSent' = LabelsSent
      /\ \A v \in Slice : FwdIn(v)' = FwdIn(v) /\ BwdIn(v)' = BwdIn(v)
  BY SentFrame DEF ReceiveBackward, FwdIn, BwdIn, computeVars
<1>3. task \in TaskSet /\ task.kind = "backward"
  <2>1. id \in MicroIds BY <1>1, HeadTailProperties DEF TypeOK, ReceiveBackward
  <2> QED BY <2>1 DEF Task, TaskSet, TaskKind
<1>4. /\ bwdLink[w] # <<>> /\ bwdLink'[w] = Tail(bwdLink[w]) /\ pool'[w] = Append(pool[w], task)
      /\ \A v \in Slice : v # w => bwdLink'[v] = bwdLink[v] /\ pool'[v] = pool[v]
  BY <1>1 DEF TypeOK, ReceiveBackward
<1>5. /\ FwdInOrder(w) /\ BwdInOrder(w)
      /\ fwdLink[w] \in Seq(Int) /\ bwdLink[w] \in Seq(Int) /\ pool[w] \in Seq(TaskSet)
      /\ FwdIn(w) \in Int /\ BwdIn(w) \in Int /\ fwdRun[w] \in Int /\ bwdRun[w] \in Int
  BY <1>1, Types DEF IInv, OrderInv, SliceInv
<1>6. w # Last BY <1>4, LastHasNoGradient
<1> HIDE DEF task
<1> USE DEF computeVars, loopVars, lossVars
<1>7. ASSUME NEW v \in Slice PROVE SliceInv(v)'
  <2>1. FwdInOrder(v) /\ BwdInOrder(v) /\ CachesMatch(v) /\ StepsMatch(v)
    BY DEF IInv, OrderInv, SliceInv
  <2>2. CachesMatch(v)' /\ StepsMatch(v)' BY <2>1, CachesFrame, StepsFrame DEF ReceiveBackward
  <2>3. CASE v = w
    <3>1. BwdInOrder(w)'
      <4>1. Channel(Tail(bwdLink[w]), Append(pool[w], Task("backward", id)), "backward", BwdIn(w), bwdRun[w])
        BY <1>3, <1>4, <1>5, ChannelReceive DEF BwdInOrder, task
      <4> QED BY <1>2, <1>4, <4>1 DEF BwdInOrder, ReceiveBackward, task
    <3>2. FwdInOrder(w)'
      <4>1. Channel(fwdLink[w], Append(pool[w], task), "forward", FwdIn(w), fwdRun[w])
        BY <1>3, <1>5, ChannelAppendOther DEF FwdInOrder
      <4> QED BY <1>2, <1>4, <4>1 DEF FwdInOrder, ReceiveBackward
    <3> QED BY <2>2, <2>3, <3>1, <3>2 DEF SliceInv
  <2>4. CASE v # w
    BY <1>2, <1>4, <2>1, <2>2, <2>4, FwdFrame, BwdFrame DEF SliceInv, ReceiveBackward
  <2> QED BY <2>3, <2>4
<1>8. pool'[Last] = pool[Last] BY <1>4, <1>6, SliceType
<1>9. LabelsInOrder' /\ Chained' /\ LabelBeforeActivation' /\ Barrier'
  BY <1>2, <1>8
  DEF IInv, OrderInv, LabelsInOrder, Chained, LabelBeforeActivation, Barrier, ReceiveBackward
<1> QED BY <1>7, <1>9 DEF OrderInv

\* The task a slice runs next is the one whose turn it is.
LEMMA ForwardTurn ==
  ASSUME IInv, NEW w \in Slice, NextIs(w, "forward"), Dequeue(w)
  PROVE  /\ NextId(w) = fwdRun[w]
         /\ fwdRun[w] < FwdIn(w)
         /\ pool'[w] = Tail(pool[w])
         /\ \A v \in Slice : v # w => pool'[v] = pool[v]
         /\ Channel(fwdLink[w], pool'[w], "forward", FwdIn(w), fwdRun[w] + 1)
         /\ Channel(bwdLink[w], pool'[w], "backward", BwdIn(w), bwdRun[w])
<1>1. /\ FwdInOrder(w) /\ BwdInOrder(w)
      /\ fwdLink[w] \in Seq(Int) /\ bwdLink[w] \in Seq(Int) /\ pool[w] \in Seq(TaskSet)
      /\ FwdIn(w) \in Int /\ BwdIn(w) \in Int /\ fwdRun[w] \in Int /\ bwdRun[w] \in Int
  BY Types DEF IInv, TypeInv, OrderInv, SliceInv
<1>2. pool[w] # <<>> /\ Head(pool[w]).kind = "forward" /\ "forward" # "backward" BY DEF NextIs
<1>3. /\ pool'[w] = Tail(pool[w])
      /\ \A v \in Slice : v # w => pool'[v] = pool[v]
  BY DEF Dequeue, IInv, TypeInv, TypeOK
<1>4. /\ Head(pool[w]).id = fwdRun[w]
      /\ fwdRun[w] < FwdIn(w)
      /\ Channel(fwdLink[w], Tail(pool[w]), "forward", FwdIn(w), fwdRun[w] + 1)
  BY <1>1, <1>2, ChannelRun DEF FwdInOrder
<1>5. Channel(bwdLink[w], Tail(pool[w]), "backward", BwdIn(w), bwdRun[w])
  BY <1>1, <1>2, ChannelTailOther DEF BwdInOrder
<1> QED BY <1>3, <1>4, <1>5 DEF NextId

LEMMA BackwardTurn ==
  ASSUME IInv, NEW w \in Slice, NextIs(w, "backward"), Dequeue(w)
  PROVE  /\ NextId(w) = bwdRun[w]
         /\ bwdRun[w] < BwdIn(w)
         /\ pool'[w] = Tail(pool[w])
         /\ \A v \in Slice : v # w => pool'[v] = pool[v]
         /\ Channel(fwdLink[w], pool'[w], "forward", FwdIn(w), fwdRun[w])
         /\ Channel(bwdLink[w], pool'[w], "backward", BwdIn(w), bwdRun[w] + 1)
<1>1. /\ FwdInOrder(w) /\ BwdInOrder(w)
      /\ fwdLink[w] \in Seq(Int) /\ bwdLink[w] \in Seq(Int) /\ pool[w] \in Seq(TaskSet)
      /\ FwdIn(w) \in Int /\ BwdIn(w) \in Int /\ fwdRun[w] \in Int /\ bwdRun[w] \in Int
  BY Types DEF IInv, TypeInv, OrderInv, SliceInv
<1>2. pool[w] # <<>> /\ Head(pool[w]).kind = "backward" /\ "forward" # "backward" BY DEF NextIs
<1>3. /\ pool'[w] = Tail(pool[w])
      /\ \A v \in Slice : v # w => pool'[v] = pool[v]
  BY DEF Dequeue, IInv, TypeInv, TypeOK
<1>4. /\ Head(pool[w]).id = bwdRun[w]
      /\ bwdRun[w] < BwdIn(w)
      /\ Channel(bwdLink[w], Tail(pool[w]), "backward", BwdIn(w), bwdRun[w] + 1)
  BY <1>1, <1>2, ChannelRun DEF BwdInOrder
<1>5. Channel(fwdLink[w], Tail(pool[w]), "forward", FwdIn(w), fwdRun[w])
  BY <1>1, <1>2, ChannelTailOther DEF FwdInOrder
<1> QED BY <1>3, <1>4, <1>5 DEF NextId

\* A forward pass more leaves the slices in line.
LEMMA ChainedForward ==
  ASSUME IInv, NEW w \in Slice, fwdRun[w] < FwdIn(w),
         fwdRun' = [fwdRun EXCEPT ![w] = @ + 1], UNCHANGED loopVars
  PROVE  /\ \A v \in Slice : fwdRun'[v] <= InputsSent'
         /\ \A u, v \in Slice : u < v => fwdRun'[v] <= fwdRun'[u]
<1>1. /\ \A v \in Slice : fwdRun[v] \in Nat /\ fwdRun[v] <= InputsSent
      /\ \A u, v \in Slice : u < v => fwdRun[v] <= fwdRun[u]
      /\ InputsSent \in Nat /\ FwdIn(w) \in Nat /\ FwdIn(w) <= InputsSent
      /\ InputsSent' = InputsSent
      /\ Slice \subseteq Int
  BY Types, SentOrder, SentFrame DEF IInv, TypeInv, OrderInv, Chained, Slice
<1>2. /\ fwdRun'[w] = fwdRun[w] + 1
      /\ \A v \in Slice : v # w => fwdRun'[v] = fwdRun[v]
  BY DEF IInv, TypeInv, TypeOK
<1>3. \A v \in Slice : fwdRun'[v] <= InputsSent' BY <1>1, <1>2
<1>4. ASSUME NEW u \in Slice, u < w PROVE fwdRun[w] < fwdRun[u]
  <2>1. w # First /\ w - 1 \in Slice /\ FwdIn(w) = fwdRun[w - 1]
    BY <1>4, SliceType DEF FwdIn, Slice, First
  <2>2. u = w - 1 \/ u < w - 1 BY <1>1, <1>4
  <2>3. fwdRun[w - 1] <= fwdRun[u] BY <1>1, <2>1, <2>2
  <2> QED BY <1>1, <2>1, <2>3
<1>5. ASSUME NEW u \in Slice, NEW v \in Slice, u < v PROVE fwdRun'[v] <= fwdRun'[u]
  <2>1. CASE v = w BY <1>1, <1>2, <1>4, <1>5, <2>1
  <2>2. CASE v # w BY <1>1, <1>2, <1>5, <2>2
  <2> QED BY <2>1, <2>2
<1> QED BY <1>3, <1>5

\* A backward pass more leaves the slices in line.
LEMMA ChainedBackward ==
  ASSUME IInv, NEW w \in Slice, w # Last => bwdRun[w] < BwdIn(w),
         bwdRun' = [bwdRun EXCEPT ![w] = @ + 1]
  PROVE  \A u, v \in Slice : u < v => bwdRun'[u] <= bwdRun'[v]
<1>1. /\ \A v \in Slice : bwdRun[v] \in Nat
      /\ \A u, v \in Slice : u < v => bwdRun[u] <= bwdRun[v]
      /\ Slice \subseteq Int
  BY Types DEF IInv, TypeInv, OrderInv, Chained, Slice
<1>2. /\ bwdRun'[w] = bwdRun[w] + 1
      /\ \A v \in Slice : v # w => bwdRun'[v] = bwdRun[v]
  BY DEF IInv, TypeInv, TypeOK
<1>3. ASSUME NEW v \in Slice, w < v PROVE bwdRun[w] < bwdRun[v]
  <2>1. w # Last /\ w + 1 \in Slice /\ BwdIn(w) = bwdRun[w + 1]
    BY <1>3, SliceType, SizesAssumption DEF BwdIn, Slice, Last
  <2>2. v = w + 1 \/ w + 1 < v BY <1>1, <1>3
  <2>3. bwdRun[w + 1] <= bwdRun[v] BY <1>1, <2>1, <2>2
  <2> QED BY <1>1, <2>1, <2>3
<1> SUFFICES ASSUME NEW u \in Slice, NEW v \in Slice, u < v PROVE bwdRun'[u] <= bwdRun'[v]
  OBVIOUS
<1>4. CASE u = w BY <1>1, <1>2, <1>3, <1>4
<1>5. CASE u # w BY <1>1, <1>2, <1>5
<1> QED BY <1>4, <1>5

LEMMA IntervalGrow ==
  ASSUME NEW a \in Int, NEW b \in Int, a <= b
  PROVE  (a .. b - 1) \union {b} = a .. (b + 1) - 1
OBVIOUS

LEMMA IntervalShrink ==
  ASSUME NEW a \in Int, NEW b \in Int, a < b
  PROVE  (a .. b - 1) \ {a} = a + 1 .. b - 1
OBVIOUS

LEMMA ForwardInv ==
  ASSUME IInv, NEW w \in Slice, Forward(w) PROVE OrderInv'
<1> DEFINE id == fwdRun[w]
<1>1. TypeOK /\ w # Last /\ w + 1 \in Slice BY SliceType DEF IInv, TypeInv, Forward
<1>2. /\ NextId(w) = id /\ id < FwdIn(w)
      /\ \A v \in Slice : v # w => pool'[v] = pool[v]
      /\ Channel(fwdLink[w], pool'[w], "forward", FwdIn(w), id + 1)
      /\ Channel(bwdLink[w], pool'[w], "backward", BwdIn(w), bwdRun[w])
  BY ForwardTurn DEF Forward
<1>3. /\ fwdRun'[w] = id + 1
      /\ \A v \in Slice : v # w => fwdRun'[v] = fwdRun[v] /\ outputs'[v] = outputs[v]
      /\ outputs'[w] = outputs[w] \union {id}
      /\ fwdLink'[w + 1] = Append(fwdLink[w + 1], id)
      /\ \A v \in Slice : v # w + 1 => fwdLink'[v] = fwdLink[v]
      /\ UNCHANGED <<bwdLink, bwdRun, grad, stepLog, labels, batchDone>>
  BY <1>1, <1>2 DEF TypeOK, Forward, lossVars
<1>4. InputsSent' = InputsSent /\ LabelsSent' = LabelsSent BY SentFrame DEF Forward
<1>5. ASSUME NEW v \in Slice
      PROVE  /\ BwdIn(v)' = BwdIn(v)
             /\ v # w + 1 => FwdIn(v)' = FwdIn(v)
  BY <1>3, <1>4, SliceType DEF FwdIn, BwdIn, Slice
<1>6. FwdIn(w + 1) = id /\ FwdIn(w + 1)' = id + 1 BY <1>1, <1>3 DEF FwdIn, Slice, First
<1>7. ASSUME NEW v \in Slice PROVE SliceInv(v)'
  <2>1. FwdInOrder(v) /\ BwdInOrder(v) /\ CachesMatch(v) /\ StepsMatch(v)
    BY DEF IInv, OrderInv, SliceInv
  <2>2. StepsMatch(v)' BY <1>3, <2>1, StepsFrame
  <2>3. CASE v = w
    <3>1. FwdInOrder(w)' /\ BwdInOrder(w)'
      BY <1>1, <1>2, <1>3, <1>5 DEF FwdInOrder, BwdInOrder, Slice
    <3>2. CachesMatch(w)'
      <4>1. /\ id \in Int /\ bwdRun[w] \in Int /\ bwdRun[w] <= id
            /\ outputs[w] = bwdRun[w] .. id - 1
        BY <1>1, <2>1, <2>3, Types DEF CachesMatch
      <4>2. outputs'[w] = bwdRun[w] .. (id + 1) - 1 /\ bwdRun[w] <= id + 1
        BY <1>3, <4>1, IntervalGrow
      <4> QED BY <1>3, <4>2 DEF CachesMatch
    <3> QED BY <2>2, <2>3, <3>1, <3>2 DEF SliceInv
  <2>4. CASE v = w + 1
    <3>1. v # w BY <2>4 DEF Slice
    <3>2. /\ fwdLink[v] \in Seq(Int) /\ fwdRun[v] \in Int /\ id \in Int
          /\ Channel(fwdLink[v], pool[v], "forward", id, fwdRun[v])
      BY <1>1, <1>6, <2>1, <2>4, Types DEF FwdInOrder
    <3>3. Channel(Append(fwdLink[v], id), pool[v], "forward", id + 1, fwdRun[v])
      BY <3>2, ChannelSend
    <3>4. FwdInOrder(v)' BY <1>2, <1>3, <1>6, <2>4, <3>1, <3>3 DEF FwdInOrder
    <3> QED BY <1>2, <1>3, <1>5, <2>1, <2>2, <3>1, <3>4, BwdFrame, CachesFrame DEF SliceInv
  <2>5. CASE v # w /\ v # w + 1
    BY <1>2, <1>3, <1>5, <2>1, <2>2, <2>5, FwdFrame, BwdFrame, CachesFrame DEF SliceInv
  <2> QED BY <2>3, <2>4, <2>5
<1>8. LabelsInOrder' /\ LabelBeforeActivation'
  BY <1>1, <1>2, <1>3, <1>4, SliceType
  DEF IInv, OrderInv, LabelsInOrder, LabelBeforeActivation
<1>9. Chained'
  <2>1. fwdRun' = [fwdRun EXCEPT ![w] = @ + 1] /\ UNCHANGED loopVars BY DEF Forward
  <2> QED BY <1>2, <1>3, <2>1, ChainedForward DEF IInv, OrderInv, Chained
<1>10. Barrier' BY <1>3 DEF IInv, OrderInv, Barrier, Forward, loopVars
<1> QED BY <1>7, <1>8, <1>9, <1>10 DEF OrderInv

\* The label of the activation whose turn it is has been taken.
LEMMA LabelIsThere ==
  ASSUME IInv, NextIs(Last, "forward"), NEW taken \in Nat, LabelFirst(pool[Last], taken),
         labels = bwdRun[Last] .. taken - 1
  PROVE  /\ NextId(Last) = fwdRun[Last] /\ bwdRun[Last] = fwdRun[Last]
         /\ fwdRun[Last] < taken
         /\ NextId(Last) \in labels
<1>1. /\ pool[Last] \in Seq(TaskSet) /\ fwdRun[Last] \in Int /\ bwdRun[Last] \in Int
      /\ fwdLink[Last] \in Seq(Int) /\ FwdIn(Last) \in Int
      /\ FwdInOrder(Last) /\ CachesMatch(Last)
  BY SliceType, Types DEF IInv, TypeInv, OrderInv, SliceInv
<1>2. pool[Last] # <<>> /\ Head(pool[Last]).kind = "forward" BY DEF NextIs
<1>3. NextId(Last) = fwdRun[Last] BY <1>1, <1>2, ChannelRun DEF FwdInOrder, NextId
<1>4. fwdRun[Last] < taken BY <1>1, <1>2, <1>3, LabelFirstHead DEF NextId
<1>5. bwdRun[Last] = fwdRun[Last]
  <2>1. bwdRun[Last] <= fwdRun[Last] /\ bwdRun[Last] .. fwdRun[Last] - 1 = {}
    BY <1>1 DEF CachesMatch, IInv, OrderInv, LabelBeforeActivation
  <2> QED BY <1>1, <2>1
<1> QED BY <1>1, <1>3, <1>4, <1>5

\* The first slice's pass that ends a batch ends the one the loop is at.
LEMMA BarrierStep ==
  ASSUME IInv, bwdRun[First] < InputsSent, SendBackward(First, bwdRun[First]),
         bwdRun'[First] = bwdRun[First] + 1, UNCHANGED loopVars
  PROVE  Barrier'
<1> DEFINE n == Len(stepLog[First])
           m == Len(grad[First])
           id == bwdRun[First]
<1>1. /\ TypeOK /\ StepsMatch(First) /\ Barrier
      /\ InputsSent <= FirstMicro(batch) + NumMicro
  BY SliceType, SentOrder DEF IInv, TypeInv, OrderInv, SliceInv
<1>2. /\ FirstMicro(batch) \in Nat /\ FirstMicro(batch + 1) = FirstMicro(batch) + NumMicro
      /\ batch \in Nat /\ NumMicro \in Nat \ {0} /\ InputsSent \in Nat /\ id \in Nat
  BY <1>1, LoopTypes, Types, SliceType
<1>3. /\ n \in Nat /\ m \in 0 .. NumMicro - 1 /\ id = FirstMicro(n) + m
  <2>1. stepLog[First] \in Seq(Seq(MicroIds)) /\ grad[First] \in Seq(MicroIds)
    BY <1>1, SliceType DEF TypeOK
  <2>2. n \in Nat /\ m \in Nat BY <2>1
  <2>3. m < NumMicro /\ id = FirstMicro(n) + m BY <1>1 DEF StepsMatch
  <2> QED BY <1>2, <2>2, <2>3
<1>4. n = batch
  <2>1. FirstMicro(n) \in Nat BY <1>3, FirstMicroNext
  <2>2. FirstMicro(batch) <= id /\ id < FirstMicro(batch) + NumMicro BY <1>1, <1>2 DEF Barrier
  <2>3. ~(n < batch) /\ ~(batch < n)
    <3>1. /\ n < batch => FirstMicro(n) + NumMicro <= FirstMicro(batch)
          /\ batch < n => FirstMicro(batch) + NumMicro <= FirstMicro(n)
      BY <1>2, <1>3, FirstMicroOrder
    <3>2. m < NumMicro /\ 0 <= m /\ m \in Int /\ NumMicro \in Int BY <1>2, <1>3
    <3> HIDE DEF id, n, m
    <3> QED BY <1>2, <1>3, <2>1, <2>2, <3>1, <3>2
  <2> QED BY <1>2, <1>3, <2>3
<1>5. phase # "start" BY <1>1, <1>2 DEF Barrier, InputsSent
<1>6. ~batchDone BY <1>1, <1>2, <1>5 DEF Barrier
<1>7. batchDone' => id + 1 = FirstMicro(batch + 1)
  <2>1. batchDone' => IsLastMicro(id) BY <1>6 DEF SendBackward
  <2>2. IsLastMicro(id) <=> m = NumMicro - 1 BY <1>3, LastMicro
  <2> QED BY <1>2, <1>3, <1>4, <2>1, <2>2
<1> QED BY <1>1, <1>2, <1>7 DEF Barrier, loopVars

LEMMA ForwardLastInv == IInv /\ ForwardLast => OrderInv'
<1> SUFFICES ASSUME IInv, ForwardLast PROVE OrderInv'
  OBVIOUS
<1> DEFINE id == fwdRun[Last]
<1>1. PICK taken \in Nat :
        /\ taken <= LabelsSent
        /\ bwdRun[Last] <= taken
        /\ labels = bwdRun[Last] .. taken - 1
        /\ Queued(pool[Last], "label", taken, LabelsSent)
        /\ LabelFirst(pool[Last], taken)
  BY DEF IInv, OrderInv, LabelsInOrder
<1>2. /\ NextId(Last) = id /\ bwdRun[Last] = id /\ id < taken /\ NextId(Last) \in labels
  BY <1>1, LabelIsThere DEF ForwardLast
<1>3. /\ TypeOK /\ Last \in Slice /\ id \in Nat
      /\ InputsSent' = InputsSent /\ LabelsSent' = LabelsSent
  BY SliceType, SentFrame, Types DEF IInv, TypeInv, ForwardLast
<1>4. /\ id < FwdIn(Last)
      /\ pool'[Last] = Tail(pool[Last])
      /\ \A v \in Slice : v # Last => pool'[v] = pool[v]
      /\ Channel(fwdLink[Last], pool'[Last], "forward", FwdIn(Last), id + 1)
      /\ Channel(bwdLink[Last], pool'[Last], "backward", BwdIn(Last), id)
  BY <1>2, <1>3, ForwardTurn DEF ForwardLast
<1>5. /\ labels' = labels \ {id}
      /\ Accumulate(Last, id) /\ SendBackward(Last, id)
      /\ UNCHANGED <<outputs, fwdLink, loopVars>>
      /\ fwdRun' = [fwdRun EXCEPT ![Last] = @ + 1]
  BY <1>2 DEF ForwardLast, BackwardLast
<1>6. /\ fwdRun'[Last] = id + 1 /\ bwdRun'[Last] = id + 1
      /\ bwdRun' = [bwdRun EXCEPT ![Last] = @ + 1]
      /\ \A v \in Slice : v # Last => fwdRun'[v] = fwdRun[v] /\ bwdRun'[v] = bwdRun[v]
  BY <1>2, <1>3, <1>5 DEF TypeOK, Accumulate
<1>7. /\ \A v \in Slice : FwdIn(v)' = FwdIn(v)
      /\ \A v \in Slice : v # Last /\ v + 1 # Last => BwdIn(v)' = BwdIn(v)
      /\ \A v \in Slice : v # Last /\ v + 1 = Last => BwdIn(v) = id /\ BwdIn(v)' = id + 1
      /\ BwdIn(Last)' = id + 1 /\ BwdIn(Last) = id
  <2>1. \A v \in Slice : v # First => v - 1 \in Slice /\ v - 1 # Last
    BY SliceType DEF Slice, Last
  <2> QED BY <1>2, <1>3, <1>6, <2>1, SliceType DEF FwdIn, BwdIn
<1>8. /\ \A v \in Slice : v + 1 # Last => bwdLink'[v] = bwdLink[v]
      /\ \A v \in Slice : v + 1 = Last => bwdLink'[v] = Append(bwdLink[v], id)
  <2>1. CASE Last = First BY <1>5, <2>1 DEF SendBackward, Slice, First
  <2>2. CASE Last # First
    <3>1. /\ Last - 1 \in Slice
          /\ bwdLink' = [bwdLink EXCEPT ![Last - 1] = Append(@, id)]
          /\ \A v \in Slice : v + 1 = Last <=> v = Last - 1
      BY <1>5, <2>2, SliceType, SizesAssumption DEF SendBackward, Slice, Last
    <3> QED BY <1>3, <3>1 DEF TypeOK
  <2> QED BY <2>1, <2>2
<1>9. ASSUME NEW v \in Slice PROVE SliceInv(v)'
  <2>1. FwdInOrder(v) /\ BwdInOrder(v) /\ CachesMatch(v) /\ StepsMatch(v)
    BY DEF IInv, OrderInv, SliceInv
  <2>2. StepsMatch(v)' BY <1>2, <1>3, <1>5, <2>1, StepsAccumulate, StepsOther
  <2>3. CASE v = Last
    <3>1. FwdInOrder(v)' BY <1>4, <1>5, <1>6, <1>7, <2>3 DEF FwdInOrder
    <3>2. BwdInOrder(v)'
      <4>1. bwdLink[Last] \in Seq(Int) /\ id \in Int /\ id + 1 \in Int BY <1>3, Types
      <4>2. Channel(bwdLink[Last], pool'[Last], "backward", id, id) BY <1>4, <1>7
      <4>3. Channel(bwdLink[Last], pool'[Last], "backward", id + 1, id + 1)
        BY <4>1, <4>2, ChannelNone
      <4>4. bwdLink'[Last] = bwdLink[Last] BY <1>3, <1>8 DEF Slice
      <4> QED BY <1>6, <1>7, <2>3, <4>3, <4>4 DEF BwdInOrder
    <3>3. CachesMatch(v)'
      <4>1. outputs'[Last] = {} /\ id + 1 .. (id + 1) - 1 = {} /\ id + 1 <= id + 1
        BY <1>3, <1>5 DEF IInv, OrderInv, LabelBeforeActivation
      <4> QED BY <1>6, <2>3, <4>1 DEF CachesMatch
    <3> QED BY <2>2, <3>1, <3>2, <3>3 DEF SliceInv
  <2>4. CASE v # Last
    <3>1. FwdInOrder(v)' /\ CachesMatch(v)'
      BY <1>4, <1>5, <1>6, <1>7, <2>1, <2>4, FwdFrame, CachesFrame
    <3>2. CASE v + 1 = Last
      <4>1. /\ bwdLink[v] \in Seq(Int) /\ id \in Int /\ bwdRun[v] \in Int
            /\ Channel(bwdLink[v], pool[v], "backward", id, bwdRun[v])
        BY <1>3, <1>7, <2>1, <2>4, <3>2, Types DEF BwdInOrder
      <4>2. Channel(Append(bwdLink[v], id), pool[v], "backward", id + 1, bwdRun[v])
        BY <4>1, ChannelSend
      <4>3. BwdInOrder(v)' BY <1>4, <1>6, <1>7, <1>8, <2>4, <3>2, <4>2 DEF BwdInOrder
      <4> QED BY <2>2, <3>1, <4>3 DEF SliceInv
    <3>3. CASE v + 1 # Last
      BY <1>4, <1>6, <1>7, <1>8, <2>1, <2>2, <2>4, <3>1, <3>3, BwdFrame DEF SliceInv
    <3> QED BY <3>2, <3>3
  <2> QED BY <2>3, <2>4
<1>10. LabelsInOrder'
  <2>1. pool[Last] \in Seq(TaskSet) /\ pool[Last] # <<>> /\ Head(pool[Last]).kind = "forward"
    BY <1>3, Types DEF ForwardLast, NextIs
  <2>2. \A t \in TaskSet : t.id \in Int BY MicroIdsAreInts
  <2>3. "label" # "forward" /\ LabelsSent \in Int BY <1>3, Types
  <2>4. Queued(pool'[Last], "label", taken, LabelsSent)
    BY <1>1, <1>4, <2>1, <2>3, QueuedTailOther
  <2>5. LabelFirst(pool'[Last], taken) BY <1>1, <1>4, <2>1, <2>2, <2>3, LabelFirstTail
  <2>6. labels' = id + 1 .. taken - 1 /\ id + 1 <= taken
    BY <1>1, <1>2, <1>3, <1>5, IntervalShrink
  <2> QED BY <1>1, <1>3, <1>6, <2>4, <2>5, <2>6 DEF LabelsInOrder
<1>11. LabelBeforeActivation' BY <1>5 DEF IInv, OrderInv, LabelBeforeActivation
<1>12. Chained' BY <1>3, <1>4, <1>5, <1>6, ChainedForward, ChainedBackward DEF Chained
<1>13. Barrier'
  <2>1. CASE Last = First BY <1>2, <1>4, <1>5, <1>6, <2>1, BarrierStep DEF FwdIn
  <2>2. CASE Last # First
    BY <1>5, <1>6, <2>2, SliceType DEF IInv, OrderInv, Barrier, SendBackward, loopVars
  <2> QED BY <2>1, <2>2
<1> QED BY <1>9, <1>10, <1>11, <1>12, <1>13 DEF OrderInv

LEMMA TakeLabelInv == IInv /\ TakeLabel => OrderInv'
<1> SUFFICES ASSUME IInv, TakeLabel PROVE OrderInv'
  OBVIOUS
<1>1. PICK taken \in Nat :
        /\ taken <= LabelsSent
        /\ bwdRun[Last] <= taken
        /\ labels = bwdRun[Last] .. taken - 1
        /\ Queued(pool[Last], "label", taken, LabelsSent)
        /\ LabelFirst(pool[Last], taken)
  BY DEF IInv, OrderInv, LabelsInOrder
<1>2. /\ TypeOK /\ Last \in Slice /\ LabelsSent \in Int
      /\ pool[Last] \in Seq(TaskSet) /\ pool[Last] # <<>> /\ Head(pool[Last]).kind = "label"
      /\ fwdLink[Last] \in Seq(Int) /\ bwdLink[Last] \in Seq(Int)
      /\ fwdRun[Last] \in Int /\ bwdRun[Last] \in Int /\ FwdIn(Last) \in Int /\ BwdIn(Last) \in Int
  BY SliceType, Types DEF IInv, TypeInv, TakeLabel, NextIs
<1>3. "label" # "forward" /\ "label" # "backward" OBVIOUS
<1>4. NextId(Last) \notin outputs[Last] BY DEF IInv, OrderInv, LabelBeforeActivation
<1>5. /\ labels' = labels \union {NextId(Last)}
      /\ pool'[Last] = Tail(pool[Last])
      /\ \A v \in Slice : v # Last => pool'[v] = pool[v]
      /\ UNCHANGED <<outputs, grad, stepLog, bwdRun, bwdLink, loopVars, fwdLink, fwdRun, batchDone>>
  BY <1>2, <1>4 DEF TakeLabel, Dequeue, TypeOK
<1>6. /\ InputsSent' = InputsSent /\ LabelsSent' = LabelsSent
      /\ \A v \in Slice : FwdIn(v)' = FwdIn(v) /\ BwdIn(v)' = BwdIn(v)
  BY <1>5, SentFrame DEF FwdIn, BwdIn
<1>7. /\ NextId(Last) = taken /\ taken < LabelsSent
      /\ Queued(pool'[Last], "label", taken + 1, LabelsSent)
  BY <1>1, <1>2, <1>5, QueuedTail DEF NextId
<1>8. ASSUME NEW v \in Slice PROVE SliceInv(v)'
  <2>1. FwdInOrder(v) /\ BwdInOrder(v) /\ CachesMatch(v) /\ StepsMatch(v)
    BY DEF IInv, OrderInv, SliceInv
  <2>2. CachesMatch(v)' /\ StepsMatch(v)' BY <1>5, <2>1, CachesFrame, StepsFrame
  <2>3. CASE v = Last
    <3>1. FwdInOrder(v)'
      <4>1. Channel(fwdLink[Last], Tail(pool[Last]), "forward", FwdIn(Last), fwdRun[Last])
        BY <1>2, <1>3, <2>1, <2>3, ChannelTailOther DEF FwdInOrder
      <4> QED BY <1>5, <1>6, <2>3, <4>1 DEF FwdInOrder
    <3>2. BwdInOrder(v)'
      <4>1. Channel(bwdLink[Last], Tail(pool[Last]), "backward", BwdIn(Last), bwdRun[Last])
        BY <1>2, <1>3, <2>1, <2>3, ChannelTailOther DEF BwdInOrder
      <4> QED BY <1>5, <1>6, <2>3, <4>1 DEF BwdInOrder
    <3> QED BY <2>2, <3>1, <3>2 DEF SliceInv
  <2>4. CASE v # Last BY <1>5, <1>6, <2>1, <2>2, <2>4, FwdFrame, BwdFrame DEF SliceInv
  <2> QED BY <2>3, <2>4
<1>9. LabelsInOrder'
  <2>1. LabelFirst(pool'[Last], taken + 1)
    <3>1. \A t \in TaskSet : t.id \in Int BY MicroIdsAreInts
    <3>2. Head(pool[Last]).id < taken + 1 /\ taken + 1 \in Int /\ taken + 1 >= taken
      BY <1>7 DEF NextId
    <3>3. taken \in Int OBVIOUS
    <3>4. LabelFirst(Tail(pool[Last]), taken + 1)
      BY ONLY <1>1, <1>2, <3>1, <3>2, <3>3, LabelFirstTail
    <3> QED BY <1>5, <3>4
  <2>2. labels' = bwdRun[Last] .. (taken + 1) - 1 BY <1>1, <1>2, <1>5, <1>7, IntervalGrow
  <2>3. taken + 1 \in Nat /\ taken + 1 <= LabelsSent /\ bwdRun[Last] <= taken + 1
    BY <1>1, <1>2, <1>7
  <2> QED BY <1>5, <1>6, <1>7, <2>1, <2>2, <2>3 DEF LabelsInOrder
<1>10. Chained' /\ LabelBeforeActivation' /\ Barrier'
  BY <1>5, <1>6 DEF IInv, OrderInv, Chained, LabelBeforeActivation, Barrier, loopVars
<1> QED BY <1>8, <1>9, <1>10 DEF OrderInv

LEMMA BackwardInv ==
  ASSUME IInv, NEW w \in Slice, Backward(w) PROVE OrderInv'
<1> DEFINE id == bwdRun[w]
<1>1. /\ NextId(w) = id /\ id < BwdIn(w)
      /\ pool'[w] = Tail(pool[w])
      /\ \A v \in Slice : v # w => pool'[v] = pool[v]
      /\ Channel(fwdLink[w], pool'[w], "forward", FwdIn(w), fwdRun[w])
      /\ Channel(bwdLink[w], pool'[w], "backward", BwdIn(w), id + 1)
  BY BackwardTurn DEF Backward
<1>2. /\ TypeOK /\ id \in Int
      /\ InputsSent' = InputsSent /\ LabelsSent' = LabelsSent
  BY SentFrame, Types DEF IInv, TypeInv, Backward
<1>3. w # Last /\ w + 1 \in Slice /\ BwdIn(w) = bwdRun[w + 1] BY <1>1, <1>2, SliceType DEF BwdIn
<1>4. id < fwdRun[w] /\ id < InputsSent
  <2>1. /\ bwdRun[w + 1] <= fwdRun[w + 1] /\ fwdRun[w + 1] <= fwdRun[w] /\ fwdRun[w] <= InputsSent
    BY <1>3 DEF IInv, OrderInv, SliceInv, CachesMatch, Chained, Slice
  <2>2. /\ bwdRun[w + 1] \in Int /\ fwdRun[w + 1] \in Int /\ fwdRun[w] \in Int
        /\ InputsSent \in Int
    BY <1>2, <1>3, Types
  <2> QED BY <1>1, <1>2, <1>3, <2>1, <2>2
<1>5. outputs[w] = id .. fwdRun[w] - 1 /\ fwdRun[w] \in Int /\ id \in outputs[w]
  BY <1>2, <1>4, Types DEF IInv, OrderInv, SliceInv, CachesMatch
<1>6. /\ outputs' = [outputs EXCEPT ![w] = @ \ {id}]
      /\ Accumulate(w, id) /\ SendBackward(w, id)
      /\ UNCHANGED <<loopVars, fwdLink, labels, fwdRun>>
  BY <1>1, <1>5 DEF Backward
<1>7. /\ bwdRun' = [bwdRun EXCEPT ![w] = @ + 1]
      /\ bwdRun'[w] = id + 1
      /\ \A v \in Slice : v # w => bwdRun'[v] = bwdRun[v] /\ outputs'[v] = outputs[v]
      /\ outputs'[w] = outputs[w] \ {id}
  BY <1>2, <1>6 DEF TypeOK, Accumulate
<1>8. /\ \A v \in Slice : FwdIn(v)' = FwdIn(v)
      /\ BwdIn(w)' = BwdIn(w)
      /\ \A v \in Slice : v # w /\ v + 1 # w => BwdIn(v)' = BwdIn(v)
      /\ \A v \in Slice : v + 1 = w => v # Last /\ BwdIn(v) = id /\ BwdIn(v)' = id + 1
  <2>1. \A v \in Slice : v + 1 = w => v # Last BY <1>3 DEF Slice, Last
  <2>2. w + 1 # w BY DEF Slice
  <2> QED BY <1>2, <1>3, <1>6, <1>7, <2>1, <2>2, SliceType DEF FwdIn, BwdIn
<1>9. /\ \A v \in Slice : v + 1 # w => bwdLink'[v] = bwdLink[v]
      /\ \A v \in Slice : v + 1 = w => bwdLink'[v] = Append(bwdLink[v], id)
  <2>1. CASE w = First BY <1>6, <2>1 DEF SendBackward, Slice, First
  <2>2. CASE w # First
    <3>1. /\ w - 1 \in Slice
          /\ bwdLink' = [bwdLink EXCEPT ![w - 1] = Append(@, id)]
          /\ \A v \in Slice : v + 1 = w <=> v = w - 1
      BY <1>6, <2>2, SliceType DEF SendBackward, Slice
    <3> QED BY <1>2, <3>1 DEF TypeOK
  <2> QED BY <2>1, <2>2
<1>10. ASSUME NEW v \in Slice PROVE SliceInv(v)'
  <2>1. FwdInOrder(v) /\ BwdInOrder(v) /\ CachesMatch(v) /\ StepsMatch(v)
    BY DEF IInv, OrderInv, SliceInv
  <2>2. StepsMatch(v)' BY <1>2, <1>6, <2>1, StepsAccumulate, StepsOther
  <2>3. CASE v = w
    <3>1. FwdInOrder(v)' BY <1>1, <1>6, <1>8, <2>3 DEF FwdInOrder
    <3>2. BwdInOrder(v)'
      <4>1. bwdLink'[w] = bwdLink[w] BY <1>9 DEF Slice
      <4> QED BY <1>1, <1>7, <1>8, <2>3, <4>1 DEF BwdInOrder
    <3>3. CachesMatch(v)'
      <4>1. outputs'[w] = id + 1 .. fwdRun[w] - 1 /\ id + 1 <= fwdRun[w]
        BY <1>2, <1>4, <1>5, <1>7, IntervalShrink
      <4> QED BY <1>6, <1>7, <2>3, <4>1 DEF CachesMatch
    <3> QED BY <2>2, <3>1, <3>2, <3>3 DEF SliceInv
  <2>4. CASE v # w
    <3>1. FwdInOrder(v)' /\ CachesMatch(v)'
      BY <1>1, <1>6, <1>7, <1>8, <2>1, <2>4, FwdFrame, CachesFrame
    <3>2. CASE v + 1 = w
      <4>1. /\ bwdLink[v] \in Seq(Int) /\ bwdRun[v] \in Int
            /\ Channel(bwdLink[v], pool[v], "backward", id, bwdRun[v])
        BY <1>2, <1>8, <2>1, <3>2, Types DEF BwdInOrder
      <4>2. Channel(Append(bwdLink[v], id), pool[v], "backward", id + 1, bwdRun[v])
        BY <1>2, <4>1, ChannelSend
      <4>3. BwdInOrder(v)' BY <1>1, <1>7, <1>8, <1>9, <2>4, <3>2, <4>2 DEF BwdInOrder
      <4> QED BY <2>2, <3>1, <4>3 DEF SliceInv
    <3>3. CASE v + 1 # w
      BY <1>1, <1>7, <1>8, <1>9, <2>1, <2>2, <2>4, <3>1, <3>3, BwdFrame DEF SliceInv
    <3> QED BY <3>2, <3>3
  <2> QED BY <2>3, <2>4
<1>11. LabelsInOrder' /\ LabelBeforeActivation'
  BY <1>1, <1>2, <1>3, <1>6, <1>7, SliceType
  DEF IInv, OrderInv, LabelsInOrder, LabelBeforeActivation
<1>12. Chained'
  <2>1. \A u, v \in Slice : u < v => bwdRun'[u] <= bwdRun'[v] BY <1>1, <1>7, ChainedBackward
  <2> QED BY <1>2, <1>6, <2>1 DEF IInv, OrderInv, Chained
<1>13. Barrier'
  <2>1. CASE w = First BY <1>4, <1>6, <1>7, <2>1, BarrierStep
  <2>2. CASE w # First
    BY <1>6, <1>7, <2>2, SliceType DEF IInv, OrderInv, Barrier, SendBackward, loopVars
  <2> QED BY <2>1, <2>2
<1> QED BY <1>10, <1>11, <1>12, <1>13 DEF OrderInv

LEMMA OrderInvInit == Init => OrderInv
<1> SUFFICES ASSUME Init PROVE OrderInv
  OBVIOUS
<1>1. FirstMicro(0) = 0 /\ FirstMicro(1) = NumMicro /\ NumMicro \in Nat \ {0}
  BY SizesAssumption DEF FirstMicro
<1>2. InputsSent = 0 /\ LabelsSent = 0 BY <1>1 DEF Init, InputsSent, LabelsSent
<1>3. \A w \in Slice : FwdIn(w) = 0 /\ BwdIn(w) = 0 BY <1>2, SliceType DEF Init, FwdIn, BwdIn
<1>4. \A kind : Channel(<<>>, <<>>, kind, 0, 0) /\ Queued(<<>>, kind, 0, 0)
  <2>1. Len(<<>>) = 0 /\ DOMAIN <<>> = {} /\ 0 .. 0 - 1 = {} /\ 0 - 0 = 0 /\ 0 + 0 <= 0 OBVIOUS
  <2>2. \A kind : Queued(<<>>, kind, 0, 0) BY <2>1 DEF Queued
  <2>3. Consecutive(<<>>, 0, 0) BY <2>1 DEF Consecutive
  <2> QED BY <2>1, <2>2, <2>3 DEF Channel
<1>5. \A w \in Slice : SliceInv(w)
  BY <1>1, <1>3, <1>4
  DEF Init, SliceInv, FwdInOrder, BwdInOrder, CachesMatch, StepsMatch
<1>6. LabelsInOrder
  <2>1. LabelFirst(<<>>, 0) BY DEF LabelFirst
  <2> QED BY <1>2, <1>4, <2>1, SliceType DEF Init, LabelsInOrder
<1>7. Chained /\ Barrier /\ LabelBeforeActivation
  BY <1>1, <1>2, SliceType DEF Init, Chained, Barrier, LabelBeforeActivation
<1> QED BY <1>5, <1>6, <1>7 DEF OrderInv

LEMMA IInvNext == IInv /\ [Next]_vars => IInv'
<1> SUFFICES ASSUME IInv, [Next]_vars PROVE OrderInv'
  BY TypeInvNext DEF IInv
<1>1. CASE Loop BY <1>1, StartBatchInv, SendLabelInv, SendInputInv, FinishBatchInv DEF Loop
<1>2. CASE \E r \in reports : ReceiveMetrics(r) BY <1>2, ReceiveMetricsInv
<1>3. ASSUME NEW w \in Slice, ReceiveForward(w) \/ ReceiveBackward(w) \/ Compute(w)
      PROVE  OrderInv'
  BY <1>3, ReceiveForwardInv, ReceiveBackwardInv, ForwardInv, ForwardLastInv, TakeLabelInv,
     BackwardInv DEF Compute
<1>4. CASE UNCHANGED vars
  <2>1. InputsSent' = InputsSent /\ LabelsSent' = LabelsSent BY <1>4, SentFrame DEF vars
  <2>2. Barrier' BY <1>4 DEF IInv, OrderInv, Barrier, vars, loopVars, lossVars, computeVars
  <2> QED BY <1>4, <2>1, <2>2, LoopFrame DEF IInv, vars
<1> QED BY <1>1, <1>2, <1>3, <1>4 DEF Next, EpochOver

LEMMA Invariance == Spec => []IInv
<1>1. Init => IInv BY TypeInvInit, OrderInvInit DEF IInv
<1> QED BY <1>1, IInvNext, PTL DEF Spec

--------------------
(* The theorems. *)

\* However messages and tasks interleave, every optimizer step of every slice consumes the
\* gradients of one whole batch, each micro-batch once, and the batches come in order.
THEOREM StepsCorrect == Spec => []StepsAreWholeBatches
<1>1. IInv => StepsAreWholeBatches
  BY DEF IInv, OrderInv, SliceInv, StepsMatch, StepsAreWholeBatches
<1> QED BY <1>1, Invariance, PTL

\* The last slice never has to keep an activation for a label that is on its way.
THEOREM LabelsComeFirst == Spec => []LabelBeforeActivation
<1>1. IInv => LabelBeforeActivation BY DEF IInv, OrderInv
<1> QED BY <1>1, Invariance, PTL

\* A cached activation was computed with the weights its gradient will be applied to: no
\* slice steps between the two passes of a micro-batch.
THEOREM FreshActivations == Spec => []ActivationsAreFresh
<1>1. IInv => ActivationsAreFresh
  <2> SUFFICES ASSUME IInv, NEW w \in Slice, NEW id \in outputs[w]
               PROVE  BatchOf(id) = Len(stepLog[w])
    BY DEF ActivationsAreFresh
  <2> DEFINE n == Len(stepLog[w])
             m == Len(grad[w])
  <2>1. /\ TypeOK /\ StepsMatch(w) /\ CachesMatch(w)
        /\ fwdRun[w] <= InputsSent /\ InputsSent <= FirstMicro(batch) + NumMicro
    BY SentOrder DEF IInv, TypeInv, OrderInv, SliceInv, Chained
  <2>2. /\ n \in Nat /\ m \in Nat /\ m < NumMicro /\ bwdRun[w] = FirstMicro(n) + m
        /\ batch \in Nat /\ NumMicro \in Nat \ {0}
        /\ FirstMicro(n) \in Nat /\ FirstMicro(batch) \in Nat
    <3>1. stepLog[w] \in Seq(Seq(MicroIds)) /\ grad[w] \in Seq(MicroIds) BY <2>1 DEF TypeOK
    <3>2. n \in Nat /\ m \in Nat BY <3>1
    <3> QED BY <2>1, <3>2, LoopTypes, FirstMicroNext DEF StepsMatch
  <2>3. /\ id \in Int /\ bwdRun[w] <= id /\ id < fwdRun[w]
        /\ fwdRun[w] \in Int /\ bwdRun[w] \in Int /\ InputsSent \in Int
    BY <2>1, Types DEF CachesMatch
  <2>4. FirstMicro(batch) <= bwdRun[w]
    <3>1. bwdRun[First] <= bwdRun[w]
      <4>1. First = w \/ First < w BY DEF First, Slice
      <4>2. bwdRun[First] \in Int BY <2>1, Types, SliceType
      <4> QED BY <2>3, <4>1, <4>2, SliceType DEF IInv, OrderInv, Chained
    <3>2. FirstMicro(batch) <= bwdRun[First] /\ bwdRun[First] \in Int
      BY <2>1, Types, SliceType DEF IInv, OrderInv, Barrier
    <3> QED BY <2>2, <2>3, <3>1, <3>2
  <2>5. id < FirstMicro(n) + NumMicro
    <3>1. ~(n < batch)
      <4>1. n < batch => FirstMicro(n) + NumMicro <= FirstMicro(batch) BY <2>2, FirstMicroOrder
      <4> HIDE DEF n, m
      <4> QED BY <2>2, <2>4, <4>1
    <3>2. batch <= n BY <2>2, <3>1
    <3>3. FirstMicro(batch) <= FirstMicro(n) BY <2>2, <3>2, FirstMicroOrder
    <3> HIDE DEF n, m
    <3> QED BY <2>1, <2>2, <2>3, <3>3
  <2>6. id = FirstMicro(n) + (id - FirstMicro(n)) /\ id - FirstMicro(n) \in 0 .. NumMicro - 1
    <3> HIDE DEF n, m
    <3> QED BY <2>2, <2>3, <2>5
  <2> QED BY <2>2, <2>6, BatchOfMicro
<1> QED BY <1>1, Invariance, PTL

--------------------
(* Pipeline implements the safety of SyncTraining. *)

\* The updates applied to the weights of slice w.
Version(w) == Len(stepLog[w])

--------------------
(* Where the slices are, seen from the training loop. *)

\* Every micro-batch of the batch before has gone back through slice w, and
\* none of the batch after has gone forward.
LEMMA RunOfThisBatch ==
  ASSUME IInv, NEW w \in Slice
  PROVE  /\ bwdRun[w] \in Nat /\ InputsSent \in Nat /\ FirstMicro(batch) \in Nat
         /\ FirstMicro(batch) <= bwdRun[First] /\ bwdRun[First] \in Nat
         /\ bwdRun[First] <= bwdRun[w] /\ bwdRun[w] <= InputsSent
         /\ InputsSent <= FirstMicro(batch) + NumMicro
<1>1. TypeOK BY DEF IInv, TypeInv
<1>2. /\ bwdRun[w] \in Nat /\ fwdRun[w] \in Nat /\ bwdRun[First] \in Nat
      /\ InputsSent \in Nat /\ FirstMicro(batch) \in Nat
  BY <1>1, Types, LoopTypes, SliceType
<1>3. bwdRun[w] <= fwdRun[w] /\ fwdRun[w] <= InputsSent
  BY DEF IInv, OrderInv, SliceInv, CachesMatch, Chained
<1>4. First = w \/ First < w BY DEF First, Slice
<1>5. bwdRun[First] <= bwdRun[w] BY <1>2, <1>4, SliceType DEF IInv, OrderInv, Chained
<1>6. FirstMicro(batch) <= bwdRun[First] BY DEF IInv, OrderInv, Barrier
<1> QED BY <1>2, <1>3, <1>5, <1>6, SentOrder

\* A slice has taken its step for this batch when, and only when, all
\* micro-batches of it have gone back through the slice.
LEMMA VersionOfBatch ==
  ASSUME IInv, NEW w \in Slice
  PROVE  /\ batch \in Nat /\ Version(w) \in {batch, batch + 1}
         /\ Version(w) = batch + 1 <=> bwdRun[w] = FirstMicro(batch) + NumMicro
<1> DEFINE n == Version(w)
           m == Len(grad[w])
<1>1. TypeOK /\ StepsMatch(w) BY DEF IInv, TypeInv, OrderInv, SliceInv
<1>2. stepLog[w] \in Seq(Seq(MicroIds)) /\ grad[w] \in Seq(MicroIds) BY <1>1 DEF TypeOK
<1>3. /\ n \in Nat /\ m \in Nat /\ m < NumMicro /\ bwdRun[w] = FirstMicro(n) + m
  BY <1>1, <1>2 DEF StepsMatch, Version
<1>4. /\ batch \in Nat /\ NumMicro \in Nat \ {0} /\ FirstMicro(n) \in Nat
      /\ FirstMicro(batch + 1) = FirstMicro(batch) + NumMicro
  BY <1>1, <1>3, LoopTypes, FirstMicroNext
<1>5. /\ n < batch => FirstMicro(n) + NumMicro <= FirstMicro(batch)
      /\ batch + 1 < n => FirstMicro(batch + 1) + NumMicro <= FirstMicro(n)
      /\ n = batch + 1 => FirstMicro(n) = FirstMicro(batch + 1)
  BY <1>3, <1>4, FirstMicroOrder
<1>6. n = batch => FirstMicro(n) = FirstMicro(batch) OBVIOUS
<1>7. n = Version(w) OBVIOUS
<1> HIDE DEF n, m
<1>8. ~(n < batch) /\ ~(batch + 1 < n) BY <1>3, <1>4, <1>5, RunOfThisBatch
<1>9. n = batch \/ n = batch + 1 BY <1>3, <1>4, <1>8
<1>10. n = batch + 1 <=> bwdRun[w] = FirstMicro(batch) + NumMicro
  BY <1>3, <1>4, <1>5, <1>6, <1>9, RunOfThisBatch
<1> QED BY <1>4, <1>7, <1>9, <1>10

\* The gradient has gone through the later slices first.
LEMMA LaterSlicesAhead ==
  ASSUME IInv, NEW w \in Slice, NEW v \in Slice, w < v, Version(w) = batch + 1
  PROVE  Version(v) = batch + 1
<1>1. bwdRun[w] <= bwdRun[v] BY DEF IInv, OrderInv, Chained
<1>2. bwdRun[w] = FirstMicro(batch) + NumMicro BY VersionOfBatch
<1>3. bwdRun[v] = FirstMicro(batch) + NumMicro BY <1>1, <1>2, RunOfThisBatch, SizesAssumption
<1> QED BY <1>3, VersionOfBatch

\* Between two batches no slice has a step to take.
LEMMA NoStepBetween ==
  ASSUME IInv, phase = "start", NEW w \in Slice
  PROVE  Version(w) = batch
<1>1. InputsSent = FirstMicro(batch) + 0 BY DEF InputsSent
<1>2. bwdRun[w] = FirstMicro(batch) BY <1>1, RunOfThisBatch
<1> QED BY <1>2, VersionOfBatch, RunOfThisBatch, SizesAssumption

\* When the first slice is done, all are.
LEMMA AllStepped ==
  ASSUME IInv, phase = "wait", batchDone, NEW w \in Slice
  PROVE  Version(w) = batch + 1
<1>1. bwdRun[First] = FirstMicro(batch + 1) BY DEF IInv, OrderInv, Barrier
<1>2. FirstMicro(batch + 1) = FirstMicro(batch) + NumMicro BY LoopTypes DEF IInv, TypeInv
<1>3. bwdRun[w] = FirstMicro(batch) + NumMicro BY <1>1, <1>2, RunOfThisBatch, SizesAssumption
<1> QED BY <1>3, VersionOfBatch

\* The steps of this batch, on the way from the last slice to the first.
Versions ==
  /\ batch \in Nat
  /\ \A w \in Slice : Version(w) \in {batch, batch + 1}
  /\ \A w, v \in Slice : w < v /\ Version(w) = batch + 1 => Version(v) = batch + 1
  /\ phase = "start" => \A w \in Slice : Version(w) = batch
  /\ phase = "wait" /\ batchDone => \A w \in Slice : Version(w) = batch + 1

LEMMA VersionsHold == IInv => Versions
<1> SUFFICES ASSUME IInv PROVE Versions
  OBVIOUS
<1>1. batch \in Nat /\ \A w \in Slice : Version(w) \in {batch, batch + 1}
  BY VersionOfBatch, SliceType
<1> QED BY <1>1, LaterSlicesAhead, NoStepBetween, AllStepped DEF Versions

--------------------
(* The step of the abstract specification that a step of the chain is. *)

LEMMA InitRefines == Init => Abstract!Init
BY DEF Init, Abstract!Init, Abstract!Slice, Slice

\* Slice w takes an optimizer step.
Steps(w) == \E gradient : stepLog' = [stepLog EXCEPT ![w] = Append(@, gradient)]

LEMMA AccumulateRefines ==
  ASSUME NEW w \in Slice, NEW id, Accumulate(w, id)
  PROVE  UNCHANGED stepLog \/ Steps(w)
BY DEF Accumulate, Steps

LEMMA OnlyComputeSteps ==
  ASSUME TypeOK, [Next]_vars, ~FinishBatch
  PROVE  /\ batch' = batch
         /\ UNCHANGED stepLog \/ (phase' = phase /\ \E w \in Slice : Steps(w))
<1> USE DEF loopVars, computeVars
<1>1. CASE StartBatch \/ SendLabel \/ SendInput BY <1>1 DEF StartBatch, SendLabel, SendInput
<1>2. CASE \E r \in reports : ReceiveMetrics(r) BY <1>2 DEF ReceiveMetrics
<1>3. ASSUME NEW w \in Slice, ReceiveForward(w) \/ ReceiveBackward(w)
      PROVE  batch' = batch /\ UNCHANGED stepLog
  BY <1>3 DEF ReceiveForward, ReceiveBackward
<1>4. ASSUME NEW w \in Slice, Forward(w)
      PROVE  batch' = batch /\ UNCHANGED stepLog
  BY <1>4 DEF Forward
<1>5. ASSUME NEW w \in Slice, Backward(w)
      PROVE  batch' = batch /\ phase' = phase /\ (UNCHANGED stepLog \/ Steps(w))
  BY <1>5, AccumulateRefines DEF Backward
<1>6. CASE ForwardLast \/ TakeLabel
  BY <1>6, AccumulateRefines, SliceType DEF ForwardLast, TakeLabel, BackwardLast
<1>7. CASE UNCHANGED vars BY <1>7 DEF vars
<1> QED BY <1>1, <1>2, <1>3, <1>4, <1>5, <1>6, <1>7 DEF Next, Loop, Compute, EpochOver

LEMMA StepRefines ==
  ASSUME TypeOK, TypeOK', Versions, Versions', phase' = phase, batch' = batch,
         phase # "start" => batch < NumBatches,
         NEW w \in Slice, Steps(w)
  PROVE  Abstract!Update(w)
<1>1. PICK gradient : stepLog' = [stepLog EXCEPT ![w] = Append(@, gradient)] BY DEF Steps
<1>2. stepLog \in [Slice -> Seq(Seq(MicroIds))] /\ stepLog' \in [Slice -> Seq(Seq(MicroIds))]
  BY DEF TypeOK
<1>3. Version(w)' = Version(w) + 1
  <2>1. stepLog[w] \in Seq(Seq(MicroIds)) /\ stepLog'[w] = Append(stepLog[w], gradient)
    BY <1>1, <1>2
  <2>2. Len(Append(stepLog[w], gradient)) = Len(stepLog[w]) + 1 BY <2>1
  <2> QED BY <2>1, <2>2 DEF Version
<1>4. \A v \in Slice : v # w => Version(v)' = Version(v) BY <1>1, <1>2 DEF Version
<1>5. Version(w) = batch /\ Version(w)' = batch + 1 BY <1>3 DEF Versions
<1>6. \A v \in Slice : v > w => Version(v) = batch + 1 BY <1>4, <1>5 DEF Versions, Slice
<1>7. batch < NumBatches BY <1>5 DEF Versions
<1> DEFINE version == [v \in Slice |-> Len(stepLog[v])]
<1>8. version' = [version EXCEPT ![w] = batch + 1] BY <1>4, <1>5 DEF Version
<1>9. version[w] = batch /\ \A v \in Slice : v > w => version[v] = batch + 1
  BY <1>5, <1>6 DEF Version
<1> QED BY <1>7, <1>8, <1>9 DEF Abstract!Update, Abstract!Slice, Slice

LEMMA NextRefines == IInv /\ IInv' /\ [Next]_vars => [Abstract!Next]_(Abstract!vars)
<1> SUFFICES ASSUME IInv, IInv', [Next]_vars PROVE [Abstract!Next]_(Abstract!vars)
  OBVIOUS
<1>1. TypeOK /\ TypeOK' /\ Versions BY VersionsHold DEF IInv, TypeInv
<1>2. Versions' BY VersionsHold, PTL
<1>3. CASE FinishBatch
  <2>1. \A w \in Slice : Version(w) = batch + 1 BY <1>1, <1>3 DEF Versions, FinishBatch
  <2>2. batch' = batch + 1 /\ UNCHANGED stepLog BY <1>3 DEF FinishBatch, computeVars
  <2>3. Abstract!NextBatch BY <2>1, <2>2 DEF Abstract!NextBatch, Abstract!Slice, Slice, Version
  <2> QED BY <2>3 DEF Abstract!Next
<1>4. CASE ~FinishBatch /\ UNCHANGED stepLog
  <2>1. batch' = batch BY <1>1, <1>4, OnlyComputeSteps
  <2> QED BY <1>4, <2>1 DEF Abstract!vars
<1>5. CASE ~FinishBatch /\ stepLog' # stepLog
  <2>1. PICK w \in Slice : batch' = batch /\ phase' = phase /\ Steps(w)
    BY <1>1, <1>5, OnlyComputeSteps
  <2>2. phase # "start" => batch < NumBatches BY DEF IInv, TypeInv, LoopInv
  <2>3. Abstract!Update(w) BY <1>1, <1>2, <2>1, <2>2, StepRefines
  <2> QED BY <2>3 DEF Abstract!Next, Abstract!Slice, Slice
<1> QED BY <1>3, <1>4, <1>5

\* The chain trains like the unsplit model: every batch updates every slice
\* exactly once, from the last slice to the first, and the next batch starts
\* when all have the new weights.
THEOREM SlicesTrainInSync == Spec => Abstract!Init /\ [][Abstract!Next]_(Abstract!vars)
<1>1. Init => Abstract!Init BY InitRefines
<1>2. IInv /\ IInv' /\ [Next]_vars => [Abstract!Next]_(Abstract!vars) BY NextRefines
<1>3. Spec => []IInv BY Invariance
<1> QED BY <1>1, <1>2, <1>3, PTL DEF Spec

--------------------
(* What IInv does not say: where labels may be, and what the losses are of. *)

\* Labels wait on the last slice only.
LabelsAtLast ==
  \A w \in Slice : w # Last => \A i \in DOMAIN pool[w] : pool[w][i].kind # "label"

\* The losses being averaged are those whose gradients wait for the step.
LossesOfThisStep == lossSum = FirstMicro(Version(Last)) .. bwdRun[Last] - 1

EndInv == LabelsAtLast /\ LossesOfThisStep /\ ReportsAreWhole

LEMMA EndInvInit == Init => EndInv
<1> SUFFICES ASSUME Init PROVE EndInv
  OBVIOUS
<1>1. LabelsAtLast BY DEF Init, LabelsAtLast
<1>2. LossesOfThisStep
  BY SliceType, SizesAssumption DEF Init, LossesOfThisStep, Version, FirstMicro
<1> QED BY <1>1, <1>2 DEF EndInv, ReportsAreWhole, Init

--------------------
(* Labels. *)

\* Adding a task that is no label, or taking one away, brings no label.
LEMMA AppendNoLabel ==
  ASSUME NEW S, NEW tasks \in Seq(S), NEW t \in S, t.kind # "label",
         \A i \in DOMAIN tasks : tasks[i].kind # "label"
  PROVE  \A i \in DOMAIN Append(tasks, t) : Append(tasks, t)[i].kind # "label"
BY AppendProperties

LEMMA TailNoLabel ==
  ASSUME NEW S, NEW tasks \in Seq(S), tasks # <<>>,
         \A i \in DOMAIN tasks : tasks[i].kind # "label"
  PROVE  \A i \in DOMAIN Tail(tasks) : Tail(tasks)[i].kind # "label"
<1>1. /\ Tail(tasks) \in Seq(S) /\ Len(Tail(tasks)) = Len(tasks) - 1
      /\ \A i \in 1 .. Len(Tail(tasks)) : Tail(tasks)[i] = tasks[i + 1]
  BY HeadTailProperties
<1>2. Len(tasks) \in Nat /\ DOMAIN tasks = 1 .. Len(tasks) /\ DOMAIN Tail(tasks) = 1 .. Len(Tail(tasks))
  BY <1>1
<1> SUFFICES ASSUME NEW i \in DOMAIN Tail(tasks) PROVE Tail(tasks)[i].kind # "label"
  OBVIOUS
<1>3. i + 1 \in DOMAIN tasks /\ Tail(tasks)[i] = tasks[i + 1] BY <1>1, <1>2
<1> QED BY <1>3

LEMMA DequeueNoLabel ==
  ASSUME TypeOK, LabelsAtLast, NEW w \in Slice, NEW kind, NextIs(w, kind), Dequeue(w)
  PROVE  LabelsAtLast'
<1>1. pool[w] \in Seq(TaskSet) /\ pool[w] # <<>> BY Types DEF NextIs
<1>2. pool'[w] = Tail(pool[w]) /\ \A v \in Slice : v # w => pool'[v] = pool[v]
  BY DEF Dequeue, TypeOK
<1> SUFFICES ASSUME NEW v \in Slice, v # Last, NEW i \in DOMAIN pool'[v]
             PROVE  pool'[v][i].kind # "label"
  BY DEF LabelsAtLast
<1>3. CASE v = w
  <2>1. \A k \in DOMAIN pool[w] : pool[w][k].kind # "label" BY <1>3 DEF LabelsAtLast
  <2> QED BY <1>1, <1>2, <1>3, <2>1, TailNoLabel
<1>4. CASE v # w BY <1>2, <1>4 DEF LabelsAtLast
<1> QED BY <1>3, <1>4

LEMMA LinkNoLabel ==
  ASSUME TypeOK, LabelsAtLast, NEW w \in Slice, NEW kind \in {"forward", "backward"},
         NEW id \in MicroIds, pool' = [pool EXCEPT ![w] = Append(@, Task(kind, id))]
  PROVE  LabelsAtLast'
<1>1. Task(kind, id) \in TaskSet /\ Task(kind, id).kind # "label" /\ pool[w] \in Seq(TaskSet)
  BY Types DEF Task, TaskSet, TaskKind
<1>2. /\ pool'[w] = Append(pool[w], Task(kind, id))
      /\ \A v \in Slice : v # w => pool'[v] = pool[v]
  BY DEF TypeOK
<1> SUFFICES ASSUME NEW v \in Slice, v # Last, NEW i \in DOMAIN pool'[v]
             PROVE  pool'[v][i].kind # "label"
  BY DEF LabelsAtLast
<1>3. CASE v = w
  <2>1. \A k \in DOMAIN pool[w] : pool[w][k].kind # "label" BY <1>3 DEF LabelsAtLast
  <2> QED BY <1>1, <1>2, <1>3, <2>1, AppendNoLabel
<1>4. CASE v # w BY <1>2, <1>4 DEF LabelsAtLast
<1> QED BY <1>3, <1>4

LEMMA LabelsAtLastNext == TypeOK /\ LabelsAtLast /\ [Next]_vars => LabelsAtLast'
<1> SUFFICES ASSUME TypeOK, LabelsAtLast, [Next]_vars PROVE LabelsAtLast'
  OBVIOUS
<1>1. CASE UNCHANGED pool BY <1>1 DEF LabelsAtLast
<1>2. CASE SendLabel
  <2>1. \A v \in Slice : v # Last => pool'[v] = pool[v] BY <1>2 DEF SendLabel, TypeOK
  <2> QED BY <2>1 DEF LabelsAtLast
<1>3. ASSUME NEW w \in Slice, ReceiveForward(w) PROVE LabelsAtLast'
  <2>1. Head(fwdLink[w]) \in MicroIds BY <1>3, HeadTailProperties DEF ReceiveForward, TypeOK
  <2> QED BY <1>3, <2>1, LinkNoLabel DEF ReceiveForward
<1>4. ASSUME NEW w \in Slice, ReceiveBackward(w) PROVE LabelsAtLast'
  <2>1. Head(bwdLink[w]) \in MicroIds BY <1>4, HeadTailProperties DEF ReceiveBackward, TypeOK
  <2> QED BY <1>4, <2>1, LinkNoLabel DEF ReceiveBackward
<1>5. ASSUME NEW w \in Slice, Compute(w) PROVE LabelsAtLast'
  BY <1>5, DequeueNoLabel DEF Compute, Forward, Backward, ForwardLast, TakeLabel
<1>6. CASE StartBatch \/ SendInput \/ FinishBatch
  BY <1>1, <1>6 DEF StartBatch, SendInput, FinishBatch
<1>7. CASE \E r \in reports : ReceiveMetrics(r) BY <1>1, <1>7 DEF ReceiveMetrics
<1> QED BY <1>1, <1>2, <1>3, <1>4, <1>5, <1>6, <1>7 DEF Next, Loop, EpochOver, vars

--------------------
(* Losses. *)

\* The micro-batches of a batch, up to one of them, are all of that batch.
LEMMA UpToMicro ==
  ASSUME NEW b \in Nat, NEW m \in 0 .. NumMicro - 1
  PROVE  \A i \in FirstMicro(b) .. FirstMicro(b) + m : BatchOf(i) = b
<1> SUFFICES ASSUME NEW i \in FirstMicro(b) .. FirstMicro(b) + m PROVE BatchOf(i) = b
  OBVIOUS
<1>1. FirstMicro(b) \in Nat BY FirstMicroNext
<1>2. i - FirstMicro(b) \in 0 .. NumMicro - 1 /\ i = FirstMicro(b) + (i - FirstMicro(b))
  BY <1>1, SizesAssumption
<1> QED BY <1>2, BatchOfMicro

\* The last slice's backward pass and the loss it reports.
LEMMA BackwardLastEnds ==
  ASSUME IInv, IInv', EndInv, batch' = batch, BackwardLast(bwdRun[Last])
  PROVE  LossesOfThisStep' /\ ReportsAreWhole'
<1> DEFINE n == Version(Last)
           m == Len(grad[Last])
           id == bwdRun[Last]
           F == FirstMicro(n)
<1>1. /\ TypeOK /\ StepsMatch(Last) /\ Last \in Slice
      /\ Accumulate(Last, id) /\ ReportLoss(id)
  BY SliceType DEF IInv, TypeInv, OrderInv, SliceInv, BackwardLast
<1>2. stepLog[Last] \in Seq(Seq(MicroIds)) /\ grad[Last] \in Seq(MicroIds) BY <1>1 DEF TypeOK
<1>3. /\ n \in Nat /\ m \in 0 .. NumMicro - 1 /\ id = F + m /\ F \in Nat /\ NumMicro \in Nat \ {0}
      /\ FirstMicro(n + 1) = F + NumMicro
  <2>1. n \in Nat /\ m \in Nat /\ m < NumMicro /\ id = F + m
    BY <1>1, <1>2 DEF StepsMatch, Version
  <2>2. F \in Nat /\ FirstMicro(n + 1) = F + NumMicro BY <2>1, FirstMicroNext
  <2> QED BY <2>1, <2>2, SizesAssumption
<1>4. lossSum = F .. id - 1 BY DEF EndInv, LossesOfThisStep
<1>5. bwdRun'[Last] = id + 1 BY <1>1 DEF Accumulate, TypeOK
<1>6. lossSum \union {id} = F .. id BY <1>3, <1>4
<1>7. IsLastMicro(id) <=> m = NumMicro - 1 BY <1>3, LastMicro
<1>8. \A i \in F .. id : BatchOf(i) = n BY <1>3, UpToMicro
<1>9. {i \in lossSum \union {id} : BatchOf(i) = BatchOf(id)} = F .. id BY <1>3, <1>6, <1>8
<1>10. CASE m = NumMicro - 1
  <2>1. Version(Last)' = n + 1
    <3>1. stepLog'[Last] = Append(stepLog[Last], Append(grad[Last], id))
      BY <1>1, <1>7, <1>10 DEF Accumulate, TypeOK
    <3> QED BY <1>2, <3>1, AppendProperties DEF Version
  <2>2. lossSum' = {} /\ reports' = reports \union {F .. id}
    BY <1>1, <1>6, <1>7, <1>9, <1>10 DEF ReportLoss
  <2>3. LossesOfThisStep'
    <3>1. FirstMicro(n + 1) .. (id + 1) - 1 = {} BY <1>3, <1>10
    <3> QED BY <1>5, <2>1, <2>2, <3>1 DEF LossesOfThisStep, FirstMicro
  <2>4. F .. id = MicrosOf(n) BY <1>3, <1>10 DEF MicrosOf
  <2>5. n = batch
    <3>1. n \in {batch, batch + 1} /\ Version(Last)' \in {batch, batch + 1} /\ batch \in Nat
      <4>1. Versions BY VersionsHold
      <4>2. Versions' BY VersionsHold, PTL
      <4> QED BY <1>1, <4>1, <4>2 DEF Versions
    <3> QED BY <1>3, <2>1, <3>1
  <2>6. ReportsAreWhole'
    BY <1>3, <2>2, <2>4, <2>5 DEF EndInv, ReportsAreWhole, MicrosOf, FirstMicro
  <2> QED BY <2>3, <2>6
<1>11. CASE m # NumMicro - 1
  <2>1. Version(Last)' = n BY <1>1, <1>7, <1>11 DEF Accumulate, Version
  <2>2. lossSum' = F .. id /\ reports' = reports BY <1>1, <1>6, <1>7, <1>11 DEF ReportLoss
  <2>3. LossesOfThisStep' BY <1>3, <1>5, <2>1, <2>2 DEF LossesOfThisStep, FirstMicro
  <2> QED BY <2>2, <2>3 DEF EndInv, ReportsAreWhole, MicrosOf, FirstMicro
<1> QED BY <1>10, <1>11

\* A step that leaves the last slice's backward passes and the reports alone.
LEMMA LossFrame ==
  ASSUME EndInv, batch \in Nat, batch' \in {batch, batch + 1}, reports' \subseteq reports,
         lossSum' = lossSum, stepLog'[Last] = stepLog[Last], bwdRun'[Last] = bwdRun[Last]
  PROVE  LossesOfThisStep' /\ ReportsAreWhole'
<1>1. LossesOfThisStep' BY DEF EndInv, LossesOfThisStep, Version, FirstMicro
<1>2. 0 .. batch \subseteq 0 .. batch' OBVIOUS
<1> QED BY <1>1, <1>2 DEF EndInv, ReportsAreWhole, MicrosOf, FirstMicro

LEMMA EndInvNext == IInv /\ IInv' /\ EndInv /\ [Next]_vars => EndInv'
<1> SUFFICES ASSUME IInv, IInv', EndInv, [Next]_vars
             PROVE  LossesOfThisStep' /\ ReportsAreWhole'
  BY LabelsAtLastNext DEF EndInv, IInv, TypeInv
<1> USE DEF loopVars, computeVars, lossVars
<1>1. TypeOK /\ Last \in Slice /\ batch \in Nat BY SliceType, LoopTypes DEF IInv, TypeInv
<1>2. CASE Loop BY <1>1, <1>2, LossFrame DEF Loop, StartBatch, SendLabel, SendInput, FinishBatch
<1>3. CASE \E r \in reports : ReceiveMetrics(r) BY <1>1, <1>3, LossFrame DEF ReceiveMetrics
<1>4. ASSUME NEW w \in Slice, ReceiveForward(w) \/ ReceiveBackward(w) \/ Forward(w)
      PROVE  LossesOfThisStep' /\ ReportsAreWhole'
  BY <1>1, <1>4, LossFrame DEF ReceiveForward, ReceiveBackward, Forward
<1>5. ASSUME NEW w \in Slice, Backward(w) PROVE LossesOfThisStep' /\ ReportsAreWhole'
  <2>1. w # Last
    <3>1. bwdRun[w] < BwdIn(w) /\ bwdRun[w] \in Int
      BY <1>1, <1>5, BackwardTurn, Types DEF Backward
    <3> QED BY <3>1 DEF BwdIn
  <2>2. /\ batch' = batch /\ lossSum' = lossSum /\ reports' = reports
        /\ stepLog'[Last] = stepLog[Last] /\ bwdRun'[Last] = bwdRun[Last]
    BY <1>1, <1>5, <2>1 DEF Backward, Accumulate, TypeOK
  <2> QED BY <1>1, <2>2, LossFrame
<1>6. CASE ForwardLast
  <2>1. PICK taken \in Nat : LabelFirst(pool[Last], taken) /\ labels = bwdRun[Last] .. taken - 1
    BY DEF IInv, OrderInv, LabelsInOrder
  <2>2. NextId(Last) = bwdRun[Last] /\ NextId(Last) \in labels
    BY <1>6, <2>1, LabelIsThere DEF ForwardLast
  <2>3. BackwardLast(bwdRun[Last]) /\ batch' = batch BY <1>6, <2>2 DEF ForwardLast
  <2> QED BY <2>3, BackwardLastEnds
<1>7. CASE TakeLabel
  <2>1. NextId(Last) \notin outputs[Last] BY DEF IInv, OrderInv, LabelBeforeActivation
  <2> QED BY <1>1, <1>7, <2>1, LossFrame DEF TakeLabel
<1>8. CASE UNCHANGED vars BY <1>1, <1>8, LossFrame DEF vars
<1> QED BY <1>2, <1>3, <1>4, <1>5, <1>6, <1>7, <1>8 DEF Next, Compute, EpochOver

--------------------
(* Between two batches. *)

\* The slices have run what was sent, and that is the batches that are over.
LEMMA AllRun ==
  ASSUME IInv, phase = "start", NEW w \in Slice
  PROVE  /\ InputsSent = FirstMicro(batch) /\ FirstMicro(batch) \in Nat
         /\ bwdRun[w] = FirstMicro(batch) /\ fwdRun[w] = FirstMicro(batch)
<1>1. InputsSent = FirstMicro(batch) + 0 BY DEF InputsSent
<1>2. FirstMicro(batch) <= bwdRun[w] /\ bwdRun[w] <= fwdRun[w] /\ fwdRun[w] <= InputsSent
  <2>1. bwdRun[w] <= fwdRun[w] /\ fwdRun[w] <= InputsSent
    BY DEF IInv, OrderInv, SliceInv, CachesMatch, Chained
  <2> QED BY <2>1, RunOfThisBatch
<1>3. fwdRun[w] \in Nat BY Types DEF IInv, TypeInv
<1> QED BY <1>1, <1>2, <1>3, RunOfThisBatch

\* Nothing waits in a channel that has run all that was sent.
LEMMA ChannelDrained ==
  ASSUME NEW link \in Seq(Int), NEW tasks, NEW kind, NEW at \in Int,
         Channel(link, tasks, kind, at, at)
  PROVE  link = <<>> /\ \A i \in DOMAIN tasks : tasks[i].kind # kind
<1>1. Len(link) = 0 BY DEF Channel
<1>2. Queued(tasks, kind, at, at - 0) BY <1>1 DEF Channel
<1>3. at .. (at - 0) - 1 = {} OBVIOUS
<1> QED BY <1>1, <1>2, <1>3 DEF Queued

LEMMA SliceIsQuiet ==
  ASSUME IInv, EndInv, phase = "start", NEW w \in Slice
  PROVE  fwdLink[w] = <<>> /\ bwdLink[w] = <<>> /\ pool[w] = <<>> /\ outputs[w] = {} /\ grad[w] = <<>>
<1> DEFINE F == FirstMicro(batch)
<1>1. /\ TypeOK /\ FwdInOrder(w) /\ BwdInOrder(w) /\ CachesMatch(w) /\ StepsMatch(w)
      /\ F \in Int /\ bwdRun[w] = F /\ fwdRun[w] = F /\ InputsSent = F
      /\ fwdLink[w] \in Seq(Int) /\ bwdLink[w] \in Seq(Int) /\ pool[w] \in Seq(TaskSet)
  BY AllRun, Types DEF IInv, TypeInv, OrderInv, SliceInv
<1>2. FwdIn(w) = F /\ BwdIn(w) = F BY <1>1, AllRun, SliceType DEF FwdIn, BwdIn
<1>3. fwdLink[w] = <<>> /\ \A i \in DOMAIN pool[w] : pool[w][i].kind # "forward"
  BY <1>1, <1>2, ChannelDrained DEF FwdInOrder
<1>4. bwdLink[w] = <<>> /\ \A i \in DOMAIN pool[w] : pool[w][i].kind # "backward"
  BY <1>1, <1>2, ChannelDrained DEF BwdInOrder
<1>5. \A i \in DOMAIN pool[w] : pool[w][i].kind # "label"
  <2>1. CASE w = Last
    <3>1. PICK taken \in Nat :
            /\ taken <= LabelsSent /\ bwdRun[Last] <= taken
            /\ Queued(pool[Last], "label", taken, LabelsSent)
      BY DEF IInv, OrderInv, LabelsInOrder
    <3>2. LabelsSent = F /\ taken = F BY <1>1, <2>1, <3>1 DEF LabelsSent
    <3>3. F .. F - 1 = {} BY <1>1
    <3> QED BY <2>1, <3>1, <3>2, <3>3 DEF Queued
  <2>2. CASE w # Last BY <2>2 DEF EndInv, LabelsAtLast
  <2> QED BY <2>1, <2>2
<1>6. pool[w] = <<>>
  <2>1. \A i \in DOMAIN pool[w] : pool[w][i].kind \in TaskKind
    <3>1. \A i \in DOMAIN pool[w] : pool[w][i] \in TaskSet BY <1>1
    <3> QED BY <3>1 DEF TaskSet
  <2>2. DOMAIN pool[w] = {} BY <1>3, <1>4, <1>5, <2>1 DEF TaskKind
  <2>3. Len(pool[w]) = 0
    <3>1. Len(pool[w]) \in Nat /\ DOMAIN pool[w] = 1 .. Len(pool[w]) BY <1>1, LenProperties
    <3>2. 1 \notin 1 .. Len(pool[w]) BY <2>2, <3>1
    <3> QED BY <3>1, <3>2
  <2> QED BY <1>1, <2>3, EmptySeq
<1>7. outputs[w] = {} BY <1>1 DEF CachesMatch
<1>8. grad[w] = <<>>
  <2>1. grad[w] \in Seq(MicroIds) /\ bwdRun[w] = FirstMicro(Version(w)) + Len(grad[w])
    BY <1>1 DEF TypeOK, StepsMatch, Version
  <2>2. Version(w) = batch BY NoStepBetween
  <2>3. Len(grad[w]) \in Nat BY <2>1
  <2>4. F = F + Len(grad[w]) BY <1>1, <2>1, <2>2
  <2>5. Len(grad[w]) = 0 BY <1>1, <2>3, <2>4
  <2> QED BY <2>1, <2>5, EmptySeq
<1> QED BY <1>3, <1>4, <1>6, <1>7, <1>8

\* A batch that is over is over everywhere: when the training loop goes on to the
\* next one nothing of it is left in a link, a queue, a cache or a gradient of any
\* slice, and every loss reported is that of one whole batch.
THEOREM EndsWhole == Spec => []BatchesEndWhole
<1>1. IInv /\ EndInv => BatchesEndWhole
  <2> SUFFICES ASSUME IInv, EndInv, phase = "start" PROVE QuietBetweenBatches
    BY DEF BatchesEndWhole, QuietBetweenBatches, EndInv
  <2>1. \A w \in Slice : /\ fwdLink[w] = <<>> /\ bwdLink[w] = <<>>
                         /\ pool[w] = <<>> /\ outputs[w] = {} /\ grad[w] = <<>>
    BY SliceIsQuiet
  <2>2. Last \in Slice /\ Version(Last) = batch BY SliceType, NoStepBetween
  <2>3. bwdRun[Last] = FirstMicro(batch) /\ InputsSent = FirstMicro(batch) /\ FirstMicro(batch) \in Int
    BY <2>2, AllRun
  <2>4. labels = {}
    <3>1. PICK taken \in Nat : taken <= LabelsSent /\ bwdRun[Last] <= taken
                               /\ labels = bwdRun[Last] .. taken - 1
      BY DEF IInv, OrderInv, LabelsInOrder
    <3>2. LabelsSent = FirstMicro(batch) BY <2>3 DEF LabelsSent
    <3> QED BY <2>3, <3>1, <3>2
  <2>5. lossSum = {} BY <2>2, <2>3 DEF EndInv, LossesOfThisStep
  <2> QED BY <2>1, <2>4, <2>5 DEF QuietBetweenBatches
<1>2. Init => EndInv BY EndInvInit
<1>3. IInv /\ IInv' /\ EndInv /\ [Next]_vars => EndInv' BY EndInvNext
<1>4. Spec => []IInv BY Invariance
<1> QED BY <1>1, <1>2, <1>3, <1>4, PTL DEF Spec

--------------------
(***************************************************************************)
(* Tunnels (module Router).                                                *)
(***************************************************************************)

(* The inductive invariant. *)

Frames ==
  [kind : {"hello"}, addresses : SUBSET Address, call : {"none"}]
    \cup [kind : {"request", "response", "error"}, addresses : {{}}, call : Call]

Keepers ==
  [at : {"new", "top", "dial", "named", "hello", "opened", "reading", "ended"},
   tunnel : Nat, stop : BOOLEAN]

RouterTypes ==
  /\ services \subseteq Address
  /\ serve \in [Address -> [at : {"no", "added", "read", "done"}, announces : SUBSET Address]]
  /\ \A a \in Address : serve[a].announces \subseteq services
  /\ keeper \in [Keeper -> Keepers]
  /\ \A k \in Keeper : keeper[k].tunnel \in 0 .. dialed
  /\ kept \in Keeper \union {None} /\ stopped \subseteq Keeper
  /\ dialed \in Tunnel \union {0}
  /\ acked \subseteq 1 .. dialed /\ shut \subseteq 1 .. dialed /\ broken \subseteq 1 .. dialed
  /\ handling \subseteq (1 .. dialed) \X Call
  /\ far \in [Tunnel -> {"none", "open", "closed"}]
  /\ addresses \in [Tunnel -> SUBSET Address] /\ behind \subseteq Address
  /\ \A t \in Tunnel : addresses[t] \subseteq behind
  /\ routes \in [Address -> 0 .. dialed]
  /\ calls \in [Call -> [at : {"idle", "routed", "waiting", "answered", "refused",
                              "unavailable", "timedOut"},
                        to : Address \cup {"nobody"}, tunnel : 0 .. dialed]]
  /\ up \in [Tunnel -> Seq(Frames)] /\ down \in [Tunnel -> Seq(Frames)]

\* The keeper has a tunnel of its own; or its last one, and it will not dial again.
InTunnel(k) == keeper[k].at \in {"named", "hello", "opened", "reading"}
Final(k) == keeper[k].stop /\ (InTunnel(k) \/ keeper[k].at \in {"top", "ended"})

\* The tunnels that are somebody's, and those that are somebody's last.
Held == {keeper[k].tunnel : k \in {j \in Keeper : InTunnel(j) \/ Final(j)}}
Lasting == {keeper[k].tunnel : k \in {j \in Keeper : Final(j)}}

\* The stream ended: it broke, or its far end is closed.
Over(t) == t \in broken \/ far[t] = "closed"

\* A keeper's thread, its tunnel and its stop() fit.
Threads ==
  \A k \in Keeper :
    /\ keeper[k].at = "new" => keeper[k].tunnel = None /\ ~keeper[k].stop
    /\ keeper[k].at = "ended" => keeper[k].stop
    /\ InTunnel(k) => keeper[k].tunnel # None
    /\ keeper[k].at \in {"named", "hello"} => far[keeper[k].tunnel] = "none"
    /\ k \in stopped => keeper[k].stop
    /\ kept = k => keeper[k].at # "new"
    /\ keeper[k].at \in {"top", "dial"} /\ ~Final(k) /\ keeper[k].tunnel # None =>
         Over(keeper[k].tunnel)
    /\ keeper[k].at \in {"top", "dial", "ended"} /\ keeper[k].tunnel # None =>
         keeper[k].tunnel \in shut

\* No two keepers share a tunnel.
Apart ==
  \A j, k \in Keeper : keeper[j].tunnel = keeper[k].tunnel /\ keeper[k].tunnel # None => j = k

\* Tunnels are closed here because they are over or released; each is over or somebody's.
Closed ==
  /\ \A t \in shut : Over(t) \/ t \in Lasting
  /\ \A t \in 1 .. dialed : (Over(t) /\ t \in shut) \/ t \in Held

\* What is on the streams.
Streams ==
  /\ \A t \in Tunnel : t > dialed => far[t] = "none" /\ up[t] = <<>>
  /\ \A t \in Tunnel : far[t] = "none" => addresses[t] = {} /\ t \notin broken
  /\ \A t \in broken : up[t] = <<>>

\* As many ended as the bound allows, not counting the released.
Counted == Cardinality(Ended \ Lasting) <= MaxBreaks

RouterInv == RouterTypes /\ Threads /\ Apart /\ Closed /\ Streams /\ Counted

--------------------
LEMMA TunnelSizes ==
  /\ MaxBreaks \in Nat /\ MaxKeeps \in Nat /\ MaxKeeps >= 1
  /\ \A t : t \in Tunnel <=> t \in Nat /\ 1 <= t /\ t <= MaxBreaks + MaxKeeps
  /\ \A k : k \in Keeper <=> k \in Nat /\ 1 <= k /\ k <= MaxKeeps
  /\ Tunnel \subseteq Nat /\ None \notin Tunnel /\ None = 0 /\ None \notin Keeper
  /\ IsFiniteSet(Tunnel) /\ IsFiniteSet(Keeper) /\ Cardinality(Keeper) = MaxKeeps
<1>1. MaxBreaks \in Nat /\ MaxKeeps \in Nat /\ MaxKeeps >= 1 BY RouterAssumption
<1>2. IsFiniteSet(Tunnel) /\ IsFiniteSet(Keeper) /\ Cardinality(Keeper) = MaxKeeps
  BY <1>1, FS_Interval DEF Tunnel, Keeper
<1> QED BY <1>1, <1>2 DEF Tunnel, Keeper, None

\* What is dialed, numerically.
LEMMA DialedFacts ==
  ASSUME RouterTypes
  PROVE  /\ dialed \in Nat
         /\ \A t : t \in 1 .. dialed <=> t \in Nat /\ 1 <= t /\ t <= dialed
         /\ \A t \in 1 .. dialed : t \in Tunnel
         /\ \A t \in Tunnel : t > dialed \/ t \in 1 .. dialed
         /\ shut \subseteq Tunnel /\ broken \subseteq Tunnel
         /\ \A k \in Keeper : keeper[k].tunnel \in Nat
                              /\ (keeper[k].tunnel # None => keeper[k].tunnel \in 1 .. dialed)
<1>1. dialed \in Nat /\ dialed <= MaxBreaks + MaxKeeps BY TunnelSizes DEF RouterTypes
<1>2. \A t : t \in 1 .. dialed <=> t \in Nat /\ 1 <= t /\ t <= dialed BY <1>1
<1>3. \A t \in 1 .. dialed : t \in Tunnel BY <1>1, <1>2, TunnelSizes
<1>4. \A t \in Tunnel : t > dialed \/ t \in 1 .. dialed BY <1>1, <1>2, TunnelSizes
<1>5. \A k \in Keeper : keeper[k].tunnel \in Nat
                        /\ (keeper[k].tunnel # None => keeper[k].tunnel \in 1 .. dialed)
  BY <1>1, <1>2, TunnelSizes DEF RouterTypes
<1> QED BY <1>1, <1>2, <1>3, <1>4, <1>5 DEF RouterTypes

\* A stream that ended has ended by one of two ways.
LEMMA OverIsEnded ==
  ASSUME RouterTypes, NEW t \in Tunnel
  PROVE  Over(t) <=> t \in Ended
BY DEF Over, Ended

\* A frame on a queue.
LEMMA SendType ==
  ASSUME NEW q \in [Tunnel -> Seq(Frames)], NEW t, NEW f \in Frames
  PROVE  /\ Send(q, t, f) \in [Tunnel -> Seq(Frames)]
         /\ \A s \in Tunnel : s # t => Send(q, t, f)[s] = q[s]
<1>1. \A s \in Tunnel : q[s] \in Seq(Frames) /\ Append(q[s], f) \in Seq(Frames)
  BY AppendProperties
<1> QED BY <1>1 DEF Send

\* The first frame is a frame, and so are the others.
LEMMA HeadType ==
  ASSUME NEW q \in [Tunnel -> Seq(Frames)], NEW t \in Tunnel, q[t] # <<>>
  PROVE  /\ Head(q[t]) \in Frames
         /\ [q EXCEPT ![t] = Tail(@)] \in [Tunnel -> Seq(Frames)]
         /\ \A s \in Tunnel : s # t => [q EXCEPT ![t] = Tail(@)][s] = q[s]
<1>1. q[t] \in Seq(Frames) OBVIOUS
<1>2. Head(q[t]) \in Frames /\ Tail(q[t]) \in Seq(Frames) BY <1>1, HeadTailProperties
<1> QED BY <1>2

\* The frames there are.
LEMMA FrameTypes ==
  /\ \A s \in SUBSET Address : Hello(s) \in Frames
  /\ \A c \in Call : Request(c) \in Frames /\ Response(c) \in Frames /\ Error(c) \in Frames
  /\ \A f \in Frames : /\ f.addresses \subseteq Address
                       /\ f.kind # "hello" => f.call \in Call
BY DEF Frames, Hello, Request, Response, Error

\* Steps that touch no keeper and no end of a stream.
LEMMA Elsewhere ==
  ASSUME RouterInv, RouterTypes',
         UNCHANGED <<keeper, kept, stopped, dialed, shut, far, broken>>,
         \A t \in Tunnel : t \in broken \/ t > dialed => up'[t] = <<>>,
         \A t \in Tunnel : far[t] = "none" => addresses'[t] = {}
  PROVE  RouterInv'
<1>1. Threads' /\ Apart' /\ Closed'
  BY DEF RouterInv, Threads, Apart, Closed, InTunnel, Final, Held, Lasting, Over
<1>2. Streams' BY DialedFacts DEF RouterInv, Streams
<1>3. Counted' BY DEF RouterInv, Counted, Ended, Lasting, InTunnel, Final
<1> QED BY <1>1, <1>2, <1>3 DEF RouterInv

LEMMA QuietFacts ==
  ASSUME RouterInv
  PROVE  /\ \A t \in Tunnel : t \in broken \/ t > dialed => up[t] = <<>>
         /\ \A t \in Tunnel : far[t] = "none" => addresses[t] = {}
BY DEF RouterInv, Streams

LEMMA ServeInv ==
  ASSUME RouterInv, NEW a \in Address, Serve(a) \/ ReadAddresses(a)
  PROVE  RouterInv'
<1>1. RouterTypes'
  <2>1. CASE Serve(a) BY <2>1 DEF RouterInv, RouterTypes, Serve, listening
  <2>2. CASE ReadAddresses(a) BY <2>2 DEF RouterInv, RouterTypes, ReadAddresses, listening
  <2> QED BY <2>1, <2>2
<1>2. UNCHANGED <<keeper, kept, stopped, dialed, shut, far, broken, up, addresses>>
  BY DEF Serve, ReadAddresses, listening
<1> QED BY <1>1, <1>2, QuietFacts, Elsewhere

LEMMA AnnounceInv ==
  ASSUME RouterInv, NEW a \in Address, Announce(a)
  PROVE  RouterInv'
<1> DEFINE t == IF kept = None THEN None ELSE keeper[kept].tunnel
<1>1. /\ serve' = [serve EXCEPT ![a].at = "done"]
      /\ up' = IF t # None /\ t \notin shut \union broken
               THEN Send(up, t, Hello(serve[a].announces)) ELSE up
      /\ UNCHANGED <<services, keeper, kept, stopped, dialed, acked, shut, handling,
                     listening, broken, down>>
  BY DEF Announce
<1>2. Hello(serve[a].announces) \in Frames BY FrameTypes DEF RouterInv, RouterTypes
<1>3. t # None => t \in 1 .. dialed BY DialedFacts DEF RouterInv, RouterTypes
<1>4. /\ up' \in [Tunnel -> Seq(Frames)]
      /\ \A s \in Tunnel : s # t \/ t \in broken \/ t = None => up'[s] = up[s]
  <2> HIDE DEF t
  <2> QED BY <1>1, <1>2, SendType DEF RouterInv, RouterTypes
<1>5. RouterTypes'
  <2> HIDE DEF t
  <2>1. /\ serve' \in [Address -> [at : {"no", "added", "read", "done"}, announces : SUBSET Address]]
        /\ \A b \in Address : serve'[b].announces \subseteq services
    <3>1. /\ serve \in [Address -> [at : {"no", "added", "read", "done"}, announces : SUBSET Address]]
          /\ \A b \in Address : serve[b].announces \subseteq services
      BY DEF RouterInv, RouterTypes
    <3>2. \A b \in Address : serve'[b].announces = serve[b].announces BY <1>1, <3>1
    <3> QED BY <1>1, <3>1, <3>2
  <2> QED BY <1>1, <1>4, <2>1 DEF RouterInv, RouterTypes, listening
<1>6. \A s \in Tunnel : s \in broken \/ s > dialed => up'[s] = <<>>
  <2> HIDE DEF t
  <2>1. ASSUME NEW s \in Tunnel, s \in broken \/ s > dialed PROVE up'[s] = up[s]
    BY <1>3, <1>4, <2>1, DialedFacts DEF RouterInv
  <2> QED BY <2>1, QuietFacts
<1> QED BY <1>1, <1>5, <1>6, QuietFacts, Elsewhere DEF listening

LEMMA AnswerInv ==
  ASSUME RouterInv, NEW t \in Tunnel, NEW c \in Call, Answer(t, c)
  PROVE  RouterInv'
<1>1. PICK frame \in Handled(c) :
        up' = IF t \in shut \union broken THEN up ELSE Send(up, t, frame)
  BY DEF Answer
<1>2. frame \in Frames BY <1>1, FrameTypes DEF Handled
<1>3. t \in 1 .. dialed BY DEF Answer, RouterInv, RouterTypes
<1>4. /\ up' \in [Tunnel -> Seq(Frames)]
      /\ \A s \in Tunnel : s # t \/ t \in broken => up'[s] = up[s]
  <2>1. up \in [Tunnel -> Seq(Frames)] BY DEF RouterInv, RouterTypes
  <2>2. CASE t \in shut \union broken BY <1>1, <2>1, <2>2
  <2>3. CASE t \notin shut \union broken BY <1>1, <1>2, <2>1, <2>3, SendType
  <2> QED BY <2>2, <2>3
<1>5. RouterTypes' BY <1>4 DEF RouterInv, RouterTypes, listening, Answer
<1>6. \A s \in Tunnel : s \in broken \/ s > dialed => up'[s] = <<>>
  <2>1. ASSUME NEW s \in Tunnel, s \in broken \/ s > dialed PROVE up'[s] = up[s]
    <3>1. s > dialed => s # t BY <1>3, DialedFacts DEF RouterInv
    <3> QED BY <1>4, <2>1, <3>1
  <2> QED BY <2>1, QuietFacts
<1> QED BY <1>5, <1>6, QuietFacts, Elsewhere DEF listening, Answer

LEMMA ReadFrameInv ==
  ASSUME RouterInv, NEW k \in Keeper, ReadFrame(k)
  PROVE  RouterInv'
<1> DEFINE t == keeper[k].tunnel
           frame == Head(down[t])
<1>1. /\ keeper[k].at = "reading" /\ t \notin shut
      /\ down[t] # <<>>
      /\ down' = [down EXCEPT ![t] = Tail(@)]
      /\ IF frame.kind = "hello"
         THEN acked' = acked \union {t} /\ UNCHANGED handling
         ELSE handling' = handling \union {<<t, frame.call>>} /\ UNCHANGED acked
      /\ UNCHANGED <<services, serve, keeper, kept, stopped, dialed, shut, listening, broken, up>>
  BY DEF ReadFrame
<1>2. t \in 1 .. dialed /\ t \in Tunnel BY <1>1, DialedFacts DEF RouterInv, Threads, InTunnel
<1>3. frame \in Frames /\ down' \in [Tunnel -> Seq(Frames)]
  <2> HIDE DEF t
  <2> QED BY <1>1, <1>2, HeadType DEF RouterInv, RouterTypes
<1>4. acked' \subseteq 1 .. dialed /\ handling' \subseteq (1 .. dialed) \X Call
  <2>1. frame.kind # "hello" => frame.call \in Call BY <1>3, FrameTypes
  <2>2. acked \subseteq 1 .. dialed /\ handling \subseteq (1 .. dialed) \X Call
    BY DEF RouterInv, RouterTypes
  <2> HIDE DEF t, frame
  <2>3. CASE frame.kind = "hello" BY <1>1, <1>2, <2>2, <2>3
  <2>4. CASE frame.kind # "hello"
    <3>1. <<t, frame.call>> \in (1 .. dialed) \X Call BY <1>2, <2>1, <2>4
    <3> QED BY <1>1, <2>2, <2>4, <3>1
  <2> QED BY <2>3, <2>4
<1>5. RouterTypes'
  <2> HIDE DEF t, frame
  <2> QED BY <1>1, <1>3, <1>4 DEF RouterInv, RouterTypes, listening
<1> QED BY <1>1, <1>5, QuietFacts, Elsewhere DEF listening

\* A frame that is handled came on an open stream of a tunnel that was dialed.
LEMMA ReceivedFacts ==
  ASSUME RouterInv, NEW t \in Tunnel, far[t] = "open", up[t] # <<>>
  PROVE  /\ t \in 1 .. dialed /\ t \notin broken
         /\ Head(up[t]) \in Frames
         /\ [up EXCEPT ![t] = Tail(@)] \in [Tunnel -> Seq(Frames)]
         /\ \A s \in Tunnel : s \in broken \/ s > dialed => [up EXCEPT ![t] = Tail(@)][s] = <<>>
<1>1. t \in 1 .. dialed /\ t \notin broken BY DialedFacts DEF RouterInv, Streams
<1>2. /\ Head(up[t]) \in Frames
      /\ [up EXCEPT ![t] = Tail(@)] \in [Tunnel -> Seq(Frames)]
      /\ \A s \in Tunnel : s # t => [up EXCEPT ![t] = Tail(@)][s] = up[s]
  BY HeadType DEF RouterInv, RouterTypes
<1>3. \A s \in Tunnel : s \in broken \/ s > dialed => s # t BY <1>1, DialedFacts DEF RouterInv
<1> QED BY <1>1, <1>2, <1>3, QuietFacts

LEMMA ReadHelloInv ==
  ASSUME RouterInv, NEW t \in Tunnel, ReadHello(t)
  PROVE  RouterInv'
<1> DEFINE announced == Head(up[t]).addresses
<1>1. /\ far[t] = "open" /\ up[t] # <<>>
      /\ up' = [up EXCEPT ![t] = Tail(@)]
      /\ addresses' = [addresses EXCEPT ![t] = @ \union announced]
      /\ routes' = [a \in Address |-> IF a \in announced THEN t ELSE routes[a]]
      /\ behind' = behind \union announced
      /\ down' = IF t \in broken \union shut THEN down ELSE Send(down, t, Hello({}))
      /\ UNCHANGED <<dialing, far, calls, broken>>
  BY DEF ReadHello, Received
<1>2. announced \subseteq Address /\ t \in 1 .. dialed BY <1>1, ReceivedFacts, FrameTypes
<1>3. down' \in [Tunnel -> Seq(Frames)] BY <1>1, FrameTypes, SendType DEF RouterInv, RouterTypes
<1>4. up' \in [Tunnel -> Seq(Frames)] BY <1>1, ReceivedFacts
<1> HIDE DEF announced
<1>5. /\ addresses' \in [Tunnel -> SUBSET Address] /\ behind' \subseteq Address
      /\ \A s \in Tunnel : addresses'[s] \subseteq behind'
      /\ routes' \in [Address -> 0 .. dialed]
      /\ \A s \in Tunnel : s # t => addresses'[s] = addresses[s]
  <2>1. t \in 0 .. dialed BY <1>2, DialedFacts DEF RouterInv
  <2> QED BY <1>1, <1>2, <2>1 DEF RouterInv, RouterTypes
<1>6. RouterTypes' BY <1>1, <1>3, <1>4, <1>5 DEF RouterInv, RouterTypes, dialing
<1>7. \A s \in Tunnel : far[s] = "none" => addresses'[s] = {} BY <1>1, <1>5, QuietFacts
<1> QED BY <1>1, <1>6, <1>7, ReceivedFacts, Elsewhere DEF dialing

LEMMA ReadResponseInv ==
  ASSUME RouterInv, NEW t \in Tunnel, ReadResponse(t)
  PROVE  RouterInv'
<1> DEFINE c == Head(up[t]).call
           got == IF Head(up[t]).kind = "response" THEN "answered" ELSE "refused"
<1>1. /\ far[t] = "open" /\ up[t] # <<>>
      /\ up' = [up EXCEPT ![t] = Tail(@)]
      /\ calls' = IF calls[c].at = "waiting" THEN [calls EXCEPT ![c].at = got] ELSE calls
      /\ UNCHANGED <<dialing, far, addresses, routes, behind, broken, down>>
  BY DEF ReadResponse, Received
<1>2. calls' \in [Call -> [at : {"idle", "routed", "waiting", "answered", "refused",
                                "unavailable", "timedOut"},
                          to : Address \cup {"nobody"}, tunnel : 0 .. dialed]]
  <2>1. got \in {"answered", "refused"} OBVIOUS
  <2> HIDE DEF c, got
  <2> QED BY <1>1, <2>1 DEF RouterInv, RouterTypes
<1>3. RouterTypes'
  <2> HIDE DEF c, got
  <2> QED BY <1>1, <1>2, ReceivedFacts DEF RouterInv, RouterTypes, dialing
<1> QED BY <1>1, <1>3, ReceivedFacts, QuietFacts, Elsewhere DEF dialing

LEMMA RouteInv ==
  ASSUME RouterInv, NEW c \in Call, Route(c)
  PROVE  RouterInv'
<1>1. PICK a \in behind :
        calls' = [calls EXCEPT ![c] = [at |-> IF _route(a) # None THEN "routed" ELSE "unavailable",
                                       to |-> a, tunnel |-> _route(a)]]
  BY DEF Route
<1>2. a \in Address /\ _route(a) \in 0 .. dialed
  <2>1. a \in Address /\ routes[a] \in 0 .. dialed BY <1>1 DEF RouterInv, RouterTypes
  <2>2. None \in 0 .. dialed BY DialedFacts DEF RouterInv, None
  <2> QED BY <2>1, <2>2 DEF _route
<1>3. RouterTypes' BY <1>1, <1>2 DEF RouterInv, RouterTypes, Route, dialing
<1> QED BY <1>3, QuietFacts, Elsewhere DEF Route, dialing

LEMMA StartCallInv ==
  ASSUME RouterInv, NEW c \in Call, StartCall(c)
  PROVE  RouterInv'
<1> DEFINE t == calls[c].tunnel
<1>1. /\ calls' \in {[calls EXCEPT ![c].at = "unavailable"], [calls EXCEPT ![c].at = "waiting"]}
      /\ down' = down \/ down' = Send(down, t, Request(c))
      /\ UNCHANGED <<dialing, far, addresses, routes, behind, broken, up>>
  BY DEF StartCall
<1>2. down' \in [Tunnel -> Seq(Frames)]
  <2>1. down \in [Tunnel -> Seq(Frames)] /\ Request(c) \in Frames
    BY FrameTypes DEF RouterInv, RouterTypes
  <2>2. Send(down, t, Request(c)) \in [Tunnel -> Seq(Frames)] BY <2>1, SendType
  <2> QED BY <1>1, <2>1, <2>2
<1>3. RouterTypes'
  <2> HIDE DEF t
  <2>1. calls' \in [Call -> [at : {"idle", "routed", "waiting", "answered", "refused",
                                  "unavailable", "timedOut"},
                            to : Address \cup {"nobody"}, tunnel : 0 .. dialed]]
    <3>1. calls \in [Call -> [at : {"idle", "routed", "waiting", "answered", "refused",
                                  "unavailable", "timedOut"},
                              to : Address \cup {"nobody"}, tunnel : 0 .. dialed]]
      BY DEF RouterInv, RouterTypes
    <3>2. PICK at \in {"unavailable", "waiting"} : calls' = [calls EXCEPT ![c].at = at] BY <1>1
    <3> QED BY <3>1, <3>2
  <2> QED BY <1>1, <1>2, <2>1 DEF RouterInv, RouterTypes, dialing
<1> QED BY <1>1, <1>3, QuietFacts, Elsewhere DEF dialing

LEMMA TimeOutInv ==
  ASSUME RouterInv, NEW c \in Call, TimeOut(c)
  PROVE  RouterInv'
<1>1. RouterTypes' BY DEF RouterInv, RouterTypes, dialing, TimeOut
<1> QED BY <1>1, QuietFacts, Elsewhere DEF dialing, TimeOut

--------------------
(* The keepers. *)

LEMMA EndedFinite ==
  ASSUME RouterTypes
  PROVE  Ended \subseteq Tunnel /\ IsFiniteSet(Ended) /\ Cardinality(Ended) \in Nat
<1>1. Ended \subseteq Tunnel BY DialedFacts DEF Ended
<1> QED BY <1>1, TunnelSizes, FS_Subset, FS_CardinalityType

\* The count of ended streams does not grow with the released.
LEMMA StillCounted ==
  ASSUME RouterInv, (Ended \ Lasting)' \subseteq Ended \ Lasting
  PROVE  Counted'
<1>1. IsFiniteSet(Ended \ Lasting) /\ Cardinality(Ended \ Lasting) \in Nat
  <2>1. IsFiniteSet(Ended) BY EndedFinite DEF RouterInv
  <2> QED BY <2>1, FS_Subset, FS_CardinalityType
<1>2. IsFiniteSet((Ended \ Lasting)') /\ Cardinality((Ended \ Lasting)') <= Cardinality(Ended \ Lasting)
  BY <1>1, FS_Subset
<1>3. Cardinality((Ended \ Lasting)') \in Nat BY <1>2, FS_CardinalityType
<1> QED BY <1>1, <1>2, <1>3, TunnelSizes DEF RouterInv, Counted

\* One more stream ends, within the bound.
LEMMA OneMoreCounted ==
  ASSUME RouterInv, NEW t \in Tunnel, Cardinality(Ended) < MaxBreaks, Ended' \subseteq Ended \cup {t}
  PROVE  Counted'
<1>1. IsFiniteSet(Ended) /\ Cardinality(Ended) \in Nat BY EndedFinite DEF RouterInv
<1>2. IsFiniteSet(Ended \cup {t}) /\ Cardinality(Ended \cup {t}) <= Cardinality(Ended) + 1
  <2>1. /\ IsFiniteSet(Ended \cup {t})
        /\ Cardinality(Ended \cup {t}) = IF t \in Ended THEN Cardinality(Ended) ELSE Cardinality(Ended) + 1
    BY <1>1, FS_AddElement
  <2> QED BY <1>1, <2>1
<1>3. /\ IsFiniteSet((Ended \ Lasting)')
      /\ Cardinality((Ended \ Lasting)') <= Cardinality(Ended \cup {t})
  BY <1>2, FS_Subset
<1>4. Cardinality((Ended \ Lasting)') \in Nat /\ Cardinality(Ended \cup {t}) \in Nat
  BY <1>2, <1>3, FS_CardinalityType
<1> QED BY <1>1, <1>2, <1>3, <1>4, TunnelSizes DEF Counted

\* A thread goes on; all else of the keepers stays.
LEMMA GotoFacts ==
  ASSUME RouterInv, NEW k \in Keeper, NEW at, Goto(k, at),
         at \in {"top", "dial", "named", "hello", "opened", "reading", "ended"}
  PROVE  /\ keeper' \in [Keeper -> Keepers]
         /\ keeper'[k].at = at
         /\ \A j \in Keeper : /\ j # k => keeper'[j] = keeper[j]
                              /\ keeper'[j].tunnel = keeper[j].tunnel
                              /\ keeper'[j].stop = keeper[j].stop
<1>1. keeper \in [Keeper -> Keepers] BY DEF RouterInv, RouterTypes
<1>2. keeper' = [keeper EXCEPT ![k].at = at] BY DEF Goto
<1>3. keeper[k] \in Keepers /\ keeper'[k] = [keeper[k] EXCEPT !.at = at] BY <1>1, <1>2
<1>4. keeper'[k] \in Keepers /\ keeper'[k].at = at /\ keeper'[k].tunnel = keeper[k].tunnel
      /\ keeper'[k].stop = keeper[k].stop
  BY <1>3 DEF Keepers
<1>5. \A j \in Keeper : j # k => keeper'[j] = keeper[j] BY <1>1, <1>2
<1> QED BY <1>1, <1>2, <1>4, <1>5

\* A keeper that has its last tunnel keeps it.
LEMMA LastStays ==
  ASSUME \A j \in Keeper : Final(j) => Final(j)' /\ keeper'[j].tunnel = keeper[j].tunnel
  PROVE  Lasting \subseteq Lasting'
BY DEF Lasting

LEMMA HeldStays ==
  ASSUME \A j \in Keeper : InTunnel(j) \/ Final(j) =>
           (InTunnel(j) \/ Final(j))' /\ keeper'[j].tunnel = keeper[j].tunnel
  PROVE  Held \subseteq Held'
BY DEF Held

LEMMA KeeperTopInv ==
  ASSUME RouterInv, NEW k \in Keeper, KeeperTop(k)
  PROVE  RouterInv'
<1> DEFINE at == IF keeper[k].stop THEN "ended" ELSE "dial"
<1>1. /\ keeper[k].at = "top" /\ Goto(k, at)
      /\ UNCHANGED <<services, serve, kept, stopped, dialed, acked, shut, handling,
                     listening, broken, up, down>>
  BY DEF KeeperTop
<1>2. /\ keeper' \in [Keeper -> Keepers]
      /\ keeper'[k].at = at
      /\ \A j \in Keeper : /\ j # k => keeper'[j] = keeper[j]
                           /\ keeper'[j].tunnel = keeper[j].tunnel
                           /\ keeper'[j].stop = keeper[j].stop
  BY <1>1, GotoFacts
<1>3. RouterTypes' BY <1>1, <1>2 DEF RouterInv, RouterTypes, listening
<1>4. Threads' BY <1>1, <1>2 DEF RouterInv, Threads, InTunnel, Final, Over, listening
<1>5. Apart' BY <1>2 DEF RouterInv, Apart
<1>6. Lasting \subseteq Lasting' /\ Held \subseteq Held'
  <2>1. \A j \in Keeper : (Final(j) => Final(j)') /\ (InTunnel(j) \/ Final(j) => (InTunnel(j) \/ Final(j))')
    BY <1>1, <1>2 DEF InTunnel, Final
  <2> QED BY <1>2, <2>1, LastStays, HeldStays
<1>7. Closed' BY <1>1, <1>6 DEF RouterInv, Closed, Over, listening
<1>8. Streams' BY <1>1 DEF RouterInv, Streams, listening
<1>9. Counted' BY <1>1, <1>6, StillCounted DEF Ended, listening
<1> QED BY <1>3, <1>4, <1>5, <1>7, <1>8, <1>9 DEF RouterInv

LEMMA SendHelloInv ==
  ASSUME RouterInv, NEW k \in Keeper, SendHello(k)
  PROVE  RouterInv'
<1> DEFINE t == keeper[k].tunnel
<1>1. /\ keeper[k].at = "named" /\ Goto(k, "hello")
      /\ up' = IF t \in shut THEN up ELSE Send(up, t, Hello(services))
      /\ UNCHANGED <<services, serve, kept, stopped, dialed, acked, shut, handling, listening,
                     broken, down>>
  BY DEF SendHello
<1>2. /\ keeper' \in [Keeper -> Keepers]
      /\ keeper'[k].at = "hello"
      /\ \A j \in Keeper : /\ j # k => keeper'[j] = keeper[j]
                           /\ keeper'[j].tunnel = keeper[j].tunnel
                           /\ keeper'[j].stop = keeper[j].stop
  BY <1>1, GotoFacts
<1>3. t \in 1 .. dialed /\ t \in Tunnel /\ t \notin broken
  BY <1>1, DialedFacts DEF RouterInv, Threads, InTunnel, Streams
<1>4. up' \in [Tunnel -> Seq(Frames)] /\ \A s \in Tunnel : s # t => up'[s] = up[s]
  <2>1. up \in [Tunnel -> Seq(Frames)] /\ Hello(services) \in Frames
    BY FrameTypes DEF RouterInv, RouterTypes
  <2>2. /\ Send(up, t, Hello(services)) \in [Tunnel -> Seq(Frames)]
        /\ \A s \in Tunnel : s # t => Send(up, t, Hello(services))[s] = up[s]
    BY <2>1, SendType
  <2> QED BY <1>1, <2>1, <2>2
<1>5. RouterTypes' BY <1>1, <1>2, <1>4 DEF RouterInv, RouterTypes, listening
<1>6. Threads' BY <1>1, <1>2 DEF RouterInv, Threads, InTunnel, Final, Over, listening
<1>7. Apart' BY <1>2 DEF RouterInv, Apart
<1>8. Lasting \subseteq Lasting' /\ Held \subseteq Held'
  <2>1. \A j \in Keeper : (Final(j) => Final(j)') /\ (InTunnel(j) \/ Final(j) => (InTunnel(j) \/ Final(j))')
    BY <1>1, <1>2 DEF InTunnel, Final
  <2> QED BY <1>2, <2>1, LastStays, HeldStays
<1>9. Closed' BY <1>1, <1>8 DEF RouterInv, Closed, Over, listening
<1>10. Streams'
  <2>1. \A s \in Tunnel : s > dialed \/ s \in broken => s # t BY <1>3, DialedFacts DEF RouterInv
  <2> HIDE DEF t
  <2> QED BY <1>1, <1>4, <2>1, DialedFacts DEF RouterInv, Streams, listening
<1>11. Counted' BY <1>1, <1>8, StillCounted DEF Ended, listening
<1> QED BY <1>5, <1>6, <1>7, <1>9, <1>10, <1>11 DEF RouterInv

LEMMA OpenStreamInv ==
  ASSUME RouterInv, NEW k \in Keeper, OpenStream(k)
  PROVE  RouterInv'
<1> DEFINE t == keeper[k].tunnel
<1>1. /\ keeper[k].at = "hello" /\ Goto(k, "opened")
      /\ far' = [far EXCEPT ![t] = "open"]
      /\ UNCHANGED <<services, serve, kept, stopped, dialed, acked, shut, handling,
                     addresses, routes, behind, calls, broken, up, down>>
  BY DEF OpenStream
<1>2. /\ keeper' \in [Keeper -> Keepers]
      /\ keeper'[k].at = "opened"
      /\ \A j \in Keeper : /\ j # k => keeper'[j] = keeper[j]
                           /\ keeper'[j].tunnel = keeper[j].tunnel
                           /\ keeper'[j].stop = keeper[j].stop
  BY <1>1, GotoFacts
<1>3. t \in 1 .. dialed /\ t \in Tunnel /\ far[t] = "none"
  BY <1>1, DialedFacts DEF RouterInv, Threads, InTunnel
<1>4. /\ far' \in [Tunnel -> {"none", "open", "closed"}]
      /\ far'[t] = "open" /\ \A s \in Tunnel : s # t => far'[s] = far[s]
  <2>1. far \in [Tunnel -> {"none", "open", "closed"}] BY DEF RouterInv, RouterTypes
  <2> HIDE DEF t
  <2> QED BY <1>1, <1>3, <2>1
<1>5. \A s \in Tunnel : Over(s)' <=> Over(s)
  <2> HIDE DEF t
  <2> QED BY <1>1, <1>3, <1>4 DEF Over
<1>6. RouterTypes'
  <2> HIDE DEF t
  <2> QED BY <1>1, <1>2, <1>4 DEF RouterInv, RouterTypes
<1>7. \A j \in Keeper : j # k /\ keeper[j].tunnel # None => keeper[j].tunnel \in Tunnel /\ keeper[j].tunnel # t
  BY <1>3, DialedFacts DEF RouterInv, Apart
<1>8. Threads'
  <2> SUFFICES ASSUME NEW j \in Keeper PROVE
        /\ keeper'[j].at = "new" => keeper'[j].tunnel = None /\ ~keeper'[j].stop
        /\ keeper'[j].at = "ended" => keeper'[j].stop
        /\ InTunnel(j)' => keeper'[j].tunnel # None
        /\ keeper'[j].at \in {"named", "hello"} => far'[keeper'[j].tunnel] = "none"
        /\ j \in stopped' => keeper'[j].stop
        /\ kept' = j => keeper'[j].at # "new"
        /\ keeper'[j].at \in {"top", "dial"} /\ ~Final(j)' /\ keeper'[j].tunnel # None =>
             Over(keeper[j].tunnel)'
        /\ keeper'[j].at \in {"top", "dial", "ended"} /\ keeper'[j].tunnel # None =>
             keeper'[j].tunnel \in shut'
    BY DEF Threads
  <2>1. CASE j = k BY <1>1, <1>2, <1>3, <2>1, TunnelSizes DEF RouterInv, Threads, InTunnel
  <2>2. CASE j # k
    <3>1. UNCHANGED <<keeper[j], shut, stopped, kept>> BY <1>1, <1>2, <2>2
    <3> HIDE DEF t
    <3>2. keeper[j].tunnel # None => far'[keeper[j].tunnel] = far[keeper[j].tunnel]
                                     /\ (Over(keeper[j].tunnel)' <=> Over(keeper[j].tunnel))
      BY <1>4, <1>5, <1>7, <2>2, <3>1
    <3> QED BY <3>1, <3>2 DEF RouterInv, Threads, InTunnel, Final
  <2> QED BY <2>1, <2>2
<1>9. Apart' BY <1>2 DEF RouterInv, Apart
<1>10. Lasting \subseteq Lasting' /\ Held \subseteq Held'
  <2>1. \A j \in Keeper : (Final(j) => Final(j)') /\ (InTunnel(j) \/ Final(j) => (InTunnel(j) \/ Final(j))')
    BY <1>1, <1>2 DEF InTunnel, Final
  <2> QED BY <1>2, <2>1, LastStays, HeldStays
<1>11. Closed' BY <1>1, <1>5, <1>10, DialedFacts DEF RouterInv, Closed
<1>12. Streams'
  <2> HIDE DEF t
  <2> QED BY <1>1, <1>3, <1>4, DialedFacts DEF RouterInv, Streams
<1>13. Counted'
  <2>1. Ended' = Ended BY <1>1, <1>3, <1>4 DEF Ended
  <2> QED BY <1>10, <2>1, StillCounted
<1> QED BY <1>6, <1>8, <1>9, <1>11, <1>12, <1>13 DEF RouterInv

LEMMA CheckStopInv ==
  ASSUME RouterInv, NEW k \in Keeper, CheckStop(k)
  PROVE  RouterInv'
<1> DEFINE t == keeper[k].tunnel
<1>1. /\ keeper[k].at = "opened" /\ Goto(k, "reading")
      /\ shut' = IF keeper[k].stop THEN shut \union {t} ELSE shut
      /\ UNCHANGED <<services, serve, kept, stopped, dialed, acked, handling, listening,
                     broken, up, down>>
  BY DEF CheckStop
<1>2. /\ keeper' \in [Keeper -> Keepers]
      /\ keeper'[k].at = "reading"
      /\ \A j \in Keeper : /\ j # k => keeper'[j] = keeper[j]
                           /\ keeper'[j].tunnel = keeper[j].tunnel
                           /\ keeper'[j].stop = keeper[j].stop
  BY <1>1, GotoFacts
<1>3. t \in 1 .. dialed BY <1>1, DialedFacts DEF RouterInv, Threads, InTunnel
<1>4. RouterTypes' BY <1>1, <1>2, <1>3 DEF RouterInv, RouterTypes, listening
<1>5. Threads' BY <1>1, <1>2 DEF RouterInv, Threads, InTunnel, Final, Over, listening
<1>6. Apart' BY <1>2 DEF RouterInv, Apart
<1>7. Lasting \subseteq Lasting' /\ Held \subseteq Held'
  <2>1. \A j \in Keeper : (Final(j) => Final(j)') /\ (InTunnel(j) \/ Final(j) => (InTunnel(j) \/ Final(j))')
    BY <1>1, <1>2 DEF InTunnel, Final
  <2> QED BY <1>2, <2>1, LastStays, HeldStays
<1>8. Closed'
  <2>1. keeper[k].stop => t \in Lasting' BY <1>2 DEF Lasting, Final, InTunnel
  <2>2. \A s : Over(s)' <=> Over(s) BY <1>1 DEF Over, listening
  <2> QED BY <1>1, <1>7, <2>1, <2>2 DEF RouterInv, Closed
<1>9. Streams' BY <1>1 DEF RouterInv, Streams, listening
<1>10. Counted' BY <1>1, <1>7, StillCounted DEF Ended, listening
<1> QED BY <1>4, <1>5, <1>6, <1>8, <1>9, <1>10 DEF RouterInv

\* A stream that ended while its keeper is not released is over.
LEMMA EndsOver ==
  ASSUME RouterInv, NEW k \in Keeper, keeper[k].tunnel # None, ~Final(k),
         keeper[k].tunnel \in broken \union shut \/ far[keeper[k].tunnel] = "closed"
  PROVE  Over(keeper[k].tunnel)
<1>1. keeper[k].tunnel \notin Lasting BY DEF RouterInv, Apart, Lasting
<1> QED BY <1>1 DEF RouterInv, Closed, Over

LEMMA ReadEndsInv ==
  ASSUME RouterInv, NEW k \in Keeper, ReadEnds(k)
  PROVE  RouterInv'
<1> DEFINE t == keeper[k].tunnel
<1>1. /\ keeper[k].at = "reading" /\ Goto(k, "top")
      /\ t \in broken \union shut \/ far[t] = "closed"
      /\ shut' = shut \union {t}
      /\ UNCHANGED <<services, serve, kept, stopped, dialed, acked, handling, listening,
                     broken, up, down>>
  BY DEF ReadEnds
<1>2. /\ keeper' \in [Keeper -> Keepers]
      /\ keeper'[k].at = "top"
      /\ \A j \in Keeper : /\ j # k => keeper'[j] = keeper[j]
                           /\ keeper'[j].tunnel = keeper[j].tunnel
                           /\ keeper'[j].stop = keeper[j].stop
  BY <1>1, GotoFacts
<1>3. t \in 1 .. dialed /\ t # None BY <1>1, DialedFacts DEF RouterInv, Threads, InTunnel
<1>4. Over(t) \/ Final(k)'
  <2>1. CASE keeper[k].stop BY <1>2, <2>1 DEF Final, InTunnel
  <2>2. CASE ~keeper[k].stop BY <1>1, <1>3, <2>2, EndsOver DEF Final
  <2> QED BY <2>1, <2>2
<1>5. RouterTypes' BY <1>1, <1>2, <1>3 DEF RouterInv, RouterTypes, listening
<1>6. \A s : Over(s)' <=> Over(s) BY <1>1 DEF Over, listening
<1>7. Threads' BY <1>1, <1>2, <1>4, <1>6 DEF RouterInv, Threads, InTunnel, Final, listening
<1>8. Apart' BY <1>2 DEF RouterInv, Apart
<1>9. Lasting \subseteq Lasting'
  <2>1. \A j \in Keeper : Final(j) => Final(j)' BY <1>1, <1>2 DEF InTunnel, Final
  <2> QED BY <1>2, <2>1, LastStays
<1>10. Held \subseteq Held' \cup {t} /\ (Final(k)' => t \in Lasting' /\ t \in Held')
  BY <1>2 DEF Held, Lasting, InTunnel, Final
<1>11. Closed' BY <1>1, <1>4, <1>6, <1>9, <1>10 DEF RouterInv, Closed
<1>12. Streams' BY <1>1 DEF RouterInv, Streams, listening
<1>13. Counted' BY <1>1, <1>9, StillCounted DEF Ended, listening
<1> QED BY <1>5, <1>7, <1>8, <1>11, <1>12, <1>13 DEF RouterInv

LEMMA StopClosesInv ==
  ASSUME RouterInv, NEW k \in Keeper, StopCloses(k)
  PROVE  RouterInv'
<1> DEFINE t == keeper[k].tunnel
<1>1. /\ k \in stopped /\ stopped' = stopped \ {k}
      /\ shut' = shut \union ({t} \ {None})
      /\ UNCHANGED <<services, serve, keeper, kept, dialed, acked, handling, listening,
                     broken, up, down>>
  BY DEF StopCloses
<1>2. t # None => t \in 1 .. dialed BY DialedFacts DEF RouterInv
<1>3. RouterTypes' BY <1>1, <1>2 DEF RouterInv, RouterTypes, listening
<1>4. /\ \A s : Over(s)' <=> Over(s)
      /\ \A j : (InTunnel(j)' <=> InTunnel(j)) /\ (Final(j)' <=> Final(j))
      /\ Lasting' = Lasting /\ Held' = Held
  BY <1>1 DEF Over, InTunnel, Final, Lasting, Held, listening
<1>5. Threads' BY <1>1, <1>4 DEF RouterInv, Threads, listening
<1>6. Apart' BY <1>1 DEF RouterInv, Apart
<1>7. Closed'
  <2>1. t # None => t \in shut \/ t \in Lasting
    <3>1. keeper[k].stop /\ keeper[k] \in Keepers BY <1>1 DEF RouterInv, Threads, RouterTypes
    <3>2. CASE Final(k) BY <3>2 DEF Lasting
    <3>3. CASE ~Final(k)
      <4>1. keeper[k].at \in {"new", "dial"} BY <3>1, <3>3 DEF Final, InTunnel, Keepers
      <4> QED BY <4>1 DEF RouterInv, Threads
    <3> QED BY <3>2, <3>3
  <2> HIDE DEF t
  <2> QED BY <1>1, <1>4, <2>1 DEF RouterInv, Closed
<1>8. Streams' BY <1>1 DEF RouterInv, Streams, listening
<1>9. Counted' BY <1>1, <1>4, StillCounted DEF Ended, listening
<1> QED BY <1>3, <1>5, <1>6, <1>7, <1>8, <1>9 DEF RouterInv

LEMMA KeepInv ==
  ASSUME RouterInv, Keep
  PROVE  RouterInv'
<1>1. PICK k \in Keeper : /\ keeper[k].at = "new" /\ kept' = k
                          /\ keeper' = [keeper EXCEPT ![k].at = "top"]
  BY DEF Keep
<1>2. UNCHANGED <<services, serve, stopped, dialed, acked, shut, handling, listening, broken, up, down>>
  BY DEF Keep
<1>3. /\ keeper' \in [Keeper -> Keepers]
      /\ keeper'[k].at = "top"
      /\ \A j \in Keeper : /\ j # k => keeper'[j] = keeper[j]
                           /\ keeper'[j].tunnel = keeper[j].tunnel
                           /\ keeper'[j].stop = keeper[j].stop
  BY <1>1, GotoFacts DEF Goto
<1>4. RouterTypes' BY <1>1, <1>2, <1>3 DEF RouterInv, RouterTypes, listening
<1>5. keeper[k].tunnel = None BY <1>1 DEF RouterInv, Threads
<1>6. \A s : Over(s)' <=> Over(s) BY <1>2 DEF Over, listening
<1>7. Threads'
  BY <1>1, <1>2, <1>3, <1>5, <1>6 DEF RouterInv, Threads, InTunnel, Final, listening
<1>8. Apart' BY <1>3 DEF RouterInv, Apart
<1>9. Lasting \subseteq Lasting' /\ Held \subseteq Held'
  <2>1. \A j \in Keeper : (Final(j) => Final(j)') /\ (InTunnel(j) \/ Final(j) => (InTunnel(j) \/ Final(j))')
    BY <1>1, <1>3 DEF InTunnel, Final
  <2> QED BY <1>3, <2>1, LastStays, HeldStays
<1>10. Closed' BY <1>2, <1>6, <1>9 DEF RouterInv, Closed
<1>11. Streams' BY <1>2 DEF RouterInv, Streams, listening
<1>12. Counted' BY <1>2, <1>9, StillCounted DEF Ended, listening
<1> QED BY <1>4, <1>7, <1>8, <1>10, <1>11, <1>12 DEF RouterInv

LEMMA ReleaseInv ==
  ASSUME RouterInv, Release
  PROVE  RouterInv'
<1> DEFINE k == kept
<1>1. /\ k # None /\ k \in Keeper
      /\ keeper' = [keeper EXCEPT ![k].stop = TRUE]
      /\ stopped' = stopped \union {k} /\ kept' = None
      /\ UNCHANGED <<services, serve, dialed, acked, shut, handling, listening, broken, up, down>>
  BY DEF Release, RouterInv, RouterTypes
<1>2. keeper[k].at # "new" BY <1>1 DEF RouterInv, Threads
<1> HIDE DEF k
<1>3. /\ keeper' \in [Keeper -> Keepers]
      /\ keeper'[k].stop
      /\ \A j \in Keeper : /\ j # k => keeper'[j] = keeper[j]
                           /\ keeper'[j].tunnel = keeper[j].tunnel
                           /\ keeper'[j].at = keeper[j].at
  <2>1. keeper \in [Keeper -> Keepers] BY DEF RouterInv, RouterTypes
  <2>2. keeper[k] \in Keepers /\ keeper'[k] = [keeper[k] EXCEPT !.stop = TRUE] BY <1>1, <2>1
  <2>3. keeper'[k] \in Keepers /\ keeper'[k].stop /\ keeper'[k].tunnel = keeper[k].tunnel
        /\ keeper'[k].at = keeper[k].at
    BY <2>2 DEF Keepers
  <2> QED BY <1>1, <2>1, <2>3
<1>4. RouterTypes' BY <1>1, <1>3 DEF RouterInv, RouterTypes, listening
<1>5. \A s : Over(s)' <=> Over(s) BY <1>1 DEF Over, listening
<1>6. Threads'
  BY <1>1, <1>2, <1>3, <1>5, TunnelSizes DEF RouterInv, Threads, InTunnel, Final, listening
<1>7. Apart' BY <1>3 DEF RouterInv, Apart
<1>8. Lasting \subseteq Lasting' /\ Held \subseteq Held'
  <2>1. \A j \in Keeper : (Final(j) => Final(j)') /\ (InTunnel(j) \/ Final(j) => (InTunnel(j) \/ Final(j))')
    BY <1>1, <1>3 DEF InTunnel, Final
  <2> QED BY <1>3, <2>1, LastStays, HeldStays
<1>9. Closed' BY <1>1, <1>5, <1>8 DEF RouterInv, Closed
<1>10. Streams' BY <1>1 DEF RouterInv, Streams, listening
<1>11. Counted' BY <1>1, <1>8, StillCounted DEF Ended, listening
<1> QED BY <1>4, <1>6, <1>7, <1>9, <1>10, <1>11 DEF RouterInv

\* Every tunnel but one per keeper is over, so there is room for one more.
LEMMA RoomToDial ==
  ASSUME RouterInv, NEW k \in Keeper, keeper[k].at = "dial"
  PROVE  dialed + 1 \in Tunnel
<1> DEFINE Other == Keeper \ {k}
           f == [j \in Other |-> keeper[j].tunnel]
           Theirs == {f[j] : j \in Other}
<1>1. IsFiniteSet(Other) /\ Cardinality(Other) = MaxKeeps - 1 BY TunnelSizes, FS_RemoveElement
<1>2. IsFiniteSet(Theirs) /\ Cardinality(Theirs) <= MaxKeeps - 1 /\ Cardinality(Theirs) \in Nat
  <2>1. f \in Surjection(Other, Theirs) BY DEF Surjection
  <2> HIDE DEF f, Other, Theirs
  <2>2. IsFiniteSet(Theirs) /\ Cardinality(Theirs) <= Cardinality(Other)
    BY <1>1, <2>1, FS_Surjection
  <2> QED BY <1>1, <2>2, FS_CardinalityType
<1>3. IsFiniteSet(Ended \ Lasting) /\ Cardinality(Ended \ Lasting) \in Nat /\ Cardinality(Ended \ Lasting) <= MaxBreaks
  <2>1. IsFiniteSet(Ended) BY EndedFinite DEF RouterInv
  <2> QED BY <2>1, FS_Subset, FS_CardinalityType DEF RouterInv, Counted
<1>4. 1 .. dialed \subseteq (Ended \ Lasting) \cup Theirs
  <2> SUFFICES ASSUME NEW t \in 1 .. dialed, t \notin Theirs PROVE t \in Ended \ Lasting
    OBVIOUS
  <2>1. ~InTunnel(k) /\ ~Final(k) BY DEF InTunnel, Final
  <2>2. t \notin Held /\ t \notin Lasting BY <2>1 DEF Held, Lasting
  <2>3. Over(t) /\ t \in Tunnel BY <2>2, DialedFacts DEF RouterInv, Closed
  <2> QED BY <2>2, <2>3, OverIsEnded DEF RouterInv
<1>5. dialed \in Nat /\ IsFiniteSet(1 .. dialed) /\ Cardinality(1 .. dialed) = dialed
  <2>1. dialed \in Nat BY DialedFacts DEF RouterInv
  <2> QED BY <2>1, FS_Interval
<1>6. dialed <= MaxBreaks + (MaxKeeps - 1)
  <2> HIDE DEF Theirs
  <2>1. /\ IsFiniteSet((Ended \ Lasting) \cup Theirs)
        /\ Cardinality((Ended \ Lasting) \cup Theirs) =
             Cardinality(Ended \ Lasting) + Cardinality(Theirs) - Cardinality((Ended \ Lasting) \cap Theirs)
    BY <1>2, <1>3, FS_Union
  <2>2. Cardinality((Ended \ Lasting) \cap Theirs) \in Nat
    <3>1. IsFiniteSet((Ended \ Lasting) \cap Theirs) BY <1>3, FS_Subset
    <3> QED BY <3>1, FS_CardinalityType
  <2>3. dialed <= Cardinality((Ended \ Lasting) \cup Theirs) BY <1>4, <1>5, <2>1, FS_Subset
  <2> QED BY <1>2, <1>3, <1>5, <2>1, <2>2, <2>3, TunnelSizes
<1> QED BY <1>5, <1>6, TunnelSizes

LEMMA DialInv ==
  ASSUME RouterInv, NEW k \in Keeper, Dial(k)
  PROVE  RouterInv'
<1> DEFINE t == dialed + 1
<1>1. /\ keeper[k].at = "dial" /\ dialed' = t
      /\ keeper' = [keeper EXCEPT ![k].at = "named", ![k].tunnel = t]
      /\ UNCHANGED <<services, serve, kept, stopped, acked, shut, handling, listening, broken,
                     up, down>>
  BY DEF Dial
<1>2. t \in Tunnel /\ t \in Nat /\ t # None /\ far[t] = "none" /\ t \notin 1 .. dialed
      /\ t \in 1 .. dialed' /\ 1 .. dialed' = (1 .. dialed) \cup {t} /\ 0 .. dialed \subseteq 0 .. dialed'
      /\ dialed \in Nat
  <2>1. t \in Tunnel /\ dialed \in Nat BY <1>1, RoomToDial, DialedFacts DEF RouterInv
  <2>2. far[t] = "none" BY <2>1 DEF RouterInv, Streams
  <2> QED BY <1>1, <2>1, <2>2, TunnelSizes
<1> HIDE DEF t
<1>3. /\ keeper' \in [Keeper -> Keepers]
      /\ keeper'[k].at = "named" /\ keeper'[k].tunnel = t /\ keeper'[k].stop = keeper[k].stop
      /\ \A j \in Keeper : j # k => keeper'[j] = keeper[j]
  <2>1. keeper \in [Keeper -> Keepers] BY DEF RouterInv, RouterTypes
  <2>2. keeper[k] \in Keepers /\ keeper'[k] = [keeper[k] EXCEPT !.at = "named", !.tunnel = t]
    BY <1>1, <2>1
  <2>3. keeper'[k] \in Keepers /\ keeper'[k].at = "named" /\ keeper'[k].tunnel = t
        /\ keeper'[k].stop = keeper[k].stop
    BY <1>2, <2>2 DEF Keepers
  <2> QED BY <1>1, <2>1, <2>3
<1>4. RouterTypes'
  <2>1. \A j \in Keeper : keeper'[j].tunnel \in 0 .. dialed'
    <3>1. t \in 0 .. dialed' BY <1>1, <1>2
    <3> QED BY <1>2, <1>3, <3>1 DEF RouterInv, RouterTypes
  <2>2. /\ dialed' \in Tunnel \union {0}
        /\ acked' \subseteq 1 .. dialed' /\ shut' \subseteq 1 .. dialed' /\ broken' \subseteq 1 .. dialed'
        /\ handling' \subseteq (1 .. dialed') \X Call
    BY <1>1, <1>2 DEF RouterInv, RouterTypes
  <2>3. routes' \in [Address -> 0 .. dialed']
    BY <1>1, <1>2 DEF RouterInv, RouterTypes, listening
  <2>4. calls' \in [Call -> [at : {"idle", "routed", "waiting", "answered", "refused",
                                  "unavailable", "timedOut"},
                            to : Address \cup {"nobody"}, tunnel : 0 .. dialed']]
    BY <1>1, <1>2 DEF RouterInv, RouterTypes, listening
  <2> QED BY <1>1, <1>3, <2>1, <2>2, <2>3, <2>4 DEF RouterInv, RouterTypes, listening
<1>5. \A s : Over(s)' <=> Over(s) BY <1>1 DEF Over, listening
<1>6. Threads' BY <1>1, <1>2, <1>3, <1>5 DEF RouterInv, Threads, InTunnel, Final, listening
<1>7. Apart'
  <2>1. \A j \in Keeper : j # k => keeper'[j].tunnel # t
    BY <1>2, <1>3, DialedFacts DEF RouterInv
  <2> QED BY <1>2, <1>3, <2>1 DEF RouterInv, Apart
<1>8. Lasting \subseteq Lasting' /\ Held \subseteq Held'
  <2>1. \A j \in Keeper : (Final(j) => Final(j)') /\ (InTunnel(j) \/ Final(j) => (InTunnel(j) \/ Final(j))')
    BY <1>1, <1>3 DEF InTunnel, Final
  <2>2. \A j \in Keeper : InTunnel(j) \/ Final(j) => keeper'[j].tunnel = keeper[j].tunnel
    BY <1>1, <1>3 DEF InTunnel, Final
  <2> QED BY <2>1, <2>2, LastStays, HeldStays
<1>9. Closed'
  <2>1. t \in Held' BY <1>3 DEF Held, InTunnel
  <2> QED BY <1>1, <1>2, <1>5, <1>8, <2>1 DEF RouterInv, Closed
<1>10. Streams'
  <2>1. \A s \in Tunnel : s > dialed' => s > dialed BY <1>1, <1>2, TunnelSizes DEF t
  <2> QED BY <1>1, <2>1 DEF RouterInv, Streams, listening
<1>11. Counted' BY <1>1, <1>8, StillCounted DEF Ended, listening
<1> QED BY <1>4, <1>6, <1>7, <1>9, <1>10, <1>11 DEF RouterInv

--------------------
(* Streams end. *)

\* A step that only ends a stream.
LEMMA StreamEnds ==
  ASSUME RouterInv, RouterTypes', NEW t \in Tunnel, far[t] # "none",
         UNCHANGED <<keeper, kept, stopped, dialed, shut, addresses>>,
         \/ broken' = broken \cup {t} /\ far' = far /\ up'[t] = <<>>
         \/ broken' = broken /\ far' = [far EXCEPT ![t] = "closed"] /\ up' = up,
         \A s \in Tunnel : s # t => up'[s] = up[s],
         Counted'
  PROVE  RouterInv'
<1>1. /\ far \in [Tunnel -> {"none", "open", "closed"}]
      /\ \A s \in Tunnel : s # t => far'[s] = far[s]
      /\ \A s \in Tunnel : far'[s] = "none" <=> far[s] = "none"
  BY DEF RouterInv, RouterTypes
<1>2. \A s \in Tunnel : Over(s) => Over(s)' BY DEF Over, RouterInv, RouterTypes
<1>3. /\ \A j : (InTunnel(j)' <=> InTunnel(j)) /\ (Final(j)' <=> Final(j))
      /\ Lasting' = Lasting /\ Held' = Held
  BY DEF InTunnel, Final, Lasting, Held
<1>4. \A j \in Keeper : keeper[j].tunnel # None => keeper[j].tunnel \in Tunnel
  BY DialedFacts DEF RouterInv
<1>5. Threads'
  <2> SUFFICES ASSUME NEW j \in Keeper PROVE
        /\ keeper'[j].at = "new" => keeper'[j].tunnel = None /\ ~keeper'[j].stop
        /\ keeper'[j].at = "ended" => keeper'[j].stop
        /\ InTunnel(j)' => keeper'[j].tunnel # None
        /\ keeper'[j].at \in {"named", "hello"} => far'[keeper'[j].tunnel] = "none"
        /\ j \in stopped' => keeper'[j].stop
        /\ kept' = j => keeper'[j].at # "new"
        /\ keeper'[j].at \in {"top", "dial"} /\ ~Final(j)' /\ keeper'[j].tunnel # None =>
             Over(keeper[j].tunnel)'
        /\ keeper'[j].at \in {"top", "dial", "ended"} /\ keeper'[j].tunnel # None =>
             keeper'[j].tunnel \in shut'
    BY DEF Threads
  <2>1. keeper[j].tunnel # None => (far'[keeper[j].tunnel] = "none" <=> far[keeper[j].tunnel] = "none")
                                   /\ (Over(keeper[j].tunnel) => Over(keeper[j].tunnel)')
    BY <1>1, <1>2, <1>4
  <2>2. InTunnel(j) => keeper[j].tunnel # None BY DEF RouterInv, Threads
  <2> QED BY <1>3, <2>1, <2>2 DEF RouterInv, Threads, InTunnel
<1>6. Apart' BY DEF RouterInv, Apart
<1>7. Closed' BY <1>2, <1>3, DialedFacts DEF RouterInv, Closed
<1>8. Streams' BY <1>1, DialedFacts DEF RouterInv, Streams
<1> QED BY <1>5, <1>6, <1>7, <1>8 DEF RouterInv

LEMMA BreakInv ==
  ASSUME RouterInv, NEW t \in Tunnel, Break(t)
  PROVE  RouterInv'
<1>1. t \in 1 .. dialed BY DialedFacts DEF RouterInv, Streams, Break
<1>2. /\ up' \in [Tunnel -> Seq(Frames)] /\ down' \in [Tunnel -> Seq(Frames)]
      /\ up'[t] = <<>> /\ \A s \in Tunnel : s # t => up'[s] = up[s]
  <2>1. /\ up \in [Tunnel -> Seq(Frames)] /\ down \in [Tunnel -> Seq(Frames)]
        /\ up' = [up EXCEPT ![t] = <<>>] /\ down' = [down EXCEPT ![t] = <<>>]
        /\ <<>> \in Seq(Frames)
    BY DEF RouterInv, RouterTypes, Break
  <2> QED BY <2>1
<1>3. RouterTypes' BY <1>1, <1>2 DEF RouterInv, RouterTypes, Break, dialing, listening
<1>4. Counted'
  <2>1. Ended' \subseteq Ended \cup {t} BY DEF Ended, Break, listening
  <2> QED BY <2>1, OneMoreCounted DEF Break
<1>5. /\ far[t] # "none" /\ broken' = broken \cup {t} /\ far' = far
      /\ UNCHANGED <<keeper, kept, stopped, dialed, shut, addresses>>
  BY DEF Break, dialing, listening
<1> QED BY <1>2, <1>3, <1>4, <1>5, StreamEnds

LEMMA FarClosesInv ==
  ASSUME RouterInv, NEW t \in Tunnel, CloseFar(t) \/ CloseRouter(t)
  PROVE  RouterInv'
<1>1. far[t] = "open" /\ FarCloses(t) BY DEF CloseFar, CloseRouter
<1>2. /\ routes' \in [Address -> 0 .. dialed]
      /\ calls' \in [Call -> [at : {"idle", "routed", "waiting", "answered", "refused",
                                   "unavailable", "timedOut"},
                             to : Address \cup {"nobody"}, tunnel : 0 .. dialed]]
  <2>1. None \in 0 .. dialed BY DialedFacts DEF RouterInv, None
  <2>2. routes' \in [Address -> 0 .. dialed]
    BY <1>1, <2>1 DEF FarCloses, RoutesWithout, RouterInv, RouterTypes
  <2>3. calls' \in [Call -> [at : {"idle", "routed", "waiting", "answered", "refused",
                                  "unavailable", "timedOut"},
                            to : Address \cup {"nobody"}, tunnel : 0 .. dialed]]
    <3>1. calls \in [Call -> [at : {"idle", "routed", "waiting", "answered", "refused",
                                  "unavailable", "timedOut"},
                              to : Address \cup {"nobody"}, tunnel : 0 .. dialed]]
      BY DEF RouterInv, RouterTypes
    <3>2. calls' = [c \in Call |-> IF calls[c].at = "waiting" /\ calls[c].tunnel = t
                                   THEN [calls[c] EXCEPT !.at = "unavailable"] ELSE calls[c]]
      BY <1>1 DEF FarCloses
    <3> QED BY <3>1, <3>2
  <2> QED BY <2>2, <2>3
<1>3. far' = [far EXCEPT ![t] = "closed"] /\ UNCHANGED <<dialing, addresses, behind, broken, up, down>>
  BY <1>1 DEF FarCloses
<1>4. RouterTypes' BY <1>2, <1>3 DEF RouterInv, RouterTypes, dialing
<1>5. Ended' \subseteq Ended \cup {t} BY <1>3 DEF Ended, RouterInv, RouterTypes
<1>6. Counted'
  <2>1. CASE CloseFar(t)
    <3>1. t \in Ended \/ t \in Lasting
      BY <2>1, OverIsEnded DEF CloseFar, RouterInv, Closed, Ended
    <3>2. Lasting' = Lasting BY <1>3 DEF Lasting, Final, InTunnel, dialing
    <3> QED BY <1>5, <3>1, <3>2, StillCounted
  <2>2. CASE CloseRouter(t) BY <1>5, <2>2, OneMoreCounted DEF CloseRouter
  <2> QED BY <2>1, <2>2
<1> QED BY <1>1, <1>3, <1>4, <1>6, StreamEnds DEF dialing

LEMMA RouterInvInit == RouterInit => RouterInv
<1> SUFFICES ASSUME RouterInit PROVE RouterInv
  OBVIOUS
<1>1. 0 .. dialed = {0} /\ 1 .. dialed = {} /\ None = 0 BY DEF RouterInit, None
<1>2. RouterTypes BY <1>1 DEF RouterInit, RouterTypes, Keepers
<1>3. Threads /\ Apart BY TunnelSizes DEF RouterInit, Threads, Apart, InTunnel
<1>4. Closed BY <1>1 DEF RouterInit, Closed
<1>5. Streams BY <1>1 DEF RouterInit, Streams
<1>6. Counted
  <2>1. Ended \ Lasting = {} BY <1>1 DEF RouterInit, Ended
  <2> QED BY <2>1, FS_EmptySet, TunnelSizes DEF Counted
<1> QED BY <1>2, <1>3, <1>4, <1>5, <1>6 DEF RouterInv

LEMMA RouterInvNext == RouterInv /\ [RouterNext]_routerVars => RouterInv'
<1> SUFFICES ASSUME RouterInv, [RouterNext]_routerVars PROVE RouterInv'
  OBVIOUS
<1>1. CASE UNCHANGED routerVars
  <2>1. RouterTypes' BY <1>1 DEF RouterInv, RouterTypes, routerVars, dialing, listening
  <2> QED BY <1>1, <2>1, QuietFacts, Elsewhere DEF routerVars, dialing, listening
<1>2. CASE \E a \in Address : Serve(a) \/ ServeThread(a)
  BY <1>2, ServeInv, AnnounceInv DEF ServeThread
<1>3. CASE Keep \/ Release BY <1>3, KeepInv, ReleaseInv
<1>4. CASE \E k \in Keeper : StopCloses(k) \/ KeeperThread(k)
  BY <1>4, StopClosesInv, KeeperTopInv, DialInv, SendHelloInv, OpenStreamInv, CheckStopInv,
     ReadEndsInv, ReadFrameInv DEF KeeperThread
<1>5. CASE \E t \in Tunnel, c \in Call : Answer(t, c) BY <1>5, AnswerInv
<1>6. CASE \E t \in Tunnel : Break(t) \/ FarThread(t) \/ CloseFar(t) \/ CloseRouter(t)
  BY <1>6, BreakInv, ReadHelloInv, ReadResponseInv, FarClosesInv DEF FarThread
<1>7. CASE \E c \in Call : Route(c) \/ StartCall(c) \/ TimeOut(c)
  BY <1>7, RouteInv, StartCallInv, TimeOutInv
<1> QED BY <1>1, <1>2, <1>3, <1>4, <1>5, <1>6, <1>7 DEF RouterNext

\* Types, and that no more tunnels are made than there are streams that end and
\* keepers: Dial needs no bound of its own (_Keeper._run).
THEOREM TunnelsSuffice == RouterSpec => []RouterTypeOK
<1>1. RouterInv => RouterTypeOK
  <2> SUFFICES ASSUME RouterInv PROVE RouterTypeOK
    OBVIOUS
  <2>1. handling \subseteq Tunnel \X Call /\ acked \union shut \union broken \subseteq 1 .. dialed
    BY DialedFacts DEF RouterInv, RouterTypes
  <2> QED BY <2>1 DEF RouterInv, RouterTypes, RouterTypeOK, Keepers
<1>2. RouterSpec => []RouterInv BY RouterInvInit, RouterInvNext, PTL DEF RouterSpec
<1> QED BY <1>1, <1>2, PTL

--------------------
(* The routes, if a keeper's last tunnel is over before the next keeper. *)

\* No keeper's thread runs, and no stream of one is left.
Settled ==
  \A k \in Keeper : /\ keeper[k].at \in {"new", "ended"}
                    /\ keeper[k].tunnel # None => Over(keeper[k].tunnel)

Alive(k) == keeper[k].at \notin {"new", "ended"}

\* One keeper at a time, whose tunnel is the newest; all others are over.
OneKeeper == \A j, k \in Keeper : Alive(j) /\ Alive(k) => j = k
OlderOver == \A t \in 1 .. dialed : t < dialed => Over(t) /\ t \in shut
NewestIn == \A k \in Keeper : InTunnel(k) => keeper[k].tunnel = dialed
BetweenTunnels ==
  \A k \in Keeper : keeper[k].at \in {"top", "dial"} /\ ~Final(k) =>
    \A t \in 1 .. dialed : Over(t) /\ t \in shut

\* What the newest announced is routed to it.
NewestRouted ==
  \A t \in 1 .. dialed : t = dialed /\ far[t] = "open" => \A a \in addresses[t] : routes[a] = t

PatientInv == OneKeeper /\ OlderOver /\ NewestIn /\ BetweenTunnels /\ NewestRouted

\* Steps of neither keepers, ends of streams nor routes.
LEMMA RoutesStay ==
  ASSUME PatientInv, UNCHANGED <<keeper, dialed, shut, far, broken, addresses, routes>>
  PROVE  PatientInv'
BY DEF PatientInv, OneKeeper, OlderOver, NewestIn, BetweenTunnels, NewestRouted, Alive, Over,
       InTunnel, Final

\* Tunnels end, and nobody moves.
LEMMA TunnelsEnd ==
  ASSUME RouterInv, PatientInv, UNCHANGED <<keeper, dialed>>, shut \subseteq shut',
         \A t \in Tunnel : Over(t) => Over(t)', NewestRouted'
  PROVE  PatientInv'
<1>1. \A t \in 1 .. dialed : t \in Tunnel BY DialedFacts DEF RouterInv
<1>2. OneKeeper' /\ NewestIn' BY DEF PatientInv, OneKeeper, NewestIn, Alive, InTunnel
<1>3. OlderOver' BY <1>1 DEF PatientInv, OlderOver
<1>4. BetweenTunnels' BY <1>1 DEF PatientInv, BetweenTunnels, Final, InTunnel
<1> QED BY <1>2, <1>3, <1>4 DEF PatientInv

LEMMA ReadHelloPatient ==
  ASSUME RouterInv, PatientInv, NEW t \in Tunnel, ReadHello(t)
  PROVE  PatientInv'
<1> DEFINE announced == Head(up[t]).addresses
<1>1. /\ far[t] = "open" /\ up[t] # <<>>
      /\ addresses' = [addresses EXCEPT ![t] = @ \union announced]
      /\ routes' = [a \in Address |-> IF a \in announced THEN t ELSE routes[a]]
      /\ UNCHANGED <<keeper, dialed, shut, far, broken>>
  BY DEF ReadHello, Received, dialing
<1>2. announced \subseteq Address /\ t \in 1 .. dialed /\ t \notin broken
  BY <1>1, ReceivedFacts, FrameTypes
<1> HIDE DEF announced
<1>3. t = dialed
  <2>1. t \in Nat /\ t <= dialed /\ dialed \in Nat BY <1>2, DialedFacts DEF RouterInv
  <2>2. ~(t < dialed) BY <1>1, <1>2 DEF PatientInv, OlderOver, Over
  <2> QED BY <2>1, <2>2
<1>4. NewestRouted'
  <2> SUFFICES ASSUME t \in 1 .. dialed, NEW a \in addresses'[t] PROVE routes'[a] = t
    BY <1>1, <1>3 DEF NewestRouted
  <2>1. a \in Address /\ (a \in addresses[t] \/ a \in announced)
    BY <1>1, <1>2 DEF RouterInv, RouterTypes
  <2>2. a \in addresses[t] => routes[a] = t BY <1>1, <1>2, <1>3 DEF PatientInv, NewestRouted
  <2> QED BY <1>1, <2>1, <2>2
<1> QED BY <1>1, <1>4, TunnelsEnd DEF Over

LEMMA FarClosesPatient ==
  ASSUME RouterInv, PatientInv, NEW t \in Tunnel, CloseFar(t) \/ CloseRouter(t)
  PROVE  PatientInv'
<1>1. /\ far' = [far EXCEPT ![t] = "closed"] /\ routes' = RoutesWithout(t)
      /\ UNCHANGED <<keeper, dialed, shut, addresses, broken>>
  BY DEF CloseFar, CloseRouter, FarCloses, dialing
<1>2. /\ far \in [Tunnel -> {"none", "open", "closed"}]
      /\ \A s \in 1 .. dialed : s \in Tunnel
      /\ \A s \in Tunnel : addresses[s] \subseteq Address
  BY DialedFacts DEF RouterInv, RouterTypes
<1>3. \A s \in Tunnel : Over(s) => Over(s)' BY <1>1, <1>2 DEF Over
<1>4. NewestRouted'
  <2> SUFFICES ASSUME NEW s \in 1 .. dialed, s = dialed, far'[s] = "open", NEW a \in addresses[s]
               PROVE routes'[a] = s
    BY <1>1 DEF NewestRouted
  <2>1. s # t /\ far[s] = "open" /\ a \in Address BY <1>1, <1>2
  <2>2. routes[a] = s BY <2>1 DEF PatientInv, NewestRouted
  <2> QED BY <1>1, <2>1, <2>2 DEF RoutesWithout
<1> QED BY <1>1, <1>3, <1>4, TunnelsEnd

LEMMA BreakPatient ==
  ASSUME RouterInv, PatientInv, NEW t \in Tunnel, Break(t)
  PROVE  PatientInv'
<1>1. broken' = broken \union {t} /\ UNCHANGED <<keeper, dialed, shut, far, addresses, routes>>
  BY DEF Break, dialing, listening
<1>2. NewestRouted' BY <1>1 DEF PatientInv, NewestRouted
<1> QED BY <1>1, <1>2, TunnelsEnd DEF Over

LEMMA StopClosesPatient ==
  ASSUME RouterInv, PatientInv, NEW k \in Keeper, StopCloses(k)
  PROVE  PatientInv'
<1>1. shut \subseteq shut' /\ UNCHANGED <<keeper, dialed, far, addresses, routes, broken>>
  BY DEF StopCloses, listening
<1>2. NewestRouted' BY <1>1 DEF PatientInv, NewestRouted
<1> QED BY <1>1, <1>2, TunnelsEnd DEF Over

\* A keeper's thread goes on with its tunnel.
LEMMA GotoPatient ==
  ASSUME RouterInv, PatientInv, NEW k \in Keeper, NEW at, Goto(k, at), Alive(k),
         at \in {"top", "dial", "hello", "opened", "reading", "ended"},
         at \in {"hello", "opened", "reading"} => InTunnel(k),
         at = "dial" => ~keeper[k].stop,
         at \in {"top", "dial"} /\ ~keeper[k].stop => \A t \in 1 .. dialed : Over(t) /\ t \in shut',
         dialed' = dialed, shut \subseteq shut', \A t \in Tunnel : Over(t) => Over(t)', NewestRouted'
  PROVE  PatientInv'
<1>1. /\ keeper'[k].at = at
      /\ \A j \in Keeper : /\ j # k => keeper'[j] = keeper[j]
                           /\ keeper'[j].tunnel = keeper[j].tunnel
                           /\ keeper'[j].stop = keeper[j].stop
  BY GotoFacts
<1>2. \A t \in 1 .. dialed : t \in Tunnel BY DialedFacts DEF RouterInv
<1>3. \A j \in Keeper : Alive(j)' => Alive(j) BY <1>1 DEF Alive
<1>4. OneKeeper' BY <1>3 DEF PatientInv, OneKeeper
<1>5. NewestIn'
  <2>1. \A j \in Keeper : InTunnel(j)' => InTunnel(j) BY <1>1 DEF InTunnel
  <2> QED BY <1>1, <2>1 DEF PatientInv, NewestIn
<1>6. OlderOver' BY <1>2 DEF PatientInv, OlderOver
<1>7. BetweenTunnels'
  <2> SUFFICES ASSUME NEW j \in Keeper, keeper'[j].at \in {"top", "dial"}, ~Final(j)',
                      NEW t \in 1 .. dialed
               PROVE  Over(t)' /\ t \in shut'
    BY DEF BetweenTunnels
  <2>1. Alive(j)' /\ j = k BY <1>3 DEF PatientInv, OneKeeper, Alive
  <2>2. ~keeper[k].stop /\ at \in {"top", "dial"} BY <1>1, <2>1 DEF Final
  <2> QED BY <1>2, <2>2
<1> QED BY <1>4, <1>5, <1>6, <1>7 DEF PatientInv

LEMMA KeeperPatient ==
  ASSUME RouterInv, PatientInv, NEW k \in Keeper, KeeperThread(k)
  PROVE  PatientInv'
<1>1. CASE KeeperTop(k)
  <2> DEFINE at == IF keeper[k].stop THEN "ended" ELSE "dial"
  <2>1. /\ keeper[k].at = "top" /\ Goto(k, at)
        /\ UNCHANGED <<dialed, shut, far, addresses, routes, broken>>
    BY <1>1 DEF KeeperTop, listening
  <2>2. Alive(k) /\ (~keeper[k].stop => \A t \in 1 .. dialed : Over(t) /\ t \in shut)
    BY <2>1 DEF Alive, Final, PatientInv, BetweenTunnels
  <2>3. NewestRouted' /\ \A t \in Tunnel : Over(t) => Over(t)'
    BY <2>1 DEF PatientInv, NewestRouted, Over
  <2>4. at \in {"ended", "dial"} /\ (at = "dial" => ~keeper[k].stop) OBVIOUS
  <2> HIDE DEF at
  <2> QED BY <2>1, <2>2, <2>3, <2>4, GotoPatient
<1>2. CASE Dial(k)
  <2>1. /\ keeper[k].at = "dial" /\ dialed' = dialed + 1
        /\ keeper' = [keeper EXCEPT ![k].at = "named", ![k].tunnel = dialed + 1]
        /\ UNCHANGED <<shut, far, addresses, routes, broken>>
    BY <1>2 DEF Dial, listening
  <2>2. dialed \in Nat /\ dialed + 1 \in Tunnel /\ far[dialed + 1] = "none"
    <3>1. dialed \in Nat /\ dialed + 1 \in Tunnel BY <2>1, RoomToDial, DialedFacts DEF RouterInv
    <3> QED BY <3>1 DEF RouterInv, Streams
  <2>3. /\ keeper \in [Keeper -> Keepers]
        /\ \A j \in Keeper : j # k => keeper'[j] = keeper[j] /\ ~Alive(j)
    BY <2>1 DEF RouterInv, RouterTypes, PatientInv, OneKeeper, Alive
  <2>4. keeper'[k].at = "named" /\ keeper'[k].tunnel = dialed'
    <3>1. keeper[k] \in Keepers /\ keeper'[k] = [keeper[k] EXCEPT !.at = "named", !.tunnel = dialed + 1]
      BY <2>1, <2>3
    <3> QED BY <2>1, <3>1 DEF Keepers
  <2>5. OneKeeper' BY <2>3 DEF OneKeeper, Alive
  <2>6. OlderOver'
    <3>1. \A t \in 1 .. dialed : Over(t) /\ t \in shut
      BY <2>1 DEF PatientInv, BetweenTunnels, Final, InTunnel
    <3>2. \A t \in 1 .. dialed' : t < dialed' => t \in 1 .. dialed BY <2>1, <2>2
    <3> QED BY <2>1, <3>1, <3>2 DEF OlderOver, Over
  <2>7. NewestIn' /\ BetweenTunnels' BY <2>3, <2>4 DEF NewestIn, BetweenTunnels, InTunnel, Alive
  <2>8. NewestRouted' BY <2>1, <2>2 DEF NewestRouted
  <2> QED BY <2>5, <2>6, <2>7, <2>8 DEF PatientInv
<1>3. CASE SendHello(k)
  <2>1. /\ keeper[k].at = "named" /\ Goto(k, "hello")
        /\ UNCHANGED <<dialed, shut, far, addresses, routes, broken>>
    BY <1>3 DEF SendHello, listening
  <2>2. NewestRouted' /\ \A t \in Tunnel : Over(t) => Over(t)'
    BY <2>1 DEF PatientInv, NewestRouted, Over
  <2> QED BY <2>1, <2>2, GotoPatient DEF Alive, InTunnel
<1>4. CASE OpenStream(k)
  <2> DEFINE t == keeper[k].tunnel
  <2>1. /\ keeper[k].at = "hello" /\ Goto(k, "opened")
        /\ far' = [far EXCEPT ![t] = "open"]
        /\ UNCHANGED <<dialed, shut, addresses, routes, broken>>
    BY <1>4 DEF OpenStream
  <2>2. /\ t = dialed /\ t \in Tunnel /\ far[t] = "none" /\ addresses[t] = {}
        /\ far \in [Tunnel -> {"none", "open", "closed"}]
    BY <2>1, DialedFacts DEF RouterInv, RouterTypes, Threads, Streams, InTunnel, PatientInv, NewestIn
  <2>3. \A s \in Tunnel : Over(s) => Over(s)'
    <3> HIDE DEF t
    <3> QED BY <2>1, <2>2 DEF Over
  <2>4. NewestRouted'
    <3> HIDE DEF t
    <3> QED BY <2>1, <2>2 DEF NewestRouted
  <2> QED BY <2>1, <2>3, <2>4, GotoPatient DEF Alive, InTunnel
<1>5. CASE CheckStop(k)
  <2>1. /\ keeper[k].at = "opened" /\ Goto(k, "reading") /\ shut \subseteq shut'
        /\ UNCHANGED <<dialed, far, addresses, routes, broken>>
    BY <1>5 DEF CheckStop, listening
  <2>2. NewestRouted' /\ \A t \in Tunnel : Over(t) => Over(t)'
    BY <2>1 DEF PatientInv, NewestRouted, Over
  <2> QED BY <2>1, <2>2, GotoPatient DEF Alive, InTunnel
<1>6. CASE ReadEnds(k)
  <2>1. /\ keeper[k].at = "reading" /\ Goto(k, "top")
        /\ keeper[k].tunnel \in broken \union shut \/ far[keeper[k].tunnel] = "closed"
        /\ shut' = shut \union {keeper[k].tunnel}
        /\ UNCHANGED <<dialed, far, addresses, routes, broken>>
    BY <1>6 DEF ReadEnds, listening
  <2>2. NewestRouted' /\ \A t \in Tunnel : Over(t) => Over(t)'
    BY <2>1 DEF PatientInv, NewestRouted, Over
  <2>3. ~keeper[k].stop => \A t \in 1 .. dialed : Over(t) /\ t \in shut'
    <3> SUFFICES ASSUME ~keeper[k].stop, NEW t \in 1 .. dialed PROVE Over(t) /\ t \in shut'
      OBVIOUS
    <3>1. keeper[k].tunnel = dialed /\ keeper[k].tunnel # None
      BY <2>1 DEF InTunnel, RouterInv, Threads, PatientInv, NewestIn
    <3>2. Over(keeper[k].tunnel) BY <2>1, <3>1, EndsOver DEF Final
    <3>3. t = dialed \/ t < dialed BY DialedFacts DEF RouterInv
    <3> QED BY <2>1, <3>1, <3>2, <3>3 DEF PatientInv, OlderOver
  <2> QED BY <2>1, <2>2, <2>3, GotoPatient DEF Alive
<1>7. CASE ReadFrame(k) BY <1>7, RoutesStay DEF ReadFrame, listening
<1> QED BY <1>1, <1>2, <1>3, <1>4, <1>5, <1>6, <1>7 DEF KeeperThread

LEMMA KeepPatient ==
  ASSUME RouterInv, PatientInv, Keep, Settled
  PROVE  PatientInv'
<1>1. PICK k \in Keeper : /\ keeper[k].at = "new" /\ kept' = k
                          /\ keeper' = [keeper EXCEPT ![k].at = "top"]
  BY DEF Keep
<1>2. UNCHANGED <<dialed, shut, far, addresses, routes, broken>> BY DEF Keep, listening
<1>3. /\ keeper'[k].at = "top"
      /\ \A j \in Keeper : /\ j # k => keeper'[j] = keeper[j]
                           /\ keeper'[j].tunnel = keeper[j].tunnel
  BY <1>1, GotoFacts DEF Goto
<1>4. OneKeeper' /\ NewestIn' BY <1>3 DEF OneKeeper, NewestIn, Settled, Alive, InTunnel
<1>5. \A t \in 1 .. dialed : Over(t) /\ t \in shut
  <2> SUFFICES ASSUME NEW t \in 1 .. dialed, t \in Held PROVE Over(t) /\ t \in shut
    BY DEF RouterInv, Closed
  <2>1. PICK j \in Keeper : (InTunnel(j) \/ Final(j)) /\ t = keeper[j].tunnel BY DEF Held
  <2>2. keeper[j].at = "ended" /\ t # None
    <3>1. t # None BY DialedFacts, TunnelSizes DEF RouterInv
    <3> QED BY <2>1, <3>1 DEF Settled, InTunnel, Final, RouterInv, Threads
  <2> QED BY <2>1, <2>2 DEF Settled, RouterInv, Threads
<1>6. OlderOver' /\ BetweenTunnels' /\ NewestRouted'
  BY <1>2, <1>5 DEF OlderOver, BetweenTunnels, NewestRouted, PatientInv, Over
<1> QED BY <1>4, <1>6 DEF PatientInv

LEMMA ReleasePatient ==
  ASSUME RouterInv, PatientInv, Release
  PROVE  PatientInv'
<1>1. /\ kept \in Keeper
      /\ keeper' = [keeper EXCEPT ![kept].stop = TRUE]
      /\ UNCHANGED <<dialed, shut, far, addresses, routes, broken>>
  BY DEF Release, RouterInv, RouterTypes, listening
<1>2. /\ \A j \in Keeper : keeper'[j].at = keeper[j].at /\ keeper'[j].tunnel = keeper[j].tunnel
      /\ \A j \in Keeper : keeper[j].stop => keeper'[j].stop
  <2>1. keeper \in [Keeper -> Keepers] BY DEF RouterInv, RouterTypes
  <2> QED BY <1>1, <2>1 DEF Keepers
<1>3. \A j \in Keeper : /\ Alive(j)' <=> Alive(j)
                        /\ InTunnel(j)' <=> InTunnel(j)
                        /\ Final(j) => Final(j)'
  BY <1>2 DEF Alive, InTunnel, Final
<1>4. OneKeeper' /\ NewestIn' /\ OlderOver' /\ NewestRouted'
  BY <1>1, <1>2, <1>3 DEF PatientInv, OneKeeper, NewestIn, OlderOver, NewestRouted, Over
<1>5. BetweenTunnels' BY <1>1, <1>2, <1>3 DEF PatientInv, BetweenTunnels, Over
<1> QED BY <1>4, <1>5 DEF PatientInv

LEMMA PatientNext ==
  RouterInv /\ PatientInv /\ [RouterNext]_routerVars /\ [Keep => Settled]_routerVars => PatientInv'
<1> SUFFICES ASSUME RouterInv, PatientInv, [RouterNext]_routerVars, [Keep => Settled]_routerVars
             PROVE  PatientInv'
  OBVIOUS
<1>1. CASE UNCHANGED routerVars BY <1>1, RoutesStay DEF routerVars, dialing, listening
<1>2. CASE \E a \in Address : Serve(a) \/ ServeThread(a)
  BY <1>2, RoutesStay DEF ServeThread, Serve, ReadAddresses, Announce, listening
<1>3. CASE Keep
  <2>1. routerVars' # routerVars BY <1>3, TunnelSizes DEF Keep, routerVars, dialing
  <2> QED BY <1>3, <2>1, KeepPatient
<1>4. CASE Release BY <1>4, ReleasePatient
<1>5. CASE \E k \in Keeper : StopCloses(k) \/ KeeperThread(k)
  BY <1>5, StopClosesPatient, KeeperPatient
<1>6. CASE \E t \in Tunnel, c \in Call : Answer(t, c) BY <1>6, RoutesStay DEF Answer, listening
<1>7. CASE \E t \in Tunnel : Break(t) \/ FarThread(t) \/ CloseFar(t) \/ CloseRouter(t)
  <2> SUFFICES ASSUME NEW t \in Tunnel, ReadResponse(t) PROVE PatientInv'
    BY <1>7, BreakPatient, ReadHelloPatient, FarClosesPatient DEF FarThread
  <2> QED BY RoutesStay DEF ReadResponse, dialing
<1>8. CASE \E c \in Call : Route(c) \/ StartCall(c) \/ TimeOut(c)
  BY <1>8, RoutesStay DEF Route, StartCall, TimeOut, dialing
<1> QED BY <1>1, <1>2, <1>3, <1>4, <1>5, <1>6, <1>7, <1>8 DEF RouterNext

LEMMA PatientInit == RouterInit => PatientInv
<1> SUFFICES ASSUME RouterInit PROVE PatientInv
  OBVIOUS
<1>1. 1 .. dialed = {} BY DEF RouterInit
<1>2. \A k \in Keeper : keeper[k].at = "new" BY DEF RouterInit
<1> QED BY <1>1, <1>2 DEF PatientInv, OneKeeper, OlderOver, NewestIn, BetweenTunnels, NewestRouted,
                          Alive, InTunnel

LEMMA PatientRouted == RouterInv /\ PatientInv => ReadyMeansRouted
<1> SUFFICES ASSUME RouterInv, PatientInv, NEW t \in acked \ shut, far[t] = "open",
                    NEW a \in addresses[t]
             PROVE  routes[a] = t
  BY DEF ReadyMeansRouted
<1>1. t \in 1 .. dialed BY DEF RouterInv, RouterTypes
<1>2. t = dialed
  <2>1. t = dialed \/ t < dialed BY <1>1, DialedFacts DEF RouterInv
  <2> QED BY <1>1, <2>1 DEF PatientInv, OlderOver
<1> QED BY <1>1, <1>2 DEF PatientInv, NewestRouted

\* From when its HELLO is answered, what a tunnel announced is routed to it until
\* an end is closed, for any number of keep() and release() calls, breaks, late
\* addresses and calls - if keep() is called again only when the thread of the
\* keeper before has ended and so has its stream (Router.keep, Router._on_frame).
THEOREM ReadyIsRouted ==
  RouterSpec /\ [][Keep => Settled]_routerVars => []ReadyMeansRouted
<1>1. RouterSpec => []RouterInv BY RouterInvInit, RouterInvNext, PTL DEF RouterSpec
<1>2. RouterSpec /\ [][Keep => Settled]_routerVars => []PatientInv
  BY <1>1, PatientInit, PatientNext, PTL DEF RouterSpec
<1> QED BY <1>1, <1>2, PatientRouted, PTL

\* A node that keeps one tunnel, however often it dials again, has no keeper before.
THEOREM OneKeepIsRouted ==
  ASSUME MaxKeeps = 1
  PROVE  RouterSpec => []ReadyMeansRouted
<1>1. RouterInv /\ [RouterNext]_routerVars => [Keep => Settled]_routerVars
  <2> SUFFICES ASSUME RouterInv, Keep PROVE Settled
    OBVIOUS
  <2>1. \A j, k \in Keeper : j = k BY TunnelSizes
  <2>2. PICK k \in Keeper : keeper[k].at = "new" BY DEF Keep
  <2> QED BY <2>1, <2>2 DEF Settled, RouterInv, Threads
<1>2. RouterSpec => []RouterInv BY RouterInvInit, RouterInvNext, PTL DEF RouterSpec
<1>3. RouterSpec => [][Keep => Settled]_routerVars BY <1>1, <1>2, PTL DEF RouterSpec
<1> QED BY <1>3, ReadyIsRouted, PTL
=============================================================================
