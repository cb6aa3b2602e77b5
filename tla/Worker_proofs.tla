---------------------------- MODULE Worker_proofs ----------------------------
(***************************************************************************)
(* Proofs about the two parts of a worker, for any number of batches and   *)
(* rounds, and for any frames with any number of closes, slow calls,       *)
(* breaks, stops and freezes.                                              *)
(***************************************************************************)
EXTENDS WorkerRound, TensorStream, SequenceTheorems, TLAPS

\* What is appended comes after what was there.
LEMMA AppendShape ==
  ASSUME NEW S, NEW q \in Seq(S), NEW e \in S
  PROVE  /\ Append(q, e) \in Seq(S) /\ Len(Append(q, e)) = Len(q) + 1 /\ Len(q) \in Nat
         /\ DOMAIN q = 1 .. Len(q) /\ DOMAIN Append(q, e) = DOMAIN q \union {Len(q) + 1}
         /\ \A i \in DOMAIN q : Append(q, e)[i] = q[i]
         /\ Append(q, e)[Len(q) + 1] = e
<1>1. Len(q) \in Nat /\ DOMAIN q = 1 .. Len(q) OBVIOUS
<1>2. /\ Append(q, e) \in Seq(S) /\ Len(Append(q, e)) = Len(q) + 1
      /\ \A i \in 1 .. Len(q) : Append(q, e)[i] = q[i]
      /\ Append(q, e)[Len(q) + 1] = e
  BY AppendProperties
<1>3. DOMAIN Append(q, e) = 1 .. Len(q) + 1 BY <1>2
<1> QED BY <1>1, <1>2, <1>3

--------------------
(***************************************************************************)
(* The rounds of a worker (module WorkerRound).                            *)
(***************************************************************************)

(* Types. *)

LEMMA ConstantTypes ==
  /\ 0 \in Batch
  /\ 1 \in Round
  /\ Round \subseteq 0 .. MaxRounds
  /\ Round \subseteq Nat
  /\ Empty \in Outputs
BY RoundAssumption DEF Batch, Round, Empty, Output, Outputs, None

LEMMA DeliveredTask ==
  ASSUME RoundTypeOK, NEW m \in network
  PROVE  Task(m, gen) \in TasksAt({"start"})
BY ConstantTypes DEF RoundTypeOK, Task, TasksAt, Messages

\* A task that runs is a task.
LEMMA RunningTask ==
  ASSUME RoundTypeOK, task.at # "idle"
  PROVE  task \in Tasks
BY DEF RoundTypeOK, Idle

\* A task goes on to another point of its run, or stops.
LEMMA ToType ==
  ASSUME RoundTypeOK, task.at # "idle",
         NEW at \in {"start", "compute", "store", "ensureForward", "sendForward",
                     "pop", "backward", "ensureBackward", "sendBackward"},
         To(at) \/ Drop \/ Ensure(at)
  PROVE  task' \in Tasks \union {Idle}
<1>1. task \in Tasks BY RunningTask
<1>2. [task EXCEPT !.at = at] \in Tasks BY <1>1 DEF Tasks, TasksAt
<1> QED BY <1>2 DEF To, Drop, Ensure

LEMMA ResetType ==
  ASSUME RoundTypeOK, ResetState
  PROVE  /\ gen' \in Nat /\ layer' = None /\ stubs' = None
         /\ outputs' \in [Batch -> Outputs]
BY ConstantTypes DEF RoundTypeOK, ResetState

LEMMA TypeInit == RoundInit => RoundTypeOK
<1> SUFFICES ASSUME RoundInit PROVE RoundTypeOK
  OBVIOUS
<1>1. <<>> \in Seq(TasksAt({"start"})) /\ <<>> \in Seq(Steps) BY EmptySeq
<1> QED BY <1>1, ConstantTypes, RoundAssumption DEF RoundInit, RoundTypeOK, None

LEMMA TypeStep == RoundTypeOK /\ [RoundNext]_roundVars => RoundTypeOK'
<1> SUFFICES ASSUME RoundTypeOK, [RoundNext]_roundVars PROVE RoundTypeOK'
  OBVIOUS
<1> USE DEF coordinator, config
<1>1. CASE InitReset BY <1>1, ResetType, ConstantTypes DEF RoundTypeOK, InitReset, None, Round
<1>2. CASE InitLayer BY <1>2, ConstantTypes DEF RoundTypeOK, InitLayer
<1>3. CASE InitStubs BY <1>3, ConstantTypes DEF RoundTypeOK, InitStubs
<1>4. CASE Feed
  <2>1. Message("forward", fed, round) \in Messages
    BY <1>4, RoundAssumption DEF Feed, RoundTypeOK, Message, Messages, Batch
  <2> QED BY <1>4, <2>1, RoundAssumption DEF RoundTypeOK, Feed
<1>5. CASE Recover \/ NextRun
  <2>1. round + 1 \in Round /\ layer \in 0 .. round + 1 /\ stubs \in 0 .. round + 1
    BY <1>5, RoundAssumption DEF RoundTypeOK, Recover, NextRun, Round
  <2> QED BY <1>5, <2>1, RoundAssumption DEF RoundTypeOK, Recover, NextRun, NextRound
<1>6. CASE Shutdown BY <1>6 DEF RoundTypeOK, Shutdown
<1>7. CASE ShutdownThread
  <2>1. stopping' \subseteq Round BY <1>7 DEF RoundTypeOK, ShutdownThread
  <2>2. CASE Persistent
    BY <1>7, <2>1, <2>2, ResetType, ConstantTypes DEF RoundTypeOK, ShutdownThread, None
  <2>3. CASE ~Persistent BY <1>7, <2>1, <2>3 DEF RoundTypeOK, ShutdownThread
  <2> QED BY <2>2, <2>3
<1>8. CASE Deliver
  <2>1. PICK m \in network : /\ network' = network \ {m}
                             /\ pool' = Append(pool, Task(m, gen))
    BY <1>8 DEF Deliver
  <2>2. pool \in Seq(TasksAt({"start"})) /\ Task(m, gen) \in TasksAt({"start"})
    BY DeliveredTask DEF RoundTypeOK
  <2>3. pool' \in Seq(TasksAt({"start"})) BY <2>1, <2>2, AppendShape
  <2> QED BY <1>8, <2>1, <2>3 DEF RoundTypeOK, Deliver
<1>9. CASE TakeTask
  <2>1. /\ Head(pool) \in TasksAt({"start"})
        /\ Tail(pool) \in Seq(TasksAt({"start"}))
    BY <1>9, HeadTailProperties DEF RoundTypeOK, TakeTask
  <2>2. Head(pool) \in Tasks BY <2>1 DEF Tasks, TasksAt, TasksAt
  <2> QED BY <1>9, <2>1, <2>2 DEF RoundTypeOK, TakeTask
<1>10. CASE StartTask BY <1>10, ToType DEF RoundTypeOK, StartTask
<1>11. CASE EnsureForward \/ EnsureBackward
  BY <1>11, ToType DEF RoundTypeOK, EnsureForward, EnsureBackward
<1>12. CASE ComputeTask
  <2>1. task \in Tasks BY <1>12, RunningTask DEF ComputeTask
  <2>2. Output(layer, task.from, task.gen) \in Outputs
    BY <2>1, RoundAssumption DEF RoundTypeOK, Output, Outputs, Tasks, TasksAt, Round
  <2>3. [task EXCEPT !.at = "store", !.out = Output(layer, task.from, task.gen)] \in Tasks
    BY <2>1, <2>2 DEF Tasks, TasksAt
  <2> QED BY <1>12, <2>3 DEF RoundTypeOK, ComputeTask, Fatal, Drop
<1>13. CASE Store
  <2>1. task \in Tasks BY <1>13, RunningTask DEF Store
  <2>2. [outputs EXCEPT ![task.batch] = task.out] \in [Batch -> Outputs]
    BY <2>1 DEF RoundTypeOK, Tasks, TasksAt
  <2> QED BY <1>13, <2>2, ToType DEF RoundTypeOK, Store
<1>14. CASE SendForward
  <2>1. task \in Tasks BY <1>14, RunningTask DEF SendForward
  <2>2. Message("backward", task.batch, task.from) \in Messages
    BY <2>1 DEF Message, Messages, Tasks, TasksAt
  <2> QED BY <1>14, <2>2 DEF RoundTypeOK, SendForward, Fatal, Drop
<1>15. CASE Pop
  <2>1. task \in Tasks BY <1>15, RunningTask DEF Pop
  <2>2. outputs[task.batch] \in Outputs BY <2>1 DEF RoundTypeOK, Tasks, TasksAt
  <2>3. [task EXCEPT !.at = "backward", !.out = outputs[task.batch]] \in Tasks
    BY <2>1, <2>2 DEF Tasks, TasksAt
  <2>4. [outputs EXCEPT ![task.batch] = Empty] \in [Batch -> Outputs]
    BY <2>1, ConstantTypes DEF RoundTypeOK, Tasks, TasksAt
  <2> QED BY <1>15, <2>3, <2>4 DEF RoundTypeOK, Pop, Drop
<1>16. CASE Backward
  <2>1. task \in Tasks BY <1>16, RunningTask DEF Backward
  <2>2. CASE layer = None BY <1>16, <2>2 DEF RoundTypeOK, Backward, Fatal, Drop
  <2>3. CASE layer # None
    <3> DEFINE step == [layer |-> layer, batch |-> task.batch,
                        input |-> task.out.input, gradient |-> task.from]
    <3>1. layer \in Round BY <2>3, RoundAssumption DEF RoundTypeOK, Round, None
    <3>2. step \in Steps BY <3>1, <2>1 DEF Steps, Tasks, TasksAt, Outputs
    <3>3. Append(steps, step) \in Seq(Steps) BY <3>2, AppendShape DEF RoundTypeOK
    <3>4. steps' \in {Append(steps, step), steps} BY <1>16, <2>3 DEF Backward
    <3>5. steps' \in Seq(Steps) BY <3>3, <3>4 DEF RoundTypeOK
    <3> QED BY <1>16, <2>3, <3>5, ToType DEF RoundTypeOK, Backward
  <2> QED BY <2>2, <2>3
<1>17. CASE SendBackward
  <2>1. /\ done' \in 0 .. NumBatches
        /\ fed' \in 0 .. NumBatches /\ fed' \in {done', done' + 1}
    <3>1. fed' = fed /\ (done' = done \/ (done < fed /\ done' = done + 1))
      <4>1. CASE stubs = None BY <1>17, <4>1 DEF SendBackward, Fatal
      <4>2. CASE stubs # None BY <1>17, <4>2 DEF SendBackward
      <4> QED BY <4>1, <4>2
    <3>2. done \in 0 .. NumBatches /\ fed \in 0 .. NumBatches /\ fed \in {done, done + 1}
      BY DEF RoundTypeOK
    <3> QED BY <3>1, <3>2, RoundAssumption
  <2> QED BY <1>17, <2>1 DEF RoundTypeOK, SendBackward, Fatal, Drop
<1>18. CASE UNCHANGED roundVars BY <1>18 DEF RoundTypeOK, roundVars
<1> QED BY <1>1, <1>2, <1>3, <1>4, <1>5, <1>6, <1>7, <1>8, <1>9, <1>10, <1>11, <1>12,
     <1>13, <1>14, <1>15, <1>16, <1>17, <1>18 DEF RoundNext, RunTask

\* Every variable keeps its type, and the coordinator is never more than one
\* batch ahead of what it takes for done.
THEOREM RoundTypesCorrect == RoundSpec => []RoundTypeOK
<1>1. RoundInit => RoundTypeOK BY TypeInit
<1>2. RoundTypeOK /\ [RoundNext]_roundVars => RoundTypeOK' BY TypeStep
<1> QED BY <1>1, <1>2, PTL DEF RoundSpec

--------------------
(* What the cache holds. *)

\* Why the cache is of this round.  An entry alone says nothing of the task
\* about to make the next one: a task that is about to store, and is of this
\* generation, has computed with the layer that is there, for the layer only
\* changes with the generation or from None, and with None nothing computes.
\* That init() builds where there is None is the last part.
StoresAreOfThisLayer ==
  task.at = "store" =>
    /\ task.out.gen = task.gen /\ task.out.layer # None
    /\ task.gen = gen => task.out.layer = layer

GensAreNotAhead ==
  /\ task.gen <= gen
  /\ \A i \in DOMAIN pool : pool[i].gen <= gen

NothingCachedWithoutLayer == \A b \in Batch : outputs[b] # Empty => outputs[b].layer # None

BuildsFromNone == phase = "building" => layer = None

CacheInv ==
  /\ RoundTypeOK
  /\ CacheIsOfThisRound
  /\ StoresAreOfThisLayer
  /\ GensAreNotAhead
  /\ NothingCachedWithoutLayer
  /\ BuildsFromNone

LEMMA CacheInit == RoundInit => CacheInv
BY TypeInit, RoundAssumption
DEF RoundInit, CacheInv, CacheIsOfThisRound, StoresAreOfThisLayer, GensAreNotAhead,
    NothingCachedWithoutLayer, BuildsFromNone, Idle

\* After a reset nothing is cached, and no task is of the new generation.
LEMMA ResetCache ==
  ASSUME CacheInv, ResetState, UNCHANGED <<task, pool>>
  PROVE  /\ CacheIsOfThisRound' /\ StoresAreOfThisLayer' /\ GensAreNotAhead'
         /\ NothingCachedWithoutLayer' /\ layer' = None
<1>1. /\ gen \in Nat /\ gen' = gen + 1 /\ layer' = None
      /\ outputs' = [b \in Batch |-> Empty]
      /\ task' = task /\ pool' = pool
  BY DEF CacheInv, RoundTypeOK, ResetState
<1>2. task.gen \in Nat /\ \A i \in DOMAIN pool : pool[i].gen \in Nat
  <2>1. task.gen \in Nat BY DEF CacheInv, RoundTypeOK, Tasks, TasksAt, Idle
  <2>2. \A i \in DOMAIN pool : pool[i] \in TasksAt({"start"}) BY DEF CacheInv, RoundTypeOK
  <2> QED BY <2>1, <2>2 DEF TasksAt
<1>3. task.gen # gen' BY <1>1, <1>2 DEF CacheInv, GensAreNotAhead
<1>4. StoresAreOfThisLayer' BY <1>1, <1>3 DEF CacheInv, StoresAreOfThisLayer
<1>5. GensAreNotAhead' BY <1>1, <1>2 DEF CacheInv, GensAreNotAhead
<1> QED BY <1>1, <1>4, <1>5 DEF CacheIsOfThisRound, NothingCachedWithoutLayer

\* A task that goes on, or stops, leaves the rest of the invariant alone.
LEMMA ToCache ==
  ASSUME CacheInv, task.at # "idle", UNCHANGED <<gen, layer, pool>>,
         NEW at \in {"compute", "ensureForward", "sendForward", "pop", "ensureBackward", "sendBackward"},
         To(at) \/ Drop \/ Ensure(at)
  PROVE  StoresAreOfThisLayer' /\ GensAreNotAhead'
<1>1. task \in Tasks BY RunningTask DEF CacheInv
<1>2. task' \in {[task EXCEPT !.at = at], Idle} BY DEF To, Drop, Ensure
<1>3. task'.at # "store" /\ task'.gen \in {task.gen, 0} BY <1>1, <1>2 DEF Tasks, TasksAt, Idle
<1> QED BY <1>1, <1>3 DEF CacheInv, RoundTypeOK, StoresAreOfThisLayer, GensAreNotAhead

LEMMA CacheStep == CacheInv /\ [RoundNext]_roundVars => CacheInv'
<1> SUFFICES ASSUME CacheInv, [RoundNext]_roundVars PROVE CacheInv'
  OBVIOUS
<1>0. RoundTypeOK /\ RoundTypeOK' BY TypeStep DEF CacheInv
<1> DEFINE Rest == /\ CacheIsOfThisRound /\ NothingCachedWithoutLayer
                   /\ StoresAreOfThisLayer /\ GensAreNotAhead /\ BuildsFromNone
<1> SUFFICES Rest' BY <1>0 DEF CacheInv
<1> USE DEF coordinator, config
<1>1. CASE InitReset BY <1>1, ResetCache DEF InitReset, BuildsFromNone
<1>2. CASE InitLayer
  <2>1. layer = None /\ layer' = round /\ phase' = "wiring"
    BY <1>2 DEF InitLayer, CacheInv, BuildsFromNone
  <2>2. \A b \in Batch : outputs[b] = Empty
    BY <2>1 DEF CacheInv, CacheIsOfThisRound, NothingCachedWithoutLayer
  <2>3. CacheIsOfThisRound' /\ NothingCachedWithoutLayer'
    BY <1>2, <2>2 DEF InitLayer, CacheIsOfThisRound, NothingCachedWithoutLayer
  <2>4. StoresAreOfThisLayer' BY <1>2, <2>1 DEF InitLayer, CacheInv, StoresAreOfThisLayer
  <2> QED BY <1>2, <2>1, <2>3, <2>4 DEF InitLayer, CacheInv, GensAreNotAhead, BuildsFromNone
<1>3. CASE InitStubs \/ Feed \/ Recover \/ NextRun \/ Shutdown
  BY <1>3
  DEF InitStubs, Feed, Recover, NextRun, NextRound, Shutdown, CacheInv, CacheIsOfThisRound,
      NothingCachedWithoutLayer, StoresAreOfThisLayer, GensAreNotAhead, BuildsFromNone
<1>4. CASE ShutdownThread
  <2>1. CASE Persistent BY <1>4, <2>1, ResetCache DEF ShutdownThread, CacheInv, BuildsFromNone
  <2>2. CASE ~Persistent
    BY <1>4, <2>2
    DEF ShutdownThread, CacheInv, CacheIsOfThisRound, NothingCachedWithoutLayer,
        StoresAreOfThisLayer, GensAreNotAhead, BuildsFromNone
  <2> QED BY <2>1, <2>2
<1>5. CASE Deliver
  <2>1. PICK m \in network : pool' = Append(pool, Task(m, gen)) BY <1>5 DEF Deliver
  <2>2. Task(m, gen).gen = gen BY DEF Task
  <2>a. pool \in Seq(TasksAt({"start"})) /\ Task(m, gen) \in TasksAt({"start"})
    BY <1>0, DeliveredTask DEF RoundTypeOK
  <2>3. \A i \in DOMAIN pool' :
          \/ i \in DOMAIN pool /\ pool'[i] = pool[i]
          \/ pool'[i] = Task(m, gen)
    BY <2>1, <2>a, AppendShape
  <2>4. gen <= gen BY <1>0 DEF RoundTypeOK
  <2>5. \A i \in DOMAIN pool' : pool'[i].gen <= gen
    BY <2>2, <2>3, <2>4 DEF CacheInv, GensAreNotAhead
  <2> QED
    BY <1>5, <2>5
    DEF Deliver, CacheInv, CacheIsOfThisRound, NothingCachedWithoutLayer,
        StoresAreOfThisLayer, GensAreNotAhead, BuildsFromNone
<1>6. CASE TakeTask
  <2>1. /\ task' = pool[1] /\ pool # <<>>
        /\ \A i \in DOMAIN pool' : i + 1 \in DOMAIN pool /\ pool'[i] = pool[i + 1]
    BY <1>0, <1>6, HeadTailProperties DEF RoundTypeOK, TakeTask
  <2>2. GensAreNotAhead'
    BY <1>0, <1>6, <2>1 DEF RoundTypeOK, TakeTask, CacheInv, GensAreNotAhead
  <2>3. task'.at # "store"
    <3>1. Head(pool) \in TasksAt({"start"})
      BY <1>0, <1>6, HeadTailProperties DEF RoundTypeOK, TakeTask
    <3> QED BY <1>6, <3>1 DEF TakeTask, TasksAt
  <2> QED
    BY <1>6, <2>2, <2>3
    DEF TakeTask, CacheInv, CacheIsOfThisRound, NothingCachedWithoutLayer,
        StoresAreOfThisLayer, BuildsFromNone
<1>7. CASE StartTask \/ EnsureForward \/ EnsureBackward
  BY <1>7, ToCache
  DEF StartTask, EnsureForward, EnsureBackward, CacheInv, CacheIsOfThisRound,
      NothingCachedWithoutLayer, BuildsFromNone
<1>8. CASE ComputeTask
  <2>1. CASE layer = None
    BY <1>8, <2>1, ToCache
    DEF ComputeTask, Fatal, CacheInv, CacheIsOfThisRound, NothingCachedWithoutLayer, BuildsFromNone
  <2>2. CASE layer # None
    <3>1. task \in Tasks BY <1>0, <1>8, RunningTask DEF ComputeTask
    <3>2. task' = [task EXCEPT !.at = "store", !.out = Output(layer, task.from, task.gen)]
      BY <1>8, <2>2 DEF ComputeTask
    <3>3. task'.gen = task.gen /\ task'.out = Output(layer, task.from, task.gen)
      BY <3>1, <3>2 DEF Tasks, TasksAt
    <3>4. task'.out.gen = task.gen /\ task'.out.layer = layer BY <3>3 DEF Output
    <3> QED
      BY <1>8, <2>2, <3>3, <3>4
      DEF ComputeTask, CacheInv, CacheIsOfThisRound, NothingCachedWithoutLayer,
          StoresAreOfThisLayer, GensAreNotAhead, BuildsFromNone
  <2> QED BY <2>1, <2>2
<1>9. CASE Store
  <2>1. StoresAreOfThisLayer' /\ GensAreNotAhead' BY <1>9, ToCache DEF Store
  <2>2. task \in Tasks BY <1>0, <1>9, RunningTask DEF Store
  <2>3. CASE ~Current
    BY <1>9, <2>1, <2>3
    DEF Store, CacheInv, CacheIsOfThisRound, NothingCachedWithoutLayer, BuildsFromNone
  <2>4. CASE Current
    <3>1. outputs' = [outputs EXCEPT ![task.batch] = task.out] BY <1>9, <2>4 DEF Store
    <3>2. task.out.gen = gen /\ task.out.layer = layer /\ task.out.layer # None
      BY <1>9, <2>4 DEF Store, Current, CacheInv, StoresAreOfThisLayer
    <3>3. \A b \in Batch : outputs'[b] \in {outputs[b], task.out} BY <1>0, <3>1 DEF RoundTypeOK
    <3> QED
      BY <1>9, <2>1, <3>2, <3>3
      DEF Store, CacheInv, CacheIsOfThisRound, NothingCachedWithoutLayer, BuildsFromNone
  <2> QED BY <2>3, <2>4
<1>10. CASE SendForward
  BY <1>10, ToCache
  DEF SendForward, Fatal, CacheInv, CacheIsOfThisRound, NothingCachedWithoutLayer, BuildsFromNone
<1>11. CASE Pop
  <2>1. \A b \in Batch : outputs'[b] \in {outputs[b], Empty} BY <1>0, <1>11 DEF Pop, RoundTypeOK
  <2>2. /\ CacheIsOfThisRound' /\ NothingCachedWithoutLayer' /\ BuildsFromNone'
    BY <1>11, <2>1
    DEF Pop, CacheInv, CacheIsOfThisRound, NothingCachedWithoutLayer, BuildsFromNone
  <2>3. CASE Drop BY <1>11, <2>2, <2>3, ToCache DEF Pop
  <2>4. CASE task' = [task EXCEPT !.at = "backward", !.out = outputs[task.batch]]
    <3>1. task \in Tasks BY <1>0, <1>11, RunningTask DEF Pop
    <3>2. task'.at # "store" /\ task'.gen = task.gen BY <2>4, <3>1 DEF Tasks, TasksAt
    <3> QED BY <1>11, <2>2, <3>2 DEF Pop, CacheInv, StoresAreOfThisLayer, GensAreNotAhead
  <2> QED BY <1>11, <2>3, <2>4 DEF Pop
<1>12. CASE Backward
  <2>1. /\ UNCHANGED <<gen, layer, pool, outputs, phase>> /\ task.at # "idle"
        /\ To("ensureBackward") \/ Drop
    BY <1>12 DEF Backward, Fatal
  <2> QED
    BY <2>1, ToCache
    DEF CacheInv, CacheIsOfThisRound, NothingCachedWithoutLayer, BuildsFromNone
<1>13. CASE SendBackward
  <2>1. /\ UNCHANGED <<gen, layer, pool, outputs, phase>> /\ task.at # "idle"
        /\ Drop
    BY <1>13 DEF SendBackward, Fatal
  <2> QED
    BY <2>1, ToCache
    DEF CacheInv, CacheIsOfThisRound, NothingCachedWithoutLayer, BuildsFromNone
<1>14. CASE UNCHANGED roundVars
  BY <1>14
  DEF roundVars, CacheInv, CacheIsOfThisRound, NothingCachedWithoutLayer, StoresAreOfThisLayer,
      GensAreNotAhead, BuildsFromNone
<1> QED
  BY <1>1, <1>2, <1>3, <1>4, <1>5, <1>6, <1>7, <1>8, <1>9, <1>10, <1>11, <1>12, <1>13, <1>14
  DEF RoundNext, RunTask

\* Whatever task was in progress when init() or shutdown() replaced the slice,
\* what is cached was put since, and made by the layer that is there.
THEOREM CacheCorrect == RoundSpec => []CacheIsOfThisRound
<1>1. RoundInit => CacheInv BY CacheInit
<1>2. CacheInv /\ [RoundNext]_roundVars => CacheInv' BY CacheStep
<1>3. CacheInv => CacheIsOfThisRound BY DEF CacheInv
<1> QED BY <1>1, <1>2, <1>3, PTL DEF RoundSpec

--------------------
(* What becomes of an activation. *)

\* The task is the forward pass of batch b, on an input of round r.
ForwardOf(t, b, r) == t.kind = "forward" /\ t.batch = b /\ t.from = r

\* Where the activation of batch b of round r is, on its way from the slice
\* before to an optimizer step.
Places == {"network", "pool", "hand", "cache", "use", "step"}

At(p, b, r) ==
  \/ p = "network" /\ Message("forward", b, r) \in network
  \/ p = "pool" /\ \E i \in DOMAIN pool : ForwardOf(pool[i], b, r)
  \/ p = "hand" /\ task.at \in {"start", "compute", "store"} /\ ForwardOf(task, b, r)
  \/ p = "cache" /\ outputs[b].input = r
  \/ p = "use" /\ task.at = "backward" /\ task.batch = b /\ task.out.input = r
  \/ p = "step" /\ \E i \in DOMAIN steps : steps[i].batch = b /\ steps[i].input = r

\* It is at one place at a time, once in the queue, and was used once;
\* and it is somewhere only if the slice before has sent it.
AtOnePlace ==
  \A b \in Batch, r \in Round : \A p, q \in Places : At(p, b, r) /\ At(q, b, r) => p = q

QueuedOnce ==
  \A b \in Batch, r \in Round : \A i, j \in DOMAIN pool :
    ForwardOf(pool[i], b, r) /\ ForwardOf(pool[j], b, r) => i = j

UsedOnce ==
  \A i, j \in DOMAIN steps :
    steps[i].batch = steps[j].batch /\ steps[i].input = steps[j].input => i = j

SentBefore ==
  \A b \in Batch, r \in Round : \A p \in Places :
    At(p, b, r) => r < round \/ (r = round /\ b < fed)

\* The output of a forward pass is of its input; what is cached has an input.
InputsAreKnown ==
  /\ task.at \in {"compute", "store"} => task.kind = "forward"
  /\ task.at = "store" => task.out.input = task.from
  /\ task.at = "backward" => task.out.input \in Round
  /\ \A b \in Batch : outputs[b] # Empty => outputs[b].input \in Round

UseInv ==
  RoundTypeOK /\ AtOnePlace /\ QueuedOnce /\ UsedOnce /\ SentBefore /\ InputsAreKnown

LEMMA UseInit == RoundInit => UseInv
<1> SUFFICES ASSUME RoundInit PROVE UseInv
  OBVIOUS
<1>1. \A b \in Batch, r \in Round, p \in Places : ~At(p, b, r)
  BY ConstantTypes DEF RoundInit, At, Idle, Empty, Output, None, Round
<1> QED
  BY <1>1, TypeInit
  DEF RoundInit, UseInv, AtOnePlace, QueuedOnce, UsedOnce, SentBefore, InputsAreKnown, Idle

\* A step that puts no activation anywhere.
LEMMA NothingMoves ==
  ASSUME UseInv, RoundTypeOK', UNCHANGED <<pool, steps>>, InputsAreKnown',
         (round' = round /\ fed' >= fed) \/ round' = round + 1,
         \A b \in Batch, r \in Round : \A p \in Places : At(p, b, r)' => At(p, b, r)
  PROVE  UseInv'
<1>1. AtOnePlace' BY DEF UseInv, AtOnePlace
<1>2. QueuedOnce' /\ UsedOnce' BY DEF UseInv, QueuedOnce, UsedOnce
<1>3. /\ Batch \subseteq Int /\ Round \subseteq Int /\ round \in Int /\ round' \in Int
      /\ fed \in Int /\ fed' \in Int
  BY DEF UseInv, RoundTypeOK, Round, Batch
<1>4. SentBefore'
  <2> SUFFICES ASSUME NEW b \in Batch, NEW r \in Round, NEW p \in Places, At(p, b, r)'
               PROVE  (r < round \/ (r = round /\ b < fed))'
    BY DEF SentBefore
  <2>1. r < round \/ (r = round /\ b < fed) BY DEF UseInv, SentBefore
  <2> QED BY <1>3, <2>1
<1> QED BY <1>1, <1>2, <1>4 DEF UseInv

\* A step that takes one activation from one place to another.
LEMMA OneMoves ==
  ASSUME UseInv, UNCHANGED <<round, fed>>,
         NEW b0 \in Batch, NEW r0 \in Round, NEW p0 \in Places, NEW q0 \in Places,
         At(p0, b0, r0), ~At(p0, b0, r0)',
         \A b \in Batch, r \in Round : \A p \in Places :
           At(p, b, r)' => At(p, b, r) \/ (p = q0 /\ b = b0 /\ r = r0)
  PROVE  AtOnePlace' /\ SentBefore'
<1>1. AtOnePlace'
  <2> SUFFICES ASSUME NEW b \in Batch, NEW r \in Round, NEW p \in Places, NEW q \in Places,
                      At(p, b, r)', At(q, b, r)'
               PROVE  p = q
    BY DEF AtOnePlace
  <2>1. CASE b = b0 /\ r = r0
    <3>1. \A x \in Places : At(x, b0, r0)' => x = q0 BY DEF UseInv, AtOnePlace
    <3> QED BY <2>1, <3>1
  <2>2. CASE ~(b = b0 /\ r = r0) BY <2>2 DEF UseInv, AtOnePlace
  <2> QED BY <2>1, <2>2
<1>2. SentBefore' BY DEF UseInv, SentBefore
<1> QED BY <1>1, <1>2

\* A task that goes on, or stops, is still in hand at the most.
LEMMA ToMoves ==
  ASSUME UseInv, RoundTypeOK', task.at # "idle", UNCHANGED <<outputs, pool, steps, round, fed>>,
         \A b \in Batch, r \in Round :
           Message("forward", b, r) \in network' => Message("forward", b, r) \in network,
         NEW at \in {"ensureForward", "sendForward", "pop", "ensureBackward", "sendBackward"},
         To(at) \/ Drop \/ Ensure(at)
  PROVE  UseInv'
<1>1. task \in Tasks BY RunningTask DEF UseInv
<1>2. task' \in {[task EXCEPT !.at = at], Idle} BY DEF To, Drop, Ensure
<1>3. task'.at \notin {"start", "compute", "store", "backward"}
  BY <1>1, <1>2 DEF Tasks, TasksAt, Idle
<1>4. InputsAreKnown' BY <1>3 DEF UseInv, InputsAreKnown
<1>5. \A b \in Batch, r \in Round : \A p \in Places : At(p, b, r)' => At(p, b, r) BY <1>3 DEF At
<1>6. round' = round /\ fed' >= fed BY DEF UseInv, RoundTypeOK
<1> QED BY <1>4, <1>5, <1>6, NothingMoves

LEMMA ResetMoves ==
  ASSUME UseInv, RoundTypeOK', ResetState, UNCHANGED <<round, fed, network, pool, task, steps>>
  PROVE  UseInv'
<1>1. outputs' = [b \in Batch |-> Empty] /\ Empty.input \notin Round
  BY DEF ResetState, Empty, Output, None, Round
<1>2. \A b \in Batch, r \in Round : \A p \in Places : At(p, b, r)' => At(p, b, r) BY <1>1 DEF At
<1>3. InputsAreKnown' BY <1>1 DEF UseInv, InputsAreKnown
<1>4. round' = round /\ fed' >= fed BY DEF UseInv, RoundTypeOK
<1> QED BY <1>2, <1>3, <1>4, NothingMoves

LEMMA DeliverMoves == UseInv /\ RoundTypeOK' /\ Deliver => UseInv'
<1> SUFFICES ASSUME UseInv, RoundTypeOK', Deliver PROVE UseInv'
  OBVIOUS
<1>1. PICK m \in network : network' = network \ {m} /\ pool' = Append(pool, Task(m, gen))
  BY DEF Deliver
<1>2. UNCHANGED <<round, fed, outputs, task, steps>> BY DEF Deliver, coordinator, config
<1>3. /\ m \in Messages /\ pool \in Seq(TasksAt({"start"}))
      /\ Task(m, gen) \in TasksAt({"start"})
  BY DeliveredTask DEF UseInv, RoundTypeOK
<1>4. /\ Task(m, gen).kind = m.kind /\ Task(m, gen).batch = m.batch /\ Task(m, gen).from = m.from
  BY DEF Task
<1>5. /\ DOMAIN pool' = DOMAIN pool \union {Len(pool) + 1}
      /\ \A i \in DOMAIN pool : pool'[i] = pool[i]
      /\ pool'[Len(pool) + 1] = Task(m, gen)
  BY <1>1, <1>3, AppendShape
<1>6. InputsAreKnown' /\ UsedOnce' BY <1>2 DEF UseInv, InputsAreKnown, UsedOnce
<1>7. CASE m.kind = "backward"
  <2>1. \A b \in Batch, r \in Round : ~ForwardOf(Task(m, gen), b, r) BY <1>4, <1>7 DEF ForwardOf
  <2>2. \A b \in Batch, r \in Round : \A p \in Places : At(p, b, r)' => At(p, b, r)
    BY <1>1, <1>2, <1>5, <2>1 DEF At
  <2>3. AtOnePlace' /\ SentBefore' BY <1>2, <2>2 DEF UseInv, AtOnePlace, SentBefore
  <2>4. QueuedOnce' BY <1>5, <2>1 DEF UseInv, QueuedOnce
  <2> QED BY <1>6, <2>3, <2>4 DEF UseInv
<1>8. CASE m.kind = "forward"
  <2>1. m = Message("forward", m.batch, m.from) /\ m.batch \in Batch /\ m.from \in Round
    BY <1>3, <1>8 DEF Message, Messages
  <2>2. At("network", m.batch, m.from) /\ ~At("network", m.batch, m.from)' BY <1>1, <2>1 DEF At
  <2>3. \A b \in Batch, r \in Round :
          ForwardOf(Task(m, gen), b, r) => b = m.batch /\ r = m.from
    BY <1>4 DEF ForwardOf
  <2>4. \A b \in Batch, r \in Round : \A p \in Places :
          At(p, b, r)' => At(p, b, r) \/ (p = "pool" /\ b = m.batch /\ r = m.from)
    BY <1>1, <1>2, <1>5, <2>3 DEF At
  <2>5. AtOnePlace' /\ SentBefore' BY <1>2, <2>1, <2>2, <2>4, OneMoves DEF Places
  <2>6. ~At("pool", m.batch, m.from) BY <2>1, <2>2 DEF UseInv, AtOnePlace, Places
  <2>7. \A i \in DOMAIN pool : ~ForwardOf(pool[i], m.batch, m.from) BY <2>6 DEF At
  <2>8. QueuedOnce' BY <1>5, <2>3, <2>7 DEF UseInv, QueuedOnce
  <2> QED BY <1>6, <2>5, <2>8 DEF UseInv
<1> QED BY <1>3, <1>7, <1>8 DEF Messages

LEMMA TakeMoves == UseInv /\ RoundTypeOK' /\ TakeTask => UseInv'
<1> SUFFICES ASSUME UseInv, RoundTypeOK', TakeTask PROVE UseInv'
  OBVIOUS
<1>1. /\ task = Idle /\ pool # <<>> /\ task' = Head(pool) /\ pool' = Tail(pool)
      /\ UNCHANGED <<round, fed, network, outputs, steps>>
  BY DEF TakeTask, coordinator, config
<1>2. pool \in Seq(TasksAt({"start"})) BY DEF UseInv, RoundTypeOK
<1>3. /\ task' = pool[1] /\ 1 \in DOMAIN pool /\ pool[1] \in TasksAt({"start"})
      /\ \A i \in DOMAIN pool' : i + 1 \in DOMAIN pool /\ pool'[i] = pool[i + 1] /\ i + 1 # 1
      /\ \A i, j \in DOMAIN pool' : i + 1 = j + 1 => i = j
  BY <1>1, <1>2, HeadTailProperties
<1>4. task'.at = "start" /\ task'.kind \in {"forward", "backward"}
      /\ task'.batch \in Batch /\ task'.from \in Round
  BY <1>3 DEF TasksAt
<1>5. InputsAreKnown' /\ UsedOnce' BY <1>1, <1>4 DEF UseInv, InputsAreKnown, UsedOnce
<1>6. QueuedOnce' BY <1>3 DEF UseInv, QueuedOnce
<1>7. CASE task'.kind = "backward"
  <2>1. \A b \in Batch, r \in Round : \A p \in Places : At(p, b, r)' => At(p, b, r)
    BY <1>1, <1>3, <1>4, <1>7 DEF At, ForwardOf
  <2>2. AtOnePlace' /\ SentBefore' BY <1>1, <2>1 DEF UseInv, AtOnePlace, SentBefore
  <2> QED BY <1>5, <1>6, <2>2 DEF UseInv
<1>8. CASE task'.kind = "forward"
  <2>0. PICK b0 \in Batch, r0 \in Round : b0 = task'.batch /\ r0 = task'.from BY <1>4
  <2>1. ForwardOf(pool[1], b0, r0) BY <1>3, <1>8, <2>0 DEF ForwardOf
  <2>2. At("pool", b0, r0) BY <1>3, <2>1 DEF At
  <2>3. \A i \in DOMAIN pool' : ~ForwardOf(pool'[i], b0, r0)
    BY <1>3, <1>4, <2>1 DEF UseInv, QueuedOnce
  <2>4. ~At("pool", b0, r0)' BY <1>1, <2>3 DEF At
  <2>5. \A b \in Batch, r \in Round : \A p \in Places :
          At(p, b, r)' => At(p, b, r) \/ (p = "hand" /\ b = b0 /\ r = r0)
    BY <1>1, <1>3, <1>4, <2>0 DEF At, ForwardOf
  <2>7. AtOnePlace' /\ SentBefore' BY <1>1, <2>2, <2>4, <2>5, OneMoves DEF Places
  <2> QED BY <1>5, <1>6, <2>7 DEF UseInv
<1> QED BY <1>4, <1>7, <1>8

LEMMA StoreMoves == UseInv /\ RoundTypeOK' /\ Store => UseInv'
<1> SUFFICES ASSUME UseInv, RoundTypeOK', Store PROVE UseInv'
  OBVIOUS
<1>1. task \in Tasks /\ task.at = "store" /\ task.kind = "forward" /\ task.out.input = task.from
  BY RunningTask DEF Store, UseInv, InputsAreKnown
<1>2. UNCHANGED <<round, fed, network, pool, steps>> BY DEF Store, coordinator, config
<1>3. CASE ~Current BY <1>1, <1>2, <1>3, ToMoves DEF Store
<1>4. CASE Current
  <2>1. /\ outputs' = [outputs EXCEPT ![task.batch] = task.out]
        /\ task' = [task EXCEPT !.at = "ensureForward"]
    BY <1>4 DEF Store, To
  <2>2. PICK b0 \in Batch, r0 \in Round : b0 = task.batch /\ r0 = task.from
    BY <1>1 DEF Tasks, TasksAt
  <2>3. task'.at = "ensureForward" BY <1>1, <2>1 DEF Tasks, TasksAt
  <2>4. \A b \in Batch : outputs'[b] = IF b = b0 THEN task.out ELSE outputs[b]
    BY <2>1, <2>2 DEF UseInv, RoundTypeOK
  <2>5. At("hand", b0, r0) /\ ~At("hand", b0, r0)' BY <1>1, <2>2, <2>3 DEF At, ForwardOf
  <2>6. \A b \in Batch, r \in Round : \A p \in Places :
          At(p, b, r)' => At(p, b, r) \/ (p = "cache" /\ b = b0 /\ r = r0)
    BY <1>1, <1>2, <2>2, <2>3, <2>4 DEF At
  <2>7. AtOnePlace' /\ SentBefore' BY <1>2, <2>5, <2>6, OneMoves DEF Places
  <2>8. InputsAreKnown' BY <1>1, <2>2, <2>3, <2>4 DEF UseInv, InputsAreKnown
  <2> QED BY <1>2, <2>7, <2>8 DEF UseInv, QueuedOnce, UsedOnce
<1> QED BY <1>3, <1>4

LEMMA PopMoves == UseInv /\ RoundTypeOK' /\ Pop => UseInv'
<1> SUFFICES ASSUME UseInv, RoundTypeOK', Pop PROVE UseInv'
  OBVIOUS
<1>1. task \in Tasks /\ task.at = "pop" BY RunningTask DEF Pop, UseInv
<1>2. UNCHANGED <<round, fed, network, pool, steps>> BY DEF Pop, coordinator, config
<1>3. CASE ~(Current /\ outputs[task.batch] # Empty) BY <1>1, <1>2, <1>3, ToMoves DEF Pop
<1>4. CASE Current /\ outputs[task.batch] # Empty
  <2>1. /\ outputs' = [outputs EXCEPT ![task.batch] = Empty]
        /\ task' = [task EXCEPT !.at = "backward", !.out = outputs[task.batch]]
    BY <1>4 DEF Pop
  <2>2. PICK b0 \in Batch, r0 \in Round : b0 = task.batch /\ r0 = outputs[b0].input
    BY <1>1, <1>4 DEF Tasks, TasksAt, UseInv, InputsAreKnown
  <2>3. task'.at = "backward" /\ task'.batch = b0 /\ task'.out = outputs[b0]
    BY <1>1, <2>1, <2>2 DEF Tasks, TasksAt
  <2>4. /\ \A b \in Batch : outputs'[b] = IF b = b0 THEN Empty ELSE outputs[b]
        /\ Empty.input \notin Round
    BY <2>1, <2>2 DEF UseInv, RoundTypeOK, Empty, Output, None, Round
  <2>5. At("cache", b0, r0) /\ ~At("cache", b0, r0)' BY <2>2, <2>4 DEF At
  <2>6. \A b \in Batch, r \in Round : \A p \in Places :
          At(p, b, r)' => At(p, b, r) \/ (p = "use" /\ b = b0 /\ r = r0)
    BY <1>2, <2>2, <2>3, <2>4 DEF At
  <2>7. AtOnePlace' /\ SentBefore' BY <1>2, <2>5, <2>6, OneMoves DEF Places
  <2>8. InputsAreKnown' BY <2>2, <2>3, <2>4 DEF UseInv, InputsAreKnown
  <2> QED BY <1>2, <2>7, <2>8 DEF UseInv, QueuedOnce, UsedOnce
<1> QED BY <1>3, <1>4

LEMMA BackwardMoves == UseInv /\ RoundTypeOK' /\ Backward => UseInv'
<1> SUFFICES ASSUME UseInv, RoundTypeOK', Backward PROVE UseInv'
  OBVIOUS
<1>1. task \in Tasks /\ task.at = "backward" /\ task.out.input \in Round
  BY RunningTask DEF Backward, UseInv, InputsAreKnown
<1>2. UNCHANGED <<round, fed, network, pool, outputs>>
  BY DEF Backward, Fatal, coordinator, config
<1>3. CASE steps' = steps BY <1>1, <1>2, <1>3, ToMoves DEF Backward, Fatal
<1>4. CASE steps' # steps
  <2>1. PICK b0 \in Batch, r0 \in Round : b0 = task.batch /\ r0 = task.out.input
    BY <1>1 DEF Tasks, TasksAt
  <2> DEFINE step == [layer |-> layer, batch |-> task.batch,
                      input |-> task.out.input, gradient |-> task.from]
  <2>2. steps' = Append(steps, step) /\ task' = [task EXCEPT !.at = "ensureBackward"]
    BY <1>4 DEF Backward, Fatal, To
  <2>3. task'.at = "ensureBackward" BY <1>1, <2>2 DEF Tasks, TasksAt
  <2>4. step.batch = b0 /\ step.input = r0 BY <2>1
  <2>5. step \in Steps
    <3>1. layer # None BY <1>4 DEF Backward, Fatal
    <3>2. layer \in 0 .. round /\ round \in 1 .. MaxRounds BY DEF UseInv, RoundTypeOK, Round
    <3>3. layer \in Round BY <3>1, <3>2, RoundAssumption DEF Round, None
    <3> QED BY <1>1, <3>3 DEF Steps, Tasks, TasksAt, Outputs
  <2> HIDE DEF step
  <2>6. steps \in Seq(Steps) BY DEF UseInv, RoundTypeOK
  <2>7. /\ DOMAIN steps' = DOMAIN steps \union {Len(steps) + 1}
        /\ \A i \in DOMAIN steps : steps'[i] = steps[i]
        /\ steps'[Len(steps) + 1] = step
    BY <2>5, <2>2, <2>6, AppendShape
  <2>8. At("use", b0, r0) /\ ~At("use", b0, r0)' BY <1>1, <2>1, <2>3 DEF At
  <2>9. \A b \in Batch, r \in Round : \A p \in Places :
          At(p, b, r)' => At(p, b, r) \/ (p = "step" /\ b = b0 /\ r = r0)
    BY <1>2, <2>3, <2>4, <2>7 DEF At
  <2>10. AtOnePlace' /\ SentBefore' BY <1>2, <2>8, <2>9, OneMoves DEF Places
  <2>11. ~At("step", b0, r0) BY <2>8 DEF UseInv, AtOnePlace, Places
  <2>12. \A i \in DOMAIN steps : ~(steps[i].batch = b0 /\ steps[i].input = r0) BY <2>11 DEF At
  <2>13. UsedOnce' BY <2>4, <2>7, <2>12 DEF UseInv, UsedOnce
  <2>14. InputsAreKnown' BY <1>2, <2>3 DEF UseInv, InputsAreKnown
  <2> QED BY <1>2, <2>10, <2>13, <2>14 DEF UseInv, QueuedOnce
<1> QED BY <1>3, <1>4

LEMMA FeedMoves == UseInv /\ RoundTypeOK' /\ Feed => UseInv'
<1> SUFFICES ASSUME UseInv, RoundTypeOK', Feed PROVE UseInv'
  OBVIOUS
<1>1. /\ network' = network \union {Message("forward", fed, round)}
      /\ fed' = fed + 1 /\ fed \in Batch /\ fed \in Nat /\ round \in Round
      /\ UNCHANGED <<round, pool, outputs, task, steps>>
  BY RoundAssumption DEF Feed, config, UseInv, RoundTypeOK, Batch
<1>2. \A p \in Places : ~At(p, fed, round) BY <1>1 DEF UseInv, SentBefore, Round
<1>3. \A b \in Batch, r \in Round : \A p \in Places :
        At(p, b, r)' => At(p, b, r) \/ (p = "network" /\ b = fed /\ r = round)
  BY <1>1 DEF At, Message
<1>4. AtOnePlace' BY <1>2, <1>3 DEF UseInv, AtOnePlace
<1>5. SentBefore' BY <1>1, <1>3 DEF UseInv, SentBefore, Batch, Round
<1> QED BY <1>1, <1>4, <1>5 DEF UseInv, QueuedOnce, UsedOnce, InputsAreKnown

LEMMA UseStep == UseInv /\ [RoundNext]_roundVars => UseInv'
<1> SUFFICES ASSUME UseInv, [RoundNext]_roundVars PROVE UseInv'
  OBVIOUS
<1>0. RoundTypeOK' BY TypeStep DEF UseInv
<1>1. CASE InitReset BY <1>0, <1>1, ResetMoves DEF InitReset
<1>2. CASE ShutdownThread /\ Persistent
  BY <1>0, <1>2, ResetMoves DEF ShutdownThread, coordinator
<1>3. CASE \/ InitLayer \/ InitStubs \/ Recover \/ NextRun \/ Shutdown
           \/ (ShutdownThread /\ ~Persistent) \/ UNCHANGED roundVars
  <2>1. /\ UNCHANGED <<network, outputs, pool, task, steps>>
        /\ (round' = round /\ fed' = fed) \/ round' = round + 1
    BY <1>3
    DEF InitLayer, InitStubs, Recover, NextRun, NextRound, Shutdown, ShutdownThread,
        coordinator, config, roundVars
  <2>2. \A b \in Batch, r \in Round : \A p \in Places : At(p, b, r)' => At(p, b, r)
    BY <2>1 DEF At
  <2>3. InputsAreKnown' BY <2>1 DEF UseInv, InputsAreKnown
  <2>4. (round' = round /\ fed' >= fed) \/ round' = round + 1 BY <2>1 DEF UseInv, RoundTypeOK
  <2> QED BY <1>0, <2>1, <2>2, <2>3, <2>4, NothingMoves
<1>4. CASE Feed BY <1>0, <1>4, FeedMoves
<1>5. CASE Deliver BY <1>0, <1>5, DeliverMoves
<1>6. CASE TakeTask BY <1>0, <1>6, TakeMoves
<1>7. CASE EnsureForward \/ EnsureBackward
  BY <1>0, <1>7, ToMoves DEF EnsureForward, EnsureBackward, coordinator, config
<1>8. CASE StartTask
  <2>1. task \in Tasks /\ task.at = "start" BY <1>8, RunningTask DEF StartTask, UseInv
  <2>2. UNCHANGED <<round, fed, network, outputs, pool, steps>>
    BY <1>8 DEF StartTask, coordinator, config
  <2>3. CASE task.kind = "forward"
    <3>1. task' \in {[task EXCEPT !.at = "compute"], Idle}
      BY <1>8, <2>3 DEF StartTask, Ensure, To, Drop
    <3>2. \/ task'.at = "idle"
          \/ /\ task'.at = "compute"
             /\ task'.kind = task.kind /\ task'.batch = task.batch /\ task'.from = task.from
      BY <2>1, <3>1 DEF Tasks, TasksAt, Idle
    <3>3. \A b \in Batch, r \in Round : \A p \in Places : At(p, b, r)' => At(p, b, r)
      BY <2>1, <2>2, <3>2 DEF At, ForwardOf
    <3>4. InputsAreKnown' BY <2>2, <2>3, <3>2 DEF UseInv, InputsAreKnown
    <3>5. round' = round /\ fed' >= fed BY <2>2 DEF UseInv, RoundTypeOK
    <3> QED BY <1>0, <2>2, <3>3, <3>4, <3>5, NothingMoves
  <2>4. CASE task.kind = "backward" BY <1>0, <1>8, <2>1, <2>2, <2>4, ToMoves DEF StartTask
  <2> QED BY <2>1, <2>3, <2>4 DEF Tasks, TasksAt
<1>9. CASE ComputeTask
  <2>1. UNCHANGED <<round, fed, network, outputs, pool, steps>>
    BY <1>9 DEF ComputeTask, Fatal, coordinator, config
  <2>2. CASE layer = None BY <1>0, <1>9, <2>1, <2>2, ToMoves DEF ComputeTask, Fatal
  <2>3. CASE layer # None
    <3>1. task \in Tasks /\ task.at = "compute" /\ task.kind = "forward"
      BY <1>9, RunningTask DEF ComputeTask, UseInv, InputsAreKnown
    <3>2. task' = [task EXCEPT !.at = "store", !.out = Output(layer, task.from, task.gen)]
      BY <1>9, <2>3 DEF ComputeTask
    <3>3. /\ task'.at = "store" /\ task'.kind = task.kind
          /\ task'.batch = task.batch /\ task'.from = task.from
          /\ task'.out.input = task.from
      BY <3>1, <3>2 DEF Tasks, TasksAt, Output
    <3>4. \A b \in Batch, r \in Round : \A p \in Places : At(p, b, r)' => At(p, b, r)
      BY <2>1, <3>1, <3>3 DEF At, ForwardOf
    <3>5. InputsAreKnown' BY <2>1, <3>1, <3>3 DEF UseInv, InputsAreKnown
    <3>6. round' = round /\ fed' >= fed BY <2>1 DEF UseInv, RoundTypeOK
    <3> QED BY <1>0, <2>1, <3>4, <3>5, <3>6, NothingMoves
  <2> QED BY <2>2, <2>3
<1>10. CASE Store BY <1>0, <1>10, StoreMoves
<1>11. CASE SendForward
  <2>1. /\ UNCHANGED <<round, fed, outputs, pool, steps>> /\ task.at # "idle" /\ Drop
        /\ network' \in {network, network \union {Message("backward", task.batch, task.from)}}
    BY <1>11 DEF SendForward, Fatal, coordinator, config
  <2>2. \A b \in Batch, r \in Round :
          Message("forward", b, r) \in network' => Message("forward", b, r) \in network
    BY <2>1 DEF Message
  <2> QED BY <1>0, <2>1, <2>2, ToMoves
<1>12. CASE Pop BY <1>0, <1>12, PopMoves
<1>13. CASE Backward BY <1>0, <1>13, BackwardMoves
<1>14. CASE SendBackward
  <2>1. /\ UNCHANGED <<round, fed, network, outputs, pool, steps>> /\ task.at # "idle" /\ Drop
    BY <1>14 DEF SendBackward, Fatal, coordinator, config
  <2> QED BY <1>0, <2>1, ToMoves
<1> QED
  BY <1>1, <1>2, <1>3, <1>4, <1>5, <1>6, <1>7, <1>8, <1>9, <1>10, <1>11, <1>12, <1>13, <1>14
  DEF RoundNext, RunTask

\* However late the messages of earlier rounds are, and however many gradients
\* a batch is sent, an activation is used for one optimizer step at the most.
THEOREM UseCorrect == RoundSpec => []ActivationsAreUsedOnce
<1>1. RoundInit => UseInv BY UseInit
<1>2. UseInv /\ [RoundNext]_roundVars => UseInv' BY UseStep
<1>3. UseInv => ActivationsAreUsedOnce BY DEF UseInv, UsedOnce, ActivationsAreUsedOnce
<1> QED BY <1>1, <1>2, <1>3, PTL DEF RoundSpec

--------------------
(***************************************************************************)
(* Its raw tensor connections (module TensorStream).                       *)
(***************************************************************************)

(* The frames on the wire. *)

Name == {"tcp", "ipc"}
Kind == {"F", "B"}
Cell == Nat \X Nat

AnyPart ==
  [is : {"none", "kind", "rest", "handle", "cell"}, ipc : BOOLEAN, kind : Kind, batch : Nat,
   size : Nat \ {0}, cell : Cell]

\* What frame n looks like when it is sent, a part at a time.
Header(n, is, cell) ==
  [is |-> is, ipc |-> Ipc(n), kind |-> set.frames[n].kind, batch |-> n,
   size |-> set.frames[n].size, cell |-> cell]

PartOf(n, i) ==
  Header(n, IF i = 1 THEN "kind" ELSE IF i = 2 THEN "rest" ELSE IF Ipc(n) THEN "handle" ELSE "cell",
            IF i <= 2 \/ Ipc(n) THEN Garbage ELSE <<n, i - 2>>)

PartsOf(n) == IF Ipc(n) THEN 3 ELSE set.frames[n].size + 2

Wire == UNION {{PartOf(n, i) : i \in 1 .. PartsOf(n)} : n \in Frame}

\* The place of a part in its frame.
Number(x) ==
  CASE x.is = "kind" -> 1
    [] x.is = "rest" -> 2
    [] x.is = "handle" -> 3
    [] OTHER -> x.cell[2] + 2

\* Only a frame of cells is followed by another before it is acknowledged.
EndsFrame(x) == ~x.ipc /\ Number(x) = x.size + 2

Follows(x, y) ==
  IF Number(y) = 1 THEN EndsFrame(x) ELSE y.batch = x.batch /\ Number(y) = Number(x) + 1

\* Part y is the one reader r has to read next.
Place(y) == IF Number(y) = 2 THEN "rest" ELSE IF y.ipc THEN "handle" ELSE "cells"

Expects(r, y) ==
  IF Number(y) = 1 THEN r.at \in {"backlog", "kind", "submit"}
  ELSE /\ r.at = Place(y) /\ r.frame.batch = y.batch
       /\ r.at = "cells" => Number(y) = r.got + 3

\* Part y is the one that comes after all there is on the connection.
LastOf(r) == r.parts[Len(r.parts)]
Awaits(r, y) == IF r.parts = <<>> THEN Expects(r, y) ELSE Follows(LastOf(r), y)

\* A frame may begin.
Between(r) ==
  IF r.parts = <<>> THEN r.at \in {"backlog", "kind", "submit"} ELSE EndsFrame(LastOf(r))

--------------------
(* A connection. *)

InFrame == {"rest", "handle", "cells", "clone", "ack"}

Tensor == [own : BOOLEAN, cells : Seq(Cell)]
Connection ==
  [open : BOOLEAN, broken : BOOLEAN, parts : Seq(Wire), ack : BOOLEAN,
   at : {"backlog", "kind", "submit", "done", "desync"} \union InFrame,
   frame : AnyPart, buf : Seq(Cell), got : Nat, tensor : Tensor]

\* What a reader is in the middle of, and that its parts are in order.
Reading(r) ==
  /\ r.at # "desync" /\ r.tensor.own
  /\ r.at = "cells" =>
       /\ ~r.frame.ipc /\ r.got < r.frame.size /\ r.frame.size <= Len(r.buf)
       /\ \A i \in 1 .. r.got : r.buf[i] = <<r.frame.batch, i>>
  /\ r.at \in {"handle", "clone", "ack"} => r.frame.ipc
  /\ r.at \in {"ack", "submit"} => Len(r.tensor.cells) = r.frame.size

InOrder(r) ==
  /\ \A k \in 1 .. Len(r.parts) - 1 : Follows(r.parts[k], r.parts[k + 1])
  /\ (r.parts # <<>> /\ r.at # "done") => Expects(r, r.parts[1])

Sound(r) == Reading(r) /\ InOrder(r) /\ r.got <= Len(r.buf) /\ Len(r.parts) <= Buffer

\* The parts and headers of frames that are not cloned yet.
Pending(r) ==
  IF r.at = "done" THEN {}
  ELSE {r.parts[k] : k \in DOMAIN r.parts} \union IF r.at \in InFrame THEN {r.frame} ELSE {}

SentOnes == {n \in DOMAIN outcome : outcome[n].is = "sent"}
Failed == {n \in DOMAIN outcome : outcome[n].is # "sent"}
Right(n, size) == [i \in 1 .. size |-> <<n, i>>]

\* A tensor of frame n holds its data, or its send has failed.
Holds(n, cells) == n \in Failed \/ cells = Right(n, set.frames[n].size)

ConnInv(r) ==
  /\ Sound(r)
  /\ r.at \in InFrame \union {"submit"} => r.frame \in Wire
  /\ r.at \in {"ack", "submit"} => Holds(r.frame.batch, r.tensor.cells)

--------------------
(* A connection and the sender. *)

OnSocket == sender.at \in {"send", "ack", "close"}
Using(c) == OnSocket /\ sender.conn = c
Live(c) == Using(c) \/ \E w \in Name : sock[w] = c
Waiting(c) == sender.at \in {"ack", "close"} /\ sender.conn = c

Over(c) == Done(c) \/ Gone(c)

\* A frame that is not cloned was not sent, unless in cells; the one being
\* sent is on the sender's connection only.
PendingInv(c) ==
  \A x \in Pending(conns[c]) :
    /\ x.ipc => x.batch \notin SentOnes
    /\ x.batch <= f
    /\ x.batch = f => Using(c)
    /\ (Live(c) /\ x.ipc) => x.batch = f
    /\ (x.batch = f /\ (x.is = "handle" \/ conns[c].at \in {"clone", "ack"})) => sender.at # "send"

\* An acknowledgement is for the frame of which the sender waits for one.
AckInv(c) ==
  /\ (Live(c) /\ conns[c].ack) => Waiting(c)
  /\ (conns[c].ack /\ sender.at = "ack" /\ sender.conn = c) =>
       Done(c) \/ (conns[c].parts = <<>> /\ conns[c].at \in {"kind", "submit"})

\* Between two sends a connection is between two frames.
IdleInv(c) == (Live(c) /\ ~Using(c)) => Over(c) \/ Between(conns[c])

LinkInv(c) == PendingInv(c) /\ AckInv(c) /\ IdleInv(c)

--------------------
(* The sender. *)

Other == IF Ipc(f) THEN "tcp" ELSE "ipc"
Pinned(n) == set.frames[n].cuda /\ ~Ipc(n)
PinnedIs(n) == \A i \in 1 .. set.frames[n].size : pinned[i] = <<n, i>>

Types ==
  /\ set \in Setting /\ Len(set.frames) \in Nat \ {0}
  /\ sender \in [at : {"idle", "copy", "connect", "send", "ack", "close"}, conn : Nat, next : Nat \ {0}]
  /\ outcome \in Seq([is : {"sent", "failed", "fatal"}, conn : Nat])
  /\ memory \in [Frame -> Nat] /\ pinned \in Seq(Cell) /\ dma \in {0} \union Frame
  /\ sock \in [Name -> {0} \union Conn]
  /\ closer \in [at : {"idle", "look", "close", "forget", "raised"}, left : Seq(Name)]
  /\ closer.at \in {"look", "close", "forget"} => closer.left # <<>>
  /\ conns \in Seq(Connection)
  /\ receiver \in [stop : BOOLEAN, accepting : {"yes", "last", "no"}, frozen : BOOLEAN]

WorkItem == [conn : Nat, kind : Kind, batch : Nat, tensor : Tensor]

Work(w) ==
  /\ w.batch \in Frame /\ w.kind = set.frames[w.batch].kind
  /\ w.tensor.own
  /\ Len(w.tensor.cells) = set.frames[w.batch].size
  /\ Holds(w.batch, w.tensor.cells)

WorkInv ==
  /\ works \in Seq(WorkItem)
  /\ \A n \in DOMAIN works : Work(works[n])
  /\ \A w \in computed : Holds(w.batch, w.cells)

SenderInv ==
  /\ sender.conn \in {0} \union Conn
  /\ sender.at # "idle" => f \in Frame
  /\ \A n \in Frame : n >= f => memory[n] = n
  /\ dma # 0 => dma = f /\ sender.at = "copy"
  /\ sender.at = "copy" => Pinned(f)
  /\ (sender.at \in {"copy", "connect", "send"} /\ Pinned(f)) =>
       /\ set.frames[f].size <= Len(pinned)
       /\ dma = 0 => PinnedIs(f)
  /\ sender.at = "ack" => Ipc(f)
  /\ sender.at \in {"copy", "connect"} => sender.next = 1
  /\ sender.at = "send" =>
       /\ sender.next <= PartsOf(f)
       /\ Over(sender.conn) \/ Awaits(conns[sender.conn], PartOf(f, sender.next))

SockInv ==
  /\ sock["tcp"] # 0 => sock["tcp"] # sock["ipc"]
  /\ OnSocket => /\ sender.conn # 0 /\ sock[Client] \in {0, sender.conn}
                 /\ sock[Other] # sender.conn

IndInv ==
  /\ Types /\ SenderInv /\ SockInv /\ WorkInv
  /\ \A c \in Conn : ConnInv(conns[c]) /\ LinkInv(c)

--------------------
(* Settings and parts. *)

SettingKept == set' \in Setting /\ set'.frames = set.frames /\ set'.ipc = set.ipc

LEMMA SettingStays ==
  ASSUME set \in Setting, NEW kind \in {"slow", "closes", "breaks", "stops", "freezes"},
         set' = set \/ Fault(kind)
  PROVE  SettingKept
<1>1. CASE set' = set BY <1>1 DEF SettingKept
<1>2. CASE Fault(kind)
  <2>1. set[kind] \in Nat /\ set[kind] > 0 /\ set' = [set EXCEPT ![kind] = set[kind] - 1]
    BY <1>2 DEF Fault, Setting
  <2>2. set[kind] - 1 \in Nat BY <2>1
  <2> QED BY <2>1, <2>2 DEF Setting, SettingKept
<1> QED BY <1>1, <1>2

LEMMA FramesAre ==
  ASSUME set \in Setting
  PROVE  /\ Len(set.frames) \in Nat /\ Frame \subseteq Nat \ {0}
         /\ \A n \in Frame : /\ set.frames[n].size \in Nat \ {0} /\ set.frames[n].kind \in Kind
                             /\ set.frames[n].cuda \in BOOLEAN
         /\ \A n : Ipc(n) \in BOOLEAN
<1> DEFINE T == [kind : Kind, size : Nat \ {0}, cuda : BOOLEAN]
<1>1. set.frames \in Seq(T) /\ set.ipc \in BOOLEAN BY DEF Setting, Kind
<1>2. Len(set.frames) \in Nat /\ Frame = 1 .. Len(set.frames) BY <1>1 DEF Frame
<1> HIDE DEF T
<1>3. \A n \in Frame : set.frames[n] \in T BY <1>1, <1>2
<1>4. \A n : Ipc(n) \in BOOLEAN BY DEF Ipc
<1> QED BY <1>2, <1>3, <1>4 DEF T

LEMMA WireStays ==
  ASSUME SettingKept
  PROVE  Frame' = Frame /\ Wire' = Wire /\ Connection' = Connection
<1>1. Frame' = Frame BY DEF SettingKept, Frame
<1>2. \A n, i : PartOf(n, i)' = PartOf(n, i) /\ PartsOf(n)' = PartsOf(n)
  BY DEF SettingKept, PartOf, PartsOf, Header, Ipc, SameMachine
<1>3. Wire' = Wire BY <1>1, <1>2 DEF Wire
<1> QED BY <1>1, <1>3 DEF Connection

\* A part of a frame, in its place.
LEMMA PartFacts ==
  ASSUME set \in Setting, NEW n \in Frame, NEW i \in 1 .. PartsOf(n)
  PROVE  /\ PartOf(n, i) \in Wire /\ PartOf(n, i) \in AnyPart
         /\ Number(PartOf(n, i)) = i /\ PartOf(n, i).batch = n /\ PartOf(n, i).ipc = Ipc(n)
         /\ PartOf(n, i).size = set.frames[n].size /\ PartOf(n, i).kind = set.frames[n].kind
         /\ (PartOf(n, i).is = "kind" <=> i = 1) /\ (PartOf(n, i).is = "rest" <=> i = 2)
         /\ i > 2 => IF Ipc(n) THEN PartOf(n, i).is = "handle"
                     ELSE PartOf(n, i).is = "cell" /\ PartOf(n, i).cell = <<n, i - 2>>
         /\ i <= 2 => PartOf(n, i).cell = Garbage
<1>1. /\ n \in Nat \ {0} /\ set.frames[n].size \in Nat \ {0} /\ set.frames[n].kind \in Kind
      /\ Ipc(n) \in BOOLEAN
  BY FramesAre
<1>2. i \in Nat \ {0} /\ (Ipc(n) => i <= 3) BY <1>1 DEF PartsOf
<1>3. PartOf(n, i) \in Wire BY DEF Wire
<1>4. /\ PartOf(n, i).batch = n /\ PartOf(n, i).ipc = Ipc(n)
      /\ PartOf(n, i).size = set.frames[n].size /\ PartOf(n, i).kind = set.frames[n].kind
      /\ PartOf(n, i).is = (IF i = 1 THEN "kind" ELSE IF i = 2 THEN "rest" ELSE IF Ipc(n) THEN "handle" ELSE "cell")
      /\ PartOf(n, i).cell = (IF i <= 2 \/ Ipc(n) THEN Garbage ELSE <<n, i - 2>>)
  BY DEF PartOf, Header
<1>5. Garbage \in Cell /\ (i > 2 => <<n, i - 2>> \in Cell) BY <1>1, <1>2 DEF Garbage, Cell
<1>6. PartOf(n, i) \in AnyPart BY <1>1, <1>2, <1>5 DEF AnyPart, PartOf, Header
<1>7. Number(PartOf(n, i)) = i BY <1>1, <1>2, <1>4 DEF Number
<1> QED BY <1>1, <1>2, <1>3, <1>4, <1>6, <1>7

LEMMA WireFacts ==
  ASSUME set \in Setting, NEW x \in Wire
  PROVE  /\ x \in AnyPart /\ x.batch \in Frame /\ x.ipc = Ipc(x.batch)
         /\ x.size = set.frames[x.batch].size /\ x.kind = set.frames[x.batch].kind
         /\ x.size \in Nat \ {0} /\ x.ipc \in BOOLEAN /\ x.batch \in Nat
         /\ Number(x) \in Nat \ {0} /\ Number(x) <= IF x.ipc THEN 3 ELSE x.size + 2
         /\ (x.is = "kind" <=> Number(x) = 1) /\ (x.is = "rest" <=> Number(x) = 2)
         /\ Number(x) > 2 => IF x.ipc THEN x.is = "handle"
                             ELSE x.is = "cell" /\ x.cell = <<x.batch, Number(x) - 2>>
         /\ Number(x) <= 2 => x.cell = Garbage
         /\ x = PartOf(x.batch, Number(x))
<1>1. PICK n \in Frame : x \in {PartOf(n, i) : i \in 1 .. PartsOf(n)} BY DEF Wire
<1>0. PICK i \in 1 .. PartsOf(n) : x = PartOf(n, i) BY <1>1
<1>2. /\ x \in AnyPart
      /\ Number(x) = i /\ x.batch = n /\ x.ipc = Ipc(n)
      /\ x.size = set.frames[n].size /\ x.kind = set.frames[n].kind
      /\ (x.is = "kind" <=> i = 1) /\ (x.is = "rest" <=> i = 2)
      /\ i > 2 => IF Ipc(n) THEN x.is = "handle" ELSE x.is = "cell" /\ x.cell = <<n, i - 2>>
      /\ i <= 2 => x.cell = Garbage
  BY <1>0, PartFacts
<1>3. set.frames[n].size \in Nat \ {0} /\ Ipc(n) \in BOOLEAN /\ n \in Nat BY FramesAre
<1>4. i \in Nat \ {0} /\ i <= IF Ipc(n) THEN 3 ELSE set.frames[n].size + 2 BY <1>3 DEF PartsOf
<1> QED BY <1>0, <1>2, <1>3, <1>4

--------------------
(* What may become of a connection, seen from the sender. *)

Ended(r) == r.at = "done" \/ r.broken \/ ~r.open

Advances(r, s) ==
  /\ Pending(s) \subseteq Pending(r)
  /\ \A x \in Pending(s) : (x.is = "handle" \/ s.at \in {"clone", "ack"}) =>
       \E y \in Pending(r) : y.batch = x.batch /\ (y.is = "handle" \/ r.at \in {"clone", "ack"})
  /\ (r.at = "done" => s.at = "done") /\ (r.broken => s.broken) /\ (s.open => r.open)
  /\ s.ack => r.ack \/ (r.at = "ack" /\ s.at = "submit" /\ s.parts = <<>>)
  /\ \A y \in Wire : Awaits(r, y) => Awaits(s, y) \/ Ended(s)
  /\ Between(r) => Between(s) \/ Ended(s)
  /\ (r.parts = <<>> /\ r.at \in {"kind", "submit"}) =>
       s.at = "done" \/ (s.parts = <<>> /\ s.at \in {"kind", "submit"})

LEMMA FunctionIsSeq ==
  ASSUME NEW S, NEW n \in Nat, NEW g \in [1 .. n -> S]
  PROVE  g \in Seq(S) /\ Len(g) = n
OBVIOUS

LEMMA TailShape ==
  ASSUME NEW S, NEW q \in Seq(S), q # <<>>
  PROVE  /\ q[1] \in S /\ Head(q) = q[1] /\ Tail(q) \in Seq(S)
         /\ Len(q) \in Nat \ {0} /\ Len(Tail(q)) = Len(q) - 1
         /\ DOMAIN q = 1 .. Len(q) /\ DOMAIN Tail(q) = 1 .. Len(q) - 1
         /\ \A k \in 1 .. Len(q) - 1 : Tail(q)[k] = q[k + 1]
<1>1. Len(q) \in Nat \ {0} /\ DOMAIN q = 1 .. Len(q) OBVIOUS
<1>2. Tail(q) \in Seq(S) /\ Len(Tail(q)) = Len(q) - 1 OBVIOUS
<1>3. \A k \in 1 .. Len(q) - 1 : Tail(q)[k] = q[k + 1] OBVIOUS
<1>4. Head(q) = q[1] /\ q[1] \in S BY <1>1
<1>5. DOMAIN Tail(q) = 1 .. Len(Tail(q)) BY <1>2
<1> QED BY <1>1, <1>2, <1>3, <1>4, <1>5

\* A reader that takes the part it expects expects the one that follows it.
LEMMA TakeHead ==
  ASSUME NEW r \in Connection, NEW s \in Connection,
         InOrder(r), Len(r.parts) <= Buffer, Buffer \in Nat,
         r.parts # <<>>, s.parts = Tail(r.parts), r.at \in {"kind", "rest", "handle", "cells"},
         s.at \notin {"backlog", "ack", "done"},
         s.open = r.open, s.broken = r.broken, s.ack = r.ack,
         s.at \in InFrame => s.frame \in Pending(r),
         s.at = "clone" => r.parts[1].is = "handle" /\ r.parts[1].batch = s.frame.batch,
         \A y \in Wire : Follows(r.parts[1], y) => Expects(s, y),
         EndsFrame(r.parts[1]) => s.at \in {"kind", "submit"}
  PROVE  InOrder(s) /\ Advances(r, s) /\ Len(s.parts) <= Buffer
<1> DEFINE q == r.parts
           t == s.parts
<1>1. q \in Seq(Wire) /\ t \in Seq(Wire) /\ t = Tail(q) /\ q # <<>> BY DEF Connection
<1>2. /\ q[1] \in Wire /\ Len(q) \in Nat \ {0} /\ Len(t) = Len(q) - 1
      /\ DOMAIN q = 1 .. Len(q) /\ DOMAIN t = 1 .. Len(q) - 1
      /\ \A k \in 1 .. Len(q) - 1 : t[k] = q[k + 1]
  BY <1>1, TailShape
<1>3. \A k \in 1 .. Len(t) : t[k] \in Wire BY <1>1
<1>17. t = <<>> <=> Len(t) = 0 BY <1>1, EmptySeq
<1>4. t = <<>> <=> Len(q) = 1 BY <1>2, <1>17
<1>5. \A k \in 1 .. Len(t) - 1 : Follows(t[k], t[k + 1]) BY <1>2 DEF InOrder
<1>6. t # <<>> => Expects(s, t[1])
  <2> SUFFICES ASSUME t # <<>> PROVE Expects(s, t[1])
    OBVIOUS
  <2>1. t[1] = q[2] /\ Follows(q[1], q[2]) BY <1>2, <1>4 DEF InOrder
  <2>0. Len(t) \in Nat /\ Len(t) # 0 BY <1>1, <1>17
  <2>4. 1 \in 1 .. Len(t) BY <2>0
  <2>2. t[1] \in Wire BY <1>3, <2>4
  <2>3. Expects(s, q[2]) BY <1>2, <1>3, <1>4, <2>1, <2>2
  <2> QED BY <2>1, <2>3
<1>7. InOrder(s) BY <1>5, <1>6 DEF InOrder
<1>8. Pending(s) \subseteq Pending(r)
  <2>1. {t[k] : k \in DOMAIN t} \subseteq {q[k] : k \in DOMAIN q} BY <1>2
  <2> QED BY <2>1 DEF Pending
<1>9. s.at \in {"clone", "ack"} => Pending(s) = {s.frame}
  <2> SUFFICES ASSUME s.at = "clone" PROVE Pending(s) = {s.frame}
    OBVIOUS
  <2>1. t = <<>> BY <1>6 DEF Expects, Place
  <2>3. Len(t) = 0 BY <1>17, <2>1
  <2>4. DOMAIN t = 1 .. 0 BY <1>2, <2>3
  <2>2. DOMAIN t = {} BY <2>4
  <2> QED BY <2>2 DEF Pending, InFrame
<1>10. q[1] \in Pending(r) BY <1>2 DEF Pending
<1>11. \A x \in Pending(s) : (x.is = "handle" \/ s.at \in {"clone", "ack"}) =>
         \E y \in Pending(r) : y.batch = x.batch /\ (y.is = "handle" \/ r.at \in {"clone", "ack"})
  BY <1>8, <1>9, <1>10
<1>12. LastOf(s) = LastOf(r) \/ t = <<>> BY <1>2, <1>4 DEF LastOf
<1>13. t = <<>> => LastOf(r) = q[1] BY <1>2, <1>4 DEF LastOf
<1>14. \A y \in Wire : Awaits(r, y) => Awaits(s, y) BY <1>12, <1>13 DEF Awaits
<1>15. Between(r) => Between(s) BY <1>12, <1>13 DEF Between
<1>16. Len(t) <= Buffer BY <1>2
<1> QED BY <1>7, <1>8, <1>11, <1>14, <1>15, <1>16 DEF Advances

--------------------
(* The receiver's thread of a connection. *)

\* A buffer that is big enough.
LEMMA GetShape ==
  ASSUME NEW buf \in Seq(Cell), NEW n \in Nat
  PROVE  Get(buf, n) \in Seq(Cell) /\ n <= Len(Get(buf, n)) /\ Len(buf) <= Len(Get(buf, n))
<1> DEFINE headroom == (5 * n) \div 4
           m == IF headroom > n THEN headroom ELSE n
           new == [i \in 1 .. m |-> Garbage]
<1>1. m \in Nat /\ m >= n /\ Len(buf) \in Nat OBVIOUS
<1> HIDE DEF headroom, m
<1>2. Garbage \in Cell BY DEF Garbage, Cell
<1>3. new \in Seq(Cell) /\ Len(new) = m BY <1>1, <1>2
<1>4. Get(buf, n) = IF Len(buf) < n THEN new ELSE buf BY DEF Get, m, headroom
<1> HIDE DEF new
<1> QED BY <1>1, <1>3, <1>4

\* What a reader expects is the part it is given.
LEMMA ExpectedPart ==
  ASSUME set \in Setting, NEW r \in Connection, ConnInv(r),
         r.at \in {"kind", "rest", "handle", "cells"}, r.parts # <<>>
  PROVE  /\ r.parts[1] \in Wire
         /\ r.at # "cells" => r.parts[1].is = r.at
         /\ r.at # "kind" => /\ r.frame \in Wire /\ r.parts[1].batch = r.frame.batch
                             /\ r.parts[1].ipc = r.frame.ipc /\ r.parts[1].size = r.frame.size
                             /\ r.parts[1].kind = r.frame.kind
         /\ r.at = "handle" => r.frame.ipc
         /\ r.at = "cells" => /\ Number(r.parts[1]) = r.got + 3 /\ ~r.frame.ipc
                              /\ r.parts[1].is = "cell"
                              /\ r.parts[1].cell = <<r.frame.batch, r.got + 1>>
<1> DEFINE x == r.parts[1]
<1>1. x \in Wire BY TailShape DEF Connection
<1>2. Expects(r, x) BY DEF ConnInv, Sound, InOrder
<1> HIDE DEF x
<1>3. /\ x.ipc \in BOOLEAN /\ Number(x) \in Nat \ {0}
      /\ (x.is = "kind" <=> Number(x) = 1) /\ (x.is = "rest" <=> Number(x) = 2)
      /\ Number(x) > 2 => IF x.ipc THEN x.is = "handle"
                          ELSE x.is = "cell" /\ x.cell = <<x.batch, Number(x) - 2>>
  BY <1>1, WireFacts
<1>4. r.at # "kind" => r.frame \in Wire /\ x.batch = r.frame.batch
  BY <1>2 DEF ConnInv, InFrame, Expects
<1>5. r.at # "kind" => x.ipc = r.frame.ipc /\ x.size = r.frame.size /\ x.kind = r.frame.kind
  BY <1>1, <1>4, WireFacts
<1>6. /\ r.at = "kind" => Number(x) = 1
      /\ r.at = "rest" => Number(x) = 2
      /\ r.at = "handle" => Number(x) > 2 /\ x.ipc
      /\ r.at = "cells" => Number(x) > 2 /\ ~x.ipc /\ Number(x) = r.got + 3
  BY <1>2, <1>3 DEF Expects, Place
<1>7. r.at = "cells" => r.got \in Nat BY DEF Connection
<1>8. r.at = "cells" => x.cell = <<r.frame.batch, r.got + 1>> BY <1>3, <1>4, <1>6, <1>7
<1> QED BY <1>1, <1>3, <1>4, <1>5, <1>6, <1>8 DEF x

\* The steps of a reader that takes the part it expects.
TakesHeader(r, s) ==
  \/ r.at = "kind" /\ s = [r EXCEPT !.parts = Tail(@), !.at = "rest", !.frame = r.parts[1]]
  \/ /\ r.at = "rest" /\ r.frame.ipc
     /\ s = [r EXCEPT !.parts = Tail(@), !.at = "handle", !.frame = r.parts[1]]
  \/ /\ r.at = "rest" /\ ~r.frame.ipc
     /\ s = [r EXCEPT !.parts = Tail(@), !.at = "cells", !.frame = r.parts[1], !.got = 0,
                      !.buf = Get(@, r.parts[1].size)]

TakesHandle(r, s) == r.at = "handle" /\ s = [r EXCEPT !.parts = Tail(@), !.at = "clone"]

TakesCell(r, s) ==
  /\ r.at = "cells" /\ r.got + 1 < r.frame.size
  /\ s = [r EXCEPT !.parts = Tail(@), !.got = @ + 1,
                   !.buf = [r.buf EXCEPT ![r.got + 1] = r.parts[1].cell]]

TakesLastCell(r, s, buf) ==
  /\ r.at = "cells" /\ ~(r.got + 1 < r.frame.size)
  /\ buf = [r.buf EXCEPT ![r.got + 1] = r.parts[1].cell]
  /\ s = [r EXCEPT !.parts = Tail(@), !.got = 0, !.buf = buf,
                   !.tensor = [own |-> TRUE, cells |-> SubSeq(buf, 1, r.frame.size)], !.at = "submit"]

LEMMA ReadHeader ==
  ASSUME set \in Setting, Buffer \in Nat, NEW r \in Connection, ConnInv(r),
         r.at \in {"kind", "rest"}, r.parts # <<>>, NEW s, TakesHeader(r, s)
  PROVE  s \in Connection /\ ConnInv(s) /\ Advances(r, s)
<1> DEFINE x == r.parts[1]
           buf == IF r.at = "rest" /\ ~r.frame.ipc THEN Get(r.buf, x.size) ELSE r.buf
           got == IF r.at = "rest" /\ ~r.frame.ipc THEN 0 ELSE r.got
           to == IF r.at = "kind" THEN "rest" ELSE IF r.frame.ipc THEN "handle" ELSE "cells"
<1>1. /\ x \in Wire /\ x.is = r.at /\ r.frame.ipc \in BOOLEAN
      /\ r.at # "kind" => x.ipc = r.frame.ipc
  BY ExpectedPart DEF Connection, AnyPart
<1>2. /\ x \in AnyPart /\ x.size \in Nat \ {0} /\ x.ipc \in BOOLEAN /\ Number(x) \in Nat \ {0}
      /\ Number(x) = IF r.at = "kind" THEN 1 ELSE 2
  BY <1>1, WireFacts
<1>3. /\ Tail(r.parts) \in Seq(Wire) /\ r.buf \in Seq(Cell) /\ r.got \in Nat
      /\ Len(r.parts) <= Buffer /\ r.got <= Len(r.buf) /\ InOrder(r) /\ Reading(r)
  BY TailShape DEF Connection, ConnInv, Sound
<1>4. buf \in Seq(Cell) /\ got \in Nat /\ got <= Len(buf) /\ (to = "cells" => x.size <= Len(buf) /\ got = 0)
  <2>1. x.size \in Nat /\ r.buf \in Seq(Cell) BY <1>2, <1>3
  <2> HIDE DEF x
  <2>2. Get(r.buf, x.size) \in Seq(Cell) /\ x.size <= Len(Get(r.buf, x.size)) BY <2>1, GetShape
  <2> QED BY <1>3, <2>1, <2>2
<1>5. s = [r EXCEPT !.parts = Tail(r.parts), !.at = to, !.frame = x, !.got = got, !.buf = buf]
  BY <1>1 DEF Connection, TakesHeader
<1> HIDE DEF x, buf, got, to
<1>6. /\ s.parts = Tail(r.parts) /\ s.at = to /\ s.frame = x /\ s.got = got /\ s.buf = buf
      /\ s.open = r.open /\ s.broken = r.broken /\ s.ack = r.ack /\ s.tensor = r.tensor
      /\ to \in {"rest", "handle", "cells"} /\ s \in Connection
  BY <1>2, <1>3, <1>4, <1>5 DEF Connection, InFrame, to
<1>7. \A y \in Wire : Follows(x, y) => Expects(s, y)
  <2> SUFFICES ASSUME NEW y \in Wire, Follows(x, y) PROVE Expects(s, y)
    OBVIOUS
  <2>1. Number(y) \in Nat \ {0} /\ y.ipc = Ipc(y.batch) /\ x.ipc = Ipc(x.batch) /\ Number(x) < x.size + 2
    BY <1>1, <1>2, WireFacts
  <2>2. Number(y) # 1 /\ y.batch = x.batch /\ Number(y) = Number(x) + 1 /\ y.ipc = x.ipc
    BY <1>1, <1>2, <2>1 DEF Follows, EndsFrame
  <2>3. Place(y) = to BY <1>1, <1>2, <2>2 DEF Place, to
  <2> QED BY <1>2, <1>4, <1>6, <2>2, <2>3 DEF Expects, to
<1>8. ~EndsFrame(x) BY <1>2 DEF EndsFrame
<1>9. x \in Pending(r) BY TailShape DEF Pending, x, Connection
<1>10. InOrder(s) /\ Advances(r, s) /\ Len(s.parts) <= Buffer
  BY <1>3, <1>6, <1>7, <1>8, <1>9, TakeHead DEF x, to
<1>11. Reading(s) BY <1>1, <1>2, <1>3, <1>4, <1>6 DEF Reading, to
<1> QED BY <1>1, <1>4, <1>6, <1>10, <1>11 DEF ConnInv, Sound, to

LEMMA ReadHandle ==
  ASSUME set \in Setting, Buffer \in Nat, NEW r \in Connection, ConnInv(r),
         r.parts # <<>>, NEW s, TakesHandle(r, s)
  PROVE  s \in Connection /\ ConnInv(s) /\ Advances(r, s)
<1> DEFINE x == r.parts[1]
<1>0. r.at = "handle" BY DEF TakesHandle
<1>1. x \in Wire /\ x.is = "handle" /\ r.frame \in Wire /\ x.batch = r.frame.batch /\ r.frame.ipc /\ x.ipc
  BY <1>0, ExpectedPart
<1>2. /\ Tail(r.parts) \in Seq(Wire) /\ r.got <= Len(r.buf) /\ Len(r.parts) <= Buffer
      /\ InOrder(r) /\ Reading(r)
  BY TailShape DEF Connection, ConnInv, Sound
<1>3. s = [r EXCEPT !.parts = Tail(r.parts), !.at = "clone"] BY DEF Connection, TakesHandle
<1> HIDE DEF x
<1>4. /\ s.parts = Tail(r.parts) /\ s.at = "clone" /\ s.frame = r.frame /\ s.got = r.got /\ s.buf = r.buf
      /\ s.open = r.open /\ s.broken = r.broken /\ s.ack = r.ack /\ s.tensor = r.tensor
      /\ s \in Connection
  BY <1>2, <1>3 DEF Connection, InFrame
<1>5. \A y \in Wire : ~Follows(x, y)
  <2> SUFFICES ASSUME NEW y \in Wire, Follows(x, y) PROVE FALSE
    OBVIOUS
  <2>1. /\ Number(y) \in Nat \ {0} /\ y.ipc = Ipc(y.batch) /\ x.ipc = Ipc(x.batch)
        /\ Number(y) <= IF y.ipc THEN 3 ELSE y.size + 2
        /\ Number(x) = 3 /\ x.ipc
    BY <1>1, WireFacts DEF Number
  <2> QED BY <1>1, <2>1 DEF Follows, EndsFrame
<1>6. ~EndsFrame(x) BY <1>1 DEF EndsFrame
<1>7. s.frame \in Pending(r) BY <1>0, <1>4 DEF Pending, InFrame
<1>10. /\ \A y \in Wire : Follows(r.parts[1], y) => Expects(s, y)
       /\ ~EndsFrame(r.parts[1]) /\ r.parts[1].is = "handle" /\ r.parts[1].batch = s.frame.batch
  BY <1>1, <1>4, <1>5, <1>6 DEF x
<1>8. InOrder(s) /\ Advances(r, s) /\ Len(s.parts) <= Buffer
  BY ONLY r \in Connection, Buffer \in Nat, r.parts # <<>>,
     <1>0, <1>2, <1>4, <1>7, <1>10, TakeHead
<1>9. Reading(s) BY <1>1, <1>2, <1>4 DEF Reading
<1> QED BY <1>1, <1>2, <1>4, <1>8, <1>9 DEF ConnInv, Sound

LEMMA ReadCell ==
  ASSUME set \in Setting, Buffer \in Nat, NEW r \in Connection, ConnInv(r),
         r.parts # <<>>, NEW s, TakesCell(r, s)
  PROVE  s \in Connection /\ ConnInv(s) /\ Advances(r, s)
<1> DEFINE x == r.parts[1]
           buf == [r.buf EXCEPT ![r.got + 1] = x.cell]
<1>0. r.at = "cells" /\ r.got + 1 < r.frame.size BY DEF TakesCell
<1>1. /\ x \in Wire /\ r.frame \in Wire /\ x.batch = r.frame.batch /\ x.ipc = r.frame.ipc /\ ~r.frame.ipc
      /\ x.size = r.frame.size /\ Number(x) = r.got + 3 /\ x.cell = <<r.frame.batch, r.got + 1>>
  BY <1>0, ExpectedPart
<1>2. /\ Tail(r.parts) \in Seq(Wire) /\ r.buf \in Seq(Cell) /\ r.got \in Nat /\ Len(r.buf) \in Nat
      /\ Len(r.parts) <= Buffer /\ r.got <= Len(r.buf) /\ r.frame.size <= Len(r.buf)
      /\ r.got + 1 < r.frame.size
      /\ InOrder(r) /\ Reading(r) /\ \A i \in 1 .. r.got : r.buf[i] = <<r.frame.batch, i>>
  BY <1>0, TailShape DEF Connection, ConnInv, Sound, Reading
<1>3. x.size \in Nat /\ x.cell \in Cell BY <1>1, WireFacts DEF AnyPart
<1>4. /\ buf \in Seq(Cell) /\ Len(buf) = Len(r.buf)
      /\ \A i \in 1 .. r.got + 1 : buf[i] = <<r.frame.batch, i>>
  <2> HIDE DEF x
  <2>1. r.got + 1 \in 1 .. Len(r.buf) /\ DOMAIN r.buf = 1 .. Len(r.buf) BY <1>1, <1>2, <1>3
  <2>2. buf \in Seq(Cell) /\ Len(buf) = Len(r.buf) BY <1>2, <1>3, <2>1
  <2>3. \A i \in 1 .. r.got + 1 : buf[i] = <<r.frame.batch, i>> BY <1>1, <1>2, <2>1
  <2> QED BY <2>2, <2>3
<1>5. s = [r EXCEPT !.parts = Tail(r.parts), !.got = r.got + 1, !.buf = buf]
  BY DEF Connection, TakesCell
<1> HIDE DEF x, buf
<1>6. /\ s.parts = Tail(r.parts) /\ s.at = "cells" /\ s.frame = r.frame /\ s.got = r.got + 1 /\ s.buf = buf
      /\ s.open = r.open /\ s.broken = r.broken /\ s.ack = r.ack /\ s.tensor = r.tensor
      /\ s \in Connection
  <2>1. Tail(r.parts) \in Seq(Wire) /\ r.got + 1 \in Nat /\ buf \in Seq(Cell) BY <1>2, <1>4
  <2> QED BY <1>0, <1>5, <2>1 DEF Connection, InFrame
<1>7. \A y \in Wire : Follows(x, y) => Expects(s, y)
  <2> SUFFICES ASSUME NEW y \in Wire, Follows(x, y) PROVE Expects(s, y)
    OBVIOUS
  <2>1. Number(y) \in Nat \ {0} /\ y.ipc = Ipc(y.batch) /\ x.ipc = Ipc(x.batch)
    BY <1>1, WireFacts
  <2>2. ~EndsFrame(x) BY <1>1, <1>2, <1>3 DEF EndsFrame
  <2>3. y.batch = x.batch /\ Number(y) = Number(x) + 1 /\ ~y.ipc /\ Number(y) # 1
    BY <1>1, <2>1, <2>2 DEF Follows
  <2> QED BY <1>1, <1>2, <1>6, <2>3 DEF Expects, Place
<1>8. ~EndsFrame(x) BY <1>1, <1>2, <1>3 DEF EndsFrame
<1>9. s.frame \in Pending(r) BY <1>0, <1>6 DEF Pending, InFrame
<1>12. /\ \A y \in Wire : Follows(r.parts[1], y) => Expects(s, y)
       /\ ~EndsFrame(r.parts[1])
  BY <1>7, <1>8 DEF x
<1>10. InOrder(s) /\ Advances(r, s) /\ Len(s.parts) <= Buffer
  BY ONLY r \in Connection, Buffer \in Nat, r.parts # <<>>, <1>0,
     <1>2, <1>6, <1>9, <1>12, TakeHead
<1>11. Reading(s) BY <1>0, <1>1, <1>2, <1>3, <1>4, <1>6 DEF Reading
<1> QED BY <1>1, <1>2, <1>3, <1>4, <1>6, <1>10, <1>11 DEF ConnInv, Sound

LEMMA ReadLastCell ==
  ASSUME set \in Setting, Buffer \in Nat, NEW r \in Connection, ConnInv(r),
         r.parts # <<>>, NEW buf, NEW s, TakesLastCell(r, s, buf)
  PROVE  s \in Connection /\ ConnInv(s) /\ Advances(r, s)
<1> DEFINE x == r.parts[1]
           cells == SubSeq(buf, 1, r.frame.size)
           tensor == [own |-> TRUE, cells |-> cells]
<1>0. r.at = "cells" /\ ~(r.got + 1 < r.frame.size) BY DEF TakesLastCell
<1>1. /\ x \in Wire /\ r.frame \in Wire /\ x.batch = r.frame.batch /\ x.ipc = r.frame.ipc /\ ~r.frame.ipc
      /\ x.size = r.frame.size /\ Number(x) = r.got + 3 /\ x.cell = <<r.frame.batch, r.got + 1>>
  BY <1>0, ExpectedPart
<1>2. /\ Tail(r.parts) \in Seq(Wire) /\ r.buf \in Seq(Cell) /\ r.got \in Nat /\ Len(r.buf) \in Nat
      /\ Len(r.parts) <= Buffer /\ r.got <= Len(r.buf) /\ r.frame.size <= Len(r.buf)
      /\ r.got < r.frame.size
      /\ InOrder(r) /\ Reading(r) /\ \A i \in 1 .. r.got : r.buf[i] = <<r.frame.batch, i>>
  BY <1>0, TailShape DEF Connection, ConnInv, Sound, Reading
<1>3. x.size \in Nat \ {0} /\ x.cell \in Cell /\ r.frame.size = set.frames[r.frame.batch].size
  BY <1>1, WireFacts DEF AnyPart
<1>4. r.frame.size = r.got + 1 /\ r.frame.size \in Nat \ {0} BY <1>0, <1>1, <1>2, <1>3
<1>5. buf \in Seq(Cell) /\ Len(buf) = Len(r.buf) /\ \A i \in 1 .. r.frame.size : buf[i] = <<r.frame.batch, i>>
  <2> HIDE DEF x
  <2>1. r.got + 1 \in 1 .. Len(r.buf) /\ DOMAIN r.buf = 1 .. Len(r.buf) /\ buf = [r.buf EXCEPT ![r.got + 1] = x.cell]
    BY <1>1, <1>2, <1>3, <1>4 DEF x, TakesLastCell
  <2>2. buf \in Seq(Cell) /\ Len(buf) = Len(r.buf) BY <1>2, <1>3, <2>1
  <2>3. \A i \in 1 .. r.got + 1 : buf[i] = <<r.frame.batch, i>>
    <3>0. \A g, n \in Nat : g <= n => \A i \in 1 .. g : i \in 1 .. n /\ i # g + 1 OBVIOUS
    <3>1. \A i \in 1 .. r.got : i \in DOMAIN r.buf /\ i # r.got + 1 BY <1>2, <2>1, <3>0
    <3>2. \A i \in 1 .. r.got : buf[i] = r.buf[i] BY <2>1, <3>1
    <3>3. buf[r.got + 1] = x.cell BY <2>1
    <3> QED BY <1>1, <1>2, <3>2, <3>3
  <2> QED BY <1>4, <2>2, <2>3
<1>6. /\ cells \in Seq(Cell) /\ Len(cells) = r.frame.size
      /\ \A i \in 1 .. r.frame.size : cells[i] = <<r.frame.batch, i>>
  <2>1. \A i \in 1 .. r.frame.size : buf[i] \in Cell BY <1>2, <1>4, <1>5
  <2>2. /\ cells \in Seq(Cell)
        /\ Len(cells) = IF 1 <= r.frame.size THEN r.frame.size - 1 + 1 ELSE 0
        /\ \A i \in 1 .. r.frame.size - 1 + 1 : cells[i] = buf[1 + i - 1]
    BY <1>4, <2>1, SubSeqProperties
  <2> QED BY <1>4, <1>5, <2>2
<1>7. cells = Right(r.frame.batch, r.frame.size)
  <2> HIDE DEF cells
  <2>1. cells = [i \in 1 .. r.frame.size |-> cells[i]] BY <1>6
  <2> QED BY <1>6, <2>1 DEF Right
<1>8. s = [r EXCEPT !.parts = Tail(r.parts), !.got = 0, !.buf = buf, !.tensor = tensor, !.at = "submit"]
  BY DEF Connection, TakesLastCell
<1>9. tensor \in Tensor /\ tensor.own /\ tensor.cells = cells BY <1>6 DEF Tensor
<1> HIDE DEF x, cells, tensor
<1>10. /\ s.parts = Tail(r.parts) /\ s.at = "submit" /\ s.frame = r.frame /\ s.got = 0 /\ s.buf = buf
       /\ s.open = r.open /\ s.broken = r.broken /\ s.ack = r.ack /\ s.tensor = tensor
       /\ s \in Connection
  <2>1. Tail(r.parts) \in Seq(Wire) /\ buf \in Seq(Cell) /\ tensor \in Tensor
    BY <1>2, <1>5, <1>9
  <2> QED BY ONLY r \in Connection, <1>8, <2>1 DEF Connection, InFrame
<1>11. \A y \in Wire : Follows(x, y) => Expects(s, y)
  <2> SUFFICES ASSUME NEW y \in Wire, Follows(x, y) PROVE Expects(s, y)
    OBVIOUS
  <2>1. /\ Number(y) \in Nat \ {0} /\ y.ipc = Ipc(y.batch) /\ x.ipc = Ipc(x.batch)
        /\ Number(y) <= IF y.ipc THEN 3 ELSE y.size + 2
        /\ y.size = set.frames[y.batch].size /\ x.size = set.frames[x.batch].size
    BY <1>1, WireFacts
  <2>3. Number(y) # 1 => y.batch = x.batch /\ Number(y) = Number(x) + 1 BY DEF Follows
  <2>4. Number(y) # 1 => ~y.ipc /\ y.size = x.size BY <1>1, <2>1, <2>3
  <2>2. Number(y) = 1 BY <1>1, <1>2, <1>3, <1>4, <2>1, <2>3, <2>4
  <2> QED BY <1>10, <2>2 DEF Expects
<1>12. InOrder(s) /\ Advances(r, s) /\ Len(s.parts) <= Buffer
  <2>1. \A y \in Wire : Follows(r.parts[1], y) => Expects(s, y) BY <1>11 DEF x
  <2> QED BY ONLY r \in Connection, Buffer \in Nat, r.parts # <<>>, <1>0,
       <1>2, <1>10, <2>1, TakeHead DEF InFrame
<1>13. Reading(s) BY <1>6, <1>9, <1>10 DEF Reading
<1>15. s.tensor.cells = Right(r.frame.batch, r.frame.size) /\ s.frame = r.frame
  BY <1>7, <1>9, <1>10
<1>14. Holds(s.frame.batch, s.tensor.cells) BY <1>3, <1>15 DEF Holds
<1> QED BY <1>1, <1>5, <1>10, <1>12, <1>13, <1>14 DEF ConnInv, Sound

LEMMA ReadPartOK ==
  ASSUME set \in Setting, Buffer \in Nat, NEW c \in Conn, conns[c] \in Connection, ConnInv(conns[c]),
         ReadPart(c)
  PROVE  \E s \in Connection : conns' = [conns EXCEPT ![c] = s] /\ ConnInv(s) /\ Advances(conns[c], s)
<1>1. PICK r \in Connection : r = conns[c] OBVIOUS
<1>2. PICK s : s = PartRead(c) OBVIOUS
<1>3. PICK x : x = r.parts[1] OBVIOUS
<1>4. PICK buf : buf = [r.buf EXCEPT ![r.got + 1] = x.cell] OBVIOUS
<1>5. ConnInv(r) /\ r.at \in {"kind", "rest", "handle", "cells"} /\ r.parts # <<>>
  BY <1>1 DEF ReadPart, Reads
<1>6. /\ conns[c] = r /\ Head(r.parts) = x /\ View(c) = r.frame.size /\ IpcNext.handle = "clone"
      /\ IF r.at = "cells" THEN x.is = "cell" ELSE x.is = r.at
  BY <1>1, <1>3, <1>5, TailShape, ExpectedPart DEF Connection, View, IpcNext
<1> DEFINE Good == s \in Connection /\ ConnInv(s) /\ Advances(r, s)
<1>7. ASSUME r.at \in {"kind", "rest"} PROVE Good
  <2>1. TakesHeader(r, s) BY <1>2, <1>3, <1>6, <1>7 DEF PartRead, TakesHeader
  <2> QED BY <1>5, <1>7, <2>1, ReadHeader
<1>8. ASSUME r.at = "handle" PROVE Good
  <2>1. TakesHandle(r, s) BY <1>2, <1>6, <1>8 DEF PartRead, TakesHandle
  <2> QED BY <1>5, <2>1, ReadHandle
<1>9. ASSUME r.at = "cells", r.got + 1 < r.frame.size PROVE Good
  <2>1. TakesCell(r, s) BY <1>2, <1>3, <1>6, <1>9 DEF PartRead, TakesCell
  <2> QED BY <1>5, <2>1, ReadCell
<1>10. ASSUME r.at = "cells", ~(r.got + 1 < r.frame.size) PROVE Good
  <2>1. TakesLastCell(r, s, buf)
    BY <1>2, <1>3, <1>4, <1>6, <1>10 DEF PartRead, Cloned, TakesLastCell
  <2> QED BY <1>5, <2>1, ReadLastCell
<1>11. Good BY <1>5, <1>7, <1>8, <1>9, <1>10
<1>12. conns' = [conns EXCEPT ![c] = s] BY <1>2 DEF ReadPart, Moves
<1> QED BY <1>1, <1>11, <1>12

\* A connection that is as it was.
LEMMA Stays ==
  ASSUME NEW r \in Connection
  PROVE  Advances(r, r)
BY DEF Advances

\* A thread that ends.
LEMMA ThreadEnds ==
  ASSUME NEW r \in Connection, ConnInv(r), NEW s, s = [r EXCEPT !.at = "done"]
  PROVE  s \in Connection /\ ConnInv(s) /\ Advances(r, s)
<1>1. /\ s.at = "done" /\ s.parts = r.parts /\ s.open = r.open /\ s.broken = r.broken /\ s.ack = r.ack
      /\ s.frame = r.frame /\ s.buf = r.buf /\ s.got = r.got /\ s.tensor = r.tensor /\ s \in Connection
  BY DEF Connection
<1>2. ConnInv(s) BY <1>1 DEF ConnInv, Sound, Reading, InOrder, InFrame
<1>3. Advances(r, s) BY <1>1 DEF Advances, Pending, Ended
<1> QED BY <1>1, <1>2, <1>3

\* A connection that is accepted.
LEMMA ThreadBegins ==
  ASSUME NEW r \in Connection, ConnInv(r), r.at = "backlog", NEW s, s = [r EXCEPT !.at = "kind"]
  PROVE  s \in Connection /\ ConnInv(s) /\ Advances(r, s)
<1>1. /\ s.at = "kind" /\ s.parts = r.parts /\ s.open = r.open /\ s.broken = r.broken /\ s.ack = r.ack
      /\ s.frame = r.frame /\ s.buf = r.buf /\ s.got = r.got /\ s.tensor = r.tensor /\ s \in Connection
  BY DEF Connection
<1>2. \A y : Expects(r, y) => Expects(s, y) BY <1>1 DEF Expects, Place
<1>3. ConnInv(s) BY <1>1, <1>2 DEF ConnInv, Sound, Reading, InOrder, InFrame
<1>4. Pending(s) = Pending(r) BY <1>1 DEF Pending, InFrame
<1>5. /\ \A y : Awaits(r, y) => Awaits(s, y)
      /\ Between(r) => Between(s)
  BY <1>1, <1>2 DEF Awaits, Between, LastOf
<1>6. Advances(r, s) BY <1>1, <1>4, <1>5 DEF Advances
<1> QED BY <1>1, <1>3, <1>6

Submits(r, to, s) == s = [r EXCEPT !.at = to, !.tensor.cells = <<>>]

\* A tensor that goes to the pool.
LEMMA TensorSubmitted ==
  ASSUME NEW r \in Connection, ConnInv(r), r.at = "submit", NEW to \in {"kind", "done"},
         NEW s, Submits(r, to, s)
  PROVE  s \in Connection /\ ConnInv(s) /\ Advances(r, s)
<1>1. r.tensor \in Tensor /\ r.tensor.own BY DEF Connection, ConnInv, Sound, Reading
<1>10. <<>> \in Seq(Cell) BY EmptySeq
<1>2. [r.tensor EXCEPT !.cells = <<>>] \in Tensor /\ [r.tensor EXCEPT !.cells = <<>>].own
  BY <1>1, <1>10 DEF Tensor
<1>3. /\ s.at = to /\ s.parts = r.parts /\ s.open = r.open /\ s.broken = r.broken /\ s.ack = r.ack
      /\ s.frame = r.frame /\ s.buf = r.buf /\ s.got = r.got /\ s.tensor = [r.tensor EXCEPT !.cells = <<>>]
      /\ s \in Connection
  BY <1>2 DEF Connection, Submits
<1>4. to = "kind" => \A y : Expects(r, y) => Expects(s, y) BY <1>3 DEF Expects, Place
<1>5. ConnInv(s) BY <1>2, <1>3, <1>4 DEF ConnInv, Sound, Reading, InOrder, InFrame
<1>6. Pending(s) \subseteq Pending(r) BY <1>3 DEF Pending, InFrame
<1>7. to = "kind" => /\ \A y : Awaits(r, y) => Awaits(s, y)
                     /\ Between(r) => Between(s)
  BY <1>3, <1>4 DEF Awaits, Between, LastOf
<1>8. Advances(r, s) BY <1>3, <1>6, <1>7 DEF Advances, Ended
<1> QED BY <1>3, <1>5, <1>8

Goes(r, s) == s = [r EXCEPT !.broken = TRUE, !.parts = <<>>] \/ s = [r EXCEPT !.open = FALSE]

\* A connection that breaks or is closed at the sender's end.
LEMMA ConnectionGoes ==
  ASSUME NEW r \in Connection, ConnInv(r), Buffer \in Nat, NEW s, Goes(r, s)
  PROVE  s \in Connection /\ ConnInv(s) /\ Advances(r, s)
<1>1. /\ s.parts \in {r.parts, <<>>} /\ s.at = r.at /\ s.ack = r.ack
      /\ s.frame = r.frame /\ s.buf = r.buf /\ s.got = r.got /\ s.tensor = r.tensor
      /\ Ended(s) /\ (r.broken => s.broken) /\ (s.open => r.open)
      /\ s \in Connection
  <2>0. <<>> \in Seq(Wire) BY EmptySeq
  <2>1. CASE s = [r EXCEPT !.broken = TRUE, !.parts = <<>>] BY <2>0, <2>1 DEF Connection, Ended
  <2>2. CASE s = [r EXCEPT !.open = FALSE] BY <2>2 DEF Connection, Ended
  <2> QED BY <2>1, <2>2 DEF Goes
<1>2. s.parts = <<>> => Len(s.parts) = 0 /\ DOMAIN s.parts = {} OBVIOUS
<1>3. ConnInv(s)
  <2>1. Reading(s) BY <1>1 DEF ConnInv, Sound, Reading
  <2>2. InOrder(s) /\ Len(s.parts) <= Buffer
    <3>1. CASE s.parts = r.parts
      <4>1. \A y : Expects(r, y) => Expects(s, y) BY <1>1 DEF Expects, Place
      <4> QED BY <1>1, <3>1, <4>1 DEF ConnInv, Sound, InOrder
    <3>2. CASE s.parts = <<>> BY <1>2, <3>2 DEF InOrder
    <3> QED BY <1>1, <3>1, <3>2
  <2> QED BY <1>1, <2>1, <2>2 DEF ConnInv, Sound
<1>4. Pending(s) \subseteq Pending(r) BY <1>1, <1>2 DEF Pending
<1>5. Advances(r, s) BY <1>1, <1>4 DEF Advances
<1> QED BY <1>1, <1>3, <1>5

\* Nothing follows a handle before its tensor is handed on.
LEMMA NothingFollows ==
  ASSUME NEW r \in Connection, ConnInv(r), r.at \in {"clone", "ack"}
  PROVE  r.parts = <<>> /\ ~Between(r) /\ \A y : ~Awaits(r, y)
<1>1. \A y : ~Expects(r, y) BY DEF Expects, Place
<1>2. r.parts = <<>> BY <1>1 DEF ConnInv, Sound, InOrder
<1> QED BY <1>1, <1>2 DEF Between, Awaits

Acknowledges(r, s) == s = [r EXCEPT !.at = "submit", !.ack = TRUE]
Clones(r, cells, s) == s = [r EXCEPT !.at = "ack", !.tensor = [own |-> TRUE, cells |-> cells]]

\* The tensor of a handle that is cloned.
LEMMA TensorCloned ==
  ASSUME NEW r \in Connection, ConnInv(r), r.at = "clone", NEW cells \in Seq(Cell),
         Len(cells) = r.frame.size, Holds(r.frame.batch, cells),
         NEW s, Clones(r, cells, s)
  PROVE  s \in Connection /\ ConnInv(s) /\ Advances(r, s)
<1> DEFINE tensor == [own |-> TRUE, cells |-> cells]
<1>1. tensor \in Tensor /\ tensor.own /\ tensor.cells = cells BY DEF Tensor
<1> HIDE DEF tensor
<1>2. /\ s.at = "ack" /\ s.parts = r.parts /\ s.open = r.open /\ s.broken = r.broken /\ s.ack = r.ack
      /\ s.frame = r.frame /\ s.buf = r.buf /\ s.got = r.got /\ s.tensor = tensor /\ s \in Connection
  BY <1>1 DEF Connection, InFrame, tensor, Clones
<1>3. r.parts = <<>> /\ ~Between(r) /\ \A y : ~Awaits(r, y) BY NothingFollows
<1>4. ConnInv(s)
  <2>1. Reading(s) BY <1>1, <1>2 DEF ConnInv, Sound, Reading
  <2>2. InOrder(s) BY <1>2, <1>3 DEF ConnInv, Sound, InOrder
  <2>3. s.frame \in Wire /\ Holds(s.frame.batch, s.tensor.cells)
    BY <1>1, <1>2 DEF ConnInv, InFrame
  <2> QED BY <1>2, <2>1, <2>2, <2>3 DEF ConnInv, Sound
<1>5. Pending(s) = Pending(r) BY <1>2 DEF Pending, InFrame
<1>6. Advances(r, s) BY <1>2, <1>3, <1>5 DEF Advances
<1> QED BY <1>2, <1>4, <1>6

\* A tensor that is acknowledged.
LEMMA TensorAcknowledged ==
  ASSUME NEW r \in Connection, ConnInv(r), r.at = "ack",
         NEW s, Acknowledges(r, s)
  PROVE  s \in Connection /\ ConnInv(s) /\ Advances(r, s)
<1>1. /\ s.at = "submit" /\ s.parts = r.parts /\ s.open = r.open /\ s.broken = r.broken /\ s.ack
      /\ s.frame = r.frame /\ s.buf = r.buf /\ s.got = r.got /\ s.tensor = r.tensor /\ s \in Connection
  BY DEF Connection, Acknowledges
<1>2. r.parts = <<>> /\ ~Between(r) /\ \A y : ~Awaits(r, y) BY NothingFollows
<1>3. ConnInv(s)
  <2>1. Reading(s) BY <1>1 DEF ConnInv, Sound, Reading
  <2>2. InOrder(s) BY <1>1, <1>2 DEF ConnInv, Sound, InOrder
  <2> QED BY <1>1, <2>1, <2>2 DEF ConnInv, Sound, InFrame
<1>4. Pending(s) \subseteq Pending(r) BY <1>1 DEF Pending, InFrame
<1>5. \A x \in Pending(s) : x.is # "handle" /\ s.at \notin {"clone", "ack"}
  BY <1>1, <1>2 DEF Pending, InFrame
<1>6. Advances(r, s) BY <1>1, <1>2, <1>4, <1>5 DEF Advances
<1> QED BY <1>1, <1>3, <1>6

--------------------
(* Connections that move while the sender stays. *)

ConnsInv == \A c \in Conn : ConnInv(conns[c]) /\ LinkInv(c)

\* The sender, its sockets and what it has done are as they were.
SenderStays == SettingKept /\ UNCHANGED <<sender, outcome, sock>>

\* Every connection stays or advances.
ConnsAdvance ==
  /\ conns' \in Seq(Connection) /\ DOMAIN conns' = DOMAIN conns
  /\ \A c \in Conn : \E s \in Connection : conns'[c] = s /\ ConnInv(s) /\ Advances(conns[c], s)

LEMMA ConnectionFacts ==
  ASSUME Types
  PROVE  /\ Conn = 1 .. Len(conns) /\ Len(conns) \in Nat /\ Conn \subseteq Nat
         /\ \A c \in Conn : conns[c] \in Connection
<1>1. conns \in Seq(Connection) BY DEF Types
<1>2. Conn = 1 .. Len(conns) /\ Len(conns) \in Nat BY <1>1 DEF Conn
<1>3. \A c \in Conn : conns[c] \in Connection BY <1>1, <1>2
<1> QED BY <1>2, <1>3

\* One connection moves.
LEMMA OneAdvances ==
  ASSUME Types, ConnsInv, NEW c \in Conn, NEW s \in Connection,
         conns' = [conns EXCEPT ![c] = s], ConnInv(s), Advances(conns[c], s)
  PROVE  ConnsAdvance
<1>1. Conn = 1 .. Len(conns) /\ Len(conns) \in Nat /\ \A d \in Conn : conns[d] \in Connection
  BY ConnectionFacts
<1>2. conns \in Seq(Connection) /\ DOMAIN conns = Conn BY DEF Types, Conn
<1>3. conns' \in Seq(Connection) /\ DOMAIN conns' = DOMAIN conns BY <1>1, <1>2
<1>4. \A d \in Conn : conns'[d] = IF d = c THEN s ELSE conns[d] BY <1>2
<1>5. \A d \in Conn : ConnInv(conns[d]) /\ Advances(conns[d], conns[d])
  BY <1>1, Stays DEF ConnsInv
<1> QED BY <1>1, <1>3, <1>4, <1>5 DEF ConnsAdvance

LEMMA LinksStay ==
  ASSUME Types, ConnsInv, SockInv, SenderStays, ConnsAdvance
  PROVE  ConnsInv'
<1>1. Frame' = Frame /\ Wire' = Wire /\ Conn' = Conn
  BY WireStays DEF SenderStays, ConnsAdvance, Conn
<1>2. /\ f' = f /\ SentOnes' = SentOnes /\ Failed' = Failed
      /\ sender' = sender /\ sock' = sock /\ set'.frames = set.frames
  BY DEF SenderStays, SettingKept, f, SentOnes, Failed
<1>3. ASSUME NEW c \in Conn
      PROVE  ConnInv(conns[c])' /\ LinkInv(c)'
  <2>1. PICK s \in Connection : conns'[c] = s /\ ConnInv(s) /\ Advances(conns[c], s)
    BY <1>3 DEF ConnsAdvance
  <2>2. PICK r \in Connection : r = conns[c] BY <1>3, ConnectionFacts
  <2>3. ConnInv(r) /\ PendingInv(c) /\ AckInv(c) /\ IdleInv(c) /\ Advances(r, s)
    BY <1>3, <2>1, <2>2 DEF ConnsInv, LinkInv
  <2>4. (Using(c)' <=> Using(c)) /\ (Live(c)' <=> Live(c)) /\ (Waiting(c)' <=> Waiting(c))
    BY <1>2 DEF Using, OnSocket, Live, Waiting
  <2>5. ConnInv(conns[c])' BY <1>1, <1>2, <2>1 DEF ConnInv, Holds
  <2>6. PendingInv(c)' BY <1>2, <2>1, <2>2, <2>3, <2>4 DEF PendingInv, Advances
  <2>7. AckInv(c)'
    <3>1. s.ack => r.ack \/ (r.at = "ack" /\ s.at = "submit" /\ s.parts = <<>>)
      BY <2>3 DEF Advances
    <3>2. r.at = "ack" => r.frame \in Pending(r) /\ r.frame.ipc
      BY <2>3 DEF Pending, InFrame, ConnInv, Sound, Reading
    <3>3. (r.at = "ack" /\ Live(c)) => Waiting(c)
      BY <2>2, <2>3, <3>2 DEF PendingInv, Using, OnSocket, Waiting
    <3>4. r.ack /\ Live(c) => Waiting(c) BY <2>2, <2>3 DEF AckInv
    <3>5. (r.ack /\ sender.at = "ack" /\ sender.conn = c) =>
             r.at \in {"done", "desync"} \/ (r.parts = <<>> /\ r.at \in {"kind", "submit"})
      BY <2>2, <2>3 DEF AckInv, Done
    <3>6. r.at # "desync" /\ (r.at = "done" => s.at = "done")
          /\ ((r.parts = <<>> /\ r.at \in {"kind", "submit"}) =>
                s.at = "done" \/ (s.parts = <<>> /\ s.at \in {"kind", "submit"}))
      BY <2>3 DEF ConnInv, Sound, Reading, Advances
    <3> QED BY <1>2, <2>1, <2>4, <3>1, <3>3, <3>4, <3>5, <3>6 DEF AckInv, Done
  <2>8. IdleInv(c)'
    <3>1. (Live(c) /\ ~Using(c)) => r.at = "done" \/ ~r.open \/ r.broken \/ Between(r)
      BY <2>2, <2>3 DEF IdleInv, Over, Done, Gone, ConnInv, Sound, Reading
    <3>2. /\ r.at = "done" => s.at = "done"
          /\ r.broken => s.broken
          /\ s.open => r.open
          /\ Between(r) => Between(s) \/ Ended(s)
      BY <2>3 DEF Advances
    <3>3. (Live(c) /\ ~Using(c)) => Between(s) \/ Ended(s) BY <3>1, <3>2 DEF Ended
    <3> QED BY <2>1, <2>4, <3>3 DEF IdleInv, Over, Done, Gone, Ended
  <2> QED BY <2>5, <2>6, <2>7, <2>8 DEF LinkInv
<1> QED BY <1>1, <1>3 DEF ConnsInv

CloserType ==
  /\ closer \in [at : {"idle", "look", "close", "forget", "raised"}, left : Seq(Name)]
  /\ closer.at \in {"look", "close", "forget"} => closer.left # <<>>
ReceiverType == receiver \in [stop : BOOLEAN, accepting : {"yes", "last", "no"}, frozen : BOOLEAN]

\* What is done stays done right.
LEMMA WorkStays ==
  ASSUME WorkInv, SettingKept, Failed \subseteq Failed', UNCHANGED <<works, computed>>
  PROVE  WorkInv'
<1>1. Frame' = Frame /\ set'.frames = set.frames BY WireStays DEF SettingKept
<1>2. \A n, cells : Holds(n, cells) => Holds(n, cells)' BY <1>1 DEF Holds
<1>3. \A w : Work(w) => Work(w)' BY <1>1, <1>2 DEF Work
<1>4. \A n \in DOMAIN works : Work(works[n])' BY <1>3 DEF WorkInv
<1>5. \A w \in computed : Holds(w.batch, w.cells)' BY <1>2 DEF WorkInv
<1> QED BY <1>4, <1>5 DEF WorkInv

LEMMA SenderKeeps ==
  ASSUME IndInv, SenderStays, UNCHANGED <<memory, pinned, dma>>, ConnsAdvance
  PROVE  SenderInv' /\ SockInv'
<1>1. Frame' = Frame /\ Wire' = Wire /\ Conn' = Conn
  BY WireStays DEF SenderStays, ConnsAdvance, Conn
<1>2. /\ f' = f /\ sender' = sender /\ sock' = sock /\ set'.frames = set.frames /\ outcome' = outcome
      /\ memory' = memory /\ pinned' = pinned /\ dma' = dma
  BY DEF SenderStays, SettingKept, f
<1>3. \A n, i : Ipc(n)' = Ipc(n) /\ PartOf(n, i)' = PartOf(n, i) /\ PartsOf(n)' = PartsOf(n)
  BY DEF SenderStays, SettingKept, PartOf, PartsOf, Header, Ipc, SameMachine
<1>4. Client' = Client /\ Other' = Other BY <1>2, <1>3 DEF Client, Other
<1>5. SockInv' BY <1>2, <1>4 DEF IndInv, SockInv, OnSocket
<1>6. ASSUME sender.at = "send"
      PROVE  (Over(sender.conn) \/ Awaits(conns[sender.conn], PartOf(f, sender.next)))'
  <2>1. sender.conn \in Conn /\ sender.next \in 1 .. PartsOf(f) /\ f \in Frame
    <3>1. sender.next \in Nat \ {0} /\ sender.next <= PartsOf(f) /\ f \in Frame
      BY <1>6 DEF IndInv, SenderInv, Types
    <3>4. set.frames[f].size \in Nat BY <3>1, FramesAre DEF IndInv, Types
    <3>2. PartsOf(f) \in Nat BY <3>4 DEF PartsOf
    <3>3. sender.conn \in Conn BY <1>6 DEF IndInv, SenderInv, SockInv, OnSocket
    <3> QED BY <3>1, <3>2, <3>3
  <2>2. PICK y \in Wire : y = PartOf(f, sender.next) BY <2>1, PartFacts DEF IndInv, Types
  <2>3. PICK c \in Conn : c = sender.conn BY <2>1
  <2>4. PICK s \in Connection : conns'[c] = s /\ ConnInv(s) /\ Advances(conns[c], s)
    BY <2>3 DEF ConnsAdvance
  <2>5. Over(c) \/ Awaits(conns[c], y) BY <1>6, <2>2, <2>3 DEF IndInv, SenderInv
  <2>6. ConnInv(conns[c]) BY <2>3 DEF IndInv
  <2>7. Ended(s) \/ Awaits(s, y)
    BY <2>4, <2>5, <2>6 DEF Advances, Over, Done, Gone, Ended, ConnInv, Sound, Reading
  <2>8. PartOf(f, sender.next)' = y
    <3>1. PartOf(f, sender.next)' = PartOf(f, sender.next)
      BY <1>2 DEF SenderStays, SettingKept, PartOf, Header, Ipc, SameMachine
    <3> QED BY <2>2, <3>1
  <2> QED BY <1>2, <2>3, <2>4, <2>7, <2>8 DEF Over, Done, Gone, Ended
<1>7. Pinned(f)' = Pinned(f) /\ PinnedIs(f)' = PinnedIs(f) /\ Ipc(f)' = Ipc(f) /\ PartsOf(f)' = PartsOf(f)
  BY <1>2 DEF SenderStays, SettingKept, Pinned, PinnedIs, Ipc, SameMachine, PartsOf
<1>8. SenderInv' BY <1>1, <1>2, <1>6, <1>7 DEF IndInv, SenderInv
<1> QED BY <1>5, <1>8

\* A step that leaves the sender alone.
LEMMA StepElsewhere ==
  ASSUME IndInv, SenderStays, UNCHANGED <<memory, pinned, dma>>, ConnsAdvance,
         CloserType', ReceiverType', WorkInv'
  PROVE  IndInv'
<1>1. SenderInv' /\ SockInv' BY SenderKeeps
<1>2. ConnsInv' BY LinksStay DEF IndInv, ConnsInv
<1>3. Frame' = Frame /\ Connection' = Connection /\ Conn' = Conn /\ set' \in Setting
  BY WireStays DEF SenderStays, SettingKept, ConnsAdvance, Conn
<1>4. Types'
  BY <1>3 DEF IndInv, Types, CloserType, ReceiverType, SenderStays, SettingKept, ConnsAdvance
<1> QED BY <1>1, <1>2, <1>4 DEF IndInv, ConnsInv

--------------------
(* The steps of the receiver. *)

LEMMA NoConnMoves ==
  ASSUME IndInv, UNCHANGED conns
  PROVE  ConnsAdvance
<1>1. \A c \in Conn : conns[c] \in Connection /\ Advances(conns[c], conns[c]) /\ ConnInv(conns[c])
  BY ConnectionFacts, Stays DEF IndInv
<1> QED BY <1>1 DEF ConnsAdvance, IndInv, Types

\* What the threads of the receiver leave alone.
LEMMA ReaderStep1 ==
  ASSUME IndInv, NEW c \in Conn, NEW s \in Connection, UNCHANGED ReaderKeeps,
         conns' = [conns EXCEPT ![c] = s], ConnInv(s), Advances(conns[c], s), WorkInv'
  PROVE  IndInv'
<1>1. /\ SettingKept /\ SenderStays /\ UNCHANGED <<memory, pinned, dma, closer, receiver>>
  BY DEF ReaderKeeps, source, SenderStays, SettingKept, IndInv, Types
<1>2. ConnsAdvance BY OneAdvances DEF IndInv, ConnsInv
<1>3. CloserType' /\ ReceiverType' BY <1>1 DEF IndInv, Types, CloserType, ReceiverType
<1> QED BY <1>1, <1>2, <1>3, StepElsewhere

LEMMA WorkUntouched ==
  ASSUME IndInv, UNCHANGED ReaderKeeps, UNCHANGED <<works, computed>>
  PROVE  WorkInv'
<1>1. SettingKept /\ Failed' = Failed
  BY DEF ReaderKeeps, source, SettingKept, IndInv, Types, Failed
<1> QED BY <1>1, WorkStays DEF IndInv

LEMMA BufferIsNat == Buffer \in Nat
BY StreamAssumption

LEMMA ReadPartInv ==
  ASSUME IndInv, NEW c \in Conn, ReadPart(c)
  PROVE  IndInv'
<1>1. conns[c] \in Connection /\ ConnInv(conns[c]) /\ set \in Setting
  BY ConnectionFacts DEF IndInv, Types
<1>2. PICK s \in Connection : conns' = [conns EXCEPT ![c] = s] /\ ConnInv(s) /\ Advances(conns[c], s)
  BY <1>1, BufferIsNat, ReadPartOK
<1>3. UNCHANGED ReaderKeeps /\ WorkInv' BY WorkUntouched DEF ReadPart
<1> QED BY <1>2, <1>3, ReaderStep1

LEMMA ReadTimeoutInv ==
  ASSUME IndInv, NEW c \in Conn, ReadTimeout(c)
  PROVE  IndInv'
<1>1. PICK r \in Connection : r = conns[c] BY ConnectionFacts DEF IndInv
<1>2. ConnInv(r) BY <1>1 DEF IndInv
<1>3. UNCHANGED ReaderKeeps /\ WorkInv' BY WorkUntouched DEF ReadTimeout
<1>4. PICK s : s = [r EXCEPT !.at = TimedOut(@)] OBVIOUS
<1>5. conns' = [conns EXCEPT ![c] = s] BY <1>1, <1>4 DEF ReadTimeout, Moves
<1>6. s = r \/ s = [r EXCEPT !.at = "done"] BY <1>4 DEF TimedOut, NextFrame, Connection
<1>7. s \in Connection /\ ConnInv(s) /\ Advances(r, s) BY <1>2, <1>6, Stays, ThreadEnds
<1> QED BY <1>1, <1>3, <1>5, <1>7, ReaderStep1

LEMMA ReadEndsInv ==
  ASSUME IndInv, NEW c \in Conn, ReadEnds(c)
  PROVE  IndInv'
<1>1. PICK r \in Connection : r = conns[c] BY ConnectionFacts DEF IndInv
<1>2. ConnInv(r) BY <1>1 DEF IndInv
<1>3. UNCHANGED ReaderKeeps /\ WorkInv' BY WorkUntouched DEF ReadEnds
<1>4. PICK s : s = [r EXCEPT !.at = "done"] OBVIOUS
<1>5. conns' = [conns EXCEPT ![c] = s] BY <1>1, <1>4 DEF ReadEnds, Moves
<1>6. s \in Connection /\ ConnInv(s) /\ Advances(r, s) BY <1>2, <1>4, ThreadEnds
<1> QED BY <1>1, <1>3, <1>5, <1>6, ReaderStep1

\* What the sender's memory holds of a frame that is not cloned.
LEMMA CloneIpcInv ==
  ASSUME IndInv, NEW c \in Conn, CloneIpc(c)
  PROVE  IndInv'
<1>1. PICK r \in Connection : r = conns[c] BY ConnectionFacts DEF IndInv
<1>2. ConnInv(r) /\ PendingInv(c) /\ r.at = "clone" BY <1>1 DEF IndInv, LinkInv, CloneIpc
<1>3. UNCHANGED ReaderKeeps /\ WorkInv' BY WorkUntouched DEF CloneIpc
<1>4. PICK n : n = r.frame.batch OBVIOUS
<1>5. /\ r.frame \in Wire /\ r.frame.ipc /\ n \in Frame /\ r.frame.size \in Nat
      /\ r.frame.size = set.frames[n].size
  BY <1>2, <1>4, WireFacts DEF ConnInv, InFrame, Sound, Reading, IndInv, Types
<1>6. n \notin SentOnes /\ n <= f BY <1>1, <1>2, <1>4, <1>5 DEF PendingInv, Pending, InFrame
<1>7. PICK cells : cells = [i \in 1 .. r.frame.size |-> <<memory[n], i>>] OBVIOUS
<1>8. memory[n] \in Nat BY <1>5 DEF IndInv, Types
<1>9. cells \in Seq(Cell) /\ Len(cells) = r.frame.size
  <2>1. \A i \in 1 .. r.frame.size : <<memory[n], i>> \in Cell BY <1>5, <1>8 DEF Cell
  <2>2. cells \in [1 .. r.frame.size -> Cell] BY <1>7, <2>1
  <2> QED BY <1>5, <2>2, FunctionIsSeq
<1>10. Holds(n, cells)
  <2>1. Len(outcome) \in Nat /\ DOMAIN outcome = 1 .. Len(outcome) /\ f = Len(outcome) + 1
    BY DEF IndInv, Types, f
  <2>2. n \in Nat \ {0} BY <1>5, FramesAre DEF IndInv, Types
  <2>3. CASE n = f
    <3>1. memory[n] = n BY <1>5, <2>1, <2>2, <2>3 DEF IndInv, SenderInv
    <3> QED BY <1>5, <1>7, <3>1 DEF Holds, Right
  <2>4. CASE n # f
    <3>1. n \in DOMAIN outcome BY <1>6, <2>1, <2>2, <2>4
    <3> QED BY <1>6, <3>1 DEF Holds, SentOnes, Failed
  <2> QED BY <2>3, <2>4
<1>11. PICK s : s = [r EXCEPT !.at = "ack", !.tensor = [own |-> TRUE, cells |-> cells]] OBVIOUS
<1>12. conns' = [conns EXCEPT ![c] = s]
  BY <1>1, <1>4, <1>7, <1>11 DEF CloneIpc, Moves, IpcNext, View
<1>14. Clones(r, cells, s) BY <1>11 DEF Clones
<1>13. s \in Connection /\ ConnInv(s) /\ Advances(r, s)
  BY <1>2, <1>4, <1>9, <1>10, <1>14, TensorCloned
<1> QED BY <1>1, <1>3, <1>12, <1>13, ReaderStep1

LEMMA SendAckInv ==
  ASSUME IndInv, NEW c \in Conn, SendAck(c)
  PROVE  IndInv'
<1>1. PICK r \in Connection : r = conns[c] BY ConnectionFacts DEF IndInv
<1>2. ConnInv(r) /\ r.at = "ack" BY <1>1 DEF IndInv, SendAck
<1>3. UNCHANGED ReaderKeeps /\ WorkInv' BY WorkUntouched DEF SendAck
<1>4. PICK s : /\ s = [r EXCEPT !.at = "submit", !.ack = TRUE] \/ s = [r EXCEPT !.at = "done"]
               /\ conns' = [conns EXCEPT ![c] = s]
  BY <1>1 DEF SendAck, Moves, IpcNext
<1>5. s \in Connection /\ ConnInv(s) /\ Advances(r, s)
  <2>1. CASE s = [r EXCEPT !.at = "submit", !.ack = TRUE]
    <3>1. Acknowledges(r, s) BY <2>1 DEF Acknowledges
    <3> QED BY <1>2, <3>1, TensorAcknowledged
  <2>2. CASE s = [r EXCEPT !.at = "done"] BY <1>2, <2>2, ThreadEnds
  <2> QED BY <1>4, <2>1, <2>2
<1> QED BY <1>1, <1>3, <1>4, <1>5, ReaderStep1

LEMMA SubmitInv ==
  ASSUME IndInv, NEW c \in Conn, Submit(c)
  PROVE  IndInv'
<1>1. PICK r \in Connection : r = conns[c] BY ConnectionFacts DEF IndInv
<1>2. ConnInv(r) /\ r.at = "submit" BY <1>1 DEF IndInv, Submit
<1>3. UNCHANGED ReaderKeeps /\ computed' = computed BY DEF Submit
<1>4. PICK w : w = [conn |-> c, kind |-> r.frame.kind, batch |-> r.frame.batch, tensor |-> r.tensor]
  OBVIOUS
<1>5. works' = Append(works, w) BY <1>1, <1>4 DEF Submit
<1>6. /\ r.frame \in Wire /\ r.frame.batch \in Frame /\ r.frame.size = set.frames[r.frame.batch].size
      /\ r.frame.kind = set.frames[r.frame.batch].kind /\ r.frame.kind \in Kind /\ r.frame.batch \in Nat
      /\ r.tensor \in Tensor /\ c \in Nat
  BY <1>2, WireFacts, ConnectionFacts DEF ConnInv, IndInv, Types, AnyPart, Connection
<1>7. w \in WorkItem BY <1>4, <1>6 DEF WorkItem
<1>8. Work(w) BY <1>2, <1>4, <1>6 DEF Work, ConnInv, Sound, Reading
<1>9. SettingKept /\ Failed' = Failed /\ Frame' = Frame
  BY <1>3, WireStays DEF ReaderKeeps, source, SettingKept, IndInv, Types, Failed
<1>10. WorkInv'
  <2>1. works \in Seq(WorkItem) /\ \A n \in DOMAIN works : Work(works[n]) BY DEF IndInv, WorkInv
  <2>2. works' \in Seq(WorkItem) /\ \A n \in DOMAIN works' : Work(works'[n])
    BY <1>5, <1>7, <1>8, <2>1, AppendShape
  <2>3. \A v : Work(v)' <=> Work(v) BY <1>9 DEF Work, Holds, SettingKept
  <2>4. \A v \in computed' : Holds(v.batch, v.cells)'
    BY <1>3, <1>9 DEF Holds, SettingKept, IndInv, WorkInv
  <2>5. \A n \in DOMAIN works' : Work(works[n])' BY <1>9, <2>2 DEF Work, Holds, SettingKept
  <2> QED BY <2>2, <2>4, <2>5 DEF WorkInv
<1>11. PICK to \in {"kind", "done"} : to = NextFrame BY DEF NextFrame
<1>12. PICK s : s = [r EXCEPT !.at = to, !.tensor.cells = <<>>] OBVIOUS
<1>13. conns' = [conns EXCEPT ![c] = s] BY <1>1, <1>11, <1>12 DEF Submit, Moves
<1>15. Submits(r, to, s) BY <1>12 DEF Submits
<1>14. s \in Connection /\ ConnInv(s) /\ Advances(r, s) BY <1>2, <1>15, TensorSubmitted
<1> QED BY <1>1, <1>3, <1>10, <1>13, <1>14, ReaderStep1

LEMMA ComputeInv ==
  ASSUME IndInv, Compute
  PROVE  IndInv'
<1>1. UNCHANGED ReaderKeeps /\ conns' = conns /\ works # <<>> /\ works' = Tail(works)
  BY DEF Compute
<1>2. SettingKept /\ Failed' = Failed /\ Frame' = Frame
  BY <1>1, WireStays DEF ReaderKeeps, source, SettingKept, IndInv, Types, Failed
<1>3. /\ works \in Seq(WorkItem) /\ \A n \in DOMAIN works : Work(works[n])
  BY DEF IndInv, WorkInv
<1>4. /\ works' \in Seq(WorkItem) /\ Head(works) = works[1] /\ 1 \in DOMAIN works
      /\ \A n \in DOMAIN works' : n + 1 \in DOMAIN works /\ works'[n] = works[n + 1]
  BY <1>1, <1>3, TailShape
<1>5. \A n \in DOMAIN works' : Work(works'[n]) BY <1>3, <1>4
<1>6. \A n \in DOMAIN works' : Work(works[n])' BY <1>2, <1>5 DEF Work, Holds, SettingKept
<1>7. PICK w : w = Head(works) /\ Work(w) BY <1>3, <1>4
<1>8. computed' = computed \union {[conn |-> w.conn, kind |-> w.kind, batch |-> w.batch, cells |-> w.tensor.cells]}
  BY <1>7 DEF Compute, Work
<1>9. \A v \in computed' : Holds(v.batch, v.cells) BY <1>7, <1>8 DEF Work, IndInv, WorkInv
<1>10. \A v \in computed' : Holds(v.batch, v.cells)' BY <1>2, <1>9 DEF Holds, SettingKept
<1>11. WorkInv' BY <1>4, <1>6, <1>10 DEF WorkInv
<1>12. SenderStays /\ UNCHANGED <<memory, pinned, dma>> /\ CloserType' /\ ReceiverType'
  BY <1>1, <1>2 DEF ReaderKeeps, source, SenderStays, IndInv, Types, CloserType, ReceiverType
<1>13. ConnsAdvance BY <1>1, NoConnMoves
<1> QED BY <1>11, <1>12, <1>13, StepElsewhere

--------------------
(* The accept thread, faults and close(): the sender stays, and connections *)
(* are accepted, refused, broken or closed. *)

\* A connection that is refused, broken or closed, if it is touched at all.
LEMMA MayGo ==
  ASSUME NEW r \in Connection, ConnInv(r), NEW s, s = r \/ Goes(r, s)
  PROVE  s \in Connection /\ ConnInv(s) /\ Advances(r, s)
BY Stays, ConnectionGoes, BufferIsNat

\* Every connection gets its new state.
LEMMA AllAdvance ==
  ASSUME IndInv, NEW new, conns' = [c \in Conn |-> new[c]],
         \A c \in Conn : new[c] \in Connection /\ ConnInv(new[c]) /\ Advances(conns[c], new[c])
  PROVE  ConnsAdvance
<1>1. Conn = 1 .. Len(conns) /\ Len(conns) \in Nat BY ConnectionFacts DEF IndInv
<1>2. conns' \in Seq(Connection) /\ DOMAIN conns' = Conn BY <1>1
<1>3. \A c \in Conn : conns'[c] = new[c] OBVIOUS
<1> QED BY <1>2, <1>3 DEF ConnsAdvance, Conn

\* What is left of a connection when the listening socket goes.
RefusedOne(r) == IF r.at = "backlog" THEN [r EXCEPT !.broken = TRUE, !.parts = <<>>] ELSE r

LEMMA RefusedFacts ==
  ASSUME NEW some, DOMAIN some = Conn
  PROVE  Refused(some) = [c \in Conn |-> RefusedOne(some[c])]
BY DEF Refused, RefusedOne

LEMMA RefusedAdvance ==
  ASSUME IndInv, conns' = Refused(conns)
  PROVE  ConnsAdvance
<1> DEFINE new == [c \in Conn |-> RefusedOne(conns[c])]
<1>1. conns' = new BY RefusedFacts DEF Conn
<1>2. ASSUME NEW c \in Conn
      PROVE  new[c] \in Connection /\ ConnInv(new[c]) /\ Advances(conns[c], new[c])
  <2>1. PICK r \in Connection : r = conns[c] /\ ConnInv(r) BY <1>2, ConnectionFacts DEF IndInv
  <2>2. PICK s : s = RefusedOne(r) OBVIOUS
  <2>3. s = r \/ Goes(r, s) BY <2>2 DEF Goes, RefusedOne
  <2> QED BY <1>2, <2>1, <2>2, <2>3, MayGo
<1>3. conns' = [c \in Conn |-> new[c]] BY <1>1
<1> HIDE DEF new
<1> QED BY <1>2, <1>3, AllAdvance

LEMMA ClosedAdvance ==
  ASSUME IndInv, NEW names, conns' = Closed(names)
  PROVE  ConnsAdvance
<1> DEFINE new == Closed(names)
<1>1. ASSUME NEW c \in Conn
      PROVE  new[c] \in Connection /\ ConnInv(new[c]) /\ Advances(conns[c], new[c])
  <2>1. PICK r \in Connection : r = conns[c] /\ ConnInv(r) BY <1>1, ConnectionFacts DEF IndInv
  <2>2. PICK s : s = new[c] OBVIOUS
  <2>3. s = r \/ Goes(r, s) BY <1>1, <2>1, <2>2 DEF Closed, Goes
  <2> QED BY <2>1, <2>2, <2>3, MayGo
<1>2. conns' = [c \in Conn |-> new[c]] BY DEF Closed
<1> HIDE DEF new
<1> QED BY <1>1, <1>2, AllAdvance

\* What such a step leaves alone.
LEMMA NetworkStep ==
  ASSUME IndInv, SettingKept, UNCHANGED <<sender, outcome, memory, pinned, dma, sock, works, computed>>,
         ConnsAdvance, CloserType', ReceiverType'
  PROVE  IndInv'
<1>1. SenderStays BY DEF SenderStays
<1>2. Failed' = Failed BY DEF Failed
<1>3. WorkInv' BY <1>2, WorkStays DEF IndInv
<1> QED BY <1>1, <1>3, StepElsewhere

LEMMA AcceptInv ==
  ASSUME IndInv, NEW c \in Conn, Accept(c)
  PROVE  IndInv'
<1>1. PICK r \in Connection : r = conns[c] /\ ConnInv(r) BY ConnectionFacts DEF IndInv
<1>2. /\ SettingKept /\ CloserType' /\ r.at = "backlog"
      /\ UNCHANGED <<sender, outcome, memory, pinned, dma, sock, works, computed>>
  BY <1>1 DEF Accept, Accepted, source, SettingKept, IndInv, Types, CloserType
<1>3. ReceiverType' BY DEF Accept, IndInv, Types, ReceiverType
<1>4. CASE ~receiver.stop
  <2>1. PICK s : s = [r EXCEPT !.at = "kind"] OBVIOUS
  <2>2. s \in Connection /\ ConnInv(s) /\ Advances(r, s) BY <1>1, <1>2, <2>1, ThreadBegins
  <2>3. conns' = [conns EXCEPT ![c] = s] BY <1>1, <1>4, <2>1 DEF Accept
  <2>4. ConnsAdvance BY <1>1, <2>2, <2>3, OneAdvances DEF IndInv, ConnsInv
  <2> QED BY <1>2, <1>3, <2>4, NetworkStep
<1>5. CASE receiver.stop
  <2> DEFINE accepted == [conns EXCEPT ![c].at = "done"]
             new == [d \in Conn |-> RefusedOne(accepted[d])]
  <2>1. accepted = [conns EXCEPT ![c].at = IF receiver.stop THEN "done" ELSE "kind"] BY <1>5
  <2>2. DOMAIN accepted = Conn /\ accepted[c] = [r EXCEPT !.at = "done"]
        /\ \A d \in Conn : d # c => accepted[d] = conns[d]
    BY <1>1 DEF Conn
  <2>3. conns' = Refused(accepted) BY <1>5, <2>1 DEF Accept
  <2> HIDE DEF accepted
  <2>4. conns' = new BY <2>2, <2>3, RefusedFacts
  <2>5. ASSUME NEW d \in Conn
        PROVE  new[d] \in Connection /\ ConnInv(new[d]) /\ Advances(conns[d], new[d])
    <3>1. PICK q \in Connection : q = conns[d] /\ ConnInv(q) BY <2>5, ConnectionFacts DEF IndInv
    <3>2. PICK s : s = RefusedOne(accepted[d]) OBVIOUS
    <3>3. ASSUME d = c
          PROVE  s \in Connection /\ ConnInv(s) /\ Advances(q, s)
      <4>1. PICK ended : ended = [q EXCEPT !.at = "done"] OBVIOUS
      <4>2. ended = accepted[d] /\ ended.at = "done"
        BY <1>1, <2>2, <3>1, <3>3, <4>1 DEF Connection
      <4>3. s = ended BY <3>2, <4>2 DEF RefusedOne
      <4> QED BY <3>1, <4>1, <4>3, ThreadEnds
    <3>4. ASSUME d # c
          PROVE  s \in Connection /\ ConnInv(s) /\ Advances(q, s)
      <4>1. s = RefusedOne(q) BY <2>2, <3>1, <3>2, <3>4
      <4>2. s = q \/ Goes(q, s) BY <4>1 DEF Goes, RefusedOne
      <4> QED BY <3>1, <4>2, MayGo
    <3> QED BY <2>5, <3>1, <3>2, <3>3, <3>4
  <2>6. conns' = [d \in Conn |-> new[d]] BY <2>4
  <2> HIDE DEF new
  <2>7. ConnsAdvance BY <2>5, <2>6, AllAdvance
  <2> QED BY <1>2, <1>3, <2>7, NetworkStep
<1> QED BY <1>4, <1>5

LEMMA StopServerInv ==
  ASSUME IndInv, stop_tensor_server
  PROVE  IndInv'
<1>1. SettingKept BY SettingStays DEF stop_tensor_server, IndInv, Types
<1>2. CloserType' /\ UNCHANGED <<sender, outcome, memory, pinned, dma, sock, works, computed>>
  BY DEF stop_tensor_server, source, IndInv, Types, CloserType
<1>3. ReceiverType' BY DEF stop_tensor_server, IndInv, Types, ReceiverType
<1>4. conns' = Refused(conns) \/ conns' = conns BY DEF stop_tensor_server
<1>5. ConnsAdvance BY <1>4, RefusedAdvance, NoConnMoves
<1> QED BY <1>1, <1>2, <1>3, <1>5, NetworkStep

LEMMA BreakInv ==
  ASSUME IndInv, NEW c \in Conn, Break(c)
  PROVE  IndInv'
<1>1. SettingKept BY SettingStays DEF Break, IndInv, Types
<1>2. /\ CloserType' /\ ReceiverType'
      /\ UNCHANGED <<sender, outcome, memory, pinned, dma, sock, works, computed>>
  BY DEF Break, source, IndInv, Types, CloserType, ReceiverType
<1>3. PICK r \in Connection : r = conns[c] /\ ConnInv(r) BY ConnectionFacts DEF IndInv
<1>4. PICK s : s = [r EXCEPT !.broken = TRUE, !.parts = <<>>] OBVIOUS
<1>5. conns' = [conns EXCEPT ![c] = s] BY <1>3, <1>4 DEF Break
<1>8. Goes(r, s) BY <1>4 DEF Goes
<1>6. s \in Connection /\ ConnInv(s) /\ Advances(r, s) BY <1>3, <1>8, MayGo
<1>7. ConnsAdvance BY <1>3, <1>5, <1>6, OneAdvances DEF IndInv, ConnsInv
<1> QED BY <1>1, <1>2, <1>7, NetworkStep

LEMMA CollectInv ==
  ASSUME IndInv, NEW c \in Conn, Collect(c)
  PROVE  IndInv'
<1>1. /\ SettingKept /\ CloserType' /\ ReceiverType'
      /\ UNCHANGED <<sender, outcome, memory, pinned, dma, sock, works, computed>>
  BY DEF Collect, source, SettingKept, IndInv, Types, CloserType, ReceiverType
<1>2. PICK r \in Connection : r = conns[c] /\ ConnInv(r) BY ConnectionFacts DEF IndInv
<1>3. PICK s : s = [r EXCEPT !.open = FALSE] OBVIOUS
<1>4. conns' = [conns EXCEPT ![c] = s] BY <1>2, <1>3 DEF Collect
<1>7. Goes(r, s) BY <1>3 DEF Goes
<1>5. s \in Connection /\ ConnInv(s) /\ Advances(r, s) BY <1>2, <1>7, MayGo
<1>6. ConnsAdvance BY <1>2, <1>4, <1>5, OneAdvances DEF IndInv, ConnsInv
<1> QED BY <1>1, <1>6, NetworkStep

LEMMA FreezeInv ==
  ASSUME IndInv, Freeze
  PROVE  IndInv'
<1>1. SettingKept BY SettingStays DEF Freeze, IndInv, Types
<1>2. /\ CloserType' /\ ReceiverType'
      /\ UNCHANGED <<sender, outcome, memory, pinned, dma, sock, works, computed>>
  BY DEF Freeze, source, IndInv, Types, CloserType, ReceiverType
<1>3. ConnsAdvance BY NoConnMoves DEF Freeze
<1> QED BY <1>1, <1>2, <1>3, NetworkStep

LEMMA NextClientType ==
  ASSUME IndInv, closer.at \in {"look", "close", "forget"}
  PROVE  /\ NextClient \in [at : {"idle", "look"}, left : Seq(Name)]
         /\ NextClient.at = "look" => NextClient.left # <<>>
         /\ Which \in Name
<1>1. closer.left \in Seq(Name) /\ closer.left # <<>> BY DEF IndInv, Types
<1>2. /\ Head(closer.left) \in Name /\ Tail(closer.left) \in Seq(Name) /\ Len(closer.left) \in Nat \ {0}
      /\ Len(Tail(closer.left)) = Len(closer.left) - 1
  BY <1>1, TailShape
<1>3. Len(closer.left) # 1 => Tail(closer.left) # <<>>
  <2>1. Tail(closer.left) = <<>> => Len(Tail(closer.left)) = 0 BY <1>2, EmptySeq
  <2> QED BY <1>2, <2>1
<1>4. <<>> \in Seq(Name) BY EmptySeq
<1> QED BY <1>2, <1>3, <1>4 DEF NextClient, Which

LEMMA BeginCloseInv ==
  ASSUME IndInv, BeginClose
  PROVE  IndInv'
<1>1. SettingKept BY SettingStays DEF BeginClose, IndInv, Types
<1>2. ReceiverType' /\ UNCHANGED <<sender, outcome, memory, pinned, dma, sock, works, computed>>
  BY DEF BeginClose, CloserKeeps, IndInv, Types, ReceiverType
<1>3. CloserType'
  <2>1. <<"ipc", "tcp">> \in Seq(Name) /\ <<"tcp">> \in Seq(Name) BY DEF Name
  <2>2. <<"ipc", "tcp">> # <<>> /\ <<"tcp">> # <<>> OBVIOUS
  <2> QED BY <2>1, <2>2 DEF BeginClose, CloserType
<1>4. ConnsAdvance BY NoConnMoves DEF BeginClose
<1> QED BY <1>1, <1>2, <1>3, <1>4, NetworkStep

LEMMA LookAtSocketInv ==
  ASSUME IndInv, LookAtSocket
  PROVE  IndInv'
<1>1. /\ SettingKept /\ ReceiverType'
      /\ UNCHANGED <<sender, outcome, memory, pinned, dma, sock, works, computed>>
  BY DEF LookAtSocket, CloserKeeps, SettingKept, IndInv, Types, ReceiverType
<1>2. CloserType' BY NextClientType DEF LookAtSocket, IndInv, Types, CloserType
<1>3. ConnsAdvance BY NoConnMoves DEF LookAtSocket
<1> QED BY <1>1, <1>2, <1>3, NetworkStep

LEMMA CloseSocketInv ==
  ASSUME IndInv, CloseSocket
  PROVE  IndInv'
<1>1. /\ SettingKept /\ ReceiverType'
      /\ UNCHANGED <<sender, outcome, memory, pinned, dma, sock, works, computed>>
  BY DEF CloseSocket, CloserKeeps, SettingKept, IndInv, Types, ReceiverType
<1>2. CloserType' BY DEF CloseSocket, IndInv, Types, CloserType
<1>3. ConnsAdvance BY ClosedAdvance DEF CloseSocket
<1> QED BY <1>1, <1>2, <1>3, NetworkStep

--------------------
(* The steps of the sender. *)

LEMMA SenderFacts ==
  ASSUME IndInv
  PROVE  /\ f \in Nat \ {0} /\ Len(outcome) \in Nat /\ f = Len(outcome) + 1
         /\ DOMAIN outcome = 1 .. f - 1
         /\ OnSocket => sender.conn \in Conn
         /\ Client \in Name /\ Other \in Name /\ Client # Other /\ Name = {Client, Other}
         /\ Ipc(f) \in BOOLEAN /\ (Client = "ipc" <=> Ipc(f))
<1>1. Len(outcome) \in Nat /\ DOMAIN outcome = 1 .. Len(outcome) BY DEF IndInv, Types
<1>2. f \in Nat \ {0} /\ f = Len(outcome) + 1 /\ DOMAIN outcome = 1 .. f - 1 BY <1>1 DEF f
<1>3. OnSocket => sender.conn \in Conn BY DEF IndInv, SockInv, SenderInv
<1>4. Ipc(f) \in BOOLEAN BY FramesAre DEF IndInv, Types
<1>5. Client \in Name /\ Other \in Name /\ Client # Other /\ Name = {Client, Other} /\ (Client = "ipc" <=> Ipc(f))
  BY <1>4 DEF Client, Other, Name
<1> QED BY <1>1, <1>2, <1>3, <1>4, <1>5

\* The sender is on no socket, before and after.
LEMMA OffSocket ==
  ASSUME IndInv, ~OnSocket, ~OnSocket', UNCHANGED <<set, outcome, sock, conns>>
  PROVE  ConnsInv'
<1>1. /\ f' = f /\ SentOnes' = SentOnes /\ Failed' = Failed
      /\ Frame' = Frame /\ Wire' = Wire /\ Conn' = Conn
  BY WireStays DEF f, SentOnes, Failed, SettingKept, Conn, IndInv, Types
<1>2. ASSUME NEW c \in Conn
      PROVE  ConnInv(conns[c])' /\ LinkInv(c)'
  <2>1. ConnInv(conns[c]) /\ PendingInv(c) /\ AckInv(c) /\ IdleInv(c)
    BY <1>2 DEF IndInv, LinkInv
  <2>2. /\ ~Using(c) /\ ~Using(c)' /\ ~Waiting(c) /\ ~Waiting(c)' /\ (Live(c)' <=> Live(c))
        /\ sender'.at \notin {"send", "ack"}
    BY DEF Using, Waiting, OnSocket, Live
  <2>3. ConnInv(conns[c])' BY <1>1, <2>1 DEF ConnInv, Holds
  <2>4. PendingInv(c)' BY <1>1, <2>1, <2>2 DEF PendingInv
  <2>5. AckInv(c)' BY <2>1, <2>2 DEF AckInv
  <2>6. IdleInv(c)' BY <2>1, <2>2 DEF IdleInv, Over, Done, Gone
  <2> QED BY <2>3, <2>4, <2>5, <2>6 DEF LinkInv
<1> QED BY <1>1, <1>2 DEF ConnsInv

LEMMA SendTensorInv ==
  ASSUME IndInv, send_tensor
  PROVE  IndInv'
<1> DEFINE size == set.frames[f].size
<1>1. /\ sender.at = "idle" /\ f \in Frame
      /\ UNCHANGED <<set, outcome, memory, sock, closer, conns, receiver, works, computed>>
  BY DEF send_tensor
<1>2. /\ sender' = [at |-> IF Pinned(f) THEN "copy" ELSE "connect", conn |-> 0, next |-> 1]
      /\ pinned' = (IF Pinned(f) THEN Get(pinned, size) ELSE pinned)
      /\ dma' = (IF Pinned(f) THEN f ELSE dma)
  BY DEF send_tensor, Pinned
<1>3. size \in Nat /\ pinned \in Seq(Cell) /\ dma \in {0} \union Frame
  BY <1>1, FramesAre DEF IndInv, Types
<1>4. pinned' \in Seq(Cell) /\ (Pinned(f) => size <= Len(pinned'))
  <2>1. Get(pinned, size) \in Seq(Cell) /\ size <= Len(Get(pinned, size)) BY <1>3, GetShape
  <2> QED BY <1>2, <1>3, <2>1
<1>5. f' = f /\ Frame' = Frame /\ Wire' = Wire /\ Connection' = Connection /\ Conn' = Conn /\ Failed' = Failed
  BY <1>1, WireStays DEF f, SettingKept, Conn, Failed, IndInv, Types
<1>6. ~OnSocket /\ ~OnSocket' BY <1>1, <1>2 DEF OnSocket
<1>7. ConnsInv' BY <1>1, <1>6, OffSocket
<1>8. WorkInv' BY <1>1, <1>5, WorkStays DEF IndInv, SettingKept, Types
<1>9. Types'
  <2>1. sender' \in [at : {"idle", "copy", "connect", "send", "ack", "close"}, conn : Nat, next : Nat \ {0}]
    BY <1>2
  <2>2. dma' \in {0} \union Frame BY <1>1, <1>2, <1>3
  <2> QED BY <1>1, <1>4, <1>5, <2>1, <2>2 DEF IndInv, Types
<1>10. SockInv' BY <1>1, <1>6 DEF IndInv, SockInv
<1>11. SenderInv'
  <2>1. (Pinned(f) <=> Pinned(f)') /\ f' \in Frame' /\ set' = set
    BY <1>1, <1>5 DEF Pinned, Ipc, SameMachine
  <2>2. \A n \in Frame' : n >= f' => memory'[n] = n BY <1>1, <1>5 DEF IndInv, SenderInv
  <2>3. dma = 0 BY <1>1 DEF IndInv, SenderInv
  <2>4. f # 0 BY SenderFacts
  <2>5. /\ sender'.conn = 0 /\ sender'.next = 1 /\ sender'.at = (IF Pinned(f) THEN "copy" ELSE "connect")
        /\ dma' # 0 => dma' = f /\ sender'.at = "copy"
        /\ Pinned(f) => dma' # 0
    BY <1>2, <2>3, <2>4
  <2> QED BY <1>4, <1>5, <2>1, <2>2, <2>5 DEF SenderInv
<1> QED BY <1>7, <1>8, <1>9, <1>10, <1>11 DEF IndInv, ConnsInv

LEMMA SynchronizeInv ==
  ASSUME IndInv, Synchronize
  PROVE  IndInv'
<1>1. /\ sender.at = "copy" /\ dma = 0 /\ sender' = [sender EXCEPT !.at = "connect"]
      /\ UNCHANGED <<set, outcome, memory, pinned, dma, sock, closer, conns, receiver, works, computed>>
  BY DEF Synchronize, Copied
<1>2. /\ sender'.at = "connect" /\ sender'.conn = sender.conn /\ sender'.next = sender.next
      /\ sender' \in [at : {"idle", "copy", "connect", "send", "ack", "close"}, conn : Nat, next : Nat \ {0}]
  BY <1>1 DEF IndInv, Types
<1>5. f' = f /\ Frame' = Frame /\ Wire' = Wire /\ Connection' = Connection /\ Conn' = Conn /\ Failed' = Failed
  BY <1>1, WireStays DEF f, SettingKept, Conn, Failed, IndInv, Types
<1>6. ~OnSocket /\ ~OnSocket' BY <1>1, <1>2 DEF OnSocket
<1>7. ConnsInv' BY <1>1, <1>6, OffSocket
<1>8. WorkInv' BY <1>1, <1>5, WorkStays DEF IndInv, SettingKept, Types
<1>9. Types' BY <1>1, <1>2, <1>5 DEF IndInv, Types
<1>10. SockInv' BY <1>1, <1>6 DEF IndInv, SockInv
<1>11. SenderInv'
  <2>1. (Pinned(f) <=> Pinned(f)') /\ (PinnedIs(f) <=> PinnedIs(f)')
    BY <1>1, <1>5 DEF Pinned, PinnedIs, Ipc, SameMachine
  <2> QED BY <1>1, <1>2, <1>5, <2>1 DEF IndInv, SenderInv
<1> QED BY <1>7, <1>8, <1>9, <1>10, <1>11 DEF IndInv, ConnsInv

LEMMA DmaCopyInv ==
  ASSUME IndInv, DmaCopy
  PROVE  IndInv'
<1> DEFINE size == set.frames[f].size
<1>1. /\ dma = f /\ sender.at = "copy" /\ dma' = 0 /\ f \in Frame /\ Pinned(f) /\ memory[f] = f
      /\ UNCHANGED <<set, sender, outcome, memory, sock, closer, conns, receiver, works, computed>>
  <2>1. dma = f /\ sender.at = "copy" BY DEF IndInv, SenderInv, DmaCopy
  <2>2. f \in Frame /\ Pinned(f) BY <2>1 DEF IndInv, SenderInv
  <2>3. memory[f] = f BY <2>2, SenderFacts DEF IndInv, SenderInv
  <2> QED BY <2>1, <2>2, <2>3 DEF DmaCopy
<1>2. size \in Nat /\ pinned \in Seq(Cell) /\ size <= Len(pinned) /\ f \in Nat
  BY <1>1, FramesAre, SenderFacts DEF IndInv, Types, SenderInv
<1>3. /\ Len(pinned) \in Nat
      /\ pinned' = [i \in 1 .. Len(pinned) |-> IF i <= size THEN <<f, i>> ELSE pinned[i]]
  BY <1>1, <1>2 DEF DmaCopy
<1>4. pinned' \in Seq(Cell) /\ Len(pinned') = Len(pinned) /\ \A i \in 1 .. size : pinned'[i] = <<f, i>>
  <2>1. \A i \in 1 .. Len(pinned) : <<f, i>> \in Cell
    <3>1. \A n, i \in Nat : <<n, i>> \in Cell BY DEF Cell
    <3> QED BY <1>2, <1>3, <3>1
  <2>5. \A i \in 1 .. Len(pinned) : pinned[i] \in Cell BY <1>2
  <2>2. \A i \in 1 .. Len(pinned) : (IF i <= size THEN <<f, i>> ELSE pinned[i]) \in Cell
    BY <2>1, <2>5
  <2>3. pinned' \in Seq(Cell) /\ Len(pinned') = Len(pinned) BY <1>3, <2>2
  <2>4. \A i \in 1 .. size : i \in 1 .. Len(pinned) /\ i <= size BY <1>2, <1>3
  <2> QED BY <1>3, <2>3, <2>4
<1>5. f' = f /\ Frame' = Frame /\ Wire' = Wire /\ Connection' = Connection /\ Conn' = Conn /\ Failed' = Failed
  BY <1>1, WireStays DEF f, SettingKept, Conn, Failed, IndInv, Types
<1>6. ~OnSocket /\ ~OnSocket' BY <1>1 DEF OnSocket
<1>7. ConnsInv' BY <1>1, <1>6, OffSocket
<1>8. WorkInv' BY <1>1, <1>5, WorkStays DEF IndInv, SettingKept, Types
<1>9. Types' BY <1>1, <1>4, <1>5 DEF IndInv, Types
<1>10. SockInv' BY <1>1, <1>6 DEF IndInv, SockInv
<1>11. SenderInv'
  <2>1. (Pinned(f) <=> Pinned(f)') /\ PinnedIs(f)' /\ (size <= Len(pinned))'
    BY <1>1, <1>2, <1>4, <1>5 DEF Pinned, PinnedIs, Ipc, SameMachine
  <2> QED BY <1>1, <1>5, <2>1 DEF IndInv, SenderInv
<1> QED BY <1>7, <1>8, <1>9, <1>10, <1>11 DEF IndInv, ConnsInv

--------------------
(* A send that ends. *)

\* Nothing of an unacknowledged frame is left and a new one may begin.
Quiet(r) == (\A x \in Pending(r) : ~x.ipc) /\ ~r.ack /\ (Ended(r) \/ Between(r))

\* A client's connection is quiet between the client's sends.
LEMMA UnusedIsQuiet ==
  ASSUME IndInv, NEW c \in Conn, \E w \in Name : sock[w] = c, ~Using(c)
  PROVE  Quiet(conns[c])
<1>1. Live(c) /\ ~Waiting(c) BY DEF Live, Using, OnSocket, Waiting
<1>2. PendingInv(c) /\ AckInv(c) /\ IdleInv(c) /\ ConnInv(conns[c]) BY DEF IndInv, LinkInv
<1>3. \A x \in Pending(conns[c]) : x \in Wire
  <2>1. conns[c] \in Connection BY ConnectionFacts DEF IndInv
  <2>2. \A k \in DOMAIN conns[c].parts : conns[c].parts[k] \in Wire BY <2>1 DEF Connection
  <2> QED BY <1>2, <2>2 DEF Pending, ConnInv
<1>4. \A x \in Pending(conns[c]) : ~x.ipc BY <1>1, <1>2 DEF PendingInv
<1>5. ~conns[c].ack BY <1>1, <1>2 DEF AckInv
<1>6. Ended(conns[c]) \/ Between(conns[c])
  BY <1>1, <1>2 DEF IdleInv, Over, Done, Gone, Ended, ConnInv, Sound, Reading
<1> QED BY <1>4, <1>5, <1>6 DEF Quiet

LEMMA QuietStays ==
  ASSUME NEW r, ConnInv(r), NEW s, Advances(r, s), Quiet(r)
  PROVE  Quiet(s)
<1>1. r.at # "ack" BY DEF Quiet, Pending, InFrame, ConnInv, Sound, Reading
<1>2. ~s.ack /\ \A x \in Pending(s) : ~x.ipc BY <1>1 DEF Quiet, Advances
<1>3. Ended(s) \/ Between(s) BY DEF Quiet, Advances, Ended
<1> QED BY <1>2, <1>3 DEF Quiet

\* The send ends; what that asks of the connections and the sockets.
SendOver(result) ==
  /\ sender.at \in {"connect", "send", "ack", "close"} /\ result \in {"sent", "failed", "fatal"}
  /\ Ends(result) /\ SettingKept
  /\ UNCHANGED <<pinned, dma, works, computed, closer, receiver>>
  /\ conns' \in Seq(Connection) /\ DOMAIN conns' = Conn
  /\ sock' \in [Name -> {0} \union Conn] /\ \A w \in Name : sock'[w] \in {0, sock[w]}

PendingOver(result, c) ==
  \A x \in Pending(conns'[c]) : /\ x \in Pending(conns[c]) \/ (x.batch = f /\ ~x.ipc)
                                /\ result = "sent" /\ x.ipc => x.batch # f

LEMMA SendEnds ==
  ASSUME IndInv, NEW result, SendOver(result),
         \A c \in Conn : ConnInv(conns'[c]) /\ PendingOver(result, c),
         \A c \in Conn : (\E w \in Name : sock'[w] = c) => Quiet(conns'[c])
  PROVE  IndInv'
<1>1. /\ f \in Nat \ {0} /\ Len(outcome) \in Nat /\ f = Len(outcome) + 1 /\ DOMAIN outcome = 1 .. f - 1
      /\ f \in Frame
  BY SenderFacts DEF SendOver, IndInv, SenderInv
<1>2. /\ outcome' = Append(outcome, [is |-> result, conn |-> sender.conn])
      /\ memory' = [memory EXCEPT ![f] = 0] /\ sender' = [sender EXCEPT !.at = "idle"]
      /\ set' \in Setting /\ set'.frames = set.frames /\ set'.ipc = set.ipc
      /\ UNCHANGED <<pinned, dma, works, computed, closer, receiver>>
  BY DEF SendOver, Ends, SettingKept
<1>3. PICK e \in [is : {"sent", "failed", "fatal"}, conn : Nat] : e = [is |-> result, conn |-> sender.conn]
  BY DEF SendOver, IndInv, Types
<1>4. /\ outcome' \in Seq([is : {"sent", "failed", "fatal"}, conn : Nat])
      /\ f' = f + 1 /\ DOMAIN outcome' = DOMAIN outcome \union {f}
      /\ \A n \in DOMAIN outcome : outcome'[n] = outcome[n]
      /\ outcome'[f].is = result
  <2>1. outcome \in Seq([is : {"sent", "failed", "fatal"}, conn : Nat]) BY DEF IndInv, Types
  <2>2. outcome' = Append(outcome, e) BY <1>2, <1>3
  <2> QED BY <1>1, <1>3, <2>1, <2>2, AppendShape DEF f
<1>5. /\ Failed \subseteq Failed' /\ SentOnes' = SentOnes \union IF result = "sent" THEN {f} ELSE {}
  BY <1>4 DEF Failed, SentOnes
<1>6. /\ Frame' = Frame /\ Wire' = Wire /\ Connection' = Connection /\ Conn' = Conn
  BY WireStays DEF SendOver, Conn
<1>7. /\ sender'.at = "idle" /\ sender'.conn = sender.conn
      /\ sender' \in [at : {"idle", "copy", "connect", "send", "ack", "close"}, conn : Nat, next : Nat \ {0}]
      /\ ~OnSocket'
  <2>1. /\ sender'.at = "idle" /\ sender'.conn = sender.conn
        /\ sender' \in [at : {"idle", "copy", "connect", "send", "ack", "close"}, conn : Nat, next : Nat \ {0}]
    BY <1>2 DEF IndInv, Types
  <2> QED BY <2>1 DEF OnSocket
<1>8. memory' \in [Frame -> Nat] /\ \A n \in Frame : n >= f + 1 => memory'[n] = n
  <2>1. \A n \in Frame : n \in Nat /\ (n >= f + 1 => n >= f /\ n # f)
    BY <1>1, FramesAre DEF IndInv, Types
  <2> QED BY <1>2, <2>1 DEF IndInv, Types, SenderInv
<1>9. Types' BY <1>2, <1>4, <1>6, <1>7, <1>8 DEF IndInv, Types, SendOver, Conn
<1>10. SenderInv'
  <2>1. dma = 0 BY DEF SendOver, IndInv, SenderInv
  <2>2. sender'.conn \in {0} \union Conn' BY <1>6, <1>7 DEF IndInv, SenderInv
  <2>3. \A n \in Frame' : n >= f' => memory'[n] = n BY <1>4, <1>6, <1>8
  <2> QED BY <1>2, <1>7, <2>1, <2>2, <2>3 DEF SenderInv
<1>11. SockInv'
  <2>1. sock'["tcp"] # 0 => sock'["tcp"] # sock'["ipc"] BY DEF SendOver, IndInv, SockInv, Name
  <2> QED BY <1>7, <2>1 DEF SockInv
<1>12. WorkInv' BY <1>2, <1>5, WorkStays DEF SendOver, IndInv
<1>13. ASSUME NEW c \in Conn
       PROVE  ConnInv(conns[c])' /\ LinkInv(c)'
  <2>1. PICK s : s = conns'[c] OBVIOUS
  <2>2. ConnInv(s) /\ PendingOver(result, c) /\ PendingInv(c) BY <1>13, <2>1 DEF IndInv, LinkInv
  <2>3. ConnInv(s)' BY <1>2, <1>5, <1>6, <2>2 DEF ConnInv, Holds
  <2>4. ~Using(c)' /\ (Live(c)' => \E w \in Name : sock'[w] = c) /\ ~Waiting(c)'
    BY <1>7 DEF Using, Live, Waiting
  <2>5. Live(c)' => Quiet(s) BY <1>13, <2>1, <2>4
  <2>6. PendingInv(c)'
    <3> SUFFICES ASSUME NEW x \in Pending(s)
                 PROVE  /\ x.ipc => x.batch \notin SentOnes'
                        /\ x.batch <= f' /\ x.batch # f' /\ (Live(c)' => ~x.ipc)
      BY <2>1, <2>4, <1>7 DEF PendingInv
    <3>1. x \in Pending(conns[c]) \/ (x.batch = f /\ ~x.ipc) BY <2>1, <2>2 DEF PendingOver
    <3>2. x.batch <= f /\ (x.ipc => x.batch \notin SentOnes) BY <1>1, <2>2, <3>1 DEF PendingInv
    <3>3. result = "sent" /\ x.ipc => x.batch # f BY <2>1, <2>2 DEF PendingOver
    <3>4. x.batch \in Nat
      <4>1. s \in Connection BY <1>13, <2>1 DEF SendOver
      <4>2. \A k \in DOMAIN s.parts : s.parts[k] \in Wire BY <4>1 DEF Connection
      <4>3. x \in Wire BY <2>2, <4>2 DEF Pending, ConnInv
      <4> QED BY <4>3, WireFacts DEF IndInv, Types
    <3> QED BY <1>1, <1>4, <1>5, <2>5, <3>2, <3>3, <3>4 DEF Quiet
  <2>7. AckInv(c)' BY <1>7, <2>1, <2>4, <2>5 DEF AckInv, Quiet
  <2>8. IdleInv(c)' BY <2>1, <2>5 DEF IdleInv, Quiet, Over, Done, Gone, Ended
  <2> QED BY <2>1, <2>3, <2>6, <2>7, <2>8 DEF LinkInv
<1> QED BY <1>6, <1>9, <1>10, <1>11, <1>12, <1>13 DEF IndInv

--------------------
(* Connecting. *)

\* The first part of the frame may follow whatever a frame may follow.
LEMMA FirstPart ==
  ASSUME IndInv, f \in Frame
  PROVE  /\ 1 <= PartsOf(f) /\ PartOf(f, 1) \in Wire
         /\ \A r : Between(r) => Awaits(r, PartOf(f, 1))
<1>1. set.frames[f].size \in Nat \ {0} /\ Ipc(f) \in BOOLEAN /\ set \in Setting
  BY FramesAre DEF IndInv, Types
<1>2. 1 \in 1 .. PartsOf(f) BY <1>1 DEF PartsOf
<1>3. PartOf(f, 1) \in Wire /\ Number(PartOf(f, 1)) = 1 BY <1>1, <1>2, PartFacts
<1> QED BY <1>1, <1>2, <1>3 DEF Between, Awaits, Expects, Follows, PartsOf

\* The sender is on the socket its client had.
LEMMA ReusesSocket ==
  ASSUME IndInv, sender.at = "connect", sock[Client] # 0,
         sender' = [sender EXCEPT !.at = "send", !.conn = sock[Client]],
         UNCHANGED <<set, outcome, memory, sock, conns, pinned, dma, closer, receiver, works, computed>>
  PROVE  IndInv'
<1>0. PICK c \in Conn : c = sock[Client] BY SenderFacts DEF IndInv, Types
<1>1. /\ sender'.at = "send" /\ sender'.conn = c /\ sender'.next = sender.next /\ sender.next = 1
      /\ sender' \in [at : {"idle", "copy", "connect", "send", "ack", "close"}, conn : Nat, next : Nat \ {0}]
  BY <1>0, ConnectionFacts DEF IndInv, Types, SenderInv
<1>2. f' = f /\ Frame' = Frame /\ Wire' = Wire /\ Connection' = Connection /\ Conn' = Conn
      /\ Failed' = Failed /\ SentOnes' = SentOnes /\ Client' = Client /\ Other' = Other
      /\ PartsOf(f)' = PartsOf(f) /\ PartOf(f, 1)' = PartOf(f, 1)
      /\ Pinned(f)' = Pinned(f) /\ PinnedIs(f)' = PinnedIs(f) /\ Ipc(f)' = Ipc(f)
  BY WireStays DEF f, SettingKept, Conn, Failed, SentOnes, Client, Other, Ipc, SameMachine, PartsOf, PartOf, Header,
     Pinned, PinnedIs, IndInv, Types
<1>3. f \in Frame /\ f # 0 BY SenderFacts DEF IndInv, SenderInv
<1>4. Over(c) \/ Awaits(conns[c], PartOf(f, 1))
  <2>1. Quiet(conns[c]) BY <1>0, SenderFacts, UnusedIsQuiet DEF Using, OnSocket
  <2> QED BY <1>3, <2>1, FirstPart DEF Quiet, Ended, Over, Done, Gone
<1>5. Types' BY <1>1, <1>2 DEF IndInv, Types
<1>6. SenderInv'
  <2>1. Over(c)' <=> Over(c) BY DEF Over, Done, Gone
  <2>2. 1 <= PartsOf(f) BY <1>3, FirstPart
  <2>3. PartOf(f, sender.next)' = PartOf(f, 1)
    BY <1>1, <1>2 DEF PartOf, Header, Ipc, SameMachine
  <2>4. (Over(sender.conn) \/ Awaits(conns[sender.conn], PartOf(f, sender.next)))'
    BY <1>1, <1>2, <1>4, <2>1, <2>3
  <2> QED BY <1>1, <1>2, <1>3, <2>2, <2>4 DEF IndInv, SenderInv
<1>7. SockInv'
  <2>1. sock["tcp"] # 0 => sock["tcp"] # sock["ipc"] BY DEF IndInv, SockInv
  <2>2. sock[Client] # sock[Other] BY <2>1 DEF Client, Other
  <2> QED BY <1>0, <1>1, <1>2, <2>1, <2>2 DEF SockInv
<1>8. WorkInv' BY <1>2, WorkStays DEF IndInv, SettingKept, Types
<1>9. ASSUME NEW d \in Conn
      PROVE  ConnInv(conns[d])' /\ LinkInv(d)'
  <2>1. ConnInv(conns[d]) /\ PendingInv(d) /\ AckInv(d) /\ IdleInv(d)
    BY <1>9 DEF IndInv, LinkInv
  <2>2. /\ ~Using(d) /\ (Using(d)' <=> d = c) /\ ~Waiting(d) /\ ~Waiting(d)'
        /\ (Live(d)' <=> Live(d))
    BY <1>0, <1>1, SenderFacts DEF Using, Waiting, OnSocket, Live
  <2>3. ConnInv(conns[d])' BY <1>2, <2>1 DEF ConnInv, Holds
  <2>4. PendingInv(d)' BY <1>1, <1>2, <2>1, <2>2 DEF PendingInv
  <2>5. AckInv(d)' BY <1>1, <2>1, <2>2 DEF AckInv
  <2>6. IdleInv(d)' BY <2>1, <2>2 DEF IdleInv, Over, Done, Gone
  <2> QED BY <2>3, <2>4, <2>5, <2>6 DEF LinkInv
<1> QED BY <1>2, <1>5, <1>6, <1>7, <1>8, <1>9 DEF IndInv

\* A connection nobody has accepted yet.
NewConnection(r) ==
  /\ r \in Connection /\ r.open /\ ~r.broken /\ r.parts = <<>> /\ ~r.ack /\ r.at = "backlog"
  /\ r.buf = <<>> /\ r.got = 0 /\ r.tensor.own

LEMMA NewIsFine ==
  ASSUME NEW r, NewConnection(r)
  PROVE  ConnInv(r) /\ Pending(r) = {} /\ Between(r)
<1>1. Len(r.parts) = 0 /\ DOMAIN r.parts = {} /\ Len(r.buf) = 0 /\ Buffer \in Nat
  BY BufferIsNat DEF NewConnection
<1>2. Pending(r) = {} BY <1>1 DEF NewConnection, Pending, InFrame
<1>3. ConnInv(r) BY <1>1 DEF NewConnection, ConnInv, Sound, Reading, InOrder, InFrame
<1> QED BY <1>2, <1>3 DEF NewConnection, Between

LEMMA Connects ==
  ASSUME IndInv, sender.at = "connect", sock[Client] = 0, NEW r, NewConnection(r),
         conns' = Append(conns, r),
         sock' = [sock EXCEPT ![Client] = Len(conns')],
         sender' = [sender EXCEPT !.at = "send", !.conn = Len(conns')],
         UNCHANGED <<set, outcome, memory, pinned, dma, closer, receiver, works, computed>>
  PROVE  IndInv'
<1>11. PICK new : new = Len(conns) + 1 OBVIOUS
<1>0. /\ conns' \in Seq(Connection) /\ Len(conns') = new /\ Len(conns) \in Nat /\ Conn = 1 .. Len(conns)
      /\ Conn' = Conn \union {new} /\ new \notin Conn /\ new \in Nat \ {0}
      /\ \A d \in Conn : conns'[d] = conns[d]
      /\ conns'[new] = r
  BY <1>11, AppendShape DEF NewConnection, IndInv, Types, Conn
<1>1. /\ sender'.at = "send" /\ sender'.conn = new /\ sender'.next = sender.next /\ sender.next = 1
      /\ sender' \in [at : {"idle", "copy", "connect", "send", "ack", "close"}, conn : Nat, next : Nat \ {0}]
  BY <1>0 DEF IndInv, Types, SenderInv
<1>2. f' = f /\ Frame' = Frame /\ Wire' = Wire /\ Connection' = Connection
      /\ Failed' = Failed /\ SentOnes' = SentOnes /\ Client' = Client /\ Other' = Other
      /\ PartsOf(f)' = PartsOf(f)
      /\ Pinned(f)' = Pinned(f) /\ PinnedIs(f)' = PinnedIs(f) /\ Ipc(f)' = Ipc(f)
  BY WireStays DEF f, SettingKept, Failed, SentOnes, Client, Other, Ipc, SameMachine, PartsOf,
     Pinned, PinnedIs, IndInv, Types
<1>3. f \in Frame BY DEF IndInv, SenderInv
<1>4. /\ sock' \in [Name -> {0} \union Conn'] /\ sock'[Client] = new /\ sock'[Other] = sock[Other]
      /\ sock[Other] \in {0} \union Conn
  BY <1>0, SenderFacts DEF IndInv, Types
<1>5. Types' BY <1>0, <1>1, <1>2, <1>4 DEF IndInv, Types
<1>6. SenderInv'
  <2>1. Awaits(r, PartOf(f, 1)) /\ 1 <= PartsOf(f) BY <1>3, NewIsFine, FirstPart
  <2>2. PartOf(f, sender.next)' = PartOf(f, 1)
    BY <1>1, <1>2 DEF PartOf, Header, Ipc, SameMachine
  <2>3. Awaits(conns[sender.conn], PartOf(f, sender.next))' BY <1>0, <1>1, <2>1, <2>2
  <2> QED BY <1>0, <1>1, <1>2, <1>3, <2>1, <2>3 DEF IndInv, SenderInv
<1>7. SockInv'
  <2>1. new # sock[Other] /\ new # 0 BY <1>0, <1>4
  <2>2. sock'["tcp"] # 0 => sock'["tcp"] # sock'["ipc"] BY <1>4, <2>1 DEF Client, Other
  <2> QED BY <1>1, <1>2, <1>4, <2>1, <2>2 DEF SockInv
<1>8. WorkInv' BY <1>2, WorkStays DEF IndInv, SettingKept, Types
<1>9. ASSUME NEW d \in Conn
      PROVE  ConnInv(conns[d])' /\ LinkInv(d)'
  <2>1. ConnInv(conns[d]) /\ PendingInv(d) /\ AckInv(d) /\ IdleInv(d) /\ conns'[d] = conns[d] /\ d # new /\ d # 0
    BY <1>0, <1>9 DEF IndInv, LinkInv
  <2>2. /\ ~Using(d) /\ ~Using(d)' /\ ~Waiting(d) /\ ~Waiting(d)'
        /\ (Live(d)' <=> Live(d))
    BY <1>1, <1>4, <2>1, SenderFacts DEF Using, Waiting, OnSocket, Live
  <2>3. ConnInv(conns[d])' BY <1>2, <2>1 DEF ConnInv, Holds
  <2>4. PendingInv(d)' BY <1>1, <1>2, <2>1, <2>2 DEF PendingInv
  <2>5. AckInv(d)' BY <1>1, <2>1, <2>2 DEF AckInv
  <2>6. IdleInv(d)' BY <2>1, <2>2 DEF IdleInv, Over, Done, Gone
  <2> QED BY <2>3, <2>4, <2>5, <2>6 DEF LinkInv
<1>10. ConnInv(conns[new])' /\ LinkInv(new)'
  <2>1. /\ ConnInv(r) /\ Pending(r) = {} /\ Between(r) /\ ~r.ack BY NewIsFine DEF NewConnection
  <2>2. ConnInv(conns'[new]) /\ Pending(conns'[new]) = {} /\ Between(conns'[new]) /\ ~conns'[new].ack
    BY <1>0, <2>1
  <2>3. ConnInv(conns[new])' BY <1>0, <1>2, <2>2 DEF ConnInv, Holds
  <2>4. PendingInv(new)' /\ AckInv(new)' /\ IdleInv(new)'
    BY <1>0, <2>2 DEF PendingInv, AckInv, IdleInv
  <2> QED BY <2>3, <2>4 DEF LinkInv
<1> QED BY <1>0, <1>5, <1>6, <1>7, <1>8, <1>9, <1>10 DEF IndInv

LEMMA EnsureConnectedInv ==
  ASSUME IndInv, _ensure_connected
  PROVE  IndInv'
<1>1. /\ sender.at = "connect"
      /\ UNCHANGED <<pinned, dma, closer, receiver, works, computed>>
  BY DEF _ensure_connected
<1>2. ASSUME sock[Client] # 0, sender' = [sender EXCEPT !.at = "send", !.conn = sock[Client]],
             UNCHANGED <<set, outcome, memory, sock, conns>>
      PROVE  IndInv'
  BY <1>1, <1>2, ReusesSocket
<1>3. ASSUME sock[Client] = 0,
             conns' = Append(conns,
               [open |-> TRUE, broken |-> FALSE, parts |-> <<>>, ack |-> FALSE, at |-> "backlog",
                frame |-> Part("none", Garbage), buf |-> <<>>, got |-> 0,
                tensor |-> [own |-> TRUE, cells |-> <<>>]]),
             sock' = [sock EXCEPT ![Client] = Len(conns')],
             sender' = [sender EXCEPT !.at = "send", !.conn = Len(conns')],
             UNCHANGED <<set, outcome, memory>>
      PROVE  IndInv'
  <2>1. PICK r : r = [open |-> TRUE, broken |-> FALSE, parts |-> <<>>, ack |-> FALSE, at |-> "backlog",
                      frame |-> Part("none", Garbage), buf |-> <<>>, got |-> 0,
                      tensor |-> [own |-> TRUE, cells |-> <<>>]]
    OBVIOUS
  <2>2. f \in Frame /\ f \in Nat /\ set \in Setting
    BY <1>1, SenderFacts DEF IndInv, SenderInv, Types
  <2>3. Garbage \in Cell /\ <<>> \in Seq(Cell) /\ <<>> \in Seq(Wire)
    BY EmptySeq DEF Garbage, Cell
  <2>4. Part("none", Garbage) \in AnyPart BY <2>2, <2>3, FramesAre DEF Part, AnyPart
  <2>5. [own |-> TRUE, cells |-> <<>>] \in Tensor BY <2>3 DEF Tensor
  <2>6. NewConnection(r) BY <2>1, <2>3, <2>4, <2>5 DEF NewConnection, Connection
  <2>7. conns' = Append(conns, r) BY <1>3, <2>1
  <2> QED BY <1>1, <1>3, <2>6, <2>7, Connects
<1>4. ASSUME IF Listening THEN Fault("slow") ELSE UNCHANGED set, Ends("fatal"), UNCHANGED <<sock, conns>>
      PROVE  IndInv'
  <2>1. SettingKept BY <1>4, SettingStays DEF IndInv, Types
  <2>2. SendOver("fatal") BY <1>1, <1>4, <2>1 DEF SendOver, IndInv, Types, Conn
  <2>3. \A c \in Conn : ConnInv(conns'[c]) /\ PendingOver("fatal", c)
    BY <1>4 DEF IndInv, PendingOver
  <2>4. \A c \in Conn : (\E w \in Name : sock'[w] = c) => Quiet(conns'[c])
    BY <1>1, <1>4, UnusedIsQuiet DEF Using, OnSocket
  <2> QED BY <2>2, <2>3, <2>4, SendEnds
<1> QED BY <1>2, <1>3, <1>4 DEF _ensure_connected

--------------------
(* Writing to the socket. *)

LEMMA WrittenIs ==
  ASSUME IndInv, sender.at = "send"
  PROVE  /\ f \in Frame /\ sender.next \in 1 .. PartsOf(f) /\ Parts = PartsOf(f)
         /\ Written(sender.next) = PartOf(f, sender.next)
<1> DEFINE i == sender.next
<1>1. /\ f \in Frame /\ i \in Nat \ {0} /\ i <= PartsOf(f) /\ set.frames[f].size \in Nat \ {0} /\ Ipc(f) \in BOOLEAN
      /\ set.frames[f].cuda \in BOOLEAN
  BY FramesAre DEF IndInv, SenderInv, Types
<1>2. PartsOf(f) \in Nat /\ Parts = PartsOf(f) BY <1>1 DEF PartsOf, Parts
<1>3. \A is, cell : Part(is, cell) = Header(f, is, cell) BY DEF Part, Header
<1>4. CASE i <= 2 \/ Ipc(f)
  <2>1. CASE i = 1 BY <1>1, <1>2, <1>3, <2>1 DEF Written, PartOf
  <2>2. CASE i = 2 BY <1>1, <1>2, <1>3, <2>2 DEF Written, PartOf
  <2>3. CASE i > 2
    <3>1. Written(i) = Part("handle", Garbage) BY <1>1, <1>4, <2>3 DEF Written
    <3>2. PartOf(f, i) = Header(f, "handle", Garbage) BY <1>1, <1>4, <2>3 DEF PartOf
    <3> QED BY <1>1, <1>2, <1>3, <3>1, <3>2
  <2> QED BY <1>1, <1>4, <2>1, <2>2, <2>3
<1>5. CASE i > 2 /\ ~Ipc(f)
  <2>1. dma = 0 /\ memory[f] = f BY <1>1, SenderFacts DEF IndInv, SenderInv
  <2>2. i - 2 \in 1 .. set.frames[f].size BY <1>1, <1>5 DEF PartsOf
  <2>3. set.frames[f].cuda => pinned[i - 2] = <<f, i - 2>>
    BY <1>5, <2>1, <2>2 DEF IndInv, SenderInv, Pinned, PinnedIs
  <2>4. Written(i) = Part("cell", IF set.frames[f].cuda THEN pinned[i - 2] ELSE <<memory[f], i - 2>>)
    BY <1>1, <1>5 DEF Written
  <2>5. Written(i) = Part("cell", <<f, i - 2>>) BY <2>1, <2>3, <2>4
  <2>6. PartOf(f, i) = Header(f, "cell", <<f, i - 2>>) BY <1>1, <1>5 DEF PartOf
  <2> QED BY <1>1, <1>2, <1>3, <2>5, <2>6
<1> QED BY <1>1, <1>2, <1>4, <1>5

Gains(r, y, s) == s = [r EXCEPT !.parts = Append(r.parts, y)]

\* A part that comes in its place.
LEMMA PartArrives ==
  ASSUME NEW r \in Connection, ConnInv(r), NEW y \in Wire, Awaits(r, y), Len(r.parts) < Buffer,
         NEW s, Gains(r, y, s)
  PROVE  /\ s \in Connection /\ ConnInv(s) /\ s.parts # <<>> /\ LastOf(s) = y
         /\ Pending(s) \subseteq Pending(r) \union {y}
         /\ r.at \notin {"clone", "ack"}
         /\ s.at = r.at /\ s.ack = r.ack /\ s.open = r.open /\ s.broken = r.broken
<1> DEFINE q == r.parts
           t == Append(q, y)
<1>1. q \in Seq(Wire) /\ Len(q) \in Nat /\ Buffer \in Nat /\ (q = <<>> <=> Len(q) = 0)
  BY BufferIsNat, EmptySeq DEF Connection
<1>2. /\ t \in Seq(Wire) /\ Len(t) = Len(q) + 1 /\ DOMAIN t = DOMAIN q \union {Len(q) + 1}
      /\ DOMAIN q = 1 .. Len(q)
      /\ \A k \in DOMAIN q : t[k] = q[k]
      /\ t[Len(q) + 1] = y
  BY <1>1, AppendShape
<1> HIDE DEF t
<1>3. /\ s.parts = t /\ s.at = r.at /\ s.ack = r.ack /\ s.open = r.open /\ s.broken = r.broken
      /\ s.frame = r.frame /\ s.buf = r.buf /\ s.got = r.got /\ s.tensor = r.tensor /\ s \in Connection
  BY <1>2 DEF Connection, Gains, t
<1>4. r.at \notin {"clone", "ack"} BY NothingFollows
<1>5. t # <<>> /\ LastOf(s) = y
  <2>1. t = <<>> => Len(t) = 0 BY EmptySeq
  <2>2. t # <<>> BY <1>1, <1>2, <2>1
  <2>3. s.parts[Len(s.parts)] = y BY <1>2, <1>3
  <2> QED BY <2>2, <2>3 DEF LastOf
<1>6. Pending(s) \subseteq Pending(r) \union {y} BY <1>2, <1>3 DEF Pending
<1>7. InOrder(s)
  <2>1. \A k \in 1 .. Len(t) - 1 : Follows(t[k], t[k + 1])
    <3> SUFFICES ASSUME NEW k \in 1 .. Len(t) - 1 PROVE Follows(t[k], t[k + 1])
      OBVIOUS
    <3>1. CASE k < Len(q)
      <4>1. k \in 1 .. Len(q) - 1 /\ k \in DOMAIN q /\ k + 1 \in DOMAIN q BY <1>1, <1>2, <3>1
      <4>2. Follows(q[k], q[k + 1]) BY <4>1 DEF ConnInv, Sound, InOrder
      <4> QED BY <1>2, <4>1, <4>2
    <3>2. CASE k = Len(q)
      <4>1. q # <<>> /\ k \in DOMAIN q BY <1>1, <1>2, <3>2
      <4>2. Follows(q[k], y) BY <3>2, <4>1 DEF Awaits, LastOf
      <4> QED BY <1>2, <3>2, <4>1, <4>2
    <3> QED BY <1>1, <1>2, <3>1, <3>2
  <2>2. r.at # "done" => Expects(s, t[1])
    <3>1. \A z : Expects(r, z) => Expects(s, z) BY <1>3 DEF Expects, Place
    <3>2. CASE q = <<>> BY <1>1, <1>2, <3>1, <3>2 DEF Awaits
    <3>3. CASE q # <<>>
      <4>1. 1 \in DOMAIN q BY <1>1, <1>2, <3>3
      <4> QED BY <1>2, <3>1, <3>3, <4>1 DEF ConnInv, Sound, InOrder
    <3> QED BY <3>2, <3>3
  <2> QED BY <1>3, <2>1, <2>2 DEF InOrder
<1>8. ConnInv(s)
  <2>1. Reading(s) BY <1>3 DEF ConnInv, Sound, Reading
  <2>2. Len(t) <= Buffer BY <1>1, <1>2
  <2> QED BY <1>3, <1>7, <2>1, <2>2 DEF ConnInv, Sound, InFrame
<1> QED BY <1>3, <1>4, <1>5, <1>6, <1>8

LEMMA PendingOnWire ==
  ASSUME NEW r \in Connection, ConnInv(r)
  PROVE  Pending(r) \subseteq Wire
<1>1. \A k \in DOMAIN r.parts : r.parts[k] \in Wire BY DEF Connection
<1> QED BY <1>1 DEF Pending, ConnInv

\* The sender's connection after a part is written: it has it, or its reader
\* has ended.
PartWritten(r, s) ==
  /\ s \in Connection /\ ConnInv(s)
  /\ s.at = r.at /\ s.ack = r.ack /\ s.open = r.open /\ s.broken = r.broken
  /\ \/ r.at = "done" /\ s = r
     \/ /\ s.parts # <<>> /\ LastOf(s) = PartOf(f, sender.next)
        /\ Pending(s) \subseteq Pending(r) \union {PartOf(f, sender.next)}
        /\ r.at \notin {"clone", "ack"}

LEMMA SendPartWrites ==
  ASSUME IndInv, SendPart
  PROVE  \E s : conns' = [conns EXCEPT ![sender.conn] = s] /\ PartWritten(conns[sender.conn], s)
<1>1. sender.at = "send" /\ ~Gone(sender.conn) BY DEF SendPart, Writable
<1>2. PICK c \in Conn : c = sender.conn BY <1>1, SenderFacts DEF OnSocket
<1>3. PICK r \in Connection : r = conns[c] /\ ConnInv(r) BY ConnectionFacts DEF IndInv
<1>4. PICK y \in Wire : y = PartOf(f, sender.next) /\ y = Written(sender.next)
  BY <1>1, WrittenIs, PartFacts DEF IndInv, Types
<1>5. CASE Done(c)
  <2>1. r.at = "done" BY <1>3, <1>5 DEF Done, ConnInv, Sound, Reading
  <2>2. conns' = [conns EXCEPT ![c] = r] BY <1>2, <1>3, <1>5 DEF SendPart, IndInv, Types
  <2> QED BY <1>2, <1>3, <2>1, <2>2 DEF PartWritten
<1>6. CASE ~Done(c)
  <2>1. Len(r.parts) < Buffer /\ conns' = [conns EXCEPT ![c].parts = Append(@, y)]
    BY <1>2, <1>3, <1>4, <1>6 DEF SendPart
  <2>2. PICK s : s = [r EXCEPT !.parts = Append(r.parts, y)] OBVIOUS
  <2>3. conns' = [conns EXCEPT ![c] = s] BY <1>3, <2>1, <2>2
  <2>4. Gains(r, y, s) BY <2>2 DEF Gains
  <2>5. Awaits(r, y) BY <1>1, <1>2, <1>3, <1>4, <1>6 DEF IndInv, SenderInv, Over
  <2>6. /\ s \in Connection /\ ConnInv(s) /\ s.parts # <<>> /\ LastOf(s) = y
        /\ Pending(s) \subseteq Pending(r) \union {y}
        /\ r.at \notin {"clone", "ack"}
        /\ s.at = r.at /\ s.ack = r.ack /\ s.open = r.open /\ s.broken = r.broken
    BY <1>3, <2>1, <2>4, <2>5, PartArrives
  <2> QED BY <1>2, <1>3, <1>4, <2>3, <2>6 DEF PartWritten
<1> QED BY <1>5, <1>6

\* The last part of a frame of cells.
LEMMA LastPartSent ==
  ASSUME IndInv, sender.at = "send", sender.next = Parts, ~Ipc(f), Ends("sent"), NEW s,
         conns' = [conns EXCEPT ![sender.conn] = s], PartWritten(conns[sender.conn], s),
         UNCHANGED <<set, pinned, dma, sock, closer, receiver, works, computed>>
  PROVE  IndInv'
<1>1. PICK c \in Conn : c = sender.conn BY SenderFacts DEF OnSocket
<1>2. PICK r \in Connection : r = conns[c] /\ ConnInv(r) BY ConnectionFacts DEF IndInv
<1>3. PICK y \in Wire : y = PartOf(f, sender.next) BY WrittenIs, PartFacts DEF IndInv, Types
<1>4. ~y.ipc /\ y.batch = f /\ EndsFrame(y)
  BY <1>3, WrittenIs, PartFacts DEF EndsFrame, Parts, IndInv, Types
<1>5. /\ s \in Connection /\ ConnInv(s) /\ s.ack = r.ack
      /\ \/ s.at = "done" /\ s = r
         \/ s.parts # <<>> /\ LastOf(s) = y /\ Pending(s) \subseteq Pending(r) \union {y}
  BY <1>1, <1>2, <1>3 DEF PartWritten
<1>6. /\ conns' \in Seq(Connection) /\ DOMAIN conns' = Conn
      /\ \A d \in Conn : conns'[d] = IF d = c THEN s ELSE conns[d]
  <2>1. conns \in Seq(Connection) /\ DOMAIN conns = Conn BY DEF IndInv, Types, Conn
  <2> QED BY <1>1, <1>5, <2>1
<1>7. SendOver("sent") BY <1>6 DEF SendOver, SettingKept, IndInv, Types
<1>8. \A x \in Wire : x.batch = f => ~x.ipc BY WireFacts DEF IndInv, Types
<1>9. ASSUME NEW d \in Conn
      PROVE  ConnInv(conns'[d]) /\ PendingOver("sent", d)
  <2>1. ConnInv(conns'[d]) BY <1>5, <1>6, <1>9 DEF IndInv
  <2>2. conns'[d] \in Connection BY <1>6, <1>9
  <2>3. Pending(conns'[d]) \subseteq Wire BY <2>1, <2>2, PendingOnWire
  <2>4. \A x \in Pending(conns'[d]) : x \in Pending(conns[d]) \/ x = y BY <1>1, <1>2, <1>5, <1>6
  <2> QED BY <1>4, <1>8, <2>1, <2>3, <2>4 DEF PendingOver
<1>10. ASSUME NEW d \in Conn, \E w \in Name : sock'[w] = d
       PROVE  Quiet(conns'[d])
  <2>1. \E w \in Name : sock[w] = d BY <1>10
  <2>2. CASE d # c BY <1>1, <1>6, <2>1, <2>2, UnusedIsQuiet DEF Using
  <2>3. CASE d = c
    <3>1. Live(c) /\ Using(c) /\ ~Waiting(c) BY <1>1 DEF Live, Using, OnSocket, Waiting
    <3>2. PendingInv(c) /\ AckInv(c) BY DEF IndInv, LinkInv
    <3>3. ~s.ack BY <1>2, <1>5, <3>1, <3>2 DEF AckInv
    <3>4. \A x \in Pending(r) : ~x.ipc BY <1>2, <1>8, <3>1, <3>2, PendingOnWire DEF PendingInv
    <3>5. \A x \in Pending(s) : ~x.ipc BY <1>4, <1>5, <3>4
    <3>6. Ended(s) \/ Between(s) BY <1>4, <1>5 DEF Ended, Between
    <3> QED BY <1>6, <2>3, <3>3, <3>5, <3>6 DEF Quiet
  <2> QED BY <2>2, <2>3
<1> QED BY <1>7, <1>9, <1>10, SendEnds

\* Any other part.
LEMMA PartSent ==
  ASSUME IndInv, sender.at = "send", sender.next = Parts => Ipc(f), NEW s,
         sender' = [sender EXCEPT !.next = @ + 1, !.at = IF sender.next = Parts THEN "ack" ELSE @],
         conns' = [conns EXCEPT ![sender.conn] = s], PartWritten(conns[sender.conn], s),
         UNCHANGED <<set, outcome, memory, pinned, dma, sock, closer, receiver, works, computed>>
  PROVE  IndInv'
<1> DEFINE last == sender.next = Parts
<1>1. PICK c \in Conn : c = sender.conn BY SenderFacts DEF OnSocket
<1>2. PICK r \in Connection : r = conns[c] /\ ConnInv(r) BY ConnectionFacts DEF IndInv
<1>3. PICK y \in Wire : y = PartOf(f, sender.next) BY WrittenIs, PartFacts DEF IndInv, Types
<1>4. y.batch = f /\ y.ipc = Ipc(f) /\ Number(y) = sender.next /\ f \in Frame
      /\ sender.next \in 1 .. PartsOf(f) /\ Parts = PartsOf(f)
  BY <1>3, WrittenIs, PartFacts DEF IndInv, Types
<1>13. PartsOf(f) \in Nat /\ f \in Nat \ {0} /\ f \notin SentOnes /\ (Ipc(f) => PartsOf(f) = 3)
  <2>1. set.frames[f].size \in Nat BY <1>4, FramesAre DEF IndInv, Types
  <2>2. f \in Nat \ {0} /\ f \notin DOMAIN outcome BY SenderFacts
  <2>3. PartsOf(f) \in Nat /\ (Ipc(f) => PartsOf(f) = 3) BY <2>1 DEF PartsOf
  <2> QED BY <2>2, <2>3 DEF SentOnes
<1>5. /\ s \in Connection /\ ConnInv(s) /\ s.ack = r.ack /\ s.at = r.at /\ s.open = r.open /\ s.broken = r.broken
      /\ \/ s.at = "done" /\ s = r
         \/ /\ s.parts # <<>> /\ LastOf(s) = y /\ Pending(s) \subseteq Pending(r) \union {y}
            /\ s.at \notin {"clone", "ack"}
  BY <1>1, <1>2, <1>3 DEF PartWritten
<1>6. /\ conns' \in Seq(Connection) /\ Conn' = Conn
      /\ \A d \in Conn : conns'[d] = IF d = c THEN s ELSE conns[d]
  <2>1. conns \in Seq(Connection) /\ DOMAIN conns = Conn BY DEF IndInv, Types, Conn
  <2> QED BY <1>1, <1>5, <2>1 DEF Conn
<1>7. /\ sender'.at = (IF last THEN "ack" ELSE "send") /\ sender'.conn = c /\ sender'.next = sender.next + 1
      /\ sender' \in [at : {"idle", "copy", "connect", "send", "ack", "close"}, conn : Nat, next : Nat \ {0}]
  <2>1. PICK at : at = IF last THEN "ack" ELSE "send" OBVIOUS
  <2>2. PICK n \in Nat \ {0} : n = sender.next + 1 BY DEF IndInv, Types
  <2>3. at \in {"ack", "send"} /\ sender' = [sender EXCEPT !.next = n, !.at = at] BY <2>1, <2>2
  <2>4. sender \in [at : {"idle", "copy", "connect", "send", "ack", "close"}, conn : Nat, next : Nat \ {0}]
    BY DEF IndInv, Types
  <2> HIDE DEF last
  <2> QED BY <1>1, <2>1, <2>2, <2>3, <2>4
<1>8. f' = f /\ Frame' = Frame /\ Wire' = Wire /\ Connection' = Connection
      /\ Failed' = Failed /\ SentOnes' = SentOnes /\ Client' = Client /\ Other' = Other
      /\ PartsOf(f)' = PartsOf(f)
      /\ Pinned(f)' = Pinned(f) /\ PinnedIs(f)' = PinnedIs(f) /\ Ipc(f)' = Ipc(f)
  BY WireStays DEF f, SettingKept, Failed, SentOnes, Client, Other, Ipc, SameMachine, PartsOf,
     Pinned, PinnedIs, IndInv, Types
<1>9. Types' BY <1>6, <1>7, <1>8 DEF IndInv, Types
<1>10. SenderInv'
  <2>1. ~last => sender.next + 1 \in 1 .. PartsOf(f) BY <1>4, <1>13
  <2>2. ~last => Over(c)' \/ Awaits(s, PartOf(f, sender.next + 1))
    <3> SUFFICES ASSUME ~last PROVE Over(c)' \/ Awaits(s, PartOf(f, sender.next + 1))
      OBVIOUS
    <3>1. CASE s.at = "done" BY <1>6, <3>1 DEF Over, Done
    <3>2. CASE s.parts # <<>> /\ LastOf(s) = y
      <4>1. PICK z \in Wire : z = PartOf(f, sender.next + 1)
        BY <1>4, <2>1, PartFacts DEF IndInv, Types
      <4>2. z.batch = f /\ Number(z) = sender.next + 1
        BY <1>4, <2>1, <4>1, PartFacts DEF IndInv, Types
      <4>3. sender.next + 1 # 1 BY <1>4, <1>13
      <4> QED BY <1>4, <3>2, <4>1, <4>2, <4>3 DEF Awaits, Follows
    <3> QED BY <1>5, <3>1, <3>2
  <2>3. PartOf(f, sender.next)' = PartOf(f, sender.next + 1)
    BY <1>7, <1>8 DEF PartOf, Header, Ipc, SameMachine
  <2>4. ~last => (Over(sender.conn) \/ Awaits(conns[sender.conn], PartOf(f, sender.next)))'
    BY <1>6, <1>7, <2>2, <2>3 DEF Over, Done, Gone
  <2>5. last => Ipc(f) OBVIOUS
  <2>6. dma = 0 /\ sender'.conn \in {0} \union Conn' BY <1>6, <1>7 DEF IndInv, SenderInv
  <2> QED BY <1>4, <1>7, <1>8, <2>1, <2>4, <2>5, <2>6 DEF IndInv, SenderInv
<1>11. SockInv' BY <1>1, <1>7, <1>8 DEF IndInv, SockInv, OnSocket
<1>12. WorkInv' BY <1>8, WorkStays DEF IndInv, SettingKept, Types
<1>14. ASSUME NEW d \in Conn
       PROVE  ConnInv(conns[d])' /\ LinkInv(d)'
  <2>1. PICK t : t = conns'[d] /\ (d = c => t = s) /\ (d # c => t = conns[d]) BY <1>6, <1>14
  <2>2. ConnInv(t) /\ PendingInv(d) /\ AckInv(d) /\ IdleInv(d)
    BY <1>5, <1>14, <2>1 DEF IndInv, LinkInv
  <2>3. /\ (Using(d) <=> d = c) /\ (Using(d)' <=> d = c) /\ ~Waiting(d) /\ (Live(d)' <=> Live(d))
    BY <1>1, <1>7 DEF Using, Waiting, OnSocket, Live
  <2>4. ConnInv(conns[d])' BY <1>8, <2>1, <2>2 DEF ConnInv, Holds
  <2>5. PendingInv(d)'
    <3> SUFFICES ASSUME NEW x \in Pending(t)
                 PROVE  /\ x.ipc => x.batch \notin SentOnes
                        /\ x.batch <= f
                        /\ x.batch = f => d = c
                        /\ (Live(d) /\ x.ipc) => x.batch = f
                        /\ (x.batch = f /\ (x.is = "handle" \/ t.at \in {"clone", "ack"})) => last
      BY <1>7, <1>8, <2>1, <2>3 DEF PendingInv
    <3>1. CASE x \in Pending(conns[d])
      <4>1. t.at = conns[d].at BY <1>2, <1>5, <2>1
      <4>2. ~(x.batch = f /\ (x.is = "handle" \/ conns[d].at \in {"clone", "ack"}))
        BY <2>2, <3>1 DEF PendingInv
      <4> QED BY <2>2, <2>3, <3>1, <4>1, <4>2 DEF PendingInv
    <3>2. CASE x \notin Pending(conns[d])
      <4>1. d = c /\ x = y /\ t.at \notin {"clone", "ack"} BY <1>2, <1>5, <2>1, <3>2
      <4>2. y.is = "handle" => last
        <5>1. y.is = "handle" => Ipc(f) /\ sender.next = 3
          BY <1>3, <1>4, <1>13, PartFacts, WireFacts DEF Number, IndInv, Types
        <5> QED BY <1>4, <1>13, <5>1
      <4> QED BY <1>4, <1>13, <4>1, <4>2
    <3> QED BY <3>1, <3>2
  <2>6. AckInv(d)'
    <3>1. t.ack = conns[d].ack BY <1>2, <1>5, <2>1
    <3>2. Live(d) => ~t.ack BY <2>2, <2>3, <3>1 DEF AckInv
    <3>3. sender'.conn = d => Live(d) BY <1>7, <2>3 DEF Live
    <3> QED BY <2>1, <2>3, <3>2, <3>3 DEF AckInv
  <2>7. IdleInv(d)' BY <2>1, <2>2, <2>3 DEF IdleInv, Over, Done, Gone
  <2> QED BY <2>4, <2>5, <2>6, <2>7 DEF LinkInv
<1> QED BY <1>6, <1>9, <1>10, <1>11, <1>12, <1>14 DEF IndInv

LEMMA SendPartInv ==
  ASSUME IndInv, SendPart
  PROVE  IndInv'
<1>1. PICK s : conns' = [conns EXCEPT ![sender.conn] = s] /\ PartWritten(conns[sender.conn], s)
  BY SendPartWrites
<1>2. sender.at = "send" /\ UNCHANGED <<set, pinned, dma, sock, closer, receiver, works, computed>>
  BY DEF SendPart
<1>3. CASE sender.next = Parts /\ ~Ipc(f)
  <2>1. Ends("sent") BY <1>3 DEF SendPart
  <2> QED BY <1>1, <1>2, <1>3, <2>1, LastPartSent
<1>4. CASE ~(sender.next = Parts /\ ~Ipc(f))
  <2>1. /\ sender' = [sender EXCEPT !.next = @ + 1, !.at = IF sender.next = Parts THEN "ack" ELSE @]
        /\ UNCHANGED <<outcome, memory>>
    BY <1>4 DEF SendPart
  <2> QED BY <1>1, <1>2, <1>4, <2>1, PartSent
<1> QED BY <1>3, <1>4

--------------------
(* The acknowledgement, a send that fails, a socket that is forgotten. *)

TakesAck(r, s) == s = [r EXCEPT !.ack = FALSE]

LEMMA AckTaken ==
  ASSUME NEW r \in Connection, ConnInv(r), NEW s, TakesAck(r, s)
  PROVE  /\ s \in Connection /\ ConnInv(s) /\ ~s.ack /\ s.at = r.at /\ s.parts = r.parts
         /\ Pending(s) = Pending(r)
<1>1. /\ s.at = r.at /\ s.parts = r.parts /\ s.open = r.open /\ s.broken = r.broken /\ ~s.ack
      /\ s.frame = r.frame /\ s.buf = r.buf /\ s.got = r.got /\ s.tensor = r.tensor /\ s \in Connection
  BY DEF Connection, TakesAck
<1>2. InOrder(s) BY <1>1 DEF ConnInv, Sound, InOrder, Expects, Place
<1>3. ConnInv(s) BY <1>1, <1>2 DEF ConnInv, Sound, Reading
<1>4. Pending(s) = Pending(r) BY <1>1 DEF Pending
<1> QED BY <1>1, <1>3, <1>4

LEMMA ReceiveAckInv ==
  ASSUME IndInv, ReceiveAck
  PROVE  IndInv'
<1>1. PICK c \in Conn : c = sender.conn BY SenderFacts DEF OnSocket, ReceiveAck
<1>2. PICK r \in Connection : r = conns[c] /\ ConnInv(r) BY ConnectionFacts DEF IndInv
<1>3. /\ sender.at = "ack" /\ r.ack /\ Ends("sent")
      /\ UNCHANGED <<set, pinned, dma, sock, closer, receiver, works, computed>>
  BY <1>1, <1>2 DEF ReceiveAck
<1>4. PICK s : s = [r EXCEPT !.ack = FALSE] OBVIOUS
<1>5. conns' = [conns EXCEPT ![c] = s] BY <1>1, <1>2, <1>4 DEF ReceiveAck
<1>6. /\ s \in Connection /\ ConnInv(s) /\ ~s.ack /\ s.at = r.at /\ s.parts = r.parts
      /\ Pending(s) = Pending(r)
  <2>1. TakesAck(r, s) BY <1>4 DEF TakesAck
  <2> QED BY <1>2, <2>1, AckTaken
<1>7. /\ conns' \in Seq(Connection) /\ DOMAIN conns' = Conn
      /\ \A d \in Conn : conns'[d] = IF d = c THEN s ELSE conns[d]
  <2>1. conns \in Seq(Connection) /\ DOMAIN conns = Conn BY DEF IndInv, Types, Conn
  <2> QED BY <1>5, <1>6, <2>1
<1>8. SendOver("sent") BY <1>3, <1>7 DEF SendOver, SettingKept, IndInv, Types
<1>9. r.at = "done" \/ (r.parts = <<>> /\ r.at \in {"kind", "submit"})
  <2>1. AckInv(c) BY DEF IndInv, LinkInv
  <2> QED BY <1>1, <1>2, <1>3, <2>1 DEF AckInv, Done, ConnInv, Sound, Reading
<1>10. Pending(s) = {}
  <2>1. CASE r.at = "done" BY <1>6, <2>1 DEF Pending
  <2>2. CASE r.parts = <<>> /\ r.at \in {"kind", "submit"}
    <3>1. DOMAIN s.parts = {} BY <1>6, <2>2
    <3> QED BY <1>6, <2>2, <3>1 DEF Pending, InFrame
  <2> QED BY <1>9, <2>1, <2>2
<1>11. ASSUME NEW d \in Conn
       PROVE  ConnInv(conns'[d]) /\ PendingOver("sent", d)
  <2>1. ConnInv(conns'[d]) BY <1>6, <1>7, <1>11 DEF IndInv
  <2>2. CASE d = c BY <1>7, <1>10, <2>1, <2>2 DEF PendingOver
  <2>3. CASE d # c
    <3>1. PendingInv(d) /\ ~Using(d) /\ conns'[d] = conns[d]
      BY <1>1, <1>7, <2>3 DEF IndInv, LinkInv, Using
    <3> QED BY <2>1, <3>1 DEF PendingOver, PendingInv
  <2> QED BY <2>2, <2>3
<1>12. ASSUME NEW d \in Conn, \E w \in Name : sock'[w] = d
       PROVE  Quiet(conns'[d])
  <2>1. CASE d = c
    <3>1. Ended(s) \/ Between(s) BY <1>6, <1>9 DEF Ended, Between
    <3> QED BY <1>6, <1>7, <1>10, <2>1, <3>1 DEF Quiet
  <2>2. CASE d # c BY <1>1, <1>3, <1>7, <1>12, <2>2, UnusedIsQuiet DEF Using
  <2> QED BY <2>1, <2>2
<1> QED BY <1>8, <1>11, <1>12, SendEnds

LEMMA SlowLess ==
  ASSUME set \in Setting, set' = set \/ set' = [set EXCEPT !.slow = IF @ > 0 THEN @ - 1 ELSE @]
  PROVE  SettingKept
<1>1. PICK n \in Nat : n = set.slow BY DEF Setting
<1>2. PICK m \in Nat : m = IF n > 0 THEN n - 1 ELSE n OBVIOUS
<1>3. set' = set \/ set' = [set EXCEPT !.slow = m] BY <1>1, <1>2
<1> QED BY <1>3 DEF SettingKept, Setting

\* The sender goes on to close the socket.
LEMMA TurnsToClose ==
  ASSUME IndInv, sender.at \in {"send", "ack"}, SettingKept,
         sender' = [sender EXCEPT !.at = "close"],
         UNCHANGED <<outcome, memory, pinned, dma, sock, closer, conns, receiver, works, computed>>
  PROVE  IndInv'
<1>1. /\ sender'.at = "close" /\ sender'.conn = sender.conn /\ sender'.next = sender.next
      /\ sender' \in [at : {"idle", "copy", "connect", "send", "ack", "close"}, conn : Nat, next : Nat \ {0}]
  BY DEF IndInv, Types
<1>2. f' = f /\ Frame' = Frame /\ Wire' = Wire /\ Connection' = Connection /\ Conn' = Conn
      /\ Failed' = Failed /\ SentOnes' = SentOnes /\ set' \in Setting /\ set'.frames = set.frames
  BY WireStays DEF f, SettingKept, Failed, SentOnes, Conn
<1>3. Client' = Client /\ Other' = Other
  BY <1>2 DEF Client, Other, Ipc, SameMachine, SettingKept
<1>4. Types' BY <1>1, <1>2 DEF IndInv, Types
<1>5. SenderInv'
  <2>1. dma = 0 /\ f \in Frame BY DEF IndInv, SenderInv
  <2>2. \A n \in Frame' : n >= f' => memory'[n] = n BY <1>2 DEF IndInv, SenderInv
  <2>3. sender'.conn \in {0} \union Conn' BY <1>1, <1>2 DEF IndInv, SenderInv
  <2> QED BY <1>1, <1>2, <2>1, <2>2, <2>3 DEF SenderInv
<1>6. SockInv' BY <1>1, <1>3 DEF IndInv, SockInv, OnSocket
<1>7. WorkInv' BY <1>2, WorkStays DEF IndInv
<1>8. ASSUME NEW d \in Conn
      PROVE  ConnInv(conns[d])' /\ LinkInv(d)'
  <2>1. ConnInv(conns[d]) /\ PendingInv(d) /\ AckInv(d) /\ IdleInv(d)
    BY <1>8 DEF IndInv, LinkInv
  <2>2. /\ (Using(d)' <=> Using(d)) /\ (Live(d)' <=> Live(d)) /\ (Waiting(d) => Waiting(d)')
    BY <1>1 DEF Using, Waiting, OnSocket, Live
  <2>3. ConnInv(conns[d])' BY <1>2, <2>1 DEF ConnInv, Holds
  <2>4. PendingInv(d)' BY <1>1, <1>2, <2>1, <2>2 DEF PendingInv
  <2>5. AckInv(d)' BY <1>1, <2>1, <2>2 DEF AckInv
  <2>6. IdleInv(d)' BY <2>1, <2>2 DEF IdleInv, Over, Done, Gone
  <2> QED BY <2>3, <2>4, <2>5, <2>6 DEF LinkInv
<1> QED BY <1>2, <1>4, <1>5, <1>6, <1>7, <1>8 DEF IndInv

\* No client has the connection of a send that fails when it is over.
LEMMA SendLost ==
  ASSUME IndInv, OnSocket, NEW result, result # "sent", SendOver(result), sock'[Client] = 0, ConnsAdvance
  PROVE  IndInv'
<1>1. PICK c \in Conn : c = sender.conn BY SenderFacts
<1>2. ASSUME NEW d \in Conn
      PROVE  /\ ConnInv(conns'[d]) /\ PendingOver(result, d)
             /\ Advances(conns[d], conns'[d]) /\ ConnInv(conns[d])
  <2>1. PICK s \in Connection : conns'[d] = s /\ ConnInv(s) /\ Advances(conns[d], s)
    BY <1>2 DEF ConnsAdvance
  <2>2. ConnInv(conns[d]) /\ Pending(s) \subseteq Pending(conns[d])
    BY <1>2, <2>1 DEF Advances, IndInv
  <2> QED BY <2>1, <2>2 DEF PendingOver
<1>3. ASSUME NEW d \in Conn, NEW w \in Name, sock'[w] = d
      PROVE  Quiet(conns'[d])
  <2>1. d # 0 BY ConnectionFacts DEF IndInv
  <2>2. sock[w] = d /\ w = Other BY <1>3, <2>1, SenderFacts DEF SendOver
  <2>3. d # c BY <1>1, <2>2 DEF IndInv, SockInv
  <2>4. Quiet(conns[d]) BY <1>1, <2>2, <2>3, UnusedIsQuiet DEF Using
  <2> QED BY <1>2, <2>4, QuietStays
<1> QED BY <1>2, <1>3, SendEnds

LEMMA SendFailsInv ==
  ASSUME IndInv, SendFails
  PROVE  IndInv'
<1>1. /\ sender.at \in {"send", "ack"} /\ OnSocket
      /\ UNCHANGED <<pinned, dma, sock, closer, conns, receiver, works, computed>>
  BY DEF SendFails, OnSocket
<1>2. SettingKept
  <2>1. set' = set \/ set' = [set EXCEPT !.slow = IF @ > 0 THEN @ - 1 ELSE @]
    BY DEF SendFails, TimesOut
  <2> QED BY <2>1, SlowLess DEF IndInv, Types
<1>3. CASE sock[Client] = 0
  <2>1. SendOver("failed") BY <1>1, <1>2, <1>3 DEF SendFails, SendOver, IndInv, Types, Conn
  <2> QED BY <1>1, <1>3, <2>1, NoConnMoves, SendLost
<1>4. CASE sock[Client] # 0
  <2>1. sender' = [sender EXCEPT !.at = "close"] /\ UNCHANGED <<outcome, memory>>
    BY <1>4 DEF SendFails
  <2> QED BY <1>1, <1>2, <2>1, TurnsToClose
<1> QED BY <1>3, <1>4

LEMMA SendClosesInv ==
  ASSUME IndInv, SendCloses
  PROVE  IndInv'
<1>1. PICK result \in {"failed", "fatal"} : Ends(result) BY DEF SendCloses
<1>2. /\ sender.at = "close" /\ OnSocket /\ conns' = Closed(Clients)
      /\ UNCHANGED <<set, pinned, dma, closer, receiver, works, computed>>
  BY DEF SendCloses, OnSocket
<1>3. ConnsAdvance BY <1>2, ClosedAdvance
<1>4. /\ sock' \in [Name -> {0} \union Conn] /\ \A w \in Name : sock'[w] \in {0, sock[w]}
      /\ sock'[Client] = 0
  <2>1. Client \in Clients /\ Client \in Name /\ sock \in [Name -> {0} \union Conn]
    BY SenderFacts DEF Client, Clients, IndInv, Types
  <2>2. sock' = [w \in Name |-> IF w \in Clients THEN 0 ELSE sock[w]] BY <2>1 DEF SendCloses
  <2> QED BY <2>1, <2>2
<1>5. SendOver(result)
  BY <1>1, <1>2, <1>3, <1>4 DEF SendOver, SettingKept, ConnsAdvance, Conn, IndInv, Types
<1> QED BY <1>2, <1>3, <1>4, <1>5, SendLost

LEMMA ForgetSocketInv ==
  ASSUME IndInv, ForgetSocket
  PROVE  IndInv'
<1>1. /\ closer.at = "forget" /\ closer' = NextClient /\ sock' = [sock EXCEPT ![Which] = 0]
      /\ UNCHANGED <<set, sender, outcome, memory, pinned, dma, conns, receiver, works, computed>>
  BY DEF ForgetSocket, CloserKeeps
<1>2. f' = f /\ Frame' = Frame /\ Wire' = Wire /\ Connection' = Connection /\ Conn' = Conn
      /\ Failed' = Failed /\ SentOnes' = SentOnes /\ Client' = Client /\ Other' = Other
  BY <1>1, WireStays DEF f, SettingKept, Conn, Failed, SentOnes, Client, Other, Ipc, SameMachine, IndInv, Types
<1>3. CloserType' BY <1>1, NextClientType DEF CloserType
<1>4. sock' \in [Name -> {0} \union Conn] /\ \A w \in Name : sock'[w] \in {0, sock[w]}
  BY <1>1, NextClientType DEF IndInv, Types
<1>5. Types' BY <1>1, <1>2, <1>3, <1>4 DEF IndInv, Types, CloserType
<1>6. SockInv'
  <2>1. "tcp" \in Name /\ "ipc" \in Name BY DEF Name
  <2>2. sock'["tcp"] # 0 => sock'["tcp"] # sock'["ipc"] BY <1>4, <2>1 DEF IndInv, SockInv
  <2>3. OnSocket => sock'[Client] \in {0, sender.conn} /\ sock'[Other] # sender.conn /\ sender.conn # 0
    BY <1>4, SenderFacts DEF IndInv, SockInv
  <2> QED BY <1>1, <1>2, <2>2, <2>3 DEF SockInv, OnSocket
<1>7. SenderInv'
  <2>1. /\ Pinned(f)' = Pinned(f) /\ PinnedIs(f)' = PinnedIs(f) /\ PartsOf(f)' = PartsOf(f) /\ Ipc(f)' = Ipc(f)
        /\ PartOf(f, sender.next)' = PartOf(f, sender.next) /\ Over(sender.conn)' = Over(sender.conn)
    BY <1>1, <1>2 DEF Pinned, PinnedIs, PartsOf, PartOf, Header, Ipc, SameMachine, Over, Done, Gone
  <2> QED BY <1>1, <1>2, <2>1 DEF IndInv, SenderInv
<1>8. WorkInv' BY <1>1, <1>2, WorkStays DEF IndInv, SettingKept, Types
<1>9. ASSUME NEW d \in Conn
      PROVE  ConnInv(conns[d])' /\ LinkInv(d)'
  <2>1. ConnInv(conns[d]) /\ PendingInv(d) /\ AckInv(d) /\ IdleInv(d)
    BY <1>9 DEF IndInv, LinkInv
  <2>2. d # 0 BY ConnectionFacts DEF IndInv
  <2>3. /\ (Using(d)' <=> Using(d)) /\ (Live(d)' => Live(d)) /\ (Waiting(d) <=> Waiting(d)')
    BY <1>1, <1>4, <2>2 DEF Using, Waiting, OnSocket, Live
  <2>4. ConnInv(conns[d])' BY <1>1, <1>2, <2>1 DEF ConnInv, Holds
  <2>5. PendingInv(d)' BY <1>1, <1>2, <2>1, <2>3 DEF PendingInv
  <2>6. AckInv(d)' BY <1>1, <2>1, <2>3 DEF AckInv, Done
  <2>7. IdleInv(d)' BY <1>1, <2>1, <2>3 DEF IdleInv, Over, Done, Gone
  <2> QED BY <2>4, <2>5, <2>6, <2>7 DEF LinkInv
<1> QED BY <1>2, <1>5, <1>6, <1>7, <1>8, <1>9 DEF IndInv

--------------------
(* The invariant. *)

LEMMA IndInvInit ==
  ASSUME Init
  PROVE  IndInv
<1>1. set \in Setting /\ Len(set.frames) \in Nat \ {0}
  <2>1. MaxFrames \in Nat \ {0} /\ set \in Setting /\ Len(set.frames) \in 1 .. MaxFrames
    BY StreamAssumption DEF Init
  <2> QED BY <2>1
<1>2. Len(outcome) = 0 /\ f = 1 /\ Conn = {} /\ works = <<>> /\ computed = {}
      /\ sender = [at |-> "idle", conn |-> 0, next |-> 1] /\ pinned = <<>> /\ dma = 0
      /\ DOMAIN works = {} /\ sock = [tcp |-> 0, ipc |-> 0]
  BY DEF Init, f, Conn
<1>3. /\ \A S : <<>> \in Seq(S)
      /\ memory \in [Frame -> Nat] /\ \A n \in Frame : memory[n] = n
  BY <1>1, FramesAre, EmptySeq DEF Init
<1>4. /\ sock \in [Name -> {0} \union Conn] /\ sock["tcp"] = 0
      /\ closer \in [at : {"idle", "look", "close", "forget", "raised"}, left : Seq(Name)]
      /\ closer.at = "idle"
      /\ receiver \in [stop : BOOLEAN, accepting : {"yes", "last", "no"}, frozen : BOOLEAN]
  <2>1. DOMAIN sock = Name BY <1>2 DEF Name
  <2> QED BY <1>2, <1>3, <2>1 DEF Init, Name
<1>5. Types
  <2>1. outcome = <<>> /\ conns = <<>> BY DEF Init
  <2> QED BY <1>1, <1>2, <1>3, <1>4, <2>1 DEF Types
<1>6. SenderInv BY <1>2, <1>3 DEF SenderInv
<1>7. SockInv BY <1>2, <1>4 DEF SockInv, OnSocket
<1>8. WorkInv BY <1>2, <1>3 DEF WorkInv
<1> QED BY <1>2, <1>5, <1>6, <1>7, <1>8 DEF IndInv

LEMMA Stutters ==
  ASSUME IndInv, UNCHANGED vars
  PROVE  IndInv'
<1>1. /\ SettingKept /\ CloserType' /\ ReceiverType'
      /\ UNCHANGED <<sender, outcome, memory, pinned, dma, sock, works, computed, conns>>
  BY DEF vars, source, SettingKept, IndInv, Types, CloserType, ReceiverType
<1> QED BY <1>1, NoConnMoves, NetworkStep

LEMMA RunningInv ==
  ASSUME IndInv, Running
  PROVE  IndInv'
<1>1. CASE SenderStep
  <2>1. CASE send_tensor BY <2>1, SendTensorInv
  <2>2. CASE Synchronize BY <2>2, SynchronizeInv
  <2>3. CASE _ensure_connected BY <2>3, EnsureConnectedInv
  <2>4. CASE SendPart BY <2>4, SendPartInv
  <2>5. CASE ReceiveAck BY <2>5, ReceiveAckInv
  <2>6. CASE SendFails BY <2>6, SendFailsInv
  <2>7. CASE SendCloses BY <2>7, SendClosesInv
  <2> QED BY <1>1, <2>1, <2>2, <2>3, <2>4, <2>5, <2>6, <2>7 DEF SenderStep
<1>2. CASE DmaCopy BY <1>2, DmaCopyInv
<1>3. CASE CloserStep BY <1>3, LookAtSocketInv, CloseSocketInv, ForgetSocketInv DEF CloserStep
<1>4. CASE Compute BY <1>4, ComputeInv
<1>5. ASSUME NEW c \in Conn, ReaderStep(c) \/ Accept(c) \/ Collect(c)
      PROVE  IndInv'
  <2>1. CASE ReadPart(c) BY <2>1, ReadPartInv
  <2>2. CASE ReadTimeout(c) BY <2>2, ReadTimeoutInv
  <2>3. CASE ReadEnds(c) BY <2>3, ReadEndsInv
  <2>4. CASE CloneIpc(c) BY <2>4, CloneIpcInv
  <2>5. CASE SendAck(c) BY <2>5, SendAckInv
  <2>6. CASE Submit(c) BY <2>6, SubmitInv
  <2>7. CASE Accept(c) BY <2>7, AcceptInv
  <2>8. CASE Collect(c) BY <2>8, CollectInv
  <2> QED BY <1>5, <2>1, <2>2, <2>3, <2>4, <2>5, <2>6, <2>7, <2>8 DEF ReaderStep
<1> QED BY <1>1, <1>2, <1>3, <1>4, <1>5 DEF Running

LEMMA NextInv ==
  ASSUME IndInv, [Next]_vars
  PROVE  IndInv'
<1>1. CASE Running BY <1>1, RunningInv
<1>2. CASE BeginClose BY <1>2, BeginCloseInv
<1>3. CASE stop_tensor_server BY <1>3, StopServerInv
<1>4. CASE Freeze BY <1>4, FreezeInv
<1>5. CASE \E c \in Conn : Break(c) BY <1>5, BreakInv
<1>6. CASE UNCHANGED vars BY <1>6, Stutters
<1> QED BY <1>1, <1>2, <1>3, <1>4, <1>5, <1>6 DEF Next

(* The parts on every connection are in order and match what its reader    *)
(* expects, a frame that is not cloned is the one being sent, and what is  *)
(* handed on holds its data: inductive. *)
THEOREM Invariance == Spec => []IndInv
<1>1. Init => IndInv BY IndInvInit
<1>2. IndInv /\ [Next]_vars => IndInv' BY NextInv
<1> QED BY <1>1, <1>2, PTL DEF Spec

(* Whatever timeouts, failed sends, closed sockets and faults a connection *)
(* sees, its reader takes every part of a frame for what it is, and hands  *)
(* on frames of the sender with their kind and length: for every setting   *)
(* whose frames are not empty (_handle_tensor_conn, send_tensor, close). *)
THEOREM FramesAreWhole == Spec => []FramesArriveWhole
<1>1. IndInv => FramesArriveWhole
  <2> SUFFICES ASSUME IndInv PROVE FramesArriveWhole
    OBVIOUS
  <2>1. /\ sender.at \in {"idle", "copy", "connect", "send", "ack", "close"}
        /\ sender.conn \in {0} \union Conn
        /\ sender.at \in {"send", "ack"} => sender.conn # 0
    BY DEF IndInv, Types, SenderInv, SockInv, OnSocket
  <2>2. \A n \in DOMAIN outcome : outcome[n].is \in {"sent", "failed", "fatal"}
    <3> DEFINE Result == [is : {"sent", "failed", "fatal"}, conn : Nat]
    <3>1. outcome \in Seq(Result) /\ \A e \in Result : e.is \in {"sent", "failed", "fatal"}
      BY DEF IndInv, Types
    <3> HIDE DEF Result
    <3>2. \A n \in DOMAIN outcome : outcome[n] \in Result BY <3>1
    <3> QED BY <3>1, <3>2
  <2>3. /\ closer.at \in {"idle", "look", "close", "forget", "raised"}
        /\ receiver.accepting \in {"yes", "last", "no"}
        /\ dma \in {0} \union Frame /\ \A w \in DOMAIN sock : sock[w] \in {0} \union Conn
    BY DEF IndInv, Types
  <2>4. ASSUME NEW c \in Conn
        PROVE  /\ conns[c].at \in {"backlog", "kind", "rest", "cells", "handle", "clone", "ack", "submit", "done"}
               /\ Len(conns[c].parts) <= Buffer /\ Len(conns[c].buf) >= conns[c].got
    <3>1. PICK r \in Connection : r = conns[c] /\ ConnInv(r) BY <2>4, ConnectionFacts DEF IndInv
    <3>2. r.at # "desync" /\ r.got <= Len(r.buf) /\ Len(r.parts) <= Buffer
      BY <3>1 DEF ConnInv, Sound, Reading
    <3>3. r.at \in {"backlog", "kind", "submit", "done", "desync"} \union InFrame
          /\ r.got \in Nat /\ Len(r.buf) \in Nat
      BY <3>1 DEF Connection
    <3> QED BY <3>1, <3>2, <3>3 DEF InFrame
  <2>5. TypeOK BY <2>1, <2>2, <2>3, <2>4 DEF TypeOK
  <2>6. \A n \in DOMAIN works : LET w == works[n] IN
          w.kind = set.frames[w.batch].kind /\ Len(w.tensor.cells) = set.frames[w.batch].size
    BY DEF IndInv, WorkInv, Work
  <2> QED BY <2>4, <2>5, <2>6 DEF FramesArriveWhole
<1> QED BY <1>1, Invariance, PTL

(* A frame whose send returned is computed on as it was sent, although the *)
(* pinned buffer, the receive buffer and the sender's memory are all used  *)
(* again (send_tensor, _read_tensor_frame_rest, _read_ipc_frame_rest). *)
THEOREM TensorsAreKept == Spec => []TensorsKeepTheirData
<1>1. IndInv => TensorsKeepTheirData
  <2> SUFFICES ASSUME IndInv, NEW w \in computed, Sent(w.batch)
               PROVE  w.cells = [i \in 1 .. set.frames[w.batch].size |-> <<w.batch, i>>]
    BY DEF TensorsKeepTheirData
  <2>1. Holds(w.batch, w.cells) BY DEF IndInv, WorkInv
  <2>2. w.batch \notin Failed BY DEF Sent, Failed
  <2> QED BY <2>1, <2>2 DEF Holds, Right
<1> QED BY <1>1, Invariance, PTL
=============================================================================
