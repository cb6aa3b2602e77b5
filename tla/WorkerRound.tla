----------------------------- MODULE WorkerRound -----------------------------
(***************************************************************************)
(* One worker, in the middle of the chain, across re-initialisations: the  *)
(* gRPC threads that deliver work, init() and shutdown(), and the thread   *)
(* of its pool, which runs the work and reads what init() replaces.        *)
(* executors/worker.py.                                                    *)
(*                                                                         *)
(* A round is one init(): a run, or the part of a run between recoveries.  *)
(* Batches are numbered from 0 again in each round.  Messages carry a      *)
(* batch number and no round; `from' is the round they were made in, which *)
(* the code cannot see.  The neighbours send what the chain makes them     *)
(* send, and their messages may be late.                                   *)
(***************************************************************************)
EXTENDS Integers, Sequences, FiniteSets

CONSTANTS
  NumBatches,   \* batches per round
  MaxRounds,    \* bound on rounds
  Persistent    \* the worker outlives the run (start_worker(persistent=True))

ASSUME RoundAssumption ==
  NumBatches \in Nat \ {0} /\ MaxRounds \in Nat \ {0} /\ Persistent \in BOOLEAN

Batch == 0 .. NumBatches - 1
Round == 1 .. MaxRounds
None == 0

VARIABLES
  round,       \* the coordinator's round
  phase,       \* what the coordinator does, and how far its init() is
  fed,         \* batches of the round the coordinator has sent
  done,        \* batches of the round it takes for done
  network,     \* messages on their way to this worker
  gen,         \* _generation
  layer,       \* the round `layer' was built for, or None
  stubs,       \* the round the neighbours' stubs were made for, or None
  outputs,     \* _outputs: what is cached for each batch
  pool,        \* tasks submitted to the pool
  task,        \* the task its thread runs
  stopping,    \* rounds whose shutdown() thread has not run yet
  up,          \* the server has not been stopped by a fatal error
  steps        \* optimizer steps taken (history)

coordinator == <<round, phase, fed, done>>
config == <<gen, layer, stubs, stopping>>
roundVars == <<coordinator, network, config, outputs, pool, task, up, steps>>

\* An entry of _outputs: the layer that made it, the round of its input and
\* the generation that put it.
Output(l, from, g) == [layer |-> l, input |-> from, gen |-> g]
Empty == Output(None, None, 0)

Message(kind, b, from) == [kind |-> kind, batch |-> b, from |-> from]
Task(m, g) == [kind |-> m.kind, batch |-> m.batch, from |-> m.from, gen |-> g,
               at |-> "start", out |-> Empty]
Idle == [kind |-> "none", batch |-> 0, from |-> None, gen |-> 0, at |-> "idle", out |-> Empty]

RoundInit ==
  /\ round = 1 /\ phase = "init" /\ fed = 0 /\ done = 0
  /\ network = {}
  /\ gen = 0 /\ layer = None /\ stubs = None /\ stopping = {}
  /\ outputs = [b \in Batch |-> Empty]
  /\ pool = <<>> /\ task = Idle
  /\ up = TRUE
  /\ steps = <<>>

-----------------------------------------------------------------------------
(* The coordinator: init(), the batches one at a time, recover() at any    *)
(* moment because some other worker failed, shutdown() when all are done. *)

ResetState ==
  /\ gen' = gen + 1
  /\ layer' = None
  /\ stubs' = None
  /\ outputs' = [b \in Batch |-> Empty]

\* init(), in the order the code assigns: reset under the lock, layer, stubs.
InitReset ==
  /\ up /\ phase = "init"
  /\ ResetState
  /\ phase' = "building"
  /\ UNCHANGED <<round, fed, done, network, stopping, pool, task, up, steps>>

InitLayer ==
  /\ up /\ phase = "building"
  /\ layer' = round
  /\ phase' = "wiring"
  /\ UNCHANGED <<round, fed, done, network, gen, stubs, stopping, outputs, pool, task, up, steps>>

\* Without the layer, init() raises and the run ends before it began.
InitStubs ==
  /\ up /\ phase = "wiring"
  /\ stubs' = round
  /\ phase' = IF layer = None THEN "failed" ELSE "training"
  /\ UNCHANGED <<round, fed, done, network, gen, layer, stopping, outputs, pool, task, up, steps>>

\* Mutant: batches are sent without waiting for the last one.
FeedAhead ==
  /\ phase = "training" /\ fed < NumBatches
  /\ fed' = fed + 1
  /\ network' = network \union {Message("forward", fed, round)}
  /\ UNCHANGED <<round, phase, done, config, outputs, pool, task, up, steps>>

\* The previous slice sends the activation of the next batch.
Feed ==
  /\ phase = "training" /\ fed = done /\ fed < NumBatches
  /\ fed' = fed + 1
  /\ network' = network \union {Message("forward", fed, round)}
  /\ UNCHANGED <<round, phase, done, config, outputs, pool, task, up, steps>>

NextRound ==
  /\ round' = round + 1 /\ phase' = "init" /\ fed' = 0 /\ done' = 0

Recover ==
  /\ phase = "training" /\ round < MaxRounds
  /\ NextRound
  /\ UNCHANGED <<network, config, outputs, pool, task, up, steps>>

\* shutdown() answers at once; its work is left to a thread.
Shutdown ==
  /\ up /\ phase = "training" /\ done = NumBatches
  /\ phase' = "over"
  /\ stopping' = stopping \union {round}
  /\ UNCHANGED <<round, fed, done, network, gen, layer, stubs, outputs, pool, task, up, steps>>

ShutdownThread ==
  /\ \E r \in stopping : stopping' = stopping \ {r}
  /\ IF Persistent
     THEN ResetState /\ UNCHANGED up
     ELSE up' = FALSE /\ UNCHANGED <<gen, layer, stubs, outputs>>
  /\ UNCHANGED <<coordinator, network, pool, task, steps>>

\* The next run, on a worker that persists.
NextRun ==
  /\ phase \in {"over", "failed"} /\ Persistent /\ round < MaxRounds
  /\ NextRound
  /\ UNCHANGED <<network, config, outputs, pool, task, up, steps>>

-----------------------------------------------------------------------------
(* The gRPC thread: forward() and backward() note the generation. *)

Deliver ==
  /\ up
  /\ \E m \in network : /\ network' = network \ {m}
                        /\ pool' = Append(pool, Task(m, gen))
  /\ UNCHANGED <<coordinator, config, outputs, task, up, steps>>

-----------------------------------------------------------------------------
(* The pool's thread. *)

Current == task.gen = gen
To(at) == task' = [task EXCEPT !.at = at]
Drop == task' = Idle

\* A task that finds None where init() or shutdown() have been: the exception
\* is taken for a fatal error of the worker and its server is stopped.
Fatal ==
  /\ Drop
  /\ up' = FALSE
  /\ UNCHANGED <<coordinator, network, config, outputs, pool, steps>>

TakeTask ==
  /\ up /\ task = Idle /\ pool # <<>>
  /\ task' = Head(pool)
  /\ pool' = Tail(pool)
  /\ UNCHANGED <<coordinator, network, config, outputs, up, steps>>

\* _ensure_generation, outside the lock.
Ensure(at) == IF Current THEN To(at) ELSE Drop

StartTask ==
  /\ up /\ task.at = "start"
  /\ Ensure(IF task.kind = "forward" THEN "compute" ELSE "pop")
  /\ UNCHANGED <<coordinator, network, config, outputs, pool, up, steps>>

\* _run_forward_stage
ComputeTask ==
  /\ up /\ task.at = "compute"
  /\ IF layer = None THEN Fatal
     ELSE /\ task' = [task EXCEPT !.at = "store", !.out = Output(layer, task.from, task.gen)]
          /\ UNCHANGED <<coordinator, network, config, outputs, pool, up, steps>>

\* Mutant: the generation is not looked at again.
StoreUnchecked ==
  /\ up /\ task.at = "store"
  /\ outputs' = [outputs EXCEPT ![task.batch] = task.out]
  /\ To("ensureForward")
  /\ UNCHANGED <<coordinator, network, config, pool, up, steps>>

\* Under the lock.
Store ==
  /\ up /\ task.at = "store"
  /\ IF Current
     THEN /\ outputs' = [outputs EXCEPT ![task.batch] = task.out]
          /\ To("ensureForward")
     ELSE Drop /\ UNCHANGED outputs
  /\ UNCHANGED <<coordinator, network, config, pool, up, steps>>

EnsureForward ==
  /\ up /\ task.at = "ensureForward"
  /\ Ensure("sendForward")
  /\ UNCHANGED <<coordinator, network, config, outputs, pool, up, steps>>

\* The next slice will answer with a gradient for what it is sent.
SendForward ==
  /\ up /\ task.at = "sendForward"
  /\ IF stubs = None THEN Fatal
     ELSE /\ network' = network \union {Message("backward", task.batch, task.from)}
          /\ Drop
          /\ UNCHANGED <<coordinator, config, outputs, pool, up, steps>>

\* Mutant: the output stays cached.
PopKeeps ==
  /\ up /\ task.at = "pop"
  /\ IF Current /\ outputs[task.batch] # Empty
     THEN task' = [task EXCEPT !.at = "backward", !.out = outputs[task.batch]]
     ELSE Drop
  /\ UNCHANGED <<coordinator, network, config, outputs, pool, up, steps>>

\* _run_backward_stage: under the lock; a gradient without an output is skipped.
Pop ==
  /\ up /\ task.at = "pop"
  /\ IF Current /\ outputs[task.batch] # Empty
     THEN /\ task' = [task EXCEPT !.at = "backward", !.out = outputs[task.batch]]
          /\ outputs' = [outputs EXCEPT ![task.batch] = Empty]
     ELSE Drop /\ UNCHANGED outputs
  /\ UNCHANGED <<coordinator, network, config, pool, up, steps>>

\* The gradient goes to the layer that made the output; `layer' is stepped.
Backward ==
  /\ up /\ task.at = "backward"
  /\ IF layer = None THEN Fatal
     ELSE /\ steps' = IF layer = task.out.layer
                      THEN Append(steps, [layer |-> layer, batch |-> task.batch,
                                          input |-> task.out.input, gradient |-> task.from])
                      ELSE steps
          /\ To("ensureBackward")
          /\ UNCHANGED <<coordinator, network, config, outputs, pool, up>>

EnsureBackward ==
  /\ up /\ task.at = "ensureBackward"
  /\ Ensure("sendBackward")
  /\ UNCHANGED <<coordinator, network, config, outputs, pool, up, steps>>

\* Without stubs the code takes itself for the first slice and has no
\* coordinator either.  The slice before does not look at rounds: it takes the
\* gradient if it has an output for the batch.
SendBackward ==
  /\ up /\ task.at = "sendBackward"
  /\ IF stubs = None THEN Fatal
     ELSE /\ done' = IF stubs = round /\ phase = "training" /\ done < fed /\ task.batch = done THEN done + 1 ELSE done
          /\ Drop
          /\ UNCHANGED <<round, phase, fed, network, config, outputs, pool, up, steps>>

RunTask ==
  \/ TakeTask \/ StartTask
  \/ ComputeTask \/ Store \/ EnsureForward \/ SendForward
  \/ Pop \/ Backward \/ EnsureBackward \/ SendBackward

RoundNext ==
  \/ InitReset \/ InitLayer \/ InitStubs
  \/ Feed \/ Recover \/ Shutdown \/ ShutdownThread \/ NextRun
  \/ Deliver
  \/ RunTask

RoundSpec == RoundInit /\ [][RoundNext]_roundVars
-----------------------------------------------------------------------------
Messages == [kind : {"forward", "backward"}, batch : Batch, from : Round]
Outputs == [layer : 0 .. MaxRounds, input : 0 .. MaxRounds, gen : Nat]
TasksAt(points) == [kind : {"forward", "backward"}, batch : Batch, from : Round,
                    gen : Nat, at : points, out : Outputs]
Tasks == TasksAt({"start", "compute", "store", "ensureForward", "sendForward",
                  "pop", "backward", "ensureBackward", "sendBackward"})
Steps == [layer : Round, batch : Batch, input : 0 .. MaxRounds, gradient : Round]

\* The values of every variable; the coordinator is one batch ahead at the most.
RoundTypeOK ==
  /\ round \in Round
  /\ phase \in {"init", "building", "wiring", "training", "over", "failed"}
  /\ done \in 0 .. NumBatches /\ fed \in 0 .. NumBatches /\ fed \in {done, done + 1}
  /\ network \subseteq Messages
  /\ gen \in Nat
  /\ layer \in 0 .. round /\ stubs \in 0 .. round
  /\ outputs \in [Batch -> Outputs]
  /\ pool \in Seq(TasksAt({"start"}))
  /\ task \in Tasks \union {Idle}
  /\ stopping \subseteq Round
  /\ up \in BOOLEAN
  /\ steps \in Seq(Steps)

\* Whatever task was in progress when init() or shutdown() replaced the slice,
\* it leaves nothing in the new slice's cache: what is cached was put by work
\* received since, and made by the layer that is there.
CacheIsOfThisRound ==
  \A b \in Batch : outputs[b] # Empty => outputs[b].gen = gen /\ outputs[b].layer = layer

\* Late messages of an earlier round may give a batch two gradients: an
\* activation is used for one optimizer step at the most all the same.
ActivationsAreUsedOnce ==
  \A i, j \in DOMAIN steps :
    i # j => <<steps[i].layer, steps[i].batch, steps[i].input>>
               # <<steps[j].layer, steps[j].batch, steps[j].input>>
=============================================================================
