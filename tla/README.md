# TLA+ for TorchSlicer

TorchSlicer cuts a PyTorch model into consecutive slices, one per worker process, and trains
the chain as if it were one model: activations go down the chain, gradients come back, and a
coordinator feeds batches, watches the workers and re-plans when one is lost. What is hard
about it is not the arithmetic but the order of things: queues and thread pools on every
worker, messages without acknowledgement of their effect, threads that outlive what they were
started for, re-initialisation under running work, files written by parts of a system that
fails in parts. That is what these modules model. Paths below are relative to
`src/lib/torchslicer/torchslicer/`.

## 1. Inventory

| Component (code) | State | Operations | Talks to | Hard behaviour | Correct when |
|---|---|---|---|---|---|
| **Worker**, `executors/worker.py` | slice, optimizer, `_labels`, `_outputs`, `_micro_losses`, `_generation`, stubs, a pool of one thread | `forward`, `backward`, `submit_*`, `init`, `shutdown`, `save_checkpoint`, tied calls, `_report_fatal_error` | neighbours (activations, gradients), coordinator (`batch_done`, metrics, errors) | receive threads, pool and handlers interleave; labels and activations arrive in any order; `init()` replaces what a running task reads | each optimizer step uses exactly the gradients of its batch; nothing of an old round enters a new one |
| **Raw tensor connections**, `executors/worker.py` (`_TensorPeerClient`, `_IpcPeerClient`, `_tensor_accept`) | a socket, a pinned buffer, a DMA, a reader per connection | `send`, `close`, accept, read, clone, acknowledge | the neighbour's pool | a timeout or a break in the middle of a frame; `close()` under a send; memory freed under a CUDA handle | a frame arrives whole or not at all, with its own data; nobody is stuck |
| **Coordinator**, `executors/distributed.py` | batch events, losses, proxies, failed set, partition | `setup`, `train_epoch`, `recover`, `reinit`, `teardown` | workers, heartbeat threads, report handlers | a failure races the end of a batch; flags set and cleared one by one | an epoch reported as trained was trained; a failure never hangs the loop; recovery removes the failed workers |
| **Setup and teardown**, `distributed.py`, `worker.py`, `planning.py` | nodes, capabilities, token, NCCL store | discover, describe, order, plan, `init` with retries, rendezvous, shutdown | every process | any process dies and comes back, requests and replies are lost | a run that trains holds the model once, in the right places |
| **Discovery**, `discovery/` | registered nodes, capabilities | `handle_register`, `discover`, `idle_nodes`, watchdog | workers | registration is concurrent with discovery, workers register again | each node is used once, every worker is found and told |
| **Checkpoints**, `distributed.py`, `worker.py`, `checkpoint_utils.py` | one file per slice and epoch, a layout per epoch, `_stored_layers`, `_stored_partition_indices` | save, recover, resume, restore | shared directory | some saves fail; slices change between epochs | every layer gets back its own weights of one epoch |
| **Tied weights**, `core/tied.py`, `worker.py` | `_tied_grads`, token, copies | `tied_grad`, `tied_update`, `_optimize` | owner and replicas | the owner waits for the replicas of the same batch on its only compute thread; calls outlive a recovery | one update per step, from the gradients of every use; copies are equal when they are computed on |
| **Tunnels**, `transport/tunnel.py` | routes, keepers, pending calls | `serve`, `keep`, `release`, `call`, relay forwarding | both ends of a stream | streams break and are dialed again while calls and announcements are under way | a kept node stays reachable; no call waits for ever |
| **Offload**, `offload/` | slots, tiers, pinned copies | `fetch`, `acquire`, `release`, `evict`, `end_batch` | CUDA streams, disk threads | transfers overlap with compute | a slot is not reused while its transfer runs |
| **Local executor**, `executors/local.py` | slices in one process, kept inputs, V1 server copies | whole batches, micro-batches, local losses, attacks, evaluation | client session | uneven micro-batches, shared parameters, inputs that others overwrite | each step takes the gradients of one batch |
| **Client sessions**, `sl/clients.py`, `algorithm/` | client states, the live copy, the shared start | order, switch, hand over, aggregate | executors | whose state is live, stored, handed over or averaged depends on all that ran before | a batch trains what its client last had |
| **Graph and strategies**, `core/model_graph.py`, `strategies/` | none | trace, cut, balance, validate, plan again | executors | constants, fan-out, shared parameters, caps, rounding | the slices compute the model; the best cut is found |
| **Remote split server**, `sl/remote.py`, `interop/flower.py` | server slices, lock, steps; a client and a cache per process | `train_step`, `eval_step`, a round's messages | clients of a Flower run | calls in a thread pool, late, lost or abandoned; a process serves any node | one batch at a time; results are the round's |
| **Cut hooks**, `sl/hooks.py` | noise counters | encode, decode, pack | both sides of a cut | packing of 1, 2 and 4 bits, ties and rounding, chains | the shape and the promised values come out |
| **P2P executor**, `executors/p2p.py` | own slice in process | as coordinator | as coordinator | calls that never leave the process | as coordinator |
| Metrics, privacy, data, monitor, deploy, configuration, generated code | counters, logs | - | - | - | - |

`PROJECT.json` lists them all, with what is and is not modelled, and the hazards, each at its
line.

## 2. Modules

```
SyncTraining            what a chain of slices promises: batch by batch, all slices step
   ^ implemented by
Pipeline                workers, coordinator and their messages within an epoch
Router                  a tunnel between two nodes
   ^ both proved about by
Messages_proofs
TensorStream            the frames that carry those messages        (MCTensorStream)
TiedSync                parameters that several slices share        (MCTiedSync)
   ^ proved about by
TiedSync_proofs
Setup                   from processes to slices, and back          (MCSetup)
   ^ proved about by
Setup_proofs
FailureDetection        heartbeats, reports, the training loop's flags, recover()
CheckpointRecovery      files, layouts, what is loaded where        (MCCheckpointRecovery)
   ^ both proved about by
Recovery_proofs
WorkerRound             one worker across init() and shutdown()
   ^ proved about by, with TensorStream
Worker_proofs
Slicing                 from a model to its slices                  (MCSlicing)
ClientSession           whose weights are live
   ^ extended by
LocalExecutor           an epoch in one process                     (MCLocalExecutor)
   ^ proved about by
LocalExecutor_proofs
CutHooks                what crosses a cut
   ^ extended by
RemoteSplit             a server and its clients under Flower       (MCRemoteSplit)
   ^ proved about by, with Slicing
Cuts_proofs
Pager                   slices that are paged through the slots of one device
   ^ proved about by
Pager_proofs
```

The modules cut the system along its interfaces: `Setup` ends where a run trains;
`FailureDetection` takes the batch protocol of `Pipeline` as one step (the loop waits, the
chain runs it or does not), `CheckpointRecovery` takes "a failure was noticed" from
`FailureDetection` as one step, and `WorkerRound` opens the one step "init the survivors" of
both. `TiedSync` counts micro-batches where `Pipeline` has messages; `TensorStream` opens one
message of `Pipeline` into the parts of its frame. `Slicing` is what `Setup` and
`FailureDetection` call to cut the model. An MC module gives the constants of the module it
extends: small sets of settings, one of which `Init` chooses.

**Pipeline.** State: per slice the channels from its neighbours, the pool's queue, `_outputs`,
`_labels`, accumulated gradients; the coordinator's phase. One action per step of the pool's
thread (`Forward`, `ForwardLast`, `TakeLabel`, `Backward`), one per receipt, one per step of
`train_epoch` (`StartBatch`, `SendLabel`, `SendInput`, `FinishBatch`), and the loss thread.
Messages between two slices arrive in order when they share a stream and in any order
otherwise; a received task is queued at once and the pool is FIFO. `stepLog[w]` records what
each optimizer step of slice w consumed.

**FailureDetection.** Each heartbeat thread and each report is a record with a program
counter; the flags `failed`, `event`, `batchDone`, `stop` are the code's, set and cleared
in the code's order and one step each. `Reslice`, `InitSlice`, `ClearFailed`, `ClearEvent`,
`ClearDone`, `StartHeartbeats` are recover() in its order.

**CheckpointRecovery.** A layer's parameters are a tag: whose they are, how many epochs old, and
whether a failed attempt touched them. A slice names its parameters by their place in the
slice, so a file loaded into other layers is seen as what it is. `strict=False` (recover) and
`strict=True` (resume, restore) differ as in PyTorch; loading is in place and stops at the
first slice that fails.

**WorkerRound.** The pool's thread is a record with a program counter: every check of the
generation and every later read of `layer` and stubs is a step of its own, and `init()` is
three. Messages carry a batch number and no round, as in the code; the round they come from
is there for the properties.

**Router.** The thread of a keeper, step by step; frames in order on a stream; both ends
notice a broken stream on their own.

**Setup.** The coordinator walks through setup() node by node: reach, describe, order, plan,
init with retries, rendezvous; then a batch, `reinit()`, teardown. Workers register, are killed
and started again, change their memory, and re-register when the watchdog finds they are not
known; requests and replies are lost. The run's setting (executor, data owner, caps, NCCL,
static list, faults) is chosen by `Init`. A slice in a worker is the set of layers it was sent,
with index, neighbours and the token of the shipment. `shutdown()` answers at once and leaves the
rest to a thread (`late`), which may act at any time after, in the next run too: it ends the
process, or drops the slice there is then (`Dropped`). Over NCCL every `init()`, a repeated one too,
starts a rendezvous thread that destroys the group of its process, enters its GPU in the store,
waits for the others, joins and writes its status over the one that was there (`Join`,
`_rendezvous`); `group` is what each process has. The coordinator reads the statuses on its own.

**TensorStream.** A frame is the sequence of its parts (kind byte, rest of the header, cells of
the payload); a connection holds the parts in flight of two ends that are closed on their own.
The compute thread, the thread in `close()`, the DMA into the pinned buffer, the accept thread
and a reader per connection each take a step at a time; over CUDA IPC the part is a handle, and
the tensor behind it may be reused once the sender thinks it is acknowledged.

**TiedSync.** Activations and gradients of the chain are counters per round; a compute thread is
where it is in `_optimize` (send, wait, push, reply) with the calls it has left; a tied call is
checked against the token, then does its work under the lock, in two steps as in the code. A
copy of a parameter is the number of steps it has had, with its round. `.grad` is the set of
micro-batches in it, so what a step sums is compared with every use of the parameter.

**Slicing.** The pure algorithms are operators: the trace of a graph (`Traced`), the valid cuts,
the strategies, `balanced_cuts` as the table of the code's dynamic programme, `validate`,
`device_terms`, the plan for a fleet and recover()'s own split. The actions are the stages of
`ts.slice()`, `setup()` and `recover()`, so that every operator is applied to what the one
before it really returns. Speeds and costs are integers, scaled so that no division rounds.

**ClientSession, LocalExecutor.** The weights of a slice are the set of batches they were trained
on, so that an average is a union; an optimizer is what its moments come from, and its learning
rate the schedule factors applied to it. `pc` walks through `train_epoch`; `micro` and `slice`
through a batch, forwards and backwards, in the order of `_standard_batch`, `_gpipe_batch` or
`_local_loss_batch`, with the input each slice holds and what `.grad` sums up. The batches a round
still has are a set of pairs, the place of a client among the participants and the number of the
batch in its loader; `Earlier` is the order in which `_order()` yields them.

**RemoteSplit, CutHooks.** A strategy sends every node a train and then an evaluate message; a
process handles the messages of any node with the client it caches; a call is queued, takes the
server's lock, goes through the server's slices and is answered, and may be slow, lost,
abandoned at its deadline or cut off by a stop. What it carries is a real (small) tensor:
`CutHooks` has the hooks' arithmetic over integers with a common denominator, and the bytes a
payload is packed into; `CircularConv` really adds the convolutions of a group up, and what its
decoder returns has the other samples of the group in it. `.grad` of a slice is the calls whose
gradients it sums; a handler may raise anywhere in its passes, in the backward of a slice before or
after that slice has added to `.grad` (`left` has the calls it did so to).

**Pager.** The host's thread walks through `_offload_batch()` call by call (`at`); the CUDA
streams, the lane of each slot and the thread of the CPU step are FIFO queues of operations that
start when the events they wait for are done. A tensor is whose it is and how often it was
updated, so a copy that comes too early, too late or from the wrong place leaves a value that
differs from `latest`, what the program order says. An operation carries what it should find
(`want`): a pass the tensors it reads, the step on the CPU its gradient, a copy or a read what it
moves. `ComputesOnLatest` asks it of each when its turn comes, but for the write of a file
(`WritesFile`), for which `write_back` makes no copy wait: the next copy out of the slot may be in
the staging buffer before the last one is in the file, and is then written twice. The mode is
chosen by `Init`: homes in RAM, in RAM with the step on the CPU, or in files behind a pinned
staging buffer.

## 3. Runs

| Run | Question | Bounds |
|---|---|---|
| `pipeline` | Does the chain train like the unsplit model, whatever the interleaving? | 3 slices, 3 micro-batches, 3 batches: a first, a middle and a last slice, accumulation, and a batch after a batch |
| `failure_detection` | Does a failure mislead recover(), or hang the loop? | 3 workers, 2 batches, 1 fault anywhere, probes of worker 2 that time out whenever they like, 1 retry; the end of the run is promised as long as one worker is blamed |
| `checkpoint` | Do recovery, resume and restore give back the right weights? | 5 layers, three of the same shapes, one without parameters, one of other shapes; every cut into 1-3 slices; 2 epochs; up to two failures of an epoch; saves that succeed, raise or are cut short |
| `worker_round` | What of an old round can get into a new one? | 3 rounds of 2 batches, recoveries and ends of runs anywhere, messages of any age |
| `router` | Does a kept node stay reachable, and does every call end? | 1 address served at any moment, 2 breaks, 1 call, 1 keep and release |
| `pager` | Does compute find the right tensors, and do they come home? | 5 slices, 2 slots (the default, and the fewest: one computes, one prefetches), 3 batches, all three modes, slice 2 frozen or not: slots are evicted, the first batch makes the optimizer state, the second pages it in, the third runs with slots that have grown |
| `stream` | Do frames arrive whole and with their data, and does everybody get off the line? | 2-3 frames of 1-3 cells, TCP, pinned buffer, IPC and its fallback; one fault of a kind or a pair of kinds (slow, close, break, stop, freeze); 2 parts in flight |
| `tied` | Is a shared parameter one parameter? | 3 slices, 2 micro-batches, 2 batches, 2 rounds; groups over all slices, over two, one frozen, one local; lost calls, a recovery anywhere |
| `setup` | Is what trains the model, in the right places, and does setup end? | 2 workers and the hosted slices, 6 deployments, up to 2 starts of the coordinator and 2 faults, 2 attempts at each call; a shutdown acts at any time after its answer; over NCCL up to 2 shipments on one store, and one repeated `init()` |
| `slicing` | Do the slices compute the model, and are the cuts the best there are? | every traced graph of 4 nodes, graphs that must be refused, every chain of 4 and 5 stages over 2-3 costs, a residual model with tied and frozen parameters; 5 fleets, every set of survivors |
| `local_executor` | Does each batch train on its client's state and step on its own gradients? | 3 clients with 0-2 batches, 3 epochs, every mode, handoff and algorithm; 1-3 micro-batches of 4-6 samples, u-shaped, tied, with an attack, local losses |
| `split` | Do clients and batches keep apart on one server, and does the cut keep its promise? | 20 hooks and chains over 5 tensors; 2 processes, 2 nodes, 2 rounds, 2 batches; each kind of fault |

`TypeOK` of `Setup`, `TiedSync`, `RemoteSplit`, `Pager` and `Slicing` is a conjunct of the
invariant that names the run's first question; that of `FailureDetection` is proved instead.

Three of anything is where first, middle and last differ and where one can be removed and a
chain of more than one is left. Two batches (epochs, rounds) is where something of the first
can be mistaken for something of the second; `worker_round` has three because its messages
can be two rounds old. Four layers (graph nodes) are the fewest with a skip connection across
a cut and a cut elsewhere. Bounds on faults are per setting, because what they race with
differs; two of a kind are allowed where the code counts attempts. `CHECK_DEADLOCK FALSE` stands
where the modelled run ends or may stop.

**Fairness.** Weak fairness of the threads the code starts (pool, handlers, heartbeats,
keepers) and of the delivery of what was sent; none of crashes, errors, breaks, timeouts of
live workers, or of anything a user decides. In `Router`, both ends eventually learn that a
stream broke: gRPC reports it, there is no keepalive of the tunnel's own at the listening end.
In `Pager`, the host and each stream and thread go on as long as they can. `Setup` has weak
fairness of the coordinator's thread, of each worker's registration and watchdog, of heartbeats,
of rendezvous threads (which have their own timeout) and of those that act on a shutdown, `TiedSync` of each compute thread,
handler and `init()`, `RemoteSplit` of clients, handlers, deliveries and of the deadline of a
call that has been given up on: gRPC ends it. `LocalExecutor` is one thread and
`TensorStream` has weak fairness of the whole of what is not a fault (`Running`): the threads
of both sides go on together until none can. Nothing is strongly fair.

### Seen while modelling

What the code does and a reader may not expect; each is left out of the property that would
state the contrary, or is bounded away from it, where the property's comment says so.

*Failures and recovery.*
- A failure marked between `_failed_workers.clear()` (`distributed.py:1138`) and
  `_failure_event.clear()` (1140) is lost, and later marks of the same index return early (885):
  the loop then waits for ever, where the repository's `README.md:379` says "instead of hanging the run".
- `_on_worker_failure` sets `_batch_done` (`distributed.py:891`) before `_failure_event` (892): the
  loop may count the batch as done although nobody ran it. `UnrunBatchesAreTold` says that this
  happens only between these two steps, and that the event is set next; if the batch was the
  epoch's last, `train()` returns all the same.
- `recover()` may leave the event set with nobody in the failed set (`next(iter(...))` raises
  `StopIteration`); a heartbeat thread that outlives its 2 s join acts with indices of the old
  chain, and from the second recovery on can remove a healthy worker; a failed send is given 5 s
  for a heartbeat to explain it, which may take longer; a survivor that fails during recover()'s
  sequential init ends the run.
- A worker that dies and is started again between two heartbeats answers the next one, with no
  slice; with `batch_timeout_s` 0.0 nothing notices that its batch never ends.
- A second recovery in one epoch loads the files of the old slices into the new ones by place
  (`distributed.py:1130`, `strict=False` at 1006): same-shaped layers get each other's weights.
  With one file missing the others have already been loaded in place (996), so the "initial
  weights" recovery falls back to (1073) are a mix. The optimizer state is saved and not
  restored. The uniform fallback of recovery ignores memory caps; `reinit()` does not update the
  partitions or hooks of the plan.

*Workers.*
- A task past its generation check finds `layer` `None` where `init()` is at work
  (`worker.py:801`), takes it for a fatal error and stops the server of a healthy survivor (1966), although
  "survivors keep running" (`distributed.py:1070`). `shutdown()` of a persistent worker answers first and
  resets later (1062): the reset can hit the slice of the next run's `init()`. `SlicesFormTheModel` allows this
  from the second run on, and nothing else: never a slice of another run or place.
- The loss of a batch travels in a thread that `batch_done` does not wait for and carries no batch
  the coordinator looks at, so it may be missing or counted for the next batch. A message of the
  old round delivered after `init()` is work of the new one.
- The token of a tied gradient is checked before the lock is taken, so an `init()` in between lets
  an old gradient in; a tied owner that waits across a re-initialisation waits up to 300 s and
  then reports a fatal error in the new run.
- Streams: an `OSError` of `connect` is not a `_TensorStreamError` and is reported as fatal;
  `close()` between a send's two reads of the socket raises `AttributeError`; readers in the middle
  of a frame do not look at the stop flag; a sender that times out on a late acknowledgement frees
  memory that is still being cloned; frames of CPU and CUDA tensors take two sockets and may
  overtake each other; an empty tensor makes `torch.frombuffer` raise.

*Setup, discovery, tunnels.*
- A worker that registers during teardown, after the list was read, is left running;
  `idle_nodes` counts from the end of a list that still grows; the watchdog's registration
  overwrites a memory that was described. A worker of a static list says what it can do in
  `describe()` alone: if that call gets no answer its cap and its `first_slice` are not known, so both
  are promised only of workers that register. With
  u-shaped NCCL the two slices of one process share its process-wide group.
- An `init()` whose answer was lost is sent again (`startup.py:24`), and over NCCL each one starts a rendezvous of
  its own (`worker.py:882`, 1009) under the same token and rank. The second destroys the group the first
  may have formed (978) and joins alone; the "ok" of the first stays in the store until it writes
  its own status, so `_wait_nccl_ready` (`distributed.py:1227`) may let training start without a whole
  group. `GroupIsWhole` promises the group only if no `init()` on this store was repeated, and after
  one that every rank has joined on a GPU of its own. What a batch then meets is not modelled.
- A released keeper that was dialing still says HELLO and may take the route of its successor with
  it: with two `keep()` calls `KeptNodeIsReachable` fails.

*Algorithms and split learning.*
- `torch.chunk` may make fewer chunks than `micro_batches`: `_gpipe_batch` and `_send_batch` then
  raise `IndexError`. Local losses are ignored when there are micro-batches, and with `u_shaped` the
  client cut they train is the tail slice (`algorithm/builtin.py:147`, 149).
- `balanced_cuts` promises that of all cuts with the same slowest slice "ties go to the most even
  split" (`strategies/cost.py:18`): its table keeps one way per entry, and from four slices on the
  way it dropped may lead to the more even split (the slowest slice is still the best there is); `MemorySplitter` with `slot_mb` may make more
  partitions than there are workers.
- A second `train()` of a session drops the active client's moments. `SplitServer` numbers the
  noise of its gradients by its own `steps`, not by the batch of `hooks.py:313`, and an evaluation
  always says batch 0, and clients with one seed number theirs alike: noise is fresh per client, for
  batches it trains on. A call its client gave up on still trains.
- No handler of `SplitServer` resets gradients before its passes (`sl/remote.py:117`): a backward that raises half
  way leaves what it has added to `.grad`, and the next batch's step takes it too. `OneBatchPerStep` says what
  is left of "one batch at a time": a step takes its own batch's gradient in every slice, once and last,
  and of others only what such failures left since the step before.
- `CircularConv` decodes approximately ("z_i ~ K_i (x) V", `sl/hooks.py:367`): an element comes back with
  weight one plus an echo of its group. `Superposed` states that, that other groups add nothing, and
  that the map is its own adjoint, so that the gradient is that of training through the cut.

## 4. Proofs

`Messages_proofs` proves of `Pipeline`, for any number of slices, micro-batches and batches:

- `TypeCorrect`: `Spec => []TypeOK`
- `StepsCorrect`: `Spec => []StepsAreWholeBatches` - the k-th step of each slice consumes the
  gradients of batch k, each micro-batch once, in order
- `LabelsComeFirst`: `Spec => []LabelBeforeActivation` - the last slice never has to cache an
  activation
- `FreshActivations`: `Spec => []ActivationsAreFresh` - no slice steps between the two passes
  of a micro-batch

They rest on the constants' assumption of `Pipeline` and on nothing else. None of the four is
inductive: that a slice's gradients are in order depends on the order in which the slices
before it forwarded, on what is in the channels, and on no message of the batch before being
left. The inductive invariant `IInv` is `TypeInv` (types, bounds) and `OrderInv`, a picture of
the whole chain in terms of counters that each slice keeps: micro-batches go through each
station once and in order (`Consecutive`, `Queued`), so what is in a channel is the interval
between what its writer sent and its reader took (`Channel`, `Chained`), labels are ahead of
activations (`LabelFirst`), and between two batches everything is empty (`Barrier`). The proof
has a lemma per action; TLC also checks `IInv` on the instance of the `pipeline` run.

From the same invariant it proves:

- `SlicesTrainInSync`: the initial states and every step of `Pipeline` map to initial states,
  steps or stutterings of `SyncTraining` - slices are updated from the last to the first, once
  in a batch, and a batch is over when all of them are. The abstract version of a slice is the
  length of its `stepLog`; what has to be shown (`Versions`) is that a slice that has stepped in
  this batch is one that all later slices have stepped in, and that between two batches all have.

- `EndsWhole`: `Spec => []BatchesEndWhole` - between two batches nothing of the last one is left
  anywhere and what was reported of it is all of it, from `IInv` and `Versions` with what a
  finished batch says of the loss thread (`EndInv`).

It proves of `Router`, for any addresses, calls, streams that break and `keep()` calls, from
`RouterAssumption`:

- `TunnelsSuffice`: `RouterSpec => []RouterTypeOK`. What is hard about it is that `Dial` has no guard, and yet no
  tunnel is made beyond `Tunnel`: each tunnel is over, or is the last of a keeper that will not
  dial again (`Closed`), a stream that ends counts once (`Counted`), and so there is room for
  one more whenever a keeper dials (`RoomToDial`). The bounds of the model cut nothing off but
  streams that break.
- `ReadyIsRouted`: `RouterSpec /\ [][Keep => Settled]_routerVars => []ReadyMeansRouted` - what a tunnel announced is
  routed to it once its HELLO is answered, if `keep()` is called again only when the thread
  of the keeper before has ended and its stream too. Without the condition the statement is false:
  a released keeper may still say HELLO (section 3).
- `OneKeepIsRouted`: `RouterSpec => []ReadyMeansRouted` if `MaxKeeps = 1`: a node that keeps one tunnel,
  however often it dials, meets the condition.

The invariant for these, `PatientInv`, is that at most one keeper's thread runs, that its tunnel is the
newest, and that every older one is closed at this end and over, with nothing under way on it: a
keeper only dials again when its stream broke or the far end closed it (`BetweenTunnels`). So
only the newest tunnel can still take routes, and the end of an older one, noticed late, takes
none from it (`NewestRouted`). These were checked with TLC before they were proved, on 2 keepers
that keep the condition, a break and a call.

`Worker_proofs` proves of `TensorStream`, for any frames, any room in a connection and any number of closes,
slow calls, breaks, stops and freezes, from `StreamAssumption` (a setting is a record of these;
no frame is empty, which `torch.frombuffer` refuses):

- `FramesAreWhole`: `Spec => []FramesArriveWhole`, with the types of all variables - a reader never
  takes one part of a frame for another.
- `TensorsAreKept`: `Spec => []TensorsKeepTheirData` - what is computed on is what was sent, if the
  send returned.

Neither says anything of the connection between the two ends, and all of the invariant `IndInv` is
about that. The parts on a connection follow each other as frames do, the first of them is what
the reader expects (`InOrder`), and what the sender writes next follows the last (`Awaits`); a
connection that a client keeps between two sends is between two frames (`IdleInv`), which is why it
can be used again. A frame that is not cloned yet and needs its acknowledgement is the one being
sent, or its send failed and no client has its connection any more (`PendingInv`); an
acknowledgement on a client's connection is the one its sender waits for (`AckInv`). So the memory
a handle refers to is not given away before it is cloned, unless the send has failed - the one case
in which what is computed on may be something else. A step of the receiver, the network or a
thread in `close()` makes a connection only `Advance`: nothing new is pending on it, and what could
follow before still can, or it is over. That is shown once per way a connection can change and once
for the sender, who does not move then (`StepElsewhere`). When a send ends (`SendEnds`) the
connections that are still a client's must be quiet: no handle, no acknowledgement, no half frame.

`Recovery_proofs` proves of `FailureDetection`, for any chain, epoch, number of retries and faults, and any set
of slow workers, from `FailureAssumption`:

- `TypeCorrect`: `Spec => []TypeOK`. The hard step is `Reslice`: that the survivors, counted off in
  order, are a chain (`NewIndexType`, `NewIndexOrder`, `NewIndexOnto`, `NewChainType`).
- `IndicesCorrect`: `Spec => []IndicesAgree`, with the invariant that the chain has no worker twice
  (`ChainIsDistinct`) and that recover() has told those before `initNext` their index
  (`InitInOrder`).
- `FirstRecoveryCorrect`: `Spec => []FirstRecoveryIsRight`, with `OriginalIsBlamed`: as long as
  nobody has been renumbered, an index is a worker, and whatever names one - the failed set, a
  confirmed report, a thread that suspects it and has not been stopped - has blamed it.
- `UnrunCorrect`: `Spec => []UnrunBatchesAreTold`, however many workers fail: what wakes the loop for
  a batch nobody ran is a handler that sets the event next, and a batch credited unrun leaves the
  event set, or about to be, until recover() clears it and repeats the epoch. `ToldInv` adds that
  a loop that is awake has a reason.

`Recovery_proofs` proves of `CheckpointRecovery`, whose names of the usual parts begin with
`Checkpoint` because this module extends both, for any model, cuts, number of epochs, retries and workers, with any
saves and workers failing, from `CheckpointAssumption`:

- `AttemptsAreSafe`: `CheckpointSpec => []AttemptsStartFromLastEpoch` - with reliable saves an attempt starts
  from what the last epoch ended with.
- `LayersAreSafe`: `CheckpointSpec => []LayersKeepTheirPlace` - whatever saves fail, no layer computes with
  another layer's parameters, and none with some of a failed attempt's. Both hold until an epoch is
  recovered from files a second time (`again`): after the first recovery the slices are other ones
  than those that wrote the files.
- `CheckpointsAreSafe`: `CheckpointSpec => []CheckpointsRestore` - a finished epoch's checkpoint restores it.

- The invariant `IInv` says: a file that can be read holds what its slice of that epoch ended with
  (`FilesAreOfTheirEpoch`), no unfinished epoch has one (`OnlyFinishedEpochs`) and with reliable
  saves a finished one has all (`AllSaved`); a layer only takes the parameters of a layer of its
  kind (`Alike`); at the first failure of an epoch the run still has the slices its last checkpoint
  was made of (`LastCut`), so that each layer finds its own (`Placed`); and in the first epoch the
  coordinator has the model it began with (`FirstEpoch`). `Resume` loads strictly, into slices cut
  anew: `SamePlaces` says that when the slices name the parameters the old ones did, each layer
  reads its own. That is an induction along the slices, done by counting (`Climb`): a set that has
  0 and after each place the next has them all, else it would map into a smaller part of itself.

`TiedSync_proofs` proves, for any chain, any tied groups, frozen or not, and any number of
micro-batches, batches and rounds, from `TiedAssumption`:

- `EveryUseIsSummed`: `Spec => []SumOfEveryUse` - an owner steps on the gradient of every slice of
  the group, once each, over all the micro-batches of that batch.
- `CopiesStayCurrent`: `Spec => []CopiesAreCurrent` - forwards run on current copies, and no owner
  waits for a gradient that is not there.

Both hold as long as no worker is initialised in the middle of a task (`cut`), as in the run. The
invariant `IInv` is, from the outside in: the tokens follow the coordinator down the chain
(`Tokens`); the counters of a round decrease going up the chain and a batch is fed when the last
one is back (`Chain`); a thread's task is the next to reply, and one that was lost was the last of
its batch, so nothing can begin before the coordinator starts over (`Tasks`); what a thread calls
and what its call holds (`Calls`), all of its own round (`OfThisRound`). From these follow what is
in `.grad` (`Sums`), between which two steps of the owner a copy is (`Values`), and what an owner
was sent (`Gradients`): from each replica at most once, the whole sum of its batch, and for sure
once the replica is past its call, which a replica is when its gradient of the last micro-batch has
come down the chain to the owner. That is why the owner's 300 s wait ends at once. The proof
follows one step through every component; `Moves` says once what a step can do to a thread.

`Setup_proofs` proves, for any workers, layers, caps and data owners, static or registered, and any
number of starts, crashes, lost calls and shipments, from the assumptions of `Setup` (a setting is a
record of these, a list of peers names a worker once, no slice is `None`):

- `ShipmentAlwaysRight`: `Spec => []ShipmentIsRight` - a run that trains holds every layer once, each
  slice where the others expect it, the data at its owner, planned slices within the caps their
  workers registered with; over NCCL all ranks have joined, and the group is whole if no `init()` was
  repeated. A slice is missing only where a process ended or a shutdown of an earlier run acts late.
- `EveryoneHears`: `Spec => EveryoneIsTold` - a run ends after everybody has been told.

What is promised when training starts was decided many steps before, so the invariant `IndInv` says,
phase by phase, what has been settled. What a process says of itself is its declaration from the
moment it is up (`PoolInv`): nothing that registers late, again, or after a restart can change what
the coordinator knows of a cap. Places are all different and the first registered workers have the
remote ones (`PlaceInv`; `Remotes` counts the hosted slices before each place, and
`MoveFirstKeeps` shows that moving the data owner to the front loses and doubles nobody);
only the first is a data owner's (`FirstInv`). The shares cut the layers (`ShareInv`; that ends that
increase give each layer one slice is `SplitFacts`). A token is of one shipment, so a slice that
bears it is the one of its place, and the `Sent` of them that `_init_slices` went past are there
unless their process ended or dropped them (`ShipInv`) - it is what makes a repeated `init()` and a slice of an
older run harmless; a shutdown that is still to act is of an earlier run, or its own is ending (`LateInv`).
What is in the store is the subject of `MeetInv`: every entry comes from an `init()` that was carried
out, numbered anew for each attempt (`BegunInv`); a rank that has joined did so on the GPU of its
place (`JoinedInv`); whoever says ok saw all ranks, each on a GPU of its own (`StatusInv`), which
stays true because a rank that joins again enters the same GPU. Threads are one per `init()` and of a
run (`ThreadInv`); without a repeated one, a rank that has reported has no thread left that could
destroy its group (`OnceInv`). `n` reports without an error are one ok of each rank (`AllOk`). `ToldInv` follows the loop of `teardown()`, and `CountInv` bounds the tokens. TLC also
checks `IndInv` on the instance of the `setup` run.

`Worker_proofs` proves of `WorkerRound`, whose names of the usual parts begin with `Round` because
this module extends both, for any bounds on rounds, batches and messages:

- `RoundTypesCorrect`: `RoundSpec => []RoundTypeOK`
- `CacheCorrect`: `RoundSpec => []CacheIsOfThisRound` - an activation in the cache of a worker was
  made by the layer the worker has now. Its invariant `CacheInv` adds what the three steps of
  `init()` and the pool's thread owe each other: while a layer is in place, everything stored
  is of its generation (`StoresAreOfThisLayer`); a task's generation is never ahead of the
  worker's (`GensAreNotAhead`); nothing is cached without a layer (`NothingCachedWithoutLayer`);
  and `init()` builds from `None` (`BuildsFromNone`).
- `UseCorrect`: `RoundSpec => []ActivationsAreUsedOnce` - whatever is late or left over, no
  activation goes through a layer twice. Its invariant `UseInv` follows a message: it is in one
  place at a time (`AtOnePlace`, `QueuedOnce`), known since it was sent (`SentBefore`,
  `InputsAreKnown`), and gone from all of them once used (`UsedOnce`).

`Cuts_proofs` proves of `RemoteSplit`, for any settings, number of processes, nodes, slices and threads,
from `SplitAssumption` (a setting is a record of numbers):

- `BatchesAlone`: `Spec => []BatchesRunAlone` - what the server's lock is for. The invariant
  (`ServerInv`) says that the calls on a batch are the one that holds the lock (`Locked`), that
  the slices have one version (`OneVersion`) and how far the holder has come in every slice
  (`Progress`). `GradInv` follows the gradients through failures: what is in `.grad` of a slice is of
  calls that raised half way, each once, and, last, of the holder if its backward has passed the slice
  (`GradsOf`); a call that is to run is not one of those that stepped or raised (`Over`), so that no
  gradient is taken twice.
- `ClientsApart`: `Spec => []ClientsStayApart` - a result is its round's and its node's, and no
  client draws noise twice for batches it trains on. `ClientInv` says what a process that is on a message has done of it, and
  that nobody else handles that message; `Asked`, that a reply is to the call its client waits
  for, so that a late one of another kind is not taken for it; `Counted`, that a training batch
  has its number before its step.

The same module proves of `Slicing`, whose names begin with `Slicing` where those of `RemoteSplit` are
in the way, from `SlicingAssumption` (a traced node takes values computed before it and has a finite set of
parameters with sizes; a strategy is asked for at least one slice; caps, speeds and links are numbers):

- `SlicesAreTheModel`: `SlicingSpec => []RunsComputeTheModel` - for any model, strategy, workers and losses,
  the trace drops no argument, and the slices of a run compute the model, one for each worker.
- `ValidateRefusesWhatItMust`: `SlicingSpec => []ValidateIsExact` - `validate()` refuses exactly the splits
  whose slices would not compute the model, and exactly those with a boundary that is no valid cut.
- `NoBetterSlices`: `SlicingSpec => []StrategiesDoTheirBest` - a strategy answers with as many slices as it was
  asked for; of all the ways to cut where each slice fits, `balanced_cuts` finds one whose slowest
  slice is the fastest; the memory strategy makes no more slices than it must; and none gives up
  while there is a way.

The argument for the first two has three parts. A graph is `Regular` when layers take earlier layers, only what takes nothing
else takes the model input, and every layer but the last is needed; `TracedIsRegular` and `ChainIsRegular`
show it of what `trace()` returns, `TracedKeepsArguments` that a layer's predecessors are the traced node's
arguments. Partitions are `Tiled` when they are consecutive slices of the layers with what
`_intra_predecessors` says of each; `UniformTiles`, `NamedTile`, `CostTiles`, `MemoryTiles` and
`EvenSplitTiles` show it of every strategy and of recover()'s split: for the balanced ones, that the cuts
read back from the table are as many valid cuts as were asked for (`CutsValid`), in increasing order. The
last part holds for every regular graph and every tiling of it: `validate` asks that an edge stays in its
slice or comes from the last layer of the one before (`ValidateAsks`); that is what it takes for each
`SplitLayer` to call its layers with what they take in the model (`EdgesAreExact`; the hard direction is a
slice whose layers all take the slice's input, which is run as a sequence: `SequentialIsSingle`), and what
it takes for each boundary to be a valid cut (`CutsAreEdges`). `SlicingInv` only says which of this holds at
which stage.

For `NoBetterSlices`, a way to cut is a walk along the blocks between valid cuts (`Ends`, `CutsAlong`; that
walks and ways are the same is `WaysAreWalks`), and the slowest slice is the highest price along it
(`SlowestAlong`). The table of `balanced_cuts` is right row by row (`Table`, `BestWaysTable`): entry (k, j)
is a walk of k slices to block j if there is one, and no walk is cheaper, since a walk is its last
slice and a walk of k - 1 that the row before has bettered. That is an induction over a set of row
numbers. What the table's last entry leads back to is then the best way (`CostsAreBest`). The memory
strategy tries one number of slices after the other, and a number it went past had no way.

`Pager_proofs` proves, for any number of slices, slots and batches, in all three modes, from
`PagerAssumption`:

- `PagesStayLatest`: `Spec => []PagesAreLatest` - whatever the order in which streams, lanes and the
  CPU get to run, every operation finds what it should, what is paged out comes home, and no fetch
  finds its page in use or all slots taken.
- `PagerInvariant`: `Spec => []PagerInv`, the inductive invariant it follows from.

`PagesAreLatest` looks at the head of each queue; why it holds there was settled when the operation
was issued, often a batch earlier. `PagerInv` says so of all that is in flight, in four parts:

- `QueueInv`: operations are numbered in the order of the program, each queue has the kinds that
  belong to it, and is in that order but for one: in disk mode a read appends its copy to the H2D
  stream when it runs, so that these come as the lanes finish, not as they were issued.
- `HostInv`: where the host is (`Control`), that pages and slots point at each other and the window
  is what is in them (`Resident`), and how often a tensor was updated (`Counts`).
- `SyncInv`: which events and futures imply what. The program keeps an event per slot and two per
  page and drops the older ones, so "is done" has to follow through chains of waits. `Follows(T, x)`
  says that x is in every set that has T and, with an operation, what that one needs (the earlier
  ones of its queue, what it waits for, the read a copy continues) - reachability, without an
  induction. Each conjunct is one fact the pager relies on: `Freed`, that the last pass through a
  slot is behind its `free`; `CopiedOut` and `CopiedHome`, that copies out of a slot are behind `out`
  and, while the slice is away, behind its `homeReady` or `homeEv`; `Arriving` and `Expected`, that
  what is on its way into a slot is behind `ready`; `Leaving`, that what leaves a busy slot is behind
  its pass. Their purpose is `Ordered`: of two operations one of which writes where the other
  reads or writes, the later waits for the earlier - except the copy into a staging buffer that
  overtakes the file write (`Overtakes`).
- `DataInv`: the values. `Holds(place, region, k, v)` says that operation k will find v: the last
  operation before k that writes there makes it, or it is there already. `Planned` says it of all
  operations in flight; `InSlots`, `AtHome` and `Buffered` say where the latest values of a slice
  are or will be, so that the next operation is planned too; `WithGradient` is the gradient a
  release will move. A file write that is overtaken (`Restaged`) is the one exception, and the write
  that follows it finds the newer value.

A step of a queue keeps `DataInv` because `Ordered` leaves no earlier operation that writes where
it reads, and no earlier one that still reads where it writes. A step of the host issues
operations that are last in the order of the program and have to be shown to come after everything
they conflict with; there is a lemma per call (`PassData`, `ReleaseData`, `SubmitData`, the
fetches of `Prefetches`). The conjuncts were checked with TLC before they were proved, on 5
slices, 2 slots and 2 batches, with `Follows` computed as reachability.

`LocalExecutor_proofs` proves, for any number of clients and slices, any loaders, participants and
rounds, in every mode, with every aggregation and every way to run a batch, from
`SessionAssumption` and `ExecutorAssumption` (a round has participants; `None` is no state):

- `StatesFollow`: `Spec => []StatesFollowTheirClient` - a batch trains on the weights, moments and
  rate its client should have, what is stored is what was live, and an average reaches everyone.
- `StepsAreWhole`: `Spec => StepsTakeWholeBatches` - each step of a slice's optimizer takes the
  gradient of every micro-batch of its batch and of every use of its parameters, and nothing else.
- `SessionInvariant`: `Spec => []SessionInv`, the inductive invariant both rest on.

`SessionInv` has one idea: what a client's weights are is a function of who trained which batch
(`owner`) and of where the loop is. `Model(k)`, `Moments(k)` and `ServerModel(k)` are that function:
all batches so far where a state is handed on by copy or has just been averaged; else the client's
own, and with an average every round those of all rounds before (`Old`). The rest says where these
values are: in the live slices while the client is current, with the batch it is on in the slices
that have stepped (`Loaded`, `Just`), in the store for everyone else (`Stored`), in both between
rounds (`Active`) - except during the evaluation, which loads averages into the client's slices one
call before the loop restores them (`Unloaded`); and in everyone's state after an aggregation
(`Reached`). With a server copy per client the holder is always the client of the batch (`Holders`)
and the copies follow the same function (`Swapped`), else the server's slices have seen everything
(`Shared`). `Within` bounds all of them by what has been trained at all, which is why a batch is
never counted twice; `RoundInv` ties `owner` to rounds and participants, and `LiveRates`,
`StoredRates` and `Steps` the learning rates to the steps of a slice. There is a lemma per action;
lemmas about averages (`FedavgIs`, `RoundAverage`, `ServerAverage`: of states that are all there, and
with some missing) carry those of the ends of a round.

For `StepsAreWhole`, `GradInv` says where the gradients of a batch are. Each slice keeps the input of
its micro-batch, in `inputs` or per micro-batch in `refs`, although an attack may run the slices
again in between (`Inputs`, `References`), so what goes back belongs to what went forward (`flow`).
How many micro-batches have come back through a slice is a function of the loop (`Passed`), and
`.grad` holds these and no others until the slice steps; the owner of a tied parameter holds those
of the last slice too (`Gradients`). TLC also checks `SessionInv` and `GradInv` on the instance of
the `local_executor` run.

Only model-checked: everything about liveness (of `SyncTraining` and the end of a run of `Pager`
too), and what crosses a cut (`CutSurvives`): packing and unpacking are folds over the elements of a
tensor. Out of the provers'
reach are liveness under fairness, induction over data with an operator as a parameter (where `Slicing`
needs one, it is an induction over a set of numbers: `UpTo`), and recursive operators, which no module
with a theorem uses. `ReadyMeansRouted` is not a theorem for every
value of the constants and every caller: see the released keeper above.

## 5. Not modelled

The contents of tensors except at a cut, autograd, devices and precision; NCCL and CUDA IPC
themselves; logging, tracing, profiling; privacy experiments; data sets; deployment; configuration.
`PROJECT.json` gives the reason for each. In `Pager`: the allocator, which may give a new slot
memory that queued work still uses (only the wait the code has for it is there), devices without
streams, tensors shared between slices, and slices that need unequal room. Optimizer state is not
part of the tags of `CheckpointRecovery`. In `Setup`: tunnels, link measurements, how long anything takes, how `torch.distributed` forms a group
(of what a repeated `init()` left in the store it may form one or not), reads of the store's keys one by
one, and what a batch meets at a rank that is not in the group. In `Slicing`: torch.fx, the profiler, and the packers of particular models. In
`LocalExecutor`: what hooks and defences do to numbers. In `RemoteSplit`: the strategy, the
engine, a client's own passes, optimizer steps and `encode_grad` that raise, and that a slice whose
backward raises may have added to some of its parameters only. In `CutHooks`: rounding of the FFT and the cast
back to the tensor's type; the keys are fixed rational unit vectors, neither spikes nor orthogonal,
in place of random ones.

## 6. Plan

Done: every module of section 2. What would add most from here:

1. Relay forwarding in `Router`, and two keepers once the late HELLO is settled.
2. A batch of `Setup` at a rank whose group was destroyed.
