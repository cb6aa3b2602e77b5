----------------------------- MODULE RemoteSplit -----------------------------
(***************************************************************************)
(* SplitServer and SplitClient (sl/remote.py) under Flower's engine        *)
(* (split_client_app in interop/flower.py).                                *)
(*                                                                         *)
(* A strategy sends every node a train message with the round's arrays and *)
(* then an evaluate message with their aggregate; a process handles the    *)
(* messages of any node, one at a time, with the client it caches.  Each   *)
(* batch is one call to the server, whose handlers run in a thread pool    *)
(* and take the server's lock for the whole batch.  Calls may be late or   *)
(* lost, may fail, and the server may be stopped and started again.        *)
(***************************************************************************)
EXTENDS CutHooks

CONSTANTS
  Settings,     \* the settings to explore, records of the fields of `set'
  ServerSlices, \* server slices of the model
  MaxWorkers    \* threads of the server's pool

IsSetting(s) ==
  /\ s = [procs |-> s.procs, nodes |-> s.nodes, rounds |-> s.rounds, batches |-> s.batches,
          hook |-> s.hook, activation |-> s.activation, faults |-> s.faults]
  /\ s.procs \in Nat /\ s.nodes \in Nat /\ s.rounds \in Nat \ {0} /\ s.batches \in Nat \ {0}
  /\ s.faults \in [slow : Nat, raise : Nat, lose : Nat, stop : Nat]

ASSUME SplitAssumption ==
  /\ ServerSlices \in Nat \ {0} /\ MaxWorkers \in Nat \ {0}
  /\ \A s \in Settings : IsSetting(s)

VARIABLES
  set,       \* processes, nodes, rounds, batches, the hook, the activation; faults, stops
  round,     \* the strategy's round, from 1
  phase,     \* "train", "evaluate" or "done"
  messages,  \* of each node: "waiting", "handled", "failed", or its result
  client,    \* the SplitClient and the cache of each process
  calls,     \* the calls the server knows of
  lock,      \* the call that holds the server's lock, or None
  slices,    \* the server's slices: mode, saved input, version, .grad
  steps,     \* SplitServer.steps
  serving,   \* the server listens, and how often it was started
  trained,   \* server steps: each slice's gradients and the noise drawn (history)
  left       \* calls whose backward pass raised half way (history)

strategy == <<round, phase, messages>>
server == <<lock, slices, steps, trained, left>>
vars == <<set, strategy, client, calls, server, serving>>

None == [proc |-> 0, number |-> 0]
Proc == 1 .. set.procs
Node == 1 .. set.nodes
Stage == 1 .. ServerSlices

(* A message without a result, or the answer to it. *)
Is(state) == [at |-> state, weights |-> [base |-> 0, on |-> <<>>], moments |-> 0]

Ctx(direction, batch) == [cut |-> 0, direction |-> direction, batch_id |-> batch]

(* Slice 0's output on a batch, and the labels that go with it. *)
Activation(node, batch) ==
  [set.activation EXCEPT !.data = Now([i \in DOMAIN @ |-> @[i] + (node - 1) * (i % 2) + batch - 1])]
Labels(batch) == Tensor(<<1>>, "int64", <<batch>>)

(* The gradient of z: a tensor like it.  Autograd is external. *)
Gradient(z) == [z EXCEPT !.data = Now([i \in DOMAIN @ |-> -@[i]])]

(* SplitClient.__init__ and the cache of split_client_app. *)
Init ==
  /\ set \in Settings
  /\ round = 1 /\ phase = "train" /\ messages = [n \in Node |-> Is("waiting")]
  /\ client = [p \in Proc |->
       [at |-> "idle", node |-> 0, pid |-> 0, batch |-> 0, steps |-> 0, number |-> 0,
        weights |-> [base |-> 0, on |-> <<>>], moments |-> 0, used |-> {}]]
  /\ calls = {} /\ lock = None
  /\ slices = [i \in Stage |-> [mode |-> "train", x |-> None, version |-> 0, grads |-> <<>>]]
  /\ steps = 0
  /\ serving = [up |-> TRUE, starts |-> 1] /\ trained = <<>> /\ left = {}

Fault(kind) == set.faults[kind] > 0 /\ set' = [set EXCEPT !.faults[kind] = @ - 1]

-----------------------------------------------------------------------------
(* The ClientApp: a message, its batches, its answer. *)

(* client.load_state_dict with reset_optimizer; the weights are the round  *)
(* they come from and the <<partition, batch>>es they were trained on. *)
load_state_dict(c, base) == [c EXCEPT !.weights = [base |-> base, on |-> <<>>], !.moments = 0]

(* _client(context): the data of the node's partition, cached by its id. *)
\* Mutant: the first data are kept.
DataKept(c, node) == IF c.pid = 0 THEN node ELSE c.pid
DataOf(c, node) == node

Handle(p, n) ==
  /\ client[p].at = "idle" /\ messages[n].at = "waiting"
  /\ messages' = [messages EXCEPT ![n] = Is("handled")]
  /\ LET base == IF phase = "train" THEN round - 1 ELSE round
     IN client' = [client EXCEPT ![p] =
          [load_state_dict(@, base) EXCEPT !.at = phase, !.node = n, !.pid = DataOf(client[p], n), !.batch = 1]]
  /\ UNCHANGED <<set, round, phase, calls, server, serving>>

Finish(p, result) ==
  /\ messages' = [messages EXCEPT ![client[p].node] = result]
  /\ client' = [client EXCEPT ![p].at = "idle", ![p].node = 0]

(* The engine turns what the handler raises into an error of the message. *)
Raised(p) == Finish(p, Is("failed"))

(* fit and evaluate are through with the loader. *)
Answer(p) ==
  LET c == client[p]
  IN /\ c.at \in {"train", "evaluate"} /\ c.batch > set.batches
     /\ Finish(p, [weights |-> c.weights, moments |-> c.moments, at |-> c.at])
     /\ UNCHANGED <<set, round, phase, calls, server, serving>>

Waiting == [train |-> "wait_train", evaluate |-> "wait_evaluate"]

(* The number of the batch on the wire: a train batch counts when it is    *)
(* sent, whatever becomes of it; every evaluation is batch 0. *)
\* Mutant: a batch counts once its reply is back.
CountApplied(c) == Len(c.weights.on) + 1
NextStep(c) == c.steps + 1

(* train_batch and evaluate, up to the call.  A call to a server that does *)
(* not listen fails at once: there is no wait_for_ready. *)
Send(p) ==
  LET c == client[p]
      step == IF c.at = "train" THEN NextStep(c) ELSE 0
      sent == [c EXCEPT !.steps = IF c.at = "train" THEN step ELSE @]
  IN /\ c.at \in {"train", "evaluate"} /\ c.batch <= set.batches
     /\ IF ~_check(set.hook, set.activation) \/ ~serving.up
        THEN /\ messages' = [messages EXCEPT ![c.node] = Is("failed")]
             /\ client' = [client EXCEPT ![p] = [sent EXCEPT !.at = "idle", !.node = 0]]
             /\ UNCHANGED calls
        ELSE /\ client' = [client EXCEPT ![p] = [sent EXCEPT
                  !.at = Waiting[c.at], !.number = c.number + 1,
                  !.used = IF c.at = "train" THEN @ \cup {<<step, c.pid, c.batch, round>>} ELSE @]]
             /\ calls' = calls \cup
                  {[proc |-> p, number |-> c.number + 1, kind |-> c.at, of |-> <<c.pid, c.batch>>,
                    step |-> step, at |-> "queued", pool |-> serving.starts, stage |-> 0,
                    ran |-> <<>>, noise |-> 0]}
             /\ UNCHANGED messages
  /\ UNCHANGED <<set, round, phase, server, serving>>

(* The bytes of a call and of its reply; a call keeps what they are made   *)
(* of. *)
Raw(c) ==
  LET payload == encode(set.hook, Activation(c.of[1], c.of[2]), Ctx("forward", c.step))
  IN pack_payload(Many(<<Labels(c.of[2])>> \o _flat(payload)))

(* What the server decodes. *)
Z(c) == Whole(decode(set.hook, _unflat(Tail(unpack_payload(Raw(c)).tensors))))

RawReply(c) ==
  LET loss == Tensor(<<1>>, "float32", <<0>>)
      g == encode_grad(set.hook, Gradient(Z(c)), Ctx("backward", c.noise))
  IN pack_payload(Many(<<loss>> \o _flat(g)))

(* What the client decodes. *)
G(c) == Whole(decode(set.hook, _unflat(Tail(unpack_payload(RawReply(c)).tensors))))

Waits(c) == client[c.proc].number = c.number /\ client[c.proc].at \in {"wait_train", "wait_evaluate"}

(* The reply: the gradient goes through the client's hook into slice 0,    *)
(* and its optimizer steps. *)
Receive(c) ==
  LET p == c.proc
      next == [client[p] EXCEPT !.batch = @ + 1, !.at = c.kind]
  IN /\ c.at = "replied" /\ Waits(c)
     /\ calls' = calls \ {c}
     /\ client' = [client EXCEPT ![p] =
          IF c.kind = "train"
          THEN [next EXCEPT !.weights.on = Append(@, <<client[p].pid, client[p].batch>>), !.moments = @ + 1]
          ELSE next]
     /\ UNCHANGED <<set, strategy, server, serving>>

(* The deadline passes: the handler, if it runs, does not notice. *)
Answered(p) == \E c \in calls : c.proc = p /\ Waits(c)

GiveUp(p) ==
  /\ client[p].at \in {"wait_train", "wait_evaluate"}
  /\ Raised(p)
  /\ UNCHANGED <<round, phase, calls, server, serving>>

\* Mutant: an evaluation has no deadline.
DeadlineOfTraining(p) == client[p].at = "wait_train" /\ ~Answered(p) /\ UNCHANGED set
Deadline(p) == ~Answered(p) /\ UNCHANGED set

Timeout(p) ==
  /\ Deadline(p) \/ (Answered(p) /\ Fault("slow"))
  /\ GiveUp(p)

-----------------------------------------------------------------------------
(* The server.  grpc starts a handler when a thread of the pool is free,   *)
(* and drops a call that was cancelled before. *)

Update(c, new) == calls' = (calls \ {c}) \cup {new}
Quiet == UNCHANGED <<set, strategy, client, serving>>

Running(pool) == {c \in calls : c.pool = pool /\ c.at \in {"started", "forward", "backward"}}

Start(c) ==
  /\ c.at = "queued" /\ Cardinality(Running(c.pool)) < MaxWorkers
  /\ IF Waits(c) /\ serving.up /\ c.pool = serving.starts
     THEN Update(c, [c EXCEPT !.at = "started"]) ELSE calls' = calls \ {c}
  /\ UNCHANGED server /\ Quiet

Id(c) == [proc |-> c.proc, number |-> c.number]

(* with self._lock *)
\* Mutants: training does not wait for the lock; nor does evaluation.
TrainUnlocked(c) == c.kind = "train" \/ lock = None
EvaluateUnlocked(c) == c.kind = "evaluate" \/ lock = None
Free(c) == lock = None
Holds(c) == lock = Id(c)

\* Mutant: an exception leaves the lock held.
ReleasedAtTheEnd(c) == IF c.at = "forward" /\ c.stage <= ServerSlices THEN lock ELSE None
Released(c) == None

Acquire(c) ==
  /\ c.at = "started" /\ Free(c)
  /\ lock' = Id(c)
  /\ steps' = IF c.kind = "train" THEN steps + 1 ELSE steps
  /\ slices' = IF c.kind = "train" THEN [i \in Stage |-> [slices[i] EXCEPT !.mode = "train"]] ELSE slices
  /\ Update(c, [c EXCEPT !.at = "forward", !.stage = 1])
  /\ UNCHANGED <<trained, left>> /\ Quiet

(* s(x) saves the input it takes a gradient of; s.eval() and s.run(x) save *)
(* nothing. *)
Forward(c) ==
  LET i == c.stage
      mode == IF c.kind = "train" THEN slices[i].mode ELSE "eval"
  IN /\ c.at = "forward" /\ i \in Stage
     /\ slices' = [slices EXCEPT ![i].mode = mode, ![i].x = IF c.kind = "train" THEN Id(c) ELSE @]
     /\ Update(c, [c EXCEPT !.stage = i + 1, !.ran = Append(@, [mode |-> mode, version |-> slices[i].version])])
     /\ UNCHANGED <<lock, steps, trained, left>> /\ Quiet

(* The criterion: an evaluation has its answer. *)
Criterion(c) ==
  /\ c.at = "forward" /\ c.stage > ServerSlices
  /\ IF c.kind = "train"
     THEN Update(c, [c EXCEPT !.at = "backward", !.stage = ServerSlices]) /\ UNCHANGED lock
     ELSE Update(c, [c EXCEPT !.at = "replied"]) /\ lock' = Released(c)
  /\ UNCHANGED <<slices, steps, trained, left>> /\ Quiet

(* The gradient of the input the slice holds now adds to .grad. *)
Added(c) == [slices EXCEPT ![c.stage].grads = Append(@, slices[c.stage].x)]

Backward(c) ==
  /\ c.at = "backward" /\ c.stage >= 1
  /\ slices' = Added(c)
  /\ Update(c, [c EXCEPT !.stage = @ - 1])
  /\ UNCHANGED <<lock, steps, trained, left>> /\ Quiet

(* The hook, a forward, the criterion or a backward raises.  No handler    *)
(* resets the gradients before its passes: what a backward has added to    *)
(* .grad stays, the slice it raised in having some of it or none. *)
HandlerRaises(c) ==
  /\ c.at \in {"forward", "backward"} /\ Fault("raise")
  /\ Update(c, [c EXCEPT !.at = "error"])
  /\ lock' = Released(c)
  /\ \/ c.at = "forward" /\ UNCHANGED <<slices, left>>
     \/ /\ c.at = "backward" /\ c.stage >= 1
        /\ left' = left \cup {Id(c)}
        /\ slices' = slices \/ slices' = Added(c)
  /\ UNCHANGED <<strategy, client, steps, trained, serving>>

(* opt.step(), opt.zero_grad(). *)
\* Mutant: the gradients are not reset.
StepOnly(s) == [s EXCEPT !.version = @ + 1]
Stepped(s) == [s EXCEPT !.version = @ + 1, !.grads = <<>>]

Optimize(c) ==
  /\ c.at = "backward" /\ c.stage = 0
  /\ slices' = [i \in Stage |-> Stepped(slices[i])]
  /\ trained' = Append(trained, [call |-> Id(c), sum |-> [i \in Stage |-> slices[i].grads], noise |-> steps])
  /\ Update(c, [c EXCEPT !.at = "replied", !.noise = steps])
  /\ lock' = Released(c)
  /\ UNCHANGED <<steps, left>> /\ Quiet

(* The client hears of an error; a reply that nobody waits for, and an     *)
(* error, leave the server. *)
Fails(c) ==
  /\ c.at = "error" /\ Waits(c)
  /\ calls' = calls \ {c}
  /\ Raised(c.proc)
  /\ UNCHANGED <<set, round, phase, server, serving>>

Forget(c) ==
  /\ c.at \in {"replied", "error"} /\ ~Waits(c)
  /\ calls' = calls \ {c}
  /\ UNCHANGED server /\ Quiet

LoseReply(c) ==
  /\ c.at = "replied" /\ Waits(c) /\ Fault("lose")
  /\ calls' = calls \ {c}
  /\ UNCHANGED <<strategy, client, server, serving>>

(* stop(grace): calls that outlive the grace are cancelled, their handlers *)
(* run on.  start() listens again, with a new pool. *)
Stop ==
  /\ serving.up /\ Fault("stop")
  /\ serving' = [serving EXCEPT !.up = FALSE]
  /\ UNCHANGED <<strategy, client, calls, server>>

Restart ==
  /\ ~serving.up
  /\ serving' = [up |-> TRUE, starts |-> serving.starts + 1]
  /\ UNCHANGED <<set, strategy, client, calls, server>>

CancelledByStop(p) ==
  /\ \E c \in calls : c.proc = p /\ Waits(c) /\ (c.pool < serving.starts \/ ~serving.up) /\ c.at # "error"
  /\ UNCHANGED set
  /\ GiveUp(p)

-----------------------------------------------------------------------------
(* The strategy: FedAvg over the results there are, then the next round. *)
EndPhase ==
  /\ phase # "done" /\ \A n \in Node : messages[n].at \notin {"waiting", "handled"}
  /\ IF phase = "train" THEN phase' = "evaluate" /\ UNCHANGED round
     ELSE IF round < set.rounds THEN phase' = "train" /\ round' = round + 1
     ELSE phase' = "done" /\ UNCHANGED round
  /\ messages' = IF phase' = "done" THEN messages ELSE [n \in Node |-> Is("waiting")]
  /\ UNCHANGED <<set, client, calls, server, serving>>

ClientStep(p) == (\E n \in Node : Handle(p, n)) \/ Send(p) \/ Answer(p)
Handler(c) ==
  \/ Start(c) \/ Acquire(c) \/ Forward(c) \/ Criterion(c) \/ Backward(c) \/ Optimize(c) \/ Forget(c)
Delivery(c) == Receive(c) \/ Fails(c)

Next ==
  \/ EndPhase \/ Stop \/ Restart
  \/ \E p \in Proc : ClientStep(p) \/ Timeout(p) \/ CancelledByStop(p)
  \/ \E c \in calls : Handler(c) \/ Delivery(c) \/ HandlerRaises(c) \/ LoseReply(c)

(* Threads run, replies of a live connection arrive, deadlines pass.  The  *)
(* server need not be started again. *)
Fairness ==
  /\ WF_vars(EndPhase)
  /\ WF_vars(\E p \in Proc : ClientStep(p))
  /\ WF_vars(\E p \in Proc : Deadline(p) /\ GiveUp(p))
  /\ WF_vars(\E p \in Proc : CancelledByStop(p))
  /\ WF_vars(\E c \in calls : Handler(c))
  /\ WF_vars(\E c \in calls : Delivery(c))

Spec == Init /\ [][Next]_vars /\ Fairness
-----------------------------------------------------------------------------
(* Every variable keeps its shape, and the lock is held only by a call     *)
(* whose handler is on a batch. *)
TypeOK ==
  /\ set.procs \in Nat /\ set.nodes \in Nat /\ set.batches \in Nat
  /\ round \in 1 .. set.rounds /\ phase \in {"train", "evaluate", "done"}
  /\ DOMAIN messages = Node /\ DOMAIN client = Proc /\ DOMAIN slices = Stage
  /\ \A c, d \in calls : Id(c) = Id(d) => c = d
  /\ lock # None => \E c \in calls : Holds(c) /\ c.at \in {"forward", "backward"}
  /\ steps \in Nat /\ Len(trained) <= steps

(* "Concurrent clients are served one batch at a time" (train_step and     *)
(* eval_step under _lock): every server slice runs a batch with the        *)
(* weights of one and the same server step. *)
BatchesSeeOneModel ==
  \A c \in calls : \A i, j \in DOMAIN c.ran : c.ran[i].version = c.ran[j].version

(* An evaluation, which puts the slices in eval mode one by one, never     *)
(* changes the mode in which a training batch runs (s.train(), s.eval()). *)
TrainsInTrainMode ==
  \A c \in calls : \A i \in DOMAIN c.ran :
    c.ran[i].mode = (IF c.kind = "train" THEN "train" ELSE "eval")

(* Every step of the server takes, in every slice, the gradient of one     *)
(* batch, once and last.  What else it takes (it does: no handler resets   *)
(* the gradients before its passes) is left of batches whose backward      *)
(* raised since the step before: no gradient is taken by two steps, and    *)
(* those of a batch that steps are in no other. *)
OneBatchPerStep ==
  \A n \in DOMAIN trained : \A i \in Stage :
    LET sum == trained[n].sum[i]
    IN /\ sum # <<>> /\ Last(sum) = trained[n].call /\ trained[n].call \notin left
       /\ \A k \in 1 .. Len(sum) - 1 : sum[k] \in left
       /\ \A m \in DOMAIN trained : \A k \in DOMAIN sum, l \in DOMAIN trained[m].sum[i] :
            sum[k] = trained[m].sum[i][l] => m = n /\ k = l

(* What a node answers in a round it trained from the round's arrays with  *)
(* a fresh optimizer, on the batches of its own partition, each of them    *)
(* once and in order, whichever process and client handled the message and *)
(* whatever they did before; what it evaluates is the aggregate. *)
ResultsAreTheRounds ==
  \A n \in Node : messages[n].at \in {"train", "evaluate"} =>
    IF messages[n].at = "train"
    THEN /\ messages[n].weights = [base |-> round - 1, on |-> [b \in 1 .. set.batches |-> <<n, b>>]]
      /\ messages[n].moments = set.batches
    ELSE messages[n].weights = [base |-> round, on |-> <<>>] /\ messages[n].moments = 0

(* The batch number seeds the noise of a hook: no client gives two of the  *)
(* batches it sends for training the same number, nor the server two       *)
(* gradients, even when a batch fails on the way or in the server.  (Two   *)
(* clients with one seed may give theirs the same number, and evaluations  *)
(* are all batch 0: these do draw the same noise.) *)
NoiseIsFresh ==
  /\ \A p \in Proc : \A u, v \in client[p].used : u[1] = v[1] => u = v
  /\ \A m, n \in DOMAIN trained : trained[m].noise = trained[n].noise => m = n

(* What the last hook of a chain promises of what comes out of the cut: t  *)
(* is the tensor it was given. *)
SameValues(t, got) == \A i \in DOMAIN t.data : got.data[i] * t.den = t.data[i] * got.den

WithinHalfALevel(t, got, bits) ==
  LET range == {Magnitude(t.data[i] - t.data[j]) : i, j \in DOMAIN t.data}
      error(i) == Magnitude(got.data[i] * t.den - t.data[i] * got.den)
  IN \A i \in DOMAIN t.data : \E r \in range : error(i) * 2 * (2 ^ bits - 1) <= r * got.den

KeepsTheLargest(t, got, ratio) ==
  LET rows == Rows(t)
      out == Rows(got)
      kept(r) == {i \in DOMAIN rows[r] : out[r][i] # 0}
  IN \A r \in DOMAIN rows :
       /\ \A i \in kept(r) : out[r][i] = rows[r][i]
       /\ \A i \in kept(r) : \A j \in DOMAIN rows[r] \ kept(r) :
            Magnitude(rows[r][i]) >= Magnitude(rows[r][j])
       /\ Cardinality(kept(r)) <= Kept(ratio, Len(rows[r]))
       /\ Cardinality(kept(r)) < Kept(ratio, Len(rows[r])) =>
            \A j \in DOMAIN rows[r] \ kept(r) : rows[r][j] = 0

(* CircularConv: element j of a sample comes back with weight one (keys    *)
(* are unit vectors), disturbed by elements of its group of `ratio'        *)
(* samples alone; and what i adds to j is what j adds to i ("each is the   *)
(* other's adjoint"), so the gradient that comes back is that of training  *)
(* through decode(encode(z)). *)
Superposed(t, got, ratio) ==
  LET unit(i) == [t EXCEPT !.data = [j \in DOMAIN @ |-> IF j = i THEN 1 ELSE 0], !.den = 1]
      alone == Now([i \in DOMAIN t.data |-> Whole(Unbound(Bound(unit(i), ratio), ratio))])
      group(i) == (i - 1) \div (numel(Tail(t.shape)) * ratio)
  IN \A j \in DOMAIN t.data :
       /\ got.data[j] * t.den * alone[j].den
            = got.den * MapThenSumSet(LAMBDA i : alone[i].data[j] * t.data[i], DOMAIN t.data)
       /\ alone[j].data[j] = alone[j].den
       /\ \A i \in DOMAIN t.data : /\ group(i) # group(j) => alone[i].data[j] = 0
                                   /\ alone[i].data[j] = alone[j].data[i]

Survives(h, before, after, got) ==
  /\ got.shape = after.shape /\ got.type = "float32" /\ Len(got.data) = Len(after.data)
  /\ CASE h.kind = "quantize" -> WithinHalfALevel(before, got, h.bits)
       [] h.kind = "topk" -> KeepsTheLargest(before, got, h.ratio)
       [] h.kind = "conv" -> Superposed(before, got, h.ratio)
       [] OTHER -> SameValues(after, got)

BeforeLast(hook, t, ctx) == Whole(encode(Front(hook), t, ctx))
After(hook, t, ctx) ==
  IF Last(hook).kind \in {"noise", "cast"} THEN Whole(encode(hook, t, ctx)) ELSE BeforeLast(hook, t, ctx)
GradHook(hook) == SelectSeq(hook, LAMBDA h : h.grad)

ComesOut(hook, t, ctx, got) ==
  IF hook = <<>> THEN got = t
  ELSE Survives(Last(hook), BeforeLast(hook, t, ctx), After(hook, t, ctx), got)

(* The tensor that comes out of the cut has the shape and type of the one  *)
(* that went in, for every batch size and every hook or chain of them, and *)
(* the values its last hook promises: the same ones, within half a level   *)
(* for Quantize, the largest of each row for TopK, the sum of the group's  *)
(* echoes for CircularConv.  The labels come along. *)
CutSurvives ==
  \A c \in calls :
    LET z == Activation(c.of[1], c.of[2])
    IN /\ c.at = "queued" =>
            /\ ComesOut(set.hook, z, Ctx("forward", c.step), Z(c))
            /\ Head(unpack_payload(Raw(c)).tensors) = Labels(c.of[2])
       /\ (c.at = "replied" /\ c.kind = "train") =>
            ComesOut(GradHook(set.hook), Gradient(Z(c)), Ctx("backward", c.noise), G(c))

(* The rounds end: every message is answered or fails, whatever is late,   *)
(* lost or stopped. *)
RoundsEnd == <>(phase = "done")

(* The server's lock does what it is for: a batch runs with one model, in  *)
(* its own mode, and a step takes the gradients of that batch and of no    *)
(* other that stepped (SplitServer.train_step, eval_step). *)
BatchesRunAlone == BatchesSeeOneModel /\ TrainsInTrainMode /\ OneBatchPerStep

(* What leaves a client is its round's own: results trained from the       *)
(* round's arrays on its own data, and for every batch it trains on noise  *)
(* of its own that it has not drawn before (split_client_app, SplitClient).*)
ClientsStayApart == TypeOK /\ ResultsAreTheRounds /\ NoiseIsFresh
=============================================================================
