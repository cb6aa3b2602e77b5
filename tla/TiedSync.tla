------------------------------ MODULE TiedSync ------------------------------
(***************************************************************************)
(* Tied parameters over a chain of workers (core/tied.py, the `tied' part  *)
(* of executors/worker.py).  Every worker of a tied group holds a copy; in *)
(* the last micro-batch of a batch the replicas call tied_grad on the      *)
(* owner, the lowest slice, which waits for them all, steps, and calls     *)
(* tied_update on the replicas before its gradient goes down the chain.    *)
(*                                                                         *)
(* A round is one initialisation of the chain: after a failure the         *)
(* coordinator initialises the workers again, one after the other, with a  *)
(* new token, while compute threads and calls of the round before may      *)
(* still be on.  Activations and gradients of the chain are counters per   *)
(* round; WorkerRound has the messages that outlive theirs.                *)
(***************************************************************************)
EXTENDS Integers, Sequences, FiniteSets, FiniteSetsExt

CONSTANTS
  NumSlices,    \* workers in the chain
  NumMicro,     \* micro-batches per batch
  NumBatches,   \* batches of a round
  MaxRounds,    \* bound on rounds
  Groups,       \* the tied groups: the slices that use each parameter
  Frozen        \* the groups that do not train

ASSUME TiedAssumption ==
  /\ NumSlices \in Nat \ {0, 1} /\ NumMicro \in Nat \ {0}
  /\ NumBatches \in Nat \ {0} /\ MaxRounds \in Nat \ {0}
  /\ Groups \in Seq(SUBSET (0 .. NumSlices - 1)) /\ {} \notin {Groups[g] : g \in DOMAIN Groups}
  /\ Frozen \subseteq DOMAIN Groups

Slice == 0 .. NumSlices - 1
LastSlice == NumSlices - 1
Group == DOMAIN Groups
Round == 1 .. MaxRounds
Batch == 0 .. NumBatches - 1

VARIABLES
  round,     \* the coordinator's round
  next,      \* the slice it initialises next; NumSlices once all are
  init,      \* how far that init() is: "reset" or "tie"
  token,     \* _tied_token of each worker, 0 when there is none
  fwd,       \* micro-batches each slice has run forward, per round
  begun,     \* micro-batches it has begun the backward pass of, per round
  bwd,       \* micro-batches it has sent the gradient of, per round
  thread,    \* the compute thread of each worker
  sum,       \* .grad of each slice's parameters: the micro-batches in it
  grads,     \* _tied_grads of each worker: what it was sent for a group and step
  value,     \* each worker's copy of each parameter: its round and steps
  call,      \* the tied call each compute thread is in
  stepped,   \* per group, the gradients its last step summed (history)
  cut,       \* a worker was initialised in the middle of a task or a call (history)
  failed     \* a worker reported a fatal error: the run stops

coordinator == <<round, next, init, failed>>
chain == <<fwd, begun, bwd>>
history == <<stepped, cut>>
vars == <<coordinator, token, chain, thread, sum, grads, value, call, history>>

(* TiedGroup.owner and replicas. *)
\* Mutant: the highest slice owns the group.
HighestOwner(g) == Max(Groups[g])
Owner(g) == Min(Groups[g])
Replicas(g) == Groups[g] \ {Owner(g)}

(* build_tied_configs gives peers to the groups that cross slices only, and *)
(* _optimize leaves the frozen ones out. *)
Synced(w) == {g \in Group \ Frozen : w \in Groups[g] /\ Cardinality(Groups[g]) > 1}

(* The calls and waits of one _optimize, as <<group, slice>>, in the order *)
(* of _tied and of a group's stubs. *)
ToSend(w) == {<<g, Owner(g)>> : g \in {h \in Synced(w) : w # Owner(h)}}
ToCollect(w) == {<<g, w>> : g \in {h \in Synced(w) : w = Owner(h)}}
\* Mutant: only the first replica is told.
PushToFirst(w) == {<<g, Min(Replicas(g))>> : g \in {h \in Synced(w) : w = Owner(h)}}
ToPush(w) == UNION {{<<g, r>> : r \in Replicas(g)} : g \in {h \in Synced(w) : w = Owner(h)}}
Earliest(todo) ==
  CHOOSE p \in todo : \A q \in todo : p[1] < q[1] \/ (p[1] = q[1] /\ p[2] <= q[2])

\* Mutant: the step is known by its micro-batch.
MicroAsKey(id) == id
Key(id) == id \div NumMicro
IsLastMicro(id) == id % NumMicro = NumMicro - 1

NoGrads == [g \in Group |-> [k \in Batch |-> <<>>]]
NoValue == [g \in Group |-> <<0, 0>>]
Idle == [at |-> "idle", gen |-> 0, cfg |-> 0, id |-> 0, todo |-> {}, own |-> {}, val |-> NoValue]
NoCall == [at |-> "none", kind |-> "none", group |-> 0, to |-> 0, token |-> 0, key |-> 0,
           own |-> {}, val |-> <<0, 0>>]

Init ==
  /\ round = 1 /\ next = 0 /\ init = "reset" /\ failed = FALSE
  /\ token = [w \in Slice |-> 0]
  /\ fwd = [r \in Round |-> [w \in Slice |-> 0]] /\ begun = fwd /\ bwd = fwd
  /\ thread = [w \in Slice |-> Idle]
  /\ sum = [w \in Slice |-> {}]
  /\ grads = [w \in Slice |-> NoGrads]
  /\ value = [w \in Slice |-> NoValue]
  /\ call = [w \in Slice |-> NoCall]
  /\ stepped = [g \in Group |-> [by |-> <<0, 0>>, parts |-> <<>>]]
  /\ cut = FALSE

-----------------------------------------------------------------------------
(* _init_slices: one worker after the other; init() first forgets the      *)
(* state of the round before, then ties the new layers. *)

Busy(w) == thread[w].at # "idle" \/ \E v \in Slice : call[v].to = w /\ call[v].at = "checked"

Reset(w) ==
  /\ ~failed /\ next = w /\ init = "reset"
  /\ token' = [token EXCEPT ![w] = 0]
  /\ grads' = [grads EXCEPT ![w] = NoGrads]
  /\ sum' = [sum EXCEPT ![w] = {}]
  /\ value' = [value EXCEPT ![w] = NoValue]
  /\ cut' = (cut \/ Busy(w))
  /\ init' = "tie"
  /\ UNCHANGED <<round, next, failed, chain, thread, call, stepped>>

ConfigureTied(w) ==
  /\ ~failed /\ next = w /\ init = "tie"
  /\ token' = [token EXCEPT ![w] = round]
  /\ value' = [value EXCEPT ![w] = [g \in Group |-> <<round, 0>>]]
  /\ next' = next + 1 /\ init' = "reset"
  /\ UNCHANGED <<round, failed, chain, thread, sum, grads, call, history>>

Over == bwd[round][0] = NumBatches * NumMicro

(* A worker was lost: the coordinator starts over from the checkpoint. *)
NewRound ==
  /\ ~failed /\ next = NumSlices /\ ~Over /\ round < MaxRounds
  /\ round' = round + 1 /\ next' = 0
  /\ UNCHANGED <<init, failed, token, chain, thread, sum, grads, value, call, history>>

-----------------------------------------------------------------------------
(* The compute thread.  The first slice is fed one batch at a time; the    *)
(* last one runs its backward pass with the forward (its label is there). *)

Fed == (bwd[round][0] \div NumMicro + 1) * NumMicro

ForwardArrived(w) ==
  LET r == token[w]
  IN  /\ r # 0
      /\ IF w = 0 THEN /\ r = round /\ next = NumSlices /\ ~Over
                       /\ fwd[r][0] < Fed
         ELSE fwd[r][w] < fwd[r][w - 1]

BackwardArrived(w) ==
  /\ token[w] # 0
  /\ begun[token[w]][w] < bwd[token[w]][w + 1]

Forward(w) ==
  /\ ~failed /\ w # LastSlice /\ thread[w].at = "idle" /\ ForwardArrived(w)
  /\ fwd' = [fwd EXCEPT ![token[w]][w] = @ + 1]
  /\ UNCHANGED <<coordinator, token, begun, bwd, thread, sum, grads, value, call, history>>

BeginBackward(w) ==
  /\ ~failed /\ thread[w].at = "idle"
  /\ IF w = LastSlice THEN ForwardArrived(w) ELSE BackwardArrived(w)
  /\ fwd' = IF w = LastSlice THEN [fwd EXCEPT ![token[w]][w] = @ + 1] ELSE fwd
  /\ thread' = [thread EXCEPT ![w] = [Idle EXCEPT !.at = "backward", !.gen = token[w],
                                                  !.id = begun[token[w]][w]]]
  /\ begun' = [begun EXCEPT ![token[w]][w] = @ + 1]
  /\ UNCHANGED <<coordinator, token, bwd, sum, grads, value, call, history>>

(* out.backward() reaches the layer of the task; the last micro-batch then *)
(* enters _optimize with the tied list as it is now. *)
EndBackward(w) ==
  /\ ~failed /\ thread[w].at = "backward"
  /\ LET t == thread[w]
         same == t.gen = token[w]
     IN  /\ sum' = IF same THEN [sum EXCEPT ![w] = @ \cup {<<t.gen, t.id>>}] ELSE sum
         /\ thread' = [thread EXCEPT ![w] =
              IF ~IsLastMicro(t.id) THEN [t EXCEPT !.at = "reply"]
              ELSE [t EXCEPT !.at = "send", !.cfg = token[w],
                             !.todo = IF token[w] = 0 THEN {} ELSE ToSend(w),
                             !.own = IF same THEN sum'[w] ELSE {},
                             !.val = value[w]]]
  /\ UNCHANGED <<coordinator, token, chain, grads, value, call, history>>

(* One tied call, to its end. *)
Call(w, kind, pair, data) ==
  call' = [call EXCEPT ![w] =
    [at |-> "sent", kind |-> kind, group |-> pair[1], to |-> pair[2], token |-> token[w],
     key |-> Key(thread[w].id), own |-> data.own, val |-> data.val[pair[1]]]]

(* Replica: its gradient goes to the owner and is dropped. *)
SendGrad(w) ==
  /\ ~failed /\ thread[w].at = "send" /\ thread[w].todo # {} /\ call[w].at = "none"
  /\ Call(w, "grad", Earliest(thread[w].todo), thread[w])
  /\ UNCHANGED <<coordinator, token, chain, thread, sum, grads, value, history>>

StartWaiting(w) ==
  /\ ~failed /\ thread[w].at = "send" /\ thread[w].todo = {}
  /\ thread' = [thread EXCEPT ![w].at = "wait",
                              ![w].todo = IF thread[w].cfg = 0 THEN {} ELSE ToCollect(w)]
  /\ UNCHANGED <<coordinator, token, chain, sum, grads, value, call, history>>

(* Owner: every replica's gradient for this step, at most 300 s later. *)
Sent(w, g) == grads[w][g][Key(thread[w].id)]
Enough(w, g) == Len(Sent(w, g)) >= Cardinality(Replicas(g))

CollectGrads(w) ==
  /\ ~failed /\ thread[w].at = "wait" /\ thread[w].todo # {}
  /\ LET pair == Earliest(thread[w].todo)
         g == pair[1]
     IN  /\ Enough(w, g)
         /\ grads' = [grads EXCEPT ![w][g][Key(thread[w].id)] = <<>>]
         /\ stepped' = [stepped EXCEPT ![g] =
              [by |-> <<thread[w].cfg, Key(thread[w].id)>>,
               parts |-> Append(Sent(w, g), [from |-> w, own |-> thread[w].own])]]
         /\ thread' = [thread EXCEPT ![w].todo = @ \ {pair}]
  /\ UNCHANGED <<coordinator, token, chain, sum, value, call, cut>>

WaitTimesOut(w) ==
  /\ ~failed /\ thread[w].at = "wait" /\ thread[w].todo # {}
  /\ ~Enough(w, Earliest(thread[w].todo)[1])
  /\ thread' = [thread EXCEPT ![w] = Idle]
  /\ failed' = (token[w] # 0)
  /\ UNCHANGED <<round, next, init, token, chain, sum, grads, value, call, history>>

(* self.layer.optimize(): nothing to step if the layer is not the task's,  *)
(* an AttributeError that ends the task if there is none. *)
Optimize(w) ==
  /\ ~failed /\ thread[w].at = "wait" /\ thread[w].todo = {}
  /\ LET t == thread[w]
         same == t.cfg = token[w]
         new == [g \in Group |->
                   IF \E p \in ToCollect(w) : p[1] = g
                   THEN <<value[w][g][1], value[w][g][2] + 1>> ELSE value[w][g]]
     IN  IF token[w] = 0
         THEN /\ thread' = [thread EXCEPT ![w] = Idle]
              /\ UNCHANGED <<sum, value>>
         ELSE /\ value' = IF same THEN [value EXCEPT ![w] = new] ELSE value
              /\ sum' = [sum EXCEPT ![w] = {}]
              /\ thread' = [thread EXCEPT ![w] =
                   [t EXCEPT !.at = "push", !.val = IF same THEN new ELSE t.val,
                             !.todo = IF t.cfg = 0 THEN {} ELSE ToPush(w)]]
  /\ UNCHANGED <<coordinator, token, chain, grads, call, history>>

SendUpdate(w) ==
  /\ ~failed /\ thread[w].at = "push" /\ thread[w].todo # {} /\ call[w].at = "none"
  /\ Call(w, "update", Earliest(thread[w].todo), thread[w])
  /\ UNCHANGED <<coordinator, token, chain, thread, sum, grads, value, history>>

StartReply(w) ==
  /\ ~failed /\ thread[w].at = "push" /\ thread[w].todo = {}
  /\ thread' = [thread EXCEPT ![w].at = "reply"]
  /\ UNCHANGED <<coordinator, token, chain, sum, grads, value, call, history>>

(* _send_backward, or batch_done from the first slice, unless stale. *)
SendBackward(w) ==
  /\ ~failed /\ thread[w].at = "reply"
  /\ bwd' = IF thread[w].gen = token[w] THEN [bwd EXCEPT ![thread[w].gen][w] = @ + 1] ELSE bwd
  /\ thread' = [thread EXCEPT ![w] = Idle]
  /\ UNCHANGED <<coordinator, token, fwd, begun, sum, grads, value, call, history>>

-----------------------------------------------------------------------------
(* The handlers, in threads of the gRPC server: the token first, then the  *)
(* condition variable (tied_grad) or the copy (tied_update). *)

\* Mutant: any token will do.
CheckNothing(w) ==
  /\ ~failed /\ call[w].at = "sent"
  /\ call' = [call EXCEPT ![w].at = "checked"]
  /\ UNCHANGED <<coordinator, token, chain, thread, sum, grads, value, history>>

CheckToken(w) ==
  /\ ~failed /\ call[w].at = "sent"
  /\ call' = [call EXCEPT ![w].at = IF call[w].token = token[call[w].to] THEN "checked" ELSE "done"]
  /\ UNCHANGED <<coordinator, token, chain, thread, sum, grads, value, history>>

tied_grad(w) ==
  /\ ~failed /\ call[w].at = "checked" /\ call[w].kind = "grad"
  /\ grads' = [grads EXCEPT ![call[w].to][call[w].group][call[w].key] =
                 Append(@, [from |-> w, own |-> call[w].own])]
  /\ call' = [call EXCEPT ![w].at = "done"]
  /\ UNCHANGED <<coordinator, token, chain, thread, sum, value, history>>

tied_update(w) ==
  /\ ~failed /\ call[w].at = "checked" /\ call[w].kind = "update"
  /\ value' = IF token[call[w].to] = 0 THEN value
              ELSE [value EXCEPT ![call[w].to][call[w].group] = call[w].val]
  /\ call' = [call EXCEPT ![w].at = "done"]
  /\ UNCHANGED <<coordinator, token, chain, thread, sum, grads, history>>

CallReturns(w) ==
  /\ ~failed /\ call[w].at = "done"
  /\ call' = [call EXCEPT ![w] = NoCall]
  /\ thread' = [thread EXCEPT ![w].todo = @ \ {<<call[w].group, call[w].to>>}]
  /\ UNCHANGED <<coordinator, token, chain, sum, grads, value, history>>

(* The connection is lost on the way there or back: _PeerUnavailableError  *)
(* drops the task, and the coordinator will find out. *)
CallFails(w) ==
  /\ ~failed /\ call[w].at \in {"sent", "done"} /\ thread[w].gen < MaxRounds
  /\ call' = [call EXCEPT ![w] = NoCall]
  /\ thread' = [thread EXCEPT ![w] = Idle]
  /\ UNCHANGED <<coordinator, token, chain, sum, grads, value, history>>

Ended ==
  /\ failed \/ Over
  /\ UNCHANGED vars

Thread(w) ==
  \/ Forward(w) \/ BeginBackward(w) \/ EndBackward(w) \/ SendGrad(w) \/ StartWaiting(w)
  \/ CollectGrads(w) \/ Optimize(w) \/ SendUpdate(w) \/ StartReply(w) \/ SendBackward(w)
  \/ CallReturns(w)

Handler(w) == CheckToken(w) \/ tied_grad(w) \/ tied_update(w)

Initialise(w) == Reset(w) \/ ConfigureTied(w)

Next ==
  \/ \E w \in Slice : \/ Initialise(w) \/ Thread(w) \/ Handler(w)
                      \/ WaitTimesOut(w) \/ CallFails(w)
  \/ NewRound \/ Ended

(* Threads run; a lost call or worker makes the coordinator start over. *)
Fairness ==
  /\ WF_vars(NewRound)
  /\ \A w \in Slice : WF_vars(Initialise(w)) /\ WF_vars(Thread(w)) /\ WF_vars(Handler(w))

Spec == Init /\ [][Next]_vars /\ Fairness

-----------------------------------------------------------------------------

TypeOK ==
  /\ round \in Round /\ next \in 0 .. NumSlices /\ init \in {"reset", "tie"}
  /\ failed \in BOOLEAN /\ cut \in BOOLEAN
  /\ token \in [Slice -> 0 .. MaxRounds]
  /\ \A w \in Slice :
       /\ thread[w].at \in {"idle", "backward", "send", "wait", "push", "reply"}
       /\ thread[w].todo \subseteq Group \X Slice
       /\ call[w].at \in {"none", "sent", "checked", "done"} /\ call[w].key \in Batch
       /\ \A r \in Round : 0 <= bwd[r][w] /\ bwd[r][w] <= fwd[r][w] /\ fwd[r][w] <= NumBatches * NumMicro

(* Exactly one update per step, from the sum of the gradients of every     *)
(* use (core/tied.py:5-6): each worker of the group gave its gradient of   *)
(* all the micro-batches of this very batch, once, whatever calls of an    *)
(* earlier round were still under way. *)
Micros(by) == {<<by[1], by[2] * NumMicro + m>> : m \in 0 .. NumMicro - 1}

WholeSum(g) ==
  LET parts == stepped[g].parts
  IN  /\ {parts[i].from : i \in DOMAIN parts} = Groups[g]
      /\ Len(parts) = Cardinality(Groups[g])
      /\ \A i \in DOMAIN parts : parts[i].own = Micros(stepped[g].by)

SumOfEveryUse == ~cut => \A g \in Group : stepped[g].parts # <<>> => WholeSum(g)

(* The next batch sees the new value everywhere (worker.py:1117): when a   *)
(* slice runs a micro-batch forward its copy has had every step of the     *)
(* round's earlier batches and no other, although the copies are written   *)
(* by another worker's calls while this worker computes. *)
ForwardsOnCurrentValue ==
  \A w \in Slice :
    ~cut /\ thread[w].at = "idle" /\ ForwardArrived(w) =>
      \A g \in Synced(w) : value[w][g] = <<token[w], Key(fwd[token[w]][w])>>

(* The owner's 300 s wait is never used: the gradient of each replica is   *)
(* there when the backward pass reaches the owner.  It holds because a     *)
(* replica sends its gradient to the owner before it sends any down the    *)
(* chain, so an owner can only wait for a gradient that will never come. *)
OwnerNeverWaits ==
  \A w \in Slice : ~cut /\ thread[w].at = "wait" => \A p \in thread[w].todo : Enough(w, p[1])

(* Every batch of the last round is completed. *)
RoundCompletes == <>(cut \/ (Over /\ ~failed))

(* The copies of a parameter are one parameter: each worker computes on    *)
(* the current value, and no owner waits for a gradient that is not there  *)
(* (WorkerServicer._optimize). *)
CopiesAreCurrent == TypeOK /\ ForwardsOnCurrentValue /\ OwnerNeverWaits
=============================================================================
