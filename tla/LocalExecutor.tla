----------------------------- MODULE LocalExecutor -----------------------------
(***************************************************************************)
(* LocalExecutor (executors/local.py): every slice in one process.  An     *)
(* epoch runs the batches of a ClientSession, each batch slice by slice:   *)
(* forwards, backwards and optimizer steps in the order of the code,       *)
(* whole (_standard_batch), as M micro-batches (_gpipe_batch) or on the    *)
(* client side only (_local_loss_batch), with per-client server copies     *)
(* (SplitFed V1), the algorithm's aggregation and the round's evaluation.  *)
(***************************************************************************)
EXTENDS ClientSession

CONSTANTS
  Runs,        \* the settings to explore, records of the fields of `run`
  Selections,  \* what Algorithm.select_clients may answer for a round
  MaxRounds    \* epochs to train

ASSUME ExecutorAssumption ==
  /\ MaxRounds \in Nat \ {0}
  /\ \A sel \in Selections : ToSet(sel) # {} /\ ToSet(sel) \subseteq Client
  /\ \A r \in Runs : r.micro \in Nat \ {0} /\ r.samples \in Nat \ {0}

VARIABLES
  pc,        \* where the training loop is
  round,     \* the epoch, from 1
  selected,  \* the round's participants
  queue,     \* the batches the round still has
  client,    \* the client of the current batch
  batch,     \* its number, from 1 over the whole run
  owner,     \* who each batch belonged to: owner[b] = <<round, client>>
  servers,   \* server_states: the V1 copy of each client, or None
  holder,    \* prev_client_for_server
  first,     \* initial_server_state
  micro,     \* the micro-batch being run, from 1
  slice,     \* the slice being run
  inputs,    \* SplitLayer.x: the micro-batch whose input each slice holds, 0 if none
  refs,      \* x_refs: the inputs kept for each micro-batch
  flow,      \* the cut gradient reached the slice below
  grad,      \* what .grad of each slice's parameters sums up: {<<micro, slice>>}
  steps,     \* optimizer steps of each slice
  aux        \* the auxiliary head stepped in this batch

loopVars == <<run, round, selected, queue, client, batch, owner>>
serverVars == <<servers, holder, first>>
batchVars == <<micro, slice, inputs, refs, flow, grad, steps, aux>>
vars == <<pc, loopVars, sessionVars, serverVars, batchVars>>

LastSlice == NSlices - 1
PerClientServer == run.algorithm = "splitfed_v1"

(* torch.chunk: ceil(n / M) samples per chunk, so perhaps fewer than M. *)
CeilDiv(a, b) == (a + b - 1) \div b
Chunks == CeilDiv(run.samples, CeilDiv(run.samples, run.micro))

(* LOCAL_LOSS stops at client_cut(); only _standard_batch asks for it. *)
LocalLoss == run.policy = "local_loss" /\ run.micro = 1
client_cut == Max(ClientSlices)
Top == IF LocalLoss THEN client_cut ELSE LastSlice

(* The V1 copies are made anew in every epoch. *)
NoServers == servers = [k \in Client |-> None] /\ holder = None /\ first = None

Init ==
  /\ run \in Runs
  /\ live = [i \in Slice |-> Fresh]
  /\ NoSession
  /\ pc = "epoch" /\ round = 1 /\ selected = <<>> /\ queue = {}
  /\ client = None /\ batch = 0 /\ owner = <<>>
  /\ NoServers
  /\ micro = 1 /\ slice = 0 /\ aux = FALSE /\ flow = TRUE
  /\ inputs = [i \in Slice |-> 0] /\ refs = <<>>
  /\ grad = [i \in Slice |-> {}] /\ steps = [i \in Slice |-> 0]

(* train_epoch, up to its loop; batches() starts with the first next(). *)
BeginEpoch ==
  /\ pc = "epoch"
  /\ \E sel \in Selections :
       /\ selected' = sel
       /\ queue' = Turns(sel)
  /\ servers' = [k \in Client |-> None] /\ holder' = None
  /\ first' = IF PerClientServer THEN GetState(live, ServerSlices) ELSE None
  /\ initial' = IF initial = None THEN GetState(live, ClientSlices) ELSE initial
  /\ pc' = "next"
  /\ UNCHANGED <<run, round, client, batch, owner, live, states, current, batchVars>>

(* The generator's next batch, with the switch of client it may need. *)
NextBatch ==
  /\ pc = "next"
  /\ \E t \in queue :
       LET k == selected[t[1]]
       IN  /\ \A u \in queue \ {t} : Earlier(t, u)
           /\ client' = k /\ queue' = queue \ {t}
           /\ IF k # current THEN Switch(k) ELSE UNCHANGED <<live, states, current>>
           /\ owner' = Append(owner, <<round, k>>)
  /\ batch' = batch + 1
  /\ pc' = "server"
  /\ UNCHANGED <<run, round, selected, initial, serverVars, batchVars>>

(* V1: the client's own server copy is swapped in. *)
SwapServer ==
  /\ pc = "server"
  /\ IF PerClientServer /\ client # holder
     THEN /\ servers' = IF holder = None THEN servers
                        ELSE [servers EXCEPT ![holder] = GetState(live, ServerSlices)]
          /\ live' = SetState(live, IF servers'[client] # None THEN servers'[client] ELSE first)
          /\ holder' = client
     ELSE UNCHANGED <<servers, live, holder>>
  /\ micro' = 1 /\ slice' = 0 /\ refs' = <<>> /\ aux' = FALSE /\ flow' = TRUE
  /\ pc' = "forward"
  /\ UNCHANGED <<loopVars, states, current, initial, first, inputs, grad, steps>>

(* An attack with query access looks at a cut: _query runs the slices up   *)
(* to it and puts their saved inputs back. *)
\* Mutant: the slices keep the inputs of the query.
QueryLeavesItsInputs(held, cut) ==
  [i \in Slice |-> IF i <= cut THEN 0 ELSE held[i]]

Query(held, cut) ==
  LET during == [i \in Slice |-> IF i <= cut THEN 0 ELSE held[i]]
  IN  [i \in Slice |-> IF i <= cut THEN held[i] ELSE during[i]]

Observed(cut) == IF run.attack THEN Query(inputs, cut) ELSE inputs

(* What crosses a cut is observed on its way; nothing crosses below the    *)
(* first slice or above the top one. *)
_cut_forward(cut) == IF cut >= 0 THEN Observed(cut) ELSE inputs
_cut_backward(cut) == IF cut < Top THEN Observed(cut) ELSE inputs

\* Mutant: one micro-batch too many.
NextPieceOneMore ==
  IF micro <= run.micro
  THEN micro' = micro + 1 /\ slice' = 0 /\ UNCHANGED pc
  ELSE micro' = 1 /\ pc' = "backward" /\ UNCHANGED slice

(* After the top slice: the next micro-batch's forwards, or the backwards. *)
NextPiece ==
  IF micro < run.micro
  THEN micro' = micro + 1 /\ slice' = 0 /\ UNCHANGED pc
  ELSE micro' = 1 /\ pc' = "backward" /\ UNCHANGED slice

(* One slice's forward, after the cut below it. *)
Forward ==
  /\ pc = "forward" /\ micro <= Chunks
  /\ inputs' = [_cut_forward(slice - 1) EXCEPT ![slice] = micro]
  /\ refs' = IF slice = 0 THEN Append(refs, inputs') ELSE [refs EXCEPT ![micro][slice] = inputs'[slice]]
  /\ IF slice < Top
     THEN slice' = slice + 1 /\ UNCHANGED <<micro, pc>>
     ELSE NextPiece
  /\ UNCHANGED <<loopVars, sessionVars, serverVars, flow, grad, steps, aux>>

(* micro_mains[m] past the chunks there are: IndexError ends the run. *)
\* Mutant: the last chunk is already out of range.
TooFewChunksEarly ==
  /\ pc = "forward" /\ micro >= Chunks
  /\ pc' = "raised"
  /\ UNCHANGED <<loopVars, sessionVars, serverVars, batchVars>>

TooFewChunks ==
  /\ pc = "forward" /\ micro > Chunks
  /\ pc' = "raised"
  /\ UNCHANGED <<loopVars, sessionVars, serverVars, batchVars>>

(* The slice's backward through the input it kept: SplitLayer.x, or the    *)
(* micro-batch's reference.  A tied parameter is one tensor, so its use in *)
(* the last slice adds to the owner's gradient. *)
Kept(m, i) == IF run.micro = 1 THEN inputs[i] ELSE refs[m][i]

Backpropagate(held) ==
  /\ inputs' = held
  /\ flow' = (flow /\ (slice = 0 \/ Kept(micro, slice) = micro))
  /\ grad' = IF ~flow THEN grad
             ELSE [i \in Slice |->
                     IF i = slice \/ (run.tied /\ i = 0 /\ slice = LastSlice)
                     THEN grad[i] \cup {<<micro, slice>>} ELSE grad[i]]

Backward ==
  /\ pc = "backward"
  /\ Backpropagate(_cut_backward(slice))
  /\ UNCHANGED <<loopVars, sessionVars, serverVars, refs, steps, aux>>

(* A whole batch: each slice steps right after its backward pass. *)
StandardBackward ==
  /\ run.micro = 1 /\ ~LocalLoss
  /\ Backward
  /\ pc' = "step" /\ UNCHANGED <<micro, slice>>

(* The client's slices alone, from the loss of its auxiliary head. *)
LocalLossBackward ==
  /\ LocalLoss
  /\ Backward
  /\ pc' = "step" /\ UNCHANGED <<micro, slice>>

(* All slices of a micro-batch, from the last one down, then the next. *)
GpipeBackward ==
  /\ run.micro > 1
  /\ Backward
  /\ IF slice > 0
     THEN slice' = slice - 1 /\ UNCHANGED <<micro, pc>>
     ELSE IF micro < run.micro
          THEN micro' = micro + 1 /\ slice' = LastSlice /\ UNCHANGED pc
          ELSE pc' = "step" /\ UNCHANGED <<micro, slice>>

(* SplitLayer.optimize: the scheduled rate is base * factor(steps); the    *)
(* base is what the group's rate was before its first scheduled step. *)
\* Mutant: the factor applies to the rate as it is.
ScheduledFromCurrent(opt, t) ==
  [seen |-> opt.seen \cup {batch}, lr |-> Append(opt.lr, t), base |-> opt.lr]

Scheduled(opt, t) ==
  LET base == IF opt.base = None THEN opt.lr ELSE opt.base
  IN  [seen |-> opt.seen \cup {batch}, lr |-> Append(base, t), base |-> base]

Optimize ==
  /\ pc = "step"
  /\ live' = [live EXCEPT ![slice] =
                [model |-> @.model \cup {batch}, opt |-> Scheduled(@.opt, steps[slice])]]
  /\ steps' = [steps EXCEPT ![slice] = @ + 1]
  /\ grad' = [grad EXCEPT ![slice] = {}]
  /\ inputs' = [inputs EXCEPT ![slice] = 0]
  /\ UNCHANGED <<loopVars, states, current, initial, serverVars, micro, refs, flow>>

(* The slice below is next; step_aux follows the step of the cut's slice. *)
StepDown ==
  /\ run.micro = 1
  /\ Optimize
  /\ aux' = (aux \/ (LocalLoss /\ slice = Top))
  /\ IF slice > 0 THEN slice' = slice - 1 /\ pc' = "backward"
     ELSE pc' = "next" /\ UNCHANGED slice

(* Every slice steps once all micro-batches are through. *)
StepAll ==
  /\ run.micro > 1
  /\ Optimize
  /\ IF slice < LastSlice THEN slice' = slice + 1 /\ UNCHANGED pc
     ELSE pc' = "next" /\ UNCHANGED slice
  /\ UNCHANGED aux

(* The generator ends, then session.finish and the last V1 server copy. *)
EndBatches ==
  /\ pc = "next" /\ queue = {}
  /\ EndOfBatches
  /\ pc' = "finish"
  /\ UNCHANGED <<loopVars, current, initial, serverVars, batchVars>>

Finish ==
  /\ pc = "finish"
  /\ states' = SavedStates
  /\ servers' = IF holder = None THEN servers
                ELSE [servers EXCEPT ![holder] = GetState(live, ServerSlices)]
  /\ pc' = "round_end"
  /\ UNCHANGED <<loopVars, live, current, initial, holder, first, batchVars>>

RoundEnd ==
  /\ pc = "round_end"
  /\ OnRoundEnd(selected)
  /\ pc' = "aggregate"
  /\ UNCHANGED <<loopVars, current, initial, serverVars, batchVars>>

AggregateRound ==
  /\ pc = "aggregate"
  /\ Aggregate(selected, servers)
  /\ pc' = "evaluate" /\ slice' = 0
  /\ UNCHANGED <<loopVars, current, initial, serverVars, micro, inputs, refs, flow, grad, steps, aux>>

(* _evaluate_round loads each client's state in turn (here `slice` counts  *)
(* the clients), runs every slice forward, then restores the active one. *)
Evaluate ==
  /\ pc = "evaluate" /\ run.evaluate /\ slice < NClients
  /\ live' = SetState(live, IF states[slice] # None THEN states[slice] ELSE initial)
  /\ inputs' = [i \in Slice |-> 0]
  /\ slice' = slice + 1
  /\ UNCHANGED <<pc, loopVars, states, current, initial, serverVars, micro, refs, flow, grad, steps, aux>>

\* Mutant: the last evaluated state stays loaded.
RestoreNothing == live

RestoreActive ==
  IF current # None /\ states[current] # None THEN SetState(live, states[current]) ELSE live

EndEpoch ==
  /\ pc = "evaluate" /\ slice = (IF run.evaluate THEN NClients ELSE 0)
  /\ live' = IF run.evaluate THEN RestoreActive ELSE live
  /\ round' = round + 1
  /\ pc' = IF round < MaxRounds THEN "epoch" ELSE "done"
  /\ slice' = 0
  /\ UNCHANGED <<run, selected, queue, client, batch, owner, states, current, initial, serverVars,
                 micro, inputs, refs, flow, grad, steps, aux>>

Done ==
  /\ pc \in {"done", "raised"}
  /\ UNCHANGED vars

Next ==
  \/ BeginEpoch \/ NextBatch \/ SwapServer \/ Forward \/ TooFewChunks
  \/ StandardBackward \/ LocalLossBackward \/ GpipeBackward \/ StepDown \/ StepAll
  \/ EndBatches \/ Finish \/ RoundEnd \/ AggregateRound \/ Evaluate \/ EndEpoch \/ Done

Spec == Init /\ [][Next]_vars /\ WF_vars(Next)

--------------------------------------------------------------------------------

TypeOK ==
  /\ run \in Runs /\ round \in 1 .. MaxRounds + 1
  /\ pc \in {"epoch", "next", "server", "forward", "backward", "step", "finish",
             "round_end", "aggregate", "evaluate", "done", "raised"}
  /\ current \in Client \cup {None} /\ holder \in Client \cup {None}
  /\ DOMAIN live = Slice /\ DOMAIN states = Client /\ DOMAIN servers = Client
  /\ batch = Len(owner) /\ micro \in 1 .. run.micro
  /\ \A i \in Slice : inputs[i] \in 0 .. run.micro /\ steps[i] \in 0 .. batch

(* The batches that the state client k trains on must hold: all of them    *)
(* when the client model travels; its own when it does not; with an        *)
(* aggregation, its own since the last one and everybody's before it. *)
Batches == DOMAIN owner \ {batch}
OwnBatches(k) == {b \in Batches : owner[b][2] = k}
OldBatches == {b \in Batches : owner[b][1] < round}
Averages == run.algorithm # "default" \/ (run.callback /\ run.mode = "parallel")

ExpectedClient(k) ==
  IF run.mode = "sequential" /\ run.handoff = "copy" THEN Batches
  ELSE OwnBatches(k) \cup (IF Averages THEN OldBatches ELSE {})

ExpectedServer(k) ==
  IF PerClientServer THEN OwnBatches(k) \cup OldBatches ELSE Batches

Starting == pc = "forward" /\ micro = 1 /\ slice = 0 /\ refs = <<>>

(* Every batch runs on the weights the session promises (clients.py:17-31):*)
(* whatever the mode, the handoff, who was selected in earlier rounds, the *)
(* aggregation and the evaluation in between, no update is lost or comes   *)
(* from a client it should not come from. *)
TrainsOnTheRightWeights ==
  Starting =>
    /\ \A i \in ClientSlices : live[i].model = ExpectedClient(client)
    /\ ~LocalLoss => \A i \in ServerSlices : live[i].model = ExpectedServer(client)

(* The optimizer a batch steps has the moments of its own weights'         *)
(* updates since the last average, and never those of the client that      *)
(* happened to run before (clients.py:204-207). *)
MomentsBelongToTheWeights ==
  Starting =>
    \A i \in ClientSlices :
      live[i].opt.seen = IF Averages THEN ExpectedClient(client) \ OldBatches
                         ELSE ExpectedClient(client)

(* A slice steps once per batch, on the gradients of every micro-batch and *)
(* of every use of its parameters, and on nothing else. *)
WholeGradient(i) ==
  {<<m, i>> : m \in 1 .. run.micro}
    \cup (IF run.tied /\ i = 0 /\ Top = LastSlice
          THEN {<<m, LastSlice>> : m \in 1 .. run.micro} ELSE {})

StepsTakeWholeBatches ==
  [][\A i \in Slice : steps'[i] # steps[i] => grad[i] = WholeGradient(i)]_vars

(* Optimizer states that travel between clients carry a learning rate, yet *)
(* the rate a slice steps with is always base * factor(its own step count):*)
(* factors never multiply up (core/schedule.py:3-8). *)
RateFollowsSchedule ==
  \A i \in Slice :
    pc \in {"backward", "step", "next"} /\ batch \in live[i].model
      => live[i].opt.lr = <<steps[i] - 1>>

(* Between epochs the live slices hold the active client's stored state,   *)
(* so nothing is lost or brought back at the next switch. *)
LiveIsStored ==
  pc \in {"epoch", "done"} /\ current # None => SetState(live, states[current]) = live

(* After a round with an aggregation every client holds every update of    *)
(* that round, whoever took part. *)
AggregateReachesEveryone ==
  pc \in {"evaluate", "epoch", "done"} /\ run.algorithm # "default" =>
    \A k, j \in Client :
      states[k] # None => \A i \in ClientSlices :
        states[j] # None /\ states[k][i].model = states[j][i].model

(* A run ends, and only a batch with fewer chunks than micro-batches can   *)
(* end it early. *)
RunEnds == <>(pc = "done" \/ (pc = "raised" /\ Chunks < run.micro))

(* A client's weights, optimizer and rate are its own wherever they are:   *)
(* in the live slices while it trains, in the store between epochs, and in *)
(* the average after an aggregation (ClientSession._switch, aggregate). *)
StatesFollowTheirClient ==
  /\ TypeOK
  /\ TrainsOnTheRightWeights /\ MomentsBelongToTheWeights /\ RateFollowsSchedule
  /\ LiveIsStored /\ AggregateReachesEveryone
================================================================================
