------------------------- MODULE LocalExecutor_proofs -------------------------
(***************************************************************************)
(* Proofs about module LocalExecutor, for any settings, selections and     *)
(* rounds, any number of clients and slices.                               *)
(***************************************************************************)
EXTENDS LocalExecutor, SequenceTheorems, TLAPS

--------------------
(* What the states should hold. *)

\* The batches that have been trained: the last one of owner is, when every slice
\* has stepped.
InBatch == pc \in {"server", "forward", "backward", "step", "raised"}
Seen == IF InBatch THEN 1 .. batch - 1 ELSE 1 .. batch
Old == {b \in Seen : owner[b][1] < round}
Own(k) == {b \in Seen : owner[b][2] = k}

Copies == run.mode = "sequential" /\ run.handoff = "copy"
CallsBack == run.callback /\ run.mode = "parallel"

\* The state of client k is this round's average.
Averaged(k) ==
  \/ CallsBack /\ pc \in {"finish", "round_end", "aggregate", "evaluate"}
  \/ run.algorithm # "default" /\ (pc = "evaluate" \/ (pc = "aggregate" /\ k \in ToSet(selected)))

Model(k) ==
  IF Copies \/ Averaged(k) THEN Seen ELSE Own(k) \cup (IF Averages THEN Old ELSE {})
Moments(k) ==
  IF Averaged(k) THEN {} ELSE IF Averages THEN Model(k) \ Old ELSE Model(k)
ServerModel(k) == IF PerClientServer THEN Own(k) \cup Old ELSE Seen

\* The slices that have stepped in this batch.
Stepped(i) ==
  IF run.micro = 1 THEN pc \in {"backward", "step"} /\ slice < i /\ i <= Top
  ELSE pc = "step" /\ i < slice
Just(i) == IF Stepped(i) THEN {batch} ELSE {}
\* What slice i may have trained on: a batch steps the slices up to Top.
SeenBy(i) == IF i <= Top THEN Seen ELSE {}

MomentsOf(x) == IF x.opt = None THEN {} ELSE x.opt.seen
Is(x, model, seen) == x.model = model /\ MomentsOf(x) = seen
IsState(st, model, seen) == \A i \in ClientSlices : Is(st[i], model, seen)

--------------------
(* The invariant. *)

\* A rate that was scheduled is based on the base rate.
LayerOK(x) == x \in Layer /\ (x.opt # None => x.opt.base = <<>> \/ (x.opt.base = None /\ x.opt.lr = <<>>))
StateOK(st, slices) == st \in [slices -> Layer] /\ \A i \in slices : LayerOK(st[i])
Whole(layers) == StateOK(layers, Slice) /\ \A i \in Slice : layers[i].opt # None

Types ==
  /\ run \in Runs /\ round \in 1 .. MaxRounds + 1
  /\ pc \in {"epoch", "next", "server", "forward", "backward", "step", "finish",
             "round_end", "aggregate", "evaluate", "done", "raised"}
  /\ Whole(live)
  /\ current \in Client \cup {None} /\ holder \in Client \cup {None}
  /\ DOMAIN states = Client /\ \A k \in Client : states[k] = None \/ StateOK(states[k], ClientSlices)
  /\ DOMAIN servers = Client /\ \A k \in Client : servers[k] = None \/ StateOK(servers[k], ServerSlices)
  /\ initial = None \/ StateOK(initial, ClientSlices)
  /\ first = None \/ StateOK(first, ServerSlices)
  /\ owner \in Seq(Nat \X Client) /\ batch = Len(owner)
  /\ slice \in Nat /\ steps \in [Slice -> Nat]
  /\ micro \in 1 .. run.micro /\ inputs \in [Slice -> 0 .. run.micro]

\* Rounds go up, a round's batches are its participants', and the current client is
\* the last batch's.
RoundInv ==
  /\ pc # "done" => round <= MaxRounds
  /\ \A b \in 1 .. batch : owner[b][1] <= round
  /\ IF pc \in {"epoch", "done"} THEN \A b \in 1 .. batch : owner[b][1] < round
     ELSE /\ selected \in Selections
          /\ \A t \in queue : t[1] \in DOMAIN selected
          /\ \A b \in 1 .. batch : owner[b][1] < round \/ owner[b][2] \in ToSet(selected)
          /\ current \in ToSet(selected) \/ \A b \in 1 .. batch : owner[b][1] < round
          /\ initial # None
  /\ current = IF batch = 0 THEN None ELSE owner[batch][2]
  /\ batch > 0 => initial # None
  /\ initial # None => IsState(initial, {}, {})
  /\ InBatch => batch > 0 /\ client = current /\ owner[batch][1] = round
  /\ pc \in {"forward", "backward", "step"} => slice <= Top

\* What the live slices hold, and the store.
Unloaded == pc = "evaluate" /\ slice > 0
Resting == pc \in {"round_end", "aggregate", "evaluate", "epoch", "done"}

Untrained == current = None => IsState(live, {}, {}) /\ \A k \in Client : states[k] = None
Loaded ==
  current # None /\ ~Unloaded =>
    \A i \in ClientSlices : Is(live[i], Model(current) \cup Just(i), Moments(current) \cup Just(i))
Stored ==
  ~Copies =>
    \A k \in Client \ {current} :
      IF states[k] = None THEN Model(k) = {} ELSE IsState(states[k], Model(k), Moments(k))
Active ==
  current # None /\ Resting =>
    /\ states[current] # None /\ IsState(states[current], Model(current), Moments(current))
    /\ Unloaded \/ SetState(live, states[current]) = live
Reached ==
  /\ run.algorithm # "default" /\ current # None
  /\ pc \in {"evaluate", "epoch", "done"} \/ (Copies /\ current \notin ToSet(selected))
  => \A k \in Client : states[k] # None /\ \A i \in ClientSlices : states[k][i].model = Seen
Within ==
  /\ \A i \in Slice : live[i].model \subseteq SeenBy(i) \cup Just(i)
  /\ \A k \in Client : states[k] # None => \A i \in ClientSlices : states[k][i].model \subseteq SeenBy(i)
  /\ \A k \in Client : servers[k] # None => \A i \in ServerSlices : servers[k][i].model \subseteq SeenBy(i)
  /\ first # None => \A i \in ServerSlices : first[i].model \subseteq SeenBy(i)

\* The server slices that are run, shared or (V1) with a copy per client.
Shared ==
  ~PerClientServer \/ pc \in {"evaluate", "epoch", "done"} =>
    \A i \in ServerSlices : i <= Top => live[i].model = Seen \cup Just(i)
Holders ==
  PerClientServer /\ pc \notin {"epoch", "done"} =>
    /\ first # None
    /\ IF holder = None THEN Old = Seen /\ \A k \in Client : servers[k] = None
       ELSE holder \in ToSet(selected)
    /\ pc \in {"forward", "backward", "step", "raised"} => holder = client
    /\ pc # "server" /\ holder # None => holder = current
    /\ holder # None /\ pc \in {"round_end", "aggregate"} => servers[holder] # None
Swapped ==
  PerClientServer /\ pc \notin {"epoch", "done"} =>
    \A i \in ServerSlices :
      i <= Top =>
        /\ first[i].model = Old
        /\ pc # "evaluate" =>
             live[i].model = (IF holder = None THEN Old ELSE ServerModel(holder)) \cup Just(i)
        /\ \A k \in Client :
             k # holder \/ pc \in {"round_end", "aggregate"} =>
               IF servers[k] = None THEN Own(k) \subseteq Old ELSE servers[k][i].model = ServerModel(k)

\* Learning rates.
Rated(x, i) == x.opt.lr = <<steps[i] - 1>>
LiveRates ==
  \A i \in Slice :
    /\ pc \in {"backward", "step"} /\ Stepped(i) => Rated(live[i], i)
    /\ \/ pc \in {"next", "finish", "round_end", "aggregate", "epoch", "done"}
       \/ pc = "evaluate" /\ (slice = 0 \/ i \in ServerSlices)
       => (batch \in live[i].model => Rated(live[i], i))
StoredRates ==
  Resting /\ current # None =>
    \A i \in ClientSlices :
      IF run.algorithm = "default"
      THEN /\ states[current][i].opt # None
           /\ batch \in states[current][i].model => Rated(states[current][i], i)
      ELSE pc = "evaluate" => Rated(live[i], i) /\ \A k \in Client : states[k][i].opt = None
Steps ==
  \A i \in Slice : steps[i] <= IF InBatch /\ pc # "raised" /\ ~Stepped(i) THEN batch - 1 ELSE batch

SessionInv ==
  /\ Types /\ RoundInv
  /\ Untrained /\ Loaded /\ Stored /\ Active /\ Reached /\ Within
  /\ Shared /\ Holders /\ Swapped
  /\ LiveRates /\ StoredRates /\ Steps


--------------------
(* The slices. *)

\* Every slice is a client's or the server's, and the top slice is at or above every
\* client slice.
LEMMA Sizes ==
  /\ NSlices \in Nat /\ NSlices >= 2 /\ LastSlice \in Slice /\ 0 \in Slice
  /\ ClientSlices \subseteq Slice /\ 0 \in ClientSlices
  /\ ServerSlices \subseteq Slice /\ Slice = ClientSlices \cup ServerSlices
  /\ ClientSlices \cap ServerSlices = {}
  /\ client_cut \in ClientSlices /\ \A i \in ClientSlices : i <= client_cut
  /\ Top \in Slice /\ \A i \in ClientSlices : i <= Top
  /\ \A i \in Slice : i \in Nat /\ i <= LastSlice
  /\ ~LocalLoss => Top = LastSlice
<1>1. NSlices \in Nat /\ NSlices >= 2 /\ NClients \in Nat BY SessionAssumption
<1>2. LastSlice \in Slice /\ 0 \in Slice /\ \A i \in Slice : i \in Nat /\ i <= LastSlice
  BY <1>1 DEF LastSlice, Slice
<1>3. ClientSlices \subseteq Slice /\ 0 \in ClientSlices BY <1>2 DEF ClientSlices, LastSlice
<1>4. client_cut \in ClientSlices /\ \A i \in ClientSlices : i <= client_cut
  <2>1. \E x \in ClientSlices : \A y \in ClientSlices : x >= y BY <1>1 DEF ClientSlices
  <2>2. client_cut = CHOOSE x \in ClientSlices : \A y \in ClientSlices : x >= y
    BY DEF client_cut, Max
  <2>3. client_cut \in ClientSlices /\ \A y \in ClientSlices : client_cut >= y BY <2>1, <2>2
  <2> QED BY <1>2, <1>3, <2>3
<1>5. Top \in Slice /\ \A i \in ClientSlices : i <= Top BY <1>2, <1>3, <1>4 DEF Top
<1>6. ~LocalLoss => Top = LastSlice BY DEF Top
<1>7. ServerSlices \subseteq Slice /\ Slice = ClientSlices \cup ServerSlices
        /\ ClientSlices \cap ServerSlices = {}
  BY <1>3 DEF ServerSlices
<1> QED BY <1>1, <1>2, <1>3, <1>4, <1>5, <1>6, <1>7

\* A state of some slices is not None.
LEMMA StateIsThere ==
  ASSUME NEW S \in SUBSET Slice, NEW st, StateOK(st, S)
  PROVE  st # None
BY SessionAssumption DEF StateOK

\* A layer's optimizer is there or not.
LEMMA LayerFields ==
  ASSUME NEW x, LayerOK(x)
  PROVE  /\ x = [model |-> x.model, opt |-> x.opt]
         /\ x.model \in SUBSET Nat
         /\ x.opt # None => /\ x.opt \in Optimizer
                            /\ x.opt = [seen |-> x.opt.seen, lr |-> x.opt.lr, base |-> x.opt.base]
                            /\ x.opt.base = <<>> \/ (x.opt.base = None /\ x.opt.lr = <<>>)
BY DEF LayerOK, Layer, Optimizer

\* What a state's slices are once it is set over the layers L, and the other slices.
SetOver(R, L, st, S) ==
  /\ Whole(R)
  /\ \A i \in Slice \ S : R[i] = L[i]
  /\ \A i \in S : /\ R[i].model = st[i].model
                  /\ MomentsOf(R[i]) = MomentsOf(st[i])
                  /\ st[i].opt # None => R[i] = st[i]
                  /\ st[i].opt = None => R[i].opt.lr = L[i].opt.lr

\* set_state: the slices of the state take its weights and its moments, with its
\* optimizer when it has one; the others keep theirs.
LEMMA SetStateIs ==
  ASSUME NEW L, Whole(L), NEW S \in SUBSET Slice, NEW st, StateOK(st, S)
  PROVE  SetOver(SetState(L, st), L, st, S)
<1>0. /\ DOMAIN st = S /\ DOMAIN L = Slice
      /\ \A i \in Slice : LayerOK(L[i])
      /\ \A i \in S : LayerOK(st[i])
  BY DEF StateOK, Whole
<1> DEFINE R == SetState(L, st)
           New(i) == [model |-> st[i].model,
                      opt |-> IF st[i].opt # None THEN st[i].opt ELSE [L[i].opt EXCEPT !.seen = {}]]
<1>1. R = [i \in Slice |-> IF i \notin S THEN L[i] ELSE New(i)] BY <1>0 DEF SetState
<1>2. ASSUME NEW i \in Slice \ S PROVE R[i] = L[i] /\ LayerOK(R[i]) /\ R[i].opt # None
  BY <1>0, <1>1 DEF Whole
<1>3. ASSUME NEW i \in S
      PROVE  /\ R[i].model = st[i].model /\ MomentsOf(R[i]) = MomentsOf(st[i])
             /\ st[i].opt # None => R[i] = st[i]
             /\ st[i].opt = None => R[i].opt.lr = L[i].opt.lr
             /\ LayerOK(R[i]) /\ R[i].opt # None
  <2>1. R[i] = New(i) /\ i \in Slice BY <1>1
  <2>2. LayerOK(st[i]) /\ LayerOK(L[i]) /\ L[i].opt # None BY <1>0, <2>1 DEF Whole
  <2>3. CASE st[i].opt # None
    <3>1. R[i] = [model |-> st[i].model, opt |-> st[i].opt] BY <2>1, <2>3
    <3>2. R[i] = st[i] BY <3>1, <2>2, LayerFields
    <3> QED BY <3>2, <2>2, <2>3
  <2>4. CASE st[i].opt = None
    <3> DEFINE o == L[i].opt
    <3>1. /\ o \in Optimizer /\ o # None
          /\ o.base = <<>> \/ (o.base = None /\ o.lr = <<>>)
      BY <2>2, LayerFields
    <3> DEFINE p == [o EXCEPT !.seen = {}]
    <3>2. p \in Optimizer /\ p.seen = {} /\ p.lr = o.lr /\ p.base = o.base BY <3>1 DEF Optimizer
    <3>3. p # None BY <3>2, SessionAssumption
    <3>4. R[i] = [model |-> st[i].model, opt |-> p] BY <2>1, <2>4
    <3>5. st[i].model \in SUBSET Nat BY <2>2, LayerFields
    <3>6. R[i] \in Layer /\ R[i].opt = p /\ R[i].model = st[i].model
      BY <3>2, <3>4, <3>5 DEF Layer
    <3> HIDE DEF p, R
    <3>7. LayerOK(R[i]) BY <3>1, <3>2, <3>6 DEF LayerOK
    <3>8. MomentsOf(R[i]) = {} /\ MomentsOf(st[i]) = {} BY <3>2, <3>3, <3>6, <2>4 DEF MomentsOf
    <3> QED BY <3>2, <3>3, <3>6, <3>7, <3>8, <2>4
  <2> QED BY <2>3, <2>4
<1>4. R \in [Slice -> Layer]
  <2>1. \A i \in Slice : R[i] \in Layer BY <1>2, <1>3 DEF LayerOK
  <2>2. R = [i \in Slice |-> R[i]] BY <1>1
  <2> QED BY <2>1, <2>2
<1> QED BY <1>2, <1>3, <1>4 DEF StateOK, Whole, SetOver

\* get_state: the weights and optimizers of some slices, which set_state puts back.
LEMMA GetStateIs ==
  ASSUME NEW L, Whole(L), NEW S \in SUBSET Slice
  PROVE  /\ StateOK(GetState(L, S), S)
         /\ \A i \in S : GetState(L, S)[i] = L[i] /\ GetState(L, S)[i].opt # None
         /\ SetState(L, GetState(L, S)) = L
<1> DEFINE G == GetState(L, S)
<1>1. StateOK(G, S) /\ \A i \in S : G[i] = L[i] /\ G[i].opt # None
  BY DEF StateOK, GetState, Whole
<1> HIDE DEF G
<1>2. SetOver(SetState(L, G), L, G, S) BY <1>1, SetStateIs
<1>3. \A i \in Slice : SetState(L, G)[i] = L[i] BY <1>1, <1>2 DEF SetOver
<1>4. SetState(L, G) \in [Slice -> Layer] /\ L \in [Slice -> Layer]
  BY <1>2 DEF SetOver, Whole, StateOK
<1>5. SetState(L, G) = L BY <1>3, <1>4
<1> QED BY <1>1, <1>5 DEF G

\* The layers hold a state already.
Holds(L, st, S) ==
  \A i \in S : /\ L[i].model = st[i].model /\ MomentsOf(L[i]) = MomentsOf(st[i])
               /\ st[i].opt # None => L[i] = st[i]

\* Setting a state the layers hold changes nothing.
LEMMA SetStateAgain ==
  ASSUME NEW L, Whole(L), NEW S \in SUBSET Slice, NEW st, StateOK(st, S), Holds(L, st, S)
  PROVE  SetState(L, st) = L
<1>1. SetOver(SetState(L, st), L, st, S) BY SetStateIs
<1>2. SetState(L, st) \in [Slice -> Layer] /\ L \in [Slice -> Layer] /\ DOMAIN st = S
  BY <1>1 DEF SetOver, StateOK, Whole
<1>3. ASSUME NEW i \in Slice PROVE SetState(L, st)[i] = L[i]
  <2>1. CASE i \notin S BY <1>1, <2>1 DEF SetOver
  <2>2. CASE i \in S /\ st[i].opt # None
    <3>1. SetState(L, st)[i] = st[i] BY <1>1, <2>2 DEF SetOver
    <3>2. L[i] = st[i] BY <2>2 DEF Holds
    <3> QED BY <3>1, <3>2
  <2>3. CASE i \in S /\ st[i].opt = None
    <3>1. SetState(L, st)[i] = [model |-> st[i].model, opt |-> [L[i].opt EXCEPT !.seen = {}]]
      BY <1>2, <2>3 DEF SetState
    <3>2. L[i].opt.seen = {} /\ L[i].model = st[i].model /\ L[i].opt # None /\ LayerOK(L[i])
      <4>1. L[i].model = st[i].model /\ MomentsOf(L[i]) = MomentsOf(st[i]) BY <2>3 DEF Holds
      <4>2. L[i].opt # None /\ LayerOK(L[i]) BY <2>3 DEF Whole, StateOK
      <4>3. MomentsOf(st[i]) = {} /\ MomentsOf(L[i]) = L[i].opt.seen BY <2>3, <4>2 DEF MomentsOf
      <4> QED BY <4>1, <4>2, <4>3
    <3>3. L[i] = [model |-> L[i].model, opt |-> L[i].opt] /\ L[i].opt \in Optimizer
      BY <3>2, LayerFields
    <3>4. [L[i].opt EXCEPT !.seen = {}] = L[i].opt BY <3>2, <3>3 DEF Optimizer
    <3> QED BY <3>1, <3>2, <3>3, <3>4
  <2> QED BY <2>1, <2>2, <2>3
<1> QED BY <1>2, <1>3

\* Setting a state twice is setting it once.
LEMMA SetStateTwice ==
  ASSUME NEW L, Whole(L), NEW S \in SUBSET Slice, NEW st, StateOK(st, S)
  PROVE  SetState(SetState(L, st), st) = SetState(L, st)
<1>1. SetOver(SetState(L, st), L, st, S) BY SetStateIs
<1>2. Whole(SetState(L, st)) /\ Holds(SetState(L, st), st, S) BY <1>1 DEF SetOver, Holds
<1> QED BY <1>2, SetStateAgain

\* fedavg: the union of the weights that are there, without optimizers.
LEMMA FedavgIs ==
  ASSUME NEW S \in SUBSET Slice, NEW all,
         \A s \in all : s = None \/ StateOK(s, S)
  PROVE  /\ fedavg(all) = None <=> all \subseteq {None}
         /\ fedavg(all) # None =>
              /\ StateOK(fedavg(all), S)
              /\ \A i \in S : /\ fedavg(all)[i].opt = None
                              /\ MomentsOf(fedavg(all)[i]) = {}
                              /\ fedavg(all)[i].model = UNION {s[i].model : s \in all \ {None}}
<1> DEFINE given == all \ {None}
<1>1. CASE given = {} BY <1>1 DEF fedavg
<1>2. CASE given # {}
  <2> DEFINE c == CHOOSE s \in given : TRUE
             F(i) == [model |-> UNION {s[i].model : s \in given}, opt |-> None]
             A == [i \in S |-> F(i)]
  <2>1. c \in given BY <1>2
  <2>2. DOMAIN c = S BY <2>1 DEF StateOK
  <2>3. fedavg(all) = A BY <1>2, <2>2 DEF fedavg
  <2>4. ASSUME NEW i \in S PROVE LayerOK(F(i)) /\ F(i).opt = None /\ MomentsOf(F(i)) = {}
    <3>1. \A s \in given : s[i].model \in SUBSET Nat BY LayerFields DEF StateOK
    <3>2. F(i).model \in SUBSET Nat BY <3>1
    <3> QED BY <3>2 DEF LayerOK, Layer, MomentsOf
  <2>5. StateOK(A, S)
    <3> HIDE DEF F
    <3>1. A \in [S -> Layer] BY <2>4 DEF LayerOK
    <3> QED BY <2>4, <3>1 DEF StateOK
  <2>6. A # None BY <2>5, StateIsThere
  <2>7. ASSUME NEW i \in S PROVE A[i] = F(i) /\ F(i).model = UNION {s[i].model : s \in given}
    OBVIOUS
  <2>8. ~(all \subseteq {None}) BY <1>2
  <2> HIDE DEF A, F
  <2> QED BY <2>3, <2>4, <2>5, <2>6, <2>7, <2>8
<1> QED BY <1>1, <1>2

--------------------
(* The batches that have been trained. *)

\* Seen is every batch but the current one.
LEMMA SeenFacts ==
  ASSUME Types
  PROVE  /\ batch \in Nat /\ DOMAIN owner = 1 .. batch
         /\ \A b \in 1 .. batch : /\ owner[b][1] \in Nat /\ owner[b][2] \in Client
                                  /\ b \in Nat
         /\ Seen \subseteq 1 .. batch
         /\ InBatch => batch \notin Seen /\ (batch > 0 => 1 .. batch = Seen \cup {batch})
         /\ ~InBatch => Seen = 1 .. batch
<1>1. batch \in Nat /\ DOMAIN owner = 1 .. batch BY DEF Types
<1>2. \A b \in 1 .. batch : owner[b] \in Nat \X Client BY <1>1 DEF Types
<1>3. Seen \subseteq 1 .. batch BY <1>1 DEF Seen
<1>4. InBatch => batch \notin Seen /\ (batch > 0 => 1 .. batch = Seen \cup {batch})
  BY <1>1 DEF Seen
<1>5. ~InBatch => Seen = 1 .. batch BY DEF Seen
<1> QED BY <1>1, <1>2, <1>3, <1>4, <1>5

\* What a client should hold has been trained.
LEMMA ModelFacts ==
  ASSUME NEW k
  PROVE  /\ Old \subseteq Seen /\ Own(k) \subseteq Seen /\ Model(k) \subseteq Seen
         /\ Moments(k) \subseteq Model(k)
         /\ ServerModel(k) \subseteq Seen /\ SeenBy(k) \subseteq Seen
BY DEF Old, Own, Model, Moments, ServerModel, SeenBy

\* The settings of the run stay.
LEMMA SameSettings ==
  ASSUME run' = run
  PROVE  /\ ClientSlices' = ClientSlices /\ ServerSlices' = ServerSlices
         /\ LocalLoss' = LocalLoss /\ client_cut' = client_cut /\ Top' = Top
         /\ PerClientServer' = PerClientServer /\ Averages' = Averages
         /\ Copies' = Copies /\ CallsBack' = CallsBack
<1>1. ClientSlices' = ClientSlices BY DEF ClientSlices
<1>2. client_cut' = client_cut BY <1>1 DEF client_cut
<1>3. LocalLoss' = LocalLoss BY DEF LocalLoss
<1> QED BY <1>1, <1>2, <1>3 DEF ServerSlices, Top, PerClientServer, Averages, Copies, CallsBack

\* Nothing has been trained.
LEMMA SameSeen ==
  ASSUME run' = run, round' = round, batch' = batch, owner' = owner, InBatch' <=> InBatch
  PROVE  /\ Seen' = Seen /\ Old' = Old
         /\ \A k : Own(k)' = Own(k) /\ ServerModel(k)' = ServerModel(k)
         /\ \A i : SeenBy(i)' = SeenBy(i)
<1>1. Seen' = Seen BY DEF Seen
<1>2. Old' = Old BY <1>1 DEF Old
<1>3. \A k : Own(k)' = Own(k) BY <1>1 DEF Own
<1> QED BY <1>1, <1>2, <1>3, SameSettings DEF ServerModel, SeenBy

\* Nothing has been trained or averaged.
LEMMA SameModels ==
  ASSUME run' = run, round' = round, batch' = batch, owner' = owner, InBatch' <=> InBatch,
         NEW k, Averaged(k)' <=> Averaged(k)
  PROVE  Model(k)' = Model(k) /\ Moments(k)' = Moments(k)
<1>1. Model(k)' = Model(k) BY SameSeen, SameSettings DEF Model
<1> QED BY <1>1, SameSeen, SameSettings DEF Moments

--------------------
(* Within a batch. *)

\* Within a batch no state is stored or loaded.
LEMMA BatchStep ==
  ASSUME SessionInv, UNCHANGED <<loopVars, states, current, initial>>, InBatch, InBatch',
         pc' \in {"forward", "backward", "step"} => slice' <= Top
  PROVE  /\ (RoundInv /\ Untrained /\ Stored /\ Active /\ Reached)'
         /\ Seen' = Seen /\ \A k : Model(k)' = Model(k) /\ Moments(k)' = Moments(k)
         /\ current \in Client /\ current # None /\ client = current /\ current \in ToSet(selected)
<1>1. UNCHANGED <<run, round, selected, queue, client, batch, owner>> BY DEF loopVars
<1>2. /\ Seen' = Seen /\ Copies' = Copies /\ ClientSlices' = ClientSlices /\ Top' = Top
      /\ \A k : Model(k)' = Model(k) /\ Moments(k)' = Moments(k)
  <2>1. \A k : Averaged(k)' <=> Averaged(k) BY DEF Averaged, InBatch
  <2> QED BY <1>1, <2>1, SameSeen, SameSettings, SameModels
<1>3. pc \notin {"epoch", "done"} /\ pc' \notin {"epoch", "done"} /\ ~Resting /\ ~Resting' /\ ~Unloaded /\ ~Unloaded'
  BY DEF InBatch, Resting, Unloaded
<1>4. current \in Client /\ current # None /\ client = current /\ current \in ToSet(selected)
  <2>1. batch > 0 /\ current = owner[batch][2] /\ owner[batch][1] = round /\ client = current
    BY DEF SessionInv, RoundInv
  <2>2. batch \in 1 .. batch /\ owner[batch][2] \in Client /\ round \in Nat
    BY <2>1, SeenFacts DEF SessionInv, Types
  <2>3. current \in ToSet(selected) BY <1>3, <2>1, <2>2 DEF SessionInv, RoundInv
  <2> QED BY <2>1, <2>2, <2>3, SessionAssumption DEF Client
<1>5. RoundInv' BY <1>1, <1>2, <1>3 DEF SessionInv, RoundInv, IsState
<1>6. Untrained' BY <1>4 DEF Untrained
<1>7. Stored' BY <1>2 DEF SessionInv, Stored, IsState
<1>8. Active' BY <1>3 DEF Active
<1>9. Reached' BY <1>1, <1>2 DEF SessionInv, Reached, InBatch
<1> QED BY <1>2, <1>4, <1>5, <1>6, <1>7, <1>8, <1>9

\* A forward or a backward changes no weights.
LEMMA BatchPass ==
  ASSUME SessionInv, UNCHANGED <<loopVars, sessionVars, serverVars, steps>>,
         pc \in {"forward", "backward", "step"}, pc' \in {"forward", "backward", "step", "raised"},
         \A i \in Slice : Stepped(i)' <=> Stepped(i),
         slice' \in Nat, slice' <= Top,
         micro' \in 1 .. run.micro, inputs' \in [Slice -> 0 .. run.micro]
  PROVE  SessionInv'
<1>1. UNCHANGED <<run, round, selected, queue, client, batch, owner, live, states, current, initial,
                  servers, holder, first, steps>>
  BY DEF loopVars, sessionVars, serverVars
<1>2. InBatch /\ InBatch' /\ \A i \in Slice : Just(i)' = Just(i) BY <1>1 DEF InBatch, Just
<1>3. /\ Seen' = Seen /\ Old' = Old /\ \A k : Own(k)' = Own(k) /\ ServerModel(k)' = ServerModel(k)
      /\ \A i : SeenBy(i)' = SeenBy(i)
      /\ ClientSlices' = ClientSlices /\ ServerSlices' = ServerSlices /\ LocalLoss' = LocalLoss
      /\ Top' = Top /\ PerClientServer' = PerClientServer
  BY <1>1, <1>2, SameSeen, SameSettings
<1>4. (RoundInv /\ Untrained /\ Loaded /\ Stored /\ Active /\ Reached)'
  <2>1. /\ (RoundInv /\ Untrained /\ Stored /\ Active /\ Reached)'
        /\ \A k : Model(k)' = Model(k) /\ Moments(k)' = Moments(k)
    BY <1>1, <1>2, BatchStep DEF loopVars
  <2>2. Loaded' BY <1>1, <1>2, <1>3, <2>1, Sizes DEF SessionInv, Loaded, Unloaded
  <2> QED BY <2>1, <2>2
<1>5. Types' BY <1>1, <1>3 DEF SessionInv, Types
<1>6. Within' BY <1>1, <1>2, <1>3 DEF SessionInv, Within
<1>7. Shared' BY <1>1, <1>2, <1>3, Sizes DEF SessionInv, Shared
<1>8. Holders' BY <1>1, <1>3 DEF SessionInv, Holders
<1>9. Swapped' BY <1>1, <1>2, <1>3, Sizes DEF SessionInv, Swapped
<1>10. LiveRates' BY <1>1, <1>3 DEF SessionInv, LiveRates, Rated, Stepped
<1>11. StoredRates' BY DEF StoredRates, Resting
<1>12. Steps'
  <2>1. \A i \in Slice : steps[i] \in Nat /\ batch \in Nat BY DEF SessionInv, Types
  <2> QED BY <1>1, <1>2, <2>1 DEF SessionInv, Steps
<1> QED BY <1>4, <1>5, <1>6, <1>7, <1>8, <1>9, <1>10, <1>11, <1>12 DEF SessionInv

\* What is observed at a cut puts the saved inputs back.
LEMMA ObservedIs ==
  ASSUME NEW D, inputs \in [Slice -> D], NEW cut
  PROVE  _cut_forward(cut) = inputs /\ _cut_backward(cut) = inputs
<1>1. Query(inputs, cut) = inputs BY DEF Query
<1> QED BY <1>1 DEF _cut_forward, _cut_backward, Observed

LEMMA ForwardInv ==
  ASSUME SessionInv, Forward PROVE SessionInv'
<1>1. /\ micro \in 1 .. run.micro /\ inputs \in [Slice -> 0 .. run.micro]
      /\ run.micro \in Nat /\ slice \in Nat /\ slice <= Top /\ pc = "forward" /\ Top \in Nat
  <2>1. run.micro \in Nat BY ExecutorAssumption DEF SessionInv, Types
  <2> QED BY <2>1, Sizes DEF SessionInv, Types, RoundInv, Forward
<1>2. inputs' \in [Slice -> 0 .. run.micro]
  <2>1. inputs' = [inputs EXCEPT ![slice] = micro] BY <1>1, ObservedIs DEF Forward
  <2>2. micro \in 0 .. run.micro BY <1>1
  <2> QED BY <1>1, <2>1, <2>2
<1>3. UNCHANGED <<loopVars, sessionVars, serverVars, steps>> BY DEF Forward
<1>4. CASE slice < Top
  <2>1. slice' = slice + 1 /\ micro' = micro /\ pc' = "forward" BY <1>1, <1>4 DEF Forward
  <2>2. \A i \in Slice : Stepped(i)' <=> Stepped(i) BY <1>1, <2>1 DEF Stepped, loopVars
  <2>3. slice' \in Nat /\ slice' <= Top BY <1>1, <1>4, <2>1
  <2> QED BY <1>1, <1>2, <1>3, <2>1, <2>2, <2>3, BatchPass
<1>5. CASE ~(slice < Top)
  <2>1. NextPiece BY <1>5 DEF Forward
  <2>2. CASE micro < run.micro
    <3>1. slice' = 0 /\ micro' = micro + 1 /\ pc' = "forward" BY <1>1, <2>1, <2>2 DEF NextPiece
    <3>2. \A i \in Slice : Stepped(i)' <=> Stepped(i) BY <1>1, <3>1 DEF Stepped
    <3> QED BY <1>1, <1>2, <1>3, <2>2, <3>1, <3>2, BatchPass
  <2>3. CASE ~(micro < run.micro)
    <3>1. slice' = slice /\ micro' = 1 /\ pc' = "backward" BY <1>1, <2>1, <2>3 DEF NextPiece
    <3>2. Top' = Top BY <1>3, SameSettings DEF loopVars
    <3>3. \A i \in Slice : Stepped(i)' <=> Stepped(i)
      BY <1>1, <1>5, <3>1, <3>2, Sizes DEF Stepped
    <3> QED BY <1>1, <1>2, <1>3, <3>1, <3>3, BatchPass
  <2> QED BY <2>2, <2>3
<1> QED BY <1>4, <1>5

LEMMA TooFewChunksInv ==
  ASSUME SessionInv, TooFewChunks PROVE SessionInv'
<1>1. UNCHANGED <<loopVars, sessionVars, serverVars, steps, slice, micro, inputs, run>>
  BY DEF TooFewChunks, batchVars, loopVars
<1>2. \A i \in Slice : Stepped(i)' <=> Stepped(i) BY DEF Stepped, TooFewChunks
<1>3. slice' \in Nat /\ slice' <= Top /\ micro' \in 1 .. run.micro /\ inputs' \in [Slice -> 0 .. run.micro]
  BY <1>1 DEF SessionInv, Types, RoundInv, TooFewChunks
<1> QED BY <1>1, <1>2, <1>3, BatchPass DEF TooFewChunks

\* The backwards of a whole batch, of the client's slices, or of a micro-batch.
LEMMA BackwardInv ==
  ASSUME SessionInv, StandardBackward \/ LocalLossBackward \/ GpipeBackward PROVE SessionInv'
<1>1. /\ micro \in 1 .. run.micro /\ inputs \in [Slice -> 0 .. run.micro]
      /\ run.micro \in Nat /\ slice \in Nat /\ slice <= Top /\ pc = "backward" /\ Top \in Nat
      /\ slice \in Slice
  <2>1. run.micro \in Nat BY ExecutorAssumption DEF SessionInv, Types
  <2>2. slice \in Nat /\ slice <= Top /\ pc = "backward"
    BY DEF SessionInv, Types, RoundInv, StandardBackward, LocalLossBackward, GpipeBackward, Backward
  <2>3. slice \in Slice BY <2>2, Sizes DEF Slice
  <2> QED BY <2>1, <2>2, <2>3, Sizes DEF SessionInv, Types
<1>2. inputs' = inputs /\ UNCHANGED <<loopVars, sessionVars, serverVars, steps>>
  BY <1>1, ObservedIs DEF StandardBackward, LocalLossBackward, GpipeBackward, Backward, Backpropagate
<1>3. run' = run /\ Top' = Top BY <1>2, SameSettings DEF loopVars
<1>4. CASE StandardBackward \/ LocalLossBackward
  <2>1. run.micro = 1 /\ pc' = "step" /\ micro' = micro /\ slice' = slice
    BY <1>4 DEF StandardBackward, LocalLossBackward, LocalLoss
  <2>2. \A i \in Slice : Stepped(i)' <=> Stepped(i) BY <1>1, <1>3, <2>1 DEF Stepped
  <2> QED BY <1>1, <1>2, <2>1, <2>2, BatchPass
<1>5. CASE GpipeBackward
  <2>1. run.micro > 1 /\ Top = LastSlice BY <1>1, <1>5, Sizes DEF GpipeBackward, LocalLoss
  <2>2. CASE slice > 0
    <3>1. slice' = slice - 1 /\ micro' = micro /\ pc' = "backward"
      BY <1>1, <1>5, <2>2 DEF GpipeBackward
    <3>2. \A i \in Slice : Stepped(i)' <=> Stepped(i) BY <1>1, <1>3, <2>1, <3>1 DEF Stepped
    <3> QED BY <1>1, <1>2, <2>2, <3>1, <3>2, BatchPass
  <2>3. CASE ~(slice > 0) /\ micro < run.micro
    <3>1. slice' = LastSlice /\ micro' = micro + 1 /\ pc' = "backward"
      BY <1>1, <1>5, <2>3 DEF GpipeBackward
    <3>2. \A i \in Slice : Stepped(i)' <=> Stepped(i) BY <1>1, <1>3, <2>1, <3>1 DEF Stepped
    <3> QED BY <1>1, <1>2, <2>1, <2>3, <3>1, <3>2, BatchPass
  <2>4. CASE ~(slice > 0) /\ ~(micro < run.micro)
    <3>1. slice' = slice /\ slice = 0 /\ micro' = micro /\ pc' = "step"
      BY <1>1, <1>5, <2>4 DEF GpipeBackward
    <3>2. \A i \in Slice : Stepped(i)' <=> Stepped(i)
      BY <1>1, <1>3, <2>1, <3>1, Sizes DEF Stepped
    <3> QED BY <1>1, <1>2, <3>1, <3>2, BatchPass
  <2> QED BY <2>2, <2>3, <2>4
<1> QED BY <1>4, <1>5

\* V1: the server slices are the client's, and the copy of the client they were is kept.
LEMMA SwapServerInv ==
  ASSUME SessionInv, SwapServer PROVE SessionInv'
<1>1. /\ UNCHANGED <<run, round, selected, queue, client, batch, owner, states, current, initial, first, steps, inputs>>
      /\ UNCHANGED <<loopVars, states, current, initial>>
      /\ pc = "server" /\ pc' = "forward" /\ slice' = 0 /\ micro' = 1
  BY DEF SwapServer, loopVars
<1>2. InBatch /\ InBatch' /\ \A i \in Slice : Just(i) = {} /\ Just(i)' = {} /\ ~Stepped(i) /\ ~Stepped(i)'
  BY <1>1 DEF InBatch, Just, Stepped
<1>3. /\ Seen' = Seen /\ Old' = Old /\ \A k : Own(k)' = Own(k) /\ ServerModel(k)' = ServerModel(k)
      /\ \A i : SeenBy(i)' = SeenBy(i)
      /\ ClientSlices' = ClientSlices /\ ServerSlices' = ServerSlices /\ LocalLoss' = LocalLoss
      /\ Top' = Top /\ PerClientServer' = PerClientServer
  BY <1>1, <1>2, SameSeen, SameSettings
<1>4. /\ (RoundInv /\ Untrained /\ Stored /\ Active /\ Reached)'
      /\ \A k : Model(k)' = Model(k) /\ Moments(k)' = Moments(k)
      /\ current \in Client /\ client = current /\ current \in ToSet(selected)
  BY <1>1, <1>2, BatchStep, Sizes
<1>5. None \notin Client BY SessionAssumption DEF Client
<1>6. /\ Whole(live) /\ DOMAIN servers = Client
      /\ \A k \in Client : servers[k] = None \/ StateOK(servers[k], ServerSlices)
      /\ holder \in Client \cup {None}
      /\ first = None \/ StateOK(first, ServerSlices)
  BY DEF SessionInv, Types
<1> DEFINE G == GetState(live, ServerSlices)
<1>7. StateOK(G, ServerSlices) /\ G # None /\ \A i \in ServerSlices : G[i] = live[i]
  BY <1>6, Sizes, GetStateIs, StateIsThere
<1>8. CASE ~(PerClientServer /\ client # holder)
  <2>1. UNCHANGED <<servers, live, holder>> BY <1>8 DEF SwapServer
  <2>2. Types' BY <1>1, <1>3, <2>1, ExecutorAssumption DEF SessionInv, Types
  <2>3. Loaded' BY <1>1, <1>2, <1>3, <1>4, <2>1, Sizes DEF SessionInv, Loaded, Unloaded
  <2>4. Within' /\ Shared' BY <1>1, <1>2, <1>3, <2>1, Sizes DEF SessionInv, Within, Shared
  <2>5. Holders' BY <1>1, <1>3, <1>4, <1>5, <1>8, <2>1 DEF SessionInv, Holders
  <2>6. Swapped' BY <1>1, <1>2, <1>3, <2>1, Sizes DEF SessionInv, Swapped
  <2>7. LiveRates' /\ StoredRates' BY <1>1, <1>2 DEF LiveRates, StoredRates, Resting
  <2>8. Steps' BY <1>1, <1>2 DEF SessionInv, Steps
  <2> QED BY <1>4, <2>2, <2>3, <2>4, <2>5, <2>6, <2>7, <2>8 DEF SessionInv
<1>9. CASE PerClientServer /\ client # holder
  <2> DEFINE st == IF servers'[client] # None THEN servers'[client] ELSE first
  <2>1. /\ servers' = IF holder = None THEN servers ELSE [servers EXCEPT ![holder] = G]
        /\ live' = SetState(live, st) /\ holder' = client
    BY <1>9 DEF SwapServer
  <2>2. first # None BY <1>1, <1>9 DEF SessionInv, Holders
  <2>3. /\ DOMAIN servers' = Client
        /\ \A k \in Client : servers'[k] = IF k = holder THEN G ELSE servers[k]
    BY <1>5, <1>6, <2>1
  <2>4. \A k \in Client : servers'[k] = None \/ StateOK(servers'[k], ServerSlices)
    BY <1>6, <1>7, <2>3
  <2>5. servers'[client] = servers[client] BY <1>4, <1>9, <2>3
  <2>6. StateOK(st, ServerSlices) BY <1>4, <1>6, <2>2, <2>4
  <2>7. SetOver(live', live, st, ServerSlices)
    <3> HIDE DEF st
    <3> QED BY <1>6, <2>1, <2>6, Sizes, SetStateIs
  <2>8. /\ Whole(live')
        /\ \A i \in ClientSlices : live'[i] = live[i]
        /\ \A i \in ServerSlices : live'[i].model = st[i].model
    <3> HIDE DEF st
    <3> QED BY <2>7, Sizes DEF SetOver
  <2>9. Types'
    BY <1>1, <1>3, <1>4, <2>1, <2>3, <2>4, <2>8, ExecutorAssumption DEF SessionInv, Types
  <2>10. Loaded' BY <1>1, <1>2, <1>3, <1>4, <2>8, Sizes DEF SessionInv, Loaded, Unloaded
  <2>11. \A i \in Slice : live[i].model \subseteq SeenBy(i) BY <1>2 DEF SessionInv, Within
  <2>12. \A i \in ServerSlices : st[i].model \subseteq SeenBy(i)
    BY <1>4, <2>2, <2>5 DEF SessionInv, Within
  <2>13. Within'
    <3>1. \A i \in Slice : live'[i].model \subseteq SeenBy(i) BY <2>8, <2>11, <2>12, Sizes
    <3>2. \A k \in Client : servers'[k] # None => \A i \in ServerSlices : servers'[k][i].model \subseteq SeenBy(i)
      BY <1>7, <2>3, <2>11, Sizes DEF SessionInv, Within
    <3> QED BY <1>1, <1>2, <1>3, <3>1, <3>2 DEF SessionInv, Within
  <2>14. Shared' BY <1>1, <1>3, <1>9 DEF Shared
  <2>15. Holders' BY <1>1, <1>3, <1>4, <1>5, <2>1, <2>2 DEF Holders
  <2>16. Swapped'
    <3>1. SUFFICES ASSUME NEW i \in ServerSlices, i <= Top
          PROVE  /\ first[i].model = Old
                 /\ live'[i].model = ServerModel(client)
                 /\ \A k \in Client \ {client} :
                      IF servers'[k] = None THEN Own(k) \subseteq Old ELSE servers'[k][i].model = ServerModel(k)
      BY <1>1, <1>2, <1>3, <1>4, <1>5, <2>1, Sizes DEF Swapped
    <3>2. /\ first[i].model = Old
          /\ live[i].model = (IF holder = None THEN Old ELSE ServerModel(holder))
          /\ \A k \in Client : k # holder =>
               IF servers[k] = None THEN Own(k) \subseteq Old ELSE servers[k][i].model = ServerModel(k)
      BY <1>1, <1>2, <1>9, <3>1, Sizes DEF SessionInv, Swapped
    <3>3. live'[i].model = ServerModel(client)
      <4>1. live'[i].model = st[i].model BY <2>8
      <4>2. CASE servers[client] = None
        <5>1. st[i].model = Old /\ Own(client) \subseteq Old BY <1>4, <1>9, <2>5, <3>2, <4>2
        <5> QED BY <1>9, <4>1, <5>1 DEF ServerModel
      <4>3. CASE servers[client] # None BY <1>4, <1>9, <2>5, <3>2, <4>1, <4>3
      <4> QED BY <4>2, <4>3
    <3>4. ASSUME NEW k \in Client \ {client}
          PROVE  IF servers'[k] = None THEN Own(k) \subseteq Old ELSE servers'[k][i].model = ServerModel(k)
      <4>1. CASE k = holder BY <1>5, <1>7, <2>3, <3>2, <4>1
      <4>2. CASE k # holder BY <2>3, <3>2, <4>2
      <4> QED BY <4>1, <4>2
    <3> QED BY <3>2, <3>3, <3>4
  <2>17. LiveRates' /\ StoredRates' BY <1>1, <1>2 DEF LiveRates, StoredRates, Resting
  <2>18. Steps' BY <1>1, <1>2 DEF SessionInv, Steps
  <2> QED BY <1>4, <2>9, <2>10, <2>13, <2>14, <2>15, <2>16, <2>17, <2>18 DEF SessionInv
<1> QED BY <1>8, <1>9

\* A step adds the batch to the slice's weights and moments, and writes its rate.
LEMMA OptimizeIs ==
  ASSUME SessionInv, Optimize, slice \in Slice
  PROVE  /\ Whole(live') /\ \A i \in Slice \ {slice} : live'[i] = live[i] /\ steps'[i] = steps[i]
         /\ live'[slice].model = live[slice].model \cup {batch}
         /\ MomentsOf(live'[slice]) = MomentsOf(live[slice]) \cup {batch}
         /\ live'[slice].opt.lr = <<steps'[slice] - 1>>
         /\ steps' \in [Slice -> Nat] /\ steps'[slice] = steps[slice] + 1
         /\ inputs' \in [Slice -> 0 .. run.micro]
         /\ batch \in Nat
<1> DEFINE o == live[slice].opt
           p == Scheduled(o, steps[slice])
<1>1. /\ Whole(live) /\ steps \in [Slice -> Nat] /\ inputs \in [Slice -> 0 .. run.micro]
      /\ batch \in Nat /\ 0 \in 0 .. run.micro /\ steps[slice] \in Nat
  <2>1. run.micro \in Nat BY ExecutorAssumption DEF SessionInv, Types
  <2> QED BY <2>1, SeenFacts DEF SessionInv, Types
<1>2. LayerOK(live[slice]) /\ live \in [Slice -> Layer] /\ o # None BY <1>1 DEF Whole, StateOK
<1>3. /\ live[slice].model \in SUBSET Nat /\ o \in Optimizer
      /\ o.base = <<>> \/ (o.base = None /\ o.lr = <<>>)
  BY <1>2, LayerFields
<1>4. live' = [live EXCEPT ![slice] = [model |-> live[slice].model \cup {batch}, opt |-> p]]
  BY <1>2 DEF Optimize
<1>5. steps' = [steps EXCEPT ![slice] = steps[slice] + 1] /\ inputs' = [inputs EXCEPT ![slice] = 0]
  BY <1>1 DEF Optimize
<1>6. p = [seen |-> o.seen \cup {batch}, lr |-> <<steps[slice]>>, base |-> <<>>]
  <2>1. (IF o.base = None THEN o.lr ELSE o.base) = <<>>
    <3>1. <<>> \in Seq(Nat) OBVIOUS
    <3>2. <<>> # None BY <3>1, SessionAssumption
    <3> QED BY <1>3, <3>2
  <2>2. Append(<<>>, steps[slice]) = <<steps[slice]>> OBVIOUS
  <2> QED BY <2>1, <2>2 DEF Scheduled
<1>7. p \in Optimizer /\ p # None /\ p.base = <<>> /\ p.seen = o.seen \cup {batch} /\ p.lr = <<steps[slice]>>
  <2>1. o.seen \cup {batch} \in SUBSET Nat BY <1>1, <1>3 DEF Optimizer
  <2>2. <<steps[slice]>> \in Seq(Nat) /\ <<>> \in Seq(Nat) BY <1>1
  <2>3. p \in Optimizer BY <1>6, <2>1, <2>2 DEF Optimizer
  <2>4. p # None BY <2>3, SessionAssumption
  <2>5. p.base = <<>> /\ p.seen = o.seen \cup {batch} /\ p.lr = <<steps[slice]>>
    <3> HIDE DEF o
    <3> QED BY <1>6
  <2> QED BY <2>3, <2>4, <2>5
<1> HIDE DEF o, p
<1>8. /\ live'[slice] = [model |-> live[slice].model \cup {batch}, opt |-> p]
      /\ \A i \in Slice \ {slice} : live'[i] = live[i]
  BY <1>2, <1>4
<1>9. LayerOK(live'[slice]) /\ live'[slice].opt # None
  BY <1>1, <1>3, <1>7, <1>8 DEF LayerOK, Layer
<1>10. Whole(live')
  <2>1. \A i \in Slice : LayerOK(live'[i]) /\ live'[i].opt # None
    BY <1>1, <1>8, <1>9 DEF Whole, StateOK
  <2>2. live' \in [Slice -> Layer] BY <1>2, <1>4, <1>8, <1>9 DEF LayerOK
  <2> QED BY <2>1, <2>2 DEF Whole, StateOK
<1>11. MomentsOf(live'[slice]) = MomentsOf(live[slice]) \cup {batch}
  BY <1>2, <1>7, <1>8 DEF MomentsOf, o
<1>12. live'[slice].opt.lr = <<steps'[slice] - 1>>
  <2>1. steps'[slice] - 1 = steps[slice] BY <1>1, <1>5
  <2> QED BY <1>7, <1>8, <2>1
<1>13. /\ steps' \in [Slice -> Nat] /\ steps'[slice] = steps[slice] + 1
       /\ \A i \in Slice \ {slice} : steps'[i] = steps[i]
       /\ inputs' \in [Slice -> 0 .. run.micro]
  BY <1>1, <1>5
<1>14. live'[slice].model = live[slice].model \cup {batch} BY <1>8
<1> QED BY <1>1, <1>8, <1>10, <1>11, <1>12, <1>13, <1>14

\* A step that leaves the batch unfinished.
LEMMA StepWithin ==
  ASSUME SessionInv, Optimize, slice \in Slice, ~Stepped(slice),
         pc' \in {"backward", "step"}, slice' \in Nat, slice' <= Top,
         \A i \in Slice : Stepped(i)' <=> Stepped(i) \/ i = slice
  PROVE  SessionInv'
<1>1. /\ UNCHANGED <<run, round, selected, queue, client, batch, owner, states, current, initial,
                     servers, holder, first, micro>>
      /\ UNCHANGED <<loopVars, states, current, initial>>
      /\ pc = "step"
  BY DEF Optimize, loopVars, serverVars
<1>2. /\ InBatch /\ InBatch'
      /\ \A i \in Slice : Just(i)' = IF i = slice THEN {batch} ELSE Just(i)
      /\ Just(slice) = {}
  BY <1>1 DEF InBatch, Just
<1>3. /\ Seen' = Seen /\ Old' = Old /\ \A k : Own(k)' = Own(k) /\ ServerModel(k)' = ServerModel(k)
      /\ \A i : SeenBy(i)' = SeenBy(i)
      /\ ClientSlices' = ClientSlices /\ ServerSlices' = ServerSlices /\ LocalLoss' = LocalLoss
      /\ Top' = Top /\ PerClientServer' = PerClientServer
  BY <1>1, <1>2, SameSeen, SameSettings
<1>4. /\ (RoundInv /\ Untrained /\ Stored /\ Active /\ Reached)'
      /\ \A k : Model(k)' = Model(k) /\ Moments(k)' = Moments(k)
  BY <1>1, <1>2, BatchStep
<1>5. /\ Whole(live') /\ \A i \in Slice \ {slice} : live'[i] = live[i] /\ steps'[i] = steps[i]
      /\ live'[slice].model = live[slice].model \cup {batch}
      /\ MomentsOf(live'[slice]) = MomentsOf(live[slice]) \cup {batch}
      /\ live'[slice].opt.lr = <<steps'[slice] - 1>>
      /\ steps' \in [Slice -> Nat] /\ steps'[slice] = steps[slice] + 1
      /\ inputs' \in [Slice -> 0 .. run.micro]
      /\ batch \in Nat
  BY OptimizeIs
<1>6. \A i \in Slice : \A M : live[i].model = M \cup Just(i) => live'[i].model = M \cup Just(i)'
  BY <1>2, <1>5
<1>7. \A i \in Slice : \A M : MomentsOf(live[i]) = M \cup Just(i) => MomentsOf(live'[i]) = M \cup Just(i)'
  BY <1>2, <1>5
<1>8. Types' BY <1>1, <1>3, <1>5 DEF SessionInv, Types
<1>9. Loaded'
  <2>1. current # None BY <1>1, <1>2, BatchStep
  <2>2. \A i \in ClientSlices : /\ live[i].model = Model(current) \cup Just(i)
                                /\ MomentsOf(live[i]) = Moments(current) \cup Just(i)
    BY <1>1, <2>1 DEF SessionInv, Loaded, Unloaded, Is
  <2>3. \A i \in ClientSlices : /\ live'[i].model = Model(current) \cup Just(i)'
                                /\ MomentsOf(live'[i]) = Moments(current) \cup Just(i)'
    BY <1>6, <1>7, <2>2, Sizes
  <2> QED BY <1>1, <1>3, <1>4, <2>3 DEF Loaded, Is
<1>10. Within'
  <2>1. \A i \in Slice : live'[i].model \subseteq SeenBy(i) \cup Just(i)'
    BY <1>2, <1>5 DEF SessionInv, Within
  <2> QED BY <1>1, <1>3, <2>1 DEF SessionInv, Within
<1>11. Shared' BY <1>1, <1>3, <1>6, Sizes DEF SessionInv, Shared
<1>12. Holders' BY <1>1, <1>3 DEF SessionInv, Holders
<1>13. Swapped'
  <2>1. SUFFICES ASSUME PerClientServer, NEW i \in ServerSlices, i <= Top
        PROVE  /\ first[i].model = Old
               /\ live'[i].model = (IF holder = None THEN Old ELSE ServerModel(holder)) \cup Just(i)'
               /\ \A k \in Client \ {holder} :
                    IF servers[k] = None THEN Own(k) \subseteq Old ELSE servers[k][i].model = ServerModel(k)
    BY <1>1, <1>3 DEF Swapped
  <2>2. /\ first[i].model = Old
        /\ live[i].model = (IF holder = None THEN Old ELSE ServerModel(holder)) \cup Just(i)
        /\ \A k \in Client \ {holder} :
             IF servers[k] = None THEN Own(k) \subseteq Old ELSE servers[k][i].model = ServerModel(k)
    BY <1>1, <2>1 DEF SessionInv, Swapped
  <2> QED BY <1>6, <2>2, Sizes
<1>14. LiveRates'
  <2>1. ASSUME NEW i \in Slice, Stepped(i)' PROVE live'[i].opt.lr = <<steps'[i] - 1>>
    <3>1. CASE i = slice BY <1>5, <3>1
    <3>2. CASE i # slice BY <1>1, <1>5, <2>1, <3>2 DEF SessionInv, LiveRates, Rated
    <3> QED BY <3>1, <3>2
  <2> QED BY <1>1, <2>1 DEF LiveRates, Rated
<1>15. StoredRates' BY <1>1 DEF StoredRates, Resting
<1>16. Steps'
  <2>1. \A i \in Slice : steps[i] \in Nat BY DEF SessionInv, Types
  <2>2. ASSUME NEW i \in Slice
        PROVE  steps'[i] <= IF ~(Stepped(i) \/ i = slice) THEN batch - 1 ELSE batch
    BY <1>1, <1>2, <1>5, <2>1 DEF SessionInv, Steps
  <2> QED BY <1>1, <1>2, <2>2 DEF Steps
<1> QED BY <1>4, <1>8, <1>9, <1>10, <1>11, <1>12, <1>13, <1>14, <1>15, <1>16 DEF SessionInv

\* The batch is trained: it is one more batch that was seen, and its client's.
LEMMA SeenNext ==
  ASSUME SessionInv, InBatch, UNCHANGED <<loopVars, current>>, pc' = "next"
  PROVE  /\ batch \in Nat /\ batch \notin Seen /\ Seen' = Seen \cup {batch} /\ Old' = Old
         /\ current \in Client /\ current # None /\ client = current /\ current \in ToSet(selected)
         /\ \A k : Own(k)' = IF k = current THEN Own(k) \cup {batch} ELSE Own(k)
         /\ ServerModel(current)' = ServerModel(current) \cup {batch}
         /\ \A k : k # current /\ PerClientServer => ServerModel(k)' = ServerModel(k)
         /\ Model(current)' = Model(current) \cup {batch}
         /\ Moments(current)' = Moments(current) \cup {batch}
         /\ \A k : k # current /\ ~Copies => Model(k)' = Model(k) /\ Moments(k)' = Moments(k)
<1>1. UNCHANGED <<run, round, selected, queue, client, batch, owner, current>> BY DEF loopVars
<1>2. batch > 0 /\ current = owner[batch][2] /\ owner[batch][1] = round /\ client = current
  BY DEF SessionInv, RoundInv
<1>3. /\ batch \in Nat /\ batch \in 1 .. batch /\ owner[batch][2] \in Client /\ round \in Nat
      /\ batch \notin Seen /\ 1 .. batch = Seen \cup {batch} /\ Seen \subseteq 1 .. batch
  BY <1>2, SeenFacts DEF SessionInv, Types
<1>4. current \in Client /\ current # None BY <1>2, <1>3, SessionAssumption DEF Client
<1>5. current \in ToSet(selected)
  <2>1. pc \notin {"epoch", "done"} BY DEF InBatch
  <2> QED BY <1>2, <1>3, <2>1 DEF SessionInv, RoundInv
<1>6. Seen' = Seen \cup {batch} BY <1>1, <1>3 DEF Seen, InBatch
<1>7. Old' = Old BY <1>1, <1>2, <1>3, <1>6 DEF Old
<1>8. \A k : Own(k)' = IF k = current THEN Own(k) \cup {batch} ELSE Own(k)
  BY <1>1, <1>2, <1>6 DEF Own
<1>9. /\ Copies' = Copies /\ PerClientServer' = PerClientServer /\ Averages' = Averages
  BY <1>1, SameSettings
<1>10. \A k : ~Averaged(k) /\ ~Averaged(k)' BY DEF Averaged, InBatch
<1>11. ServerModel(current)' = ServerModel(current) \cup {batch}
  <2>1. \A k : ServerModel(k)' = IF PerClientServer THEN Own(k)' \cup Old' ELSE Seen'
    BY <1>9 DEF ServerModel
  <2>2. ServerModel(current)' = IF PerClientServer THEN Own(current)' \cup Old' ELSE Seen'
    BY <1>1, <2>1
  <2>3. Own(current)' = Own(current) \cup {batch} BY <1>1, <1>8
  <2> QED BY <1>6, <1>7, <2>2, <2>3 DEF ServerModel
<1>12. \A k : k # current /\ PerClientServer => ServerModel(k)' = ServerModel(k)
  BY <1>7, <1>8, <1>9 DEF ServerModel
<1>13. \A k : Model(k) = IF Copies THEN Seen ELSE Own(k) \cup (IF Averages THEN Old ELSE {})
  BY <1>10 DEF Model
<1>14. \A k : Model(k)' = IF Copies THEN Seen' ELSE Own(k)' \cup (IF Averages THEN Old ELSE {})
  BY <1>7, <1>9, <1>10 DEF Model
<1>15. \A k : k = current => Model(k)' = Model(k) \cup {batch} BY <1>6, <1>8, <1>13, <1>14
<1>16. \A k : k # current /\ ~Copies => Model(k)' = Model(k) BY <1>8, <1>13, <1>14
<1>17. \A k : Moments(k) = IF Averages THEN Model(k) \ Old ELSE Model(k) BY <1>10 DEF Moments
<1>18. \A k : Moments(k)' = IF Averages THEN Model(k)' \ Old ELSE Model(k)'
  BY <1>7, <1>9, <1>10 DEF Moments
<1>19. batch \notin Old BY <1>3 DEF Old
<1>20. \A k : k = current => Moments(k)' = Moments(k) \cup {batch} BY <1>15, <1>17, <1>18, <1>19
<1>21. \A k : k # current /\ ~Copies => Moments(k)' = Moments(k) BY <1>16, <1>17, <1>18
<1> QED BY <1>1, <1>2, <1>3, <1>4, <1>5, <1>6, <1>7, <1>8, <1>11, <1>12, <1>15, <1>16, <1>20, <1>21

\* A step that finishes the batch.
LEMMA StepLast ==
  ASSUME SessionInv, Optimize, slice \in Slice, ~Stepped(slice),
         pc' = "next", slice' \in Nat,
         \A i \in Slice : i <= Top => Stepped(i) \/ i = slice
  PROVE  SessionInv'
<1>1. /\ UNCHANGED <<run, round, selected, queue, client, batch, owner, states, current, initial,
                     servers, holder, first, micro>>
      /\ UNCHANGED loopVars
      /\ pc = "step" /\ InBatch /\ ~InBatch'
  BY DEF Optimize, loopVars, serverVars, InBatch
<1>2. /\ batch \in Nat /\ batch \notin Seen /\ Seen' = Seen \cup {batch} /\ Old' = Old
      /\ current \in Client /\ current # None /\ client = current /\ current \in ToSet(selected)
      /\ \A k : Own(k)' = IF k = current THEN Own(k) \cup {batch} ELSE Own(k)
      /\ ServerModel(current)' = ServerModel(current) \cup {batch}
      /\ \A k : k # current /\ PerClientServer => ServerModel(k)' = ServerModel(k)
      /\ Model(current)' = Model(current) \cup {batch}
      /\ Moments(current)' = Moments(current) \cup {batch}
      /\ \A k : k # current /\ ~Copies => Model(k)' = Model(k) /\ Moments(k)' = Moments(k)
  BY <1>1, SeenNext
<1>3. /\ ClientSlices' = ClientSlices /\ ServerSlices' = ServerSlices /\ LocalLoss' = LocalLoss
      /\ Top' = Top /\ PerClientServer' = PerClientServer /\ Copies' = Copies
  BY <1>1, SameSettings
<1>4. \A i \in Slice : Just(i)' = {} /\ ~Stepped(i)' /\ Just(i) = IF Stepped(i) THEN {batch} ELSE {}
  BY <1>1 DEF Just, Stepped
<1>5. /\ Whole(live') /\ \A i \in Slice \ {slice} : live'[i] = live[i] /\ steps'[i] = steps[i]
      /\ live'[slice].model = live[slice].model \cup {batch}
      /\ MomentsOf(live'[slice]) = MomentsOf(live[slice]) \cup {batch}
      /\ live'[slice].opt.lr = <<steps'[slice] - 1>>
      /\ steps' \in [Slice -> Nat] /\ steps'[slice] = steps[slice] + 1
      /\ inputs' \in [Slice -> 0 .. run.micro]
  BY OptimizeIs
<1>6. ASSUME NEW i \in Slice, i <= Top, NEW M
      PROVE  /\ live[i].model = M \cup Just(i) => live'[i].model = M \cup {batch}
             /\ MomentsOf(live[i]) = M \cup Just(i) => MomentsOf(live'[i]) = M \cup {batch}
  <2>1. CASE i = slice BY <1>4, <1>5, <2>1
  <2>2. CASE i # slice BY <1>4, <1>5, <1>6, <2>2
  <2> QED BY <2>1, <2>2
<1>7. Types' BY <1>1, <1>3, <1>5 DEF SessionInv, Types
<1>8. RoundInv'
  <2>1. \A b \in 1 .. batch : owner[b][1] <= round /\ (owner[b][1] < round \/ owner[b][2] \in ToSet(selected))
    BY <1>1 DEF SessionInv, RoundInv
  <2>2. /\ selected \in Selections /\ \A t \in queue : t[1] \in DOMAIN selected
        /\ initial # None /\ IsState(initial, {}, {})
        /\ current = IF batch = 0 THEN None ELSE owner[batch][2]
    BY <1>1 DEF SessionInv, RoundInv
  <2>3. round <= MaxRounds BY <1>1 DEF SessionInv, RoundInv
  <2> QED BY <1>1, <1>2, <1>3, <2>1, <2>2, <2>3 DEF RoundInv, IsState
<1>9. Untrained' /\ Active' /\ StoredRates'
  BY <1>1, <1>2 DEF Untrained, Active, StoredRates, Resting
<1>10. Loaded'
  <2>1. \A i \in ClientSlices : /\ live[i].model = Model(current) \cup Just(i)
                                /\ MomentsOf(live[i]) = Moments(current) \cup Just(i)
    BY <1>1, <1>2 DEF SessionInv, Loaded, Unloaded, Is
  <2>2. \A i \in ClientSlices : /\ live'[i].model = Model(current)' \cup {}
                                /\ MomentsOf(live'[i]) = Moments(current)' \cup {}
    BY <1>2, <1>6, <2>1, Sizes
  <2> QED BY <1>1, <1>3, <1>4, <2>2, Sizes DEF Loaded, Is
<1>11. Stored' BY <1>1, <1>2, <1>3 DEF SessionInv, Stored, IsState
<1>12. Reached' BY <1>1, <1>2 DEF Reached
<1>13. Within'
  <2>1. \A i : SeenBy(i) \subseteq SeenBy(i)' /\ (i <= Top => batch \in SeenBy(i)')
    BY <1>2, <1>3 DEF SeenBy
  <2>2. \A i \in Slice : live'[i].model \subseteq SeenBy(i)'
    <3> SUFFICES ASSUME NEW i \in Slice PROVE live'[i].model \subseteq SeenBy(i)'
      OBVIOUS
    <3>1. /\ live[i].model \subseteq SeenBy(i) \cup Just(i)
          /\ Just(i) = IF Stepped(i) THEN {batch} ELSE {}
          /\ live'[i].model = IF i = slice THEN live[i].model \cup {batch} ELSE live[i].model
      BY <1>4, <1>5 DEF SessionInv, Within
    <3>2. Stepped(i) \/ i = slice => i <= Top
      BY <1>1, Sizes DEF Stepped, SessionInv, RoundInv, LocalLoss
    <3> QED BY <2>1, <3>1, <3>2
  <2> QED BY <1>1, <1>3, <1>4, <2>1, <2>2 DEF SessionInv, Within
<1>14. Shared'
  <2>1. SUFFICES ASSUME ~PerClientServer, NEW i \in ServerSlices, i <= Top
        PROVE  live'[i].model = Seen'
    BY <1>1, <1>3, <1>4, Sizes DEF Shared
  <2>2. live[i].model = Seen \cup Just(i) BY <2>1, Sizes DEF SessionInv, Shared
  <2> QED BY <1>2, <1>6, <2>1, <2>2, Sizes
<1>15. PerClientServer => holder = current BY <1>1, <1>2 DEF SessionInv, Holders
<1>16. Holders' BY <1>1, <1>2, <1>3, <1>15 DEF SessionInv, Holders
<1>17. Swapped'
  <2>1. SUFFICES ASSUME PerClientServer, NEW i \in ServerSlices, i <= Top
        PROVE  /\ first[i].model = Old
               /\ live'[i].model = ServerModel(current)'
               /\ \A k \in Client \ {current} :
                    IF servers[k] = None THEN Own(k)' \subseteq Old ELSE servers[k][i].model = ServerModel(k)'
    BY <1>1, <1>2, <1>3, <1>4, <1>15, Sizes DEF Swapped
  <2>2. /\ first[i].model = Old
        /\ live[i].model = ServerModel(current) \cup Just(i)
        /\ \A k \in Client \ {current} :
             IF servers[k] = None THEN Own(k) \subseteq Old ELSE servers[k][i].model = ServerModel(k)
    BY <1>1, <1>2, <1>15, <2>1 DEF SessionInv, Swapped
  <2>3. live'[i].model = ServerModel(current) \cup {batch} BY <1>6, <2>1, <2>2, Sizes
  <2> QED BY <1>2, <2>1, <2>2, <2>3
<1>18. LiveRates'
  <2>1. ASSUME NEW i \in Slice, batch \in live'[i].model PROVE live'[i].opt.lr = <<steps'[i] - 1>>
    <3>1. CASE i = slice BY <1>5, <3>1
    <3>2. CASE i # slice
      <4>1. batch \in live[i].model /\ live[i].model \subseteq Seen \cup Just(i)
        BY <1>5, <2>1, <3>2, ModelFacts DEF SessionInv, Within
      <4>2. Stepped(i) BY <1>2, <1>4, <4>1
      <4> QED BY <1>1, <1>5, <3>2, <4>2 DEF SessionInv, LiveRates, Rated
    <3> QED BY <3>1, <3>2
  <2> QED BY <1>1, <2>1 DEF LiveRates, Rated
<1>19. Steps'
  <2>1. \A i \in Slice : steps[i] \in Nat BY DEF SessionInv, Types
  <2>2. ASSUME NEW i \in Slice PROVE steps'[i] <= batch
    BY <1>1, <1>2, <1>5, <2>1 DEF SessionInv, Steps
  <2> QED BY <1>1, <2>2 DEF Steps
<1> QED BY <1>7, <1>8, <1>9, <1>10, <1>11, <1>12, <1>13, <1>14, <1>16, <1>17, <1>18, <1>19 DEF SessionInv

LEMMA StepDownInv ==
  ASSUME SessionInv, StepDown PROVE SessionInv'
<1>1. pc = "step" /\ run.micro = 1 /\ Optimize /\ run' = run BY DEF StepDown, Optimize, loopVars
<1>2. slice \in Slice /\ slice \in Nat /\ slice <= Top /\ Top' = Top /\ Top \in Nat
  <2>1. slice \in Nat /\ slice <= Top BY <1>1 DEF SessionInv, Types, RoundInv
  <2> QED BY <1>1, <2>1, Sizes, SameSettings DEF Slice
<1>3. ~Stepped(slice) BY <1>1, <1>2 DEF Stepped
<1>4. CASE slice > 0
  <2>1. slice' = slice - 1 /\ pc' = "backward" BY <1>4 DEF StepDown
  <2>2. slice' \in Nat /\ slice' <= Top BY <1>2, <1>4, <2>1
  <2>3. \A i \in Slice : Stepped(i)' <=> Stepped(i) \/ i = slice
    BY <1>1, <1>2, <2>1, Sizes DEF Stepped
  <2> QED BY <1>1, <1>2, <1>3, <2>1, <2>2, <2>3, StepWithin
<1>5. CASE ~(slice > 0)
  <2>1. slice' = slice /\ pc' = "next" /\ slice = 0 BY <1>2, <1>5 DEF StepDown
  <2>2. \A i \in Slice : i <= Top => Stepped(i) \/ i = slice BY <1>1, <2>1, Sizes DEF Stepped
  <2> QED BY <1>1, <1>2, <1>3, <2>1, <2>2, StepLast
<1> QED BY <1>4, <1>5

LEMMA StepAllInv ==
  ASSUME SessionInv, StepAll PROVE SessionInv'
<1>1. pc = "step" /\ run.micro > 1 /\ run.micro # 1 /\ Optimize /\ run' = run
  BY ExecutorAssumption DEF StepAll, Optimize, loopVars, SessionInv, Types
<1>2. /\ slice \in Slice /\ slice \in Nat /\ slice <= Top /\ Top' = Top /\ Top = LastSlice
      /\ LastSlice \in Nat
  <2>1. slice \in Nat /\ slice <= Top BY <1>1 DEF SessionInv, Types, RoundInv
  <2>2. ~LocalLoss BY <1>1 DEF LocalLoss
  <2> QED BY <1>1, <2>1, <2>2, Sizes, SameSettings DEF Slice
<1>3. ~Stepped(slice) BY <1>1, <1>2 DEF Stepped
<1>4. CASE slice < LastSlice
  <2>1. slice' = slice + 1 /\ pc' = "step" BY <1>1, <1>4 DEF StepAll
  <2>2. slice' \in Nat /\ slice' <= Top BY <1>2, <1>4, <2>1
  <2>3. \A i \in Slice : Stepped(i)' <=> Stepped(i) \/ i = slice
    BY <1>1, <1>2, <2>1, Sizes DEF Stepped
  <2> QED BY <1>1, <1>2, <1>3, <2>1, <2>2, <2>3, StepWithin
<1>5. CASE ~(slice < LastSlice)
  <2>1. slice' = slice /\ pc' = "next" /\ slice = LastSlice BY <1>2, <1>5 DEF StepAll
  <2>2. \A i \in Slice : i <= Top => Stepped(i) \/ i = slice
    BY <1>1, <1>2, <2>1, Sizes DEF Stepped
  <2> QED BY <1>1, <1>2, <1>3, <2>1, <2>2, StepLast
<1> QED BY <1>4, <1>5

--------------------
(* Around the batches. *)

\* What stays of a step outside the batches.
LEMMA OutsideBatch ==
  ASSUME SessionInv, ~InBatch, ~InBatch',
         UNCHANGED <<run, round, batch, owner>>
  PROVE  /\ Seen = 1 .. batch /\ Seen' = Seen /\ Old' = Old
         /\ \A k : Own(k)' = Own(k) /\ ServerModel(k)' = ServerModel(k)
         /\ \A i : SeenBy(i)' = SeenBy(i)
         /\ ClientSlices' = ClientSlices /\ ServerSlices' = ServerSlices /\ Top' = Top
         /\ PerClientServer' = PerClientServer /\ Copies' = Copies
         /\ Averages' = Averages /\ CallsBack' = CallsBack
         /\ \A i : ~Stepped(i) /\ ~Stepped(i)' /\ Just(i) = {} /\ Just(i)' = {}
<1>1. \A i : ~Stepped(i) /\ ~Stepped(i)' BY DEF Stepped, InBatch
<1> QED BY <1>1, SameSeen, SameSettings DEF Seen, Just

\* A batch there is makes its client the current one.
LEMMA CurrentFacts ==
  ASSUME Types, RoundInv
  PROVE  /\ batch \in Nat /\ None \notin Client
         /\ current # None <=> batch > 0
         /\ current # None => /\ current \in Client /\ batch \in 1 .. batch
                              /\ owner[batch][2] = current
<1>1. batch \in Nat /\ (batch > 0 => batch \in 1 .. batch /\ owner[batch][2] \in Client)
  BY SeenFacts
<1>2. None \notin Client BY SessionAssumption DEF Client
<1> QED BY <1>1, <1>2 DEF RoundInv

LEMMA BeginEpochInv ==
  ASSUME SessionInv, BeginEpoch PROVE SessionInv'
<1>1. /\ UNCHANGED <<run, round, client, batch, owner, live, states, current,
                     micro, slice, inputs, steps>>
      /\ pc = "epoch" /\ pc' = "next" /\ ~InBatch /\ ~InBatch'
      /\ servers' = [k \in Client |-> None] /\ holder' = None
      /\ first' = IF PerClientServer THEN GetState(live, ServerSlices) ELSE None
      /\ initial' = IF initial = None THEN GetState(live, ClientSlices) ELSE initial
  BY DEF BeginEpoch, batchVars, InBatch
<1>2. /\ Seen = 1 .. batch /\ Seen' = Seen /\ Old' = Old
      /\ \A k : Own(k)' = Own(k) /\ ServerModel(k)' = ServerModel(k)
      /\ \A i : SeenBy(i)' = SeenBy(i)
      /\ ClientSlices' = ClientSlices /\ ServerSlices' = ServerSlices /\ Top' = Top
      /\ PerClientServer' = PerClientServer /\ Copies' = Copies
      /\ \A i : ~Stepped(i) /\ ~Stepped(i)' /\ Just(i) = {} /\ Just(i)' = {}
  BY <1>1, OutsideBatch
<1>3. \A k : Model(k)' = Model(k) /\ Moments(k)' = Moments(k)
  <2>1. \A k : Averaged(k)' <=> Averaged(k) BY <1>1 DEF Averaged
  <2> QED BY <1>1, <2>1, SameModels
<1>4. /\ batch \in Nat /\ None \notin Client
      /\ current # None <=> batch > 0
  BY CurrentFacts DEF SessionInv
<1>5. Whole(live) BY DEF SessionInv, Types
<1>6. /\ StateOK(GetState(live, ServerSlices), ServerSlices) /\ GetState(live, ServerSlices) # None
      /\ \A i \in ServerSlices : GetState(live, ServerSlices)[i] = live[i]
      /\ StateOK(GetState(live, ClientSlices), ClientSlices) /\ GetState(live, ClientSlices) # None
      /\ \A i \in ClientSlices : GetState(live, ClientSlices)[i] = live[i]
  BY <1>5, Sizes, GetStateIs, StateIsThere
<1>7. \A b \in 1 .. batch : owner[b][1] < round BY <1>1 DEF SessionInv, RoundInv
<1>8. Old = Seen BY <1>2, <1>7 DEF Old
<1>9. PICK sel \in Selections : selected' = sel /\ queue' = Turns(sel) BY DEF BeginEpoch
<1>10. \A t \in queue' : t[1] \in DOMAIN selected' BY <1>9 DEF Turns
<1>11. initial' # None /\ StateOK(initial', ClientSlices) BY <1>1, <1>6 DEF SessionInv, Types
<1>12. IsState(initial', {}, {})
  <2>1. CASE initial = None
    <3>1. current = None BY <1>4, <2>1 DEF SessionInv, RoundInv
    <3> QED BY <1>1, <1>6, <2>1, <3>1 DEF SessionInv, Untrained, IsState
  <2>2. CASE initial # None BY <1>1, <2>2 DEF SessionInv, RoundInv
  <2> QED BY <2>1, <2>2
<1>13. Types'
  <2>1. first' = None \/ StateOK(first', ServerSlices) BY <1>1, <1>6
  <2>2. /\ DOMAIN servers' = Client /\ \A k \in Client : servers'[k] = None
        /\ holder' \in Client \cup {None}
    BY <1>1
  <2> QED BY <1>1, <1>2, <1>11, <2>1, <2>2 DEF SessionInv, Types
<1>14. RoundInv'
  BY <1>1, <1>2, <1>4, <1>7, <1>9, <1>10, <1>11, <1>12 DEF SessionInv, RoundInv, IsState
<1>15. Untrained' BY <1>1, <1>2 DEF SessionInv, Untrained, IsState
<1>16. Loaded' BY <1>1, <1>2, <1>3 DEF SessionInv, Loaded, Unloaded
<1>17. Stored' BY <1>1, <1>2, <1>3 DEF SessionInv, Stored, IsState
<1>18. Active' /\ StoredRates' BY <1>1 DEF Active, StoredRates, Resting
<1>19. Reached' BY <1>1, <1>2 DEF SessionInv, Reached
<1>20. Within'
  <2>1. \A i \in Slice : live[i].model \subseteq SeenBy(i) BY <1>2 DEF SessionInv, Within
  <2>2. first' # None => \A i \in ServerSlices : first'[i].model \subseteq SeenBy(i)
    BY <1>1, <1>6, <2>1, Sizes
  <2> QED BY <1>1, <1>2, <2>1, <2>2 DEF SessionInv, Within
<1>21. Shared' BY <1>1, <1>2 DEF SessionInv, Shared
<1>22. Holders' BY <1>1, <1>2, <1>6, <1>8 DEF Holders
<1>23. Swapped'
  <2>1. SUFFICES ASSUME PerClientServer, NEW i \in ServerSlices, i <= Top
        PROVE first'[i].model = Old /\ live[i].model = Old /\ \A k : Own(k) \subseteq Old
    BY <1>1, <1>2 DEF Swapped
  <2>2. live[i].model = Seen BY <1>1, <1>2, <2>1 DEF SessionInv, Shared
  <2> QED BY <1>1, <1>6, <1>8, <2>1, <2>2, ModelFacts
<1>24. LiveRates' BY <1>1, <1>2 DEF SessionInv, LiveRates, Rated
<1>25. Steps' BY <1>1 DEF SessionInv, Steps
<1> QED BY <1>13, <1>14, <1>15, <1>16, <1>17, <1>18, <1>19, <1>20, <1>21, <1>22, <1>23, <1>24, <1>25
        DEF SessionInv

\* What a client's slices leave in the store.
LEMMA SavedIs ==
  ASSUME SessionInv
  PROVE  /\ DOMAIN SavedStates = Client
         /\ \A k \in Client : SavedStates[k] = IF k = current THEN GetState(live, ClientSlices) ELSE states[k]
         /\ \A k \in Client : SavedStates[k] = None \/ StateOK(SavedStates[k], ClientSlices)
         /\ StateOK(GetState(live, ClientSlices), ClientSlices) /\ GetState(live, ClientSlices) # None
         /\ \A i \in ClientSlices : /\ GetState(live, ClientSlices)[i] = live[i]
                                    /\ GetState(live, ClientSlices)[i].opt # None
         /\ SetState(live, GetState(live, ClientSlices)) = live
<1> DEFINE G == GetState(live, ClientSlices)
<1>1. /\ Whole(live) /\ DOMAIN states = Client /\ current \in Client \cup {None}
      /\ \A k \in Client : states[k] = None \/ StateOK(states[k], ClientSlices)
  BY DEF SessionInv, Types
<1>2. StateOK(G, ClientSlices) /\ G # None /\ SetState(live, G) = live
      /\ \A i \in ClientSlices : G[i] = live[i] /\ G[i].opt # None
  BY <1>1, Sizes, GetStateIs, StateIsThere
<1>3. None \notin Client BY CurrentFacts DEF SessionInv
<1> HIDE DEF G
<1>4. SavedStates = IF current = None THEN states ELSE [states EXCEPT ![current] = G]
  BY DEF SavedStates, G
<1>5. /\ DOMAIN SavedStates = Client
      /\ \A k \in Client : SavedStates[k] = IF k = current THEN G ELSE states[k]
  BY <1>1, <1>3, <1>4
<1> QED BY <1>1, <1>2, <1>5 DEF G

\* The client that leaves is stored, and the one that comes gets its own state.
LEMMA SwitchIs ==
  ASSUME SessionInv, pc = "next", NEW k \in Client, k # current, Switch(k), k \in ToSet(selected)
  PROVE  /\ Whole(live') /\ \A i \in ServerSlices : live'[i] = live[i]
         /\ DOMAIN states' = Client
         /\ \A j \in Client : states'[j] = IF j = current THEN GetState(live, ClientSlices) ELSE states[j]
         /\ IsState(live', Model(k), Moments(k))
<1> DEFINE G == GetState(live, ClientSlices)
<1>1. /\ Whole(live) /\ DOMAIN states = Client
      /\ \A j \in Client : states[j] = None \/ StateOK(states[j], ClientSlices)
      /\ initial # None /\ StateOK(initial, ClientSlices) /\ IsState(initial, {}, {})
  BY DEF SessionInv, Types, RoundInv
<1>2. /\ DOMAIN SavedStates = Client
      /\ \A j \in Client : SavedStates[j] = IF j = current THEN G ELSE states[j]
      /\ StateOK(G, ClientSlices) /\ G # None /\ \A i \in ClientSlices : G[i] = live[i]
      /\ SetState(live, G) = live
  BY SavedIs
<1>3. /\ batch \in Nat /\ None \notin Client /\ (current # None <=> batch > 0)
  BY CurrentFacts DEF SessionInv
<1>4. /\ Moments(k) \subseteq Model(k) /\ Model(k) \subseteq Seen /\ Seen = 1 .. batch
      /\ \A i : Just(i) = {} /\ ~Unloaded /\ ~Averaged(k) /\ ~Averaged(current)
  BY ModelFacts DEF Seen, InBatch, Just, Stepped, Unloaded, Averaged
<1> HIDE DEF G
<1>5. CASE current = None
  <2>1. states[k] = None /\ IsState(live, {}, {}) BY <1>5 DEF SessionInv, Untrained
  <2>2. UNCHANGED <<live, states>> BY <1>5, <2>1 DEF Switch
  <2>3. Model(k) = {} /\ Moments(k) = {} BY <1>3, <1>4, <1>5
  <2> QED BY <1>1, <1>3, <1>5, <2>1, <2>2, <2>3 DEF IsState
<1>6. CASE current # None
  <2> DEFINE st == IF run.mode = "sequential" THEN Handoff(G, SavedStates[k])
                   ELSE IF SavedStates[k] # None THEN SavedStates[k] ELSE initial
  <2>1. current \in Client BY <1>6 DEF SessionInv, Types
  <2>2. states' = SavedStates /\ live' = SetState(live, st)
    <3>1. SavedStates[current] = G BY <1>2, <2>1
    <3> QED BY <1>6, <3>1 DEF Switch
  <2>3. SavedStates[k] = states[k] BY <1>2
  <2>4. \A i \in ClientSlices : Is(live[i], Model(current), Moments(current))
    BY <1>4, <1>6 DEF SessionInv, Loaded
  <2>5. CASE Copies
    <3>1. st = G BY <2>5 DEF Copies, Handoff
    <3>2. live' = live BY <1>2, <2>2, <3>1
    <3>3. Model(k) = Model(current) /\ Moments(k) = Moments(current)
      <4>1. Model(k) = Seen /\ Model(current) = Seen BY <2>5 DEF Model
      <4> QED BY <1>4, <4>1 DEF Moments
    <3> HIDE DEF st
    <3> QED BY <1>1, <1>2, <2>2, <2>4, <3>2, <3>3 DEF IsState, G
  <2>6. CASE ~Copies
    <3>1. st = IF states[k] # None THEN states[k] ELSE initial BY <2>3, <2>6 DEF Copies, Handoff
    <3>2. IF states[k] = None THEN Model(k) = {} ELSE IsState(states[k], Model(k), Moments(k))
      BY <2>6 DEF SessionInv, Stored
    <3>3. StateOK(st, ClientSlices) /\ IsState(st, Model(k), Moments(k))
      <4>1. CASE states[k] = None
        <5>1. Model(k) = {} /\ Moments(k) = {} BY <1>4, <3>2, <4>1
        <5> QED BY <1>1, <3>1, <4>1, <5>1
      <4>2. CASE states[k] # None BY <1>1, <3>1, <3>2, <4>2
      <4> QED BY <4>1, <4>2
    <3> HIDE DEF st
    <3>4. SetOver(live', live, st, ClientSlices) BY <1>1, <2>2, <3>3, Sizes, SetStateIs
    <3>5. /\ Whole(live') /\ \A i \in ServerSlices : live'[i] = live[i]
          /\ IsState(live', Model(k), Moments(k))
      BY <3>3, <3>4, Sizes DEF SetOver, IsState, Is
    <3> QED BY <1>2, <2>2, <3>5 DEF G
  <2> QED BY <2>5, <2>6
<1> QED BY <1>5, <1>6

LEMMA NextBatchInv ==
  ASSUME SessionInv, NextBatch PROVE SessionInv'
<1>1. PICK t \in queue :
        LET k == selected[t[1]]
        IN  /\ client' = k /\ queue' = queue \ {t}
            /\ IF k # current THEN Switch(k) ELSE UNCHANGED <<live, states, current>>
            /\ owner' = Append(owner, <<round, k>>)
  BY DEF NextBatch
<1> DEFINE k == selected[t[1]]
<1>2. /\ UNCHANGED <<run, round, selected, initial, servers, holder, first, micro, slice, inputs, steps>>
      /\ pc = "next" /\ pc' = "server" /\ batch' = batch + 1 /\ ~InBatch /\ InBatch'
      /\ client' = k /\ queue' = queue \ {t} /\ owner' = Append(owner, <<round, k>>)
  BY <1>1 DEF NextBatch, serverVars, batchVars, InBatch
<1>3. k \in Client /\ k \in ToSet(selected) /\ k # None
  <2>1. t[1] \in DOMAIN selected /\ selected \in Selections
    BY <1>1, <1>2 DEF SessionInv, RoundInv
  <2>2. k \in ToSet(selected) /\ ToSet(selected) \subseteq Client
    BY <2>1, ExecutorAssumption DEF ToSet
  <2> QED BY <2>2, CurrentFacts DEF SessionInv
<1>4. k # current => Switch(k) BY <1>1
<1>5. k = current => UNCHANGED <<live, states, current>> BY <1>1
<1> HIDE DEF k
<1>6. current' = k BY <1>4, <1>5 DEF Switch
<1>7. /\ batch \in Nat /\ owner \in Seq(Nat \X Client) /\ Len(owner) = batch /\ round \in Nat
      /\ Seen = 1 .. batch
  BY SeenFacts, <1>2 DEF SessionInv, Types
<1>8. /\ owner' \in Seq(Nat \X Client) /\ Len(owner') = batch' /\ batch' \in Nat
      /\ \A b \in 1 .. batch : owner'[b] = owner[b]
      /\ owner'[batch'] = <<round, k>>
  BY <1>2, <1>3, <1>7, AppendProperties
<1>9. Seen' = Seen BY <1>2, <1>7 DEF Seen
<1>10. Old' = Old /\ \A j : Own(j)' = Own(j) BY <1>2, <1>7, <1>8, <1>9 DEF Old, Own
<1>11. /\ ClientSlices' = ClientSlices /\ ServerSlices' = ServerSlices /\ Top' = Top
       /\ PerClientServer' = PerClientServer /\ Copies' = Copies /\ Averages' = Averages
  BY <1>2, SameSettings
<1>12. \A i : ~Stepped(i) /\ ~Stepped(i)' /\ Just(i) = {} /\ Just(i)' = {}
  BY <1>2 DEF Stepped, Just
<1>13. \A j : ServerModel(j)' = ServerModel(j) /\ Model(j)' = Model(j) /\ Moments(j)' = Moments(j)
             /\ SeenBy(j)' = SeenBy(j)
  <2>1. \A j : ~Averaged(j) /\ ~Averaged(j)' BY <1>2 DEF Averaged
  <2>2. \A j : Model(j)' = Model(j) BY <1>9, <1>10, <1>11, <2>1 DEF Model
  <2> QED BY <1>9, <1>10, <1>11, <2>1, <2>2 DEF ServerModel, Moments, SeenBy
<1>14. /\ Whole(live') /\ \A i \in ServerSlices : live'[i] = live[i]
       /\ DOMAIN states' = Client
       /\ IsState(live', Model(k), Moments(k))
       /\ \A j \in Client : states'[j] = IF j = current /\ k # current THEN GetState(live, ClientSlices) ELSE states[j]
  <2>1. CASE k = current
    <3>1. IsState(live, Model(k), Moments(k))
      BY <1>2, <1>3, <1>12, <2>1 DEF SessionInv, Loaded, Unloaded, IsState
    <3>2. Whole(live) /\ DOMAIN states = Client BY DEF SessionInv, Types
    <3>3. UNCHANGED <<live, states>> BY <1>5, <2>1
    <3> QED BY <2>1, <3>1, <3>2, <3>3
  <2>2. CASE k # current BY <1>2, <1>3, <1>4, <2>2, SwitchIs
  <2> QED BY <2>1, <2>2
<1>15. /\ StateOK(GetState(live, ClientSlices), ClientSlices) /\ GetState(live, ClientSlices) # None
       /\ \A i \in ClientSlices : GetState(live, ClientSlices)[i] = live[i]
  BY SavedIs
<1>16. Types'
  <2>1. \A j \in Client : states'[j] = None \/ StateOK(states'[j], ClientSlices)
    BY <1>14, <1>15 DEF SessionInv, Types
  <2> QED BY <1>2, <1>3, <1>6, <1>8, <1>11, <1>14, <2>1 DEF SessionInv, Types
<1>17. RoundInv'
  <2>1. /\ \A b \in 1 .. batch : owner[b][1] <= round /\ (owner[b][1] < round \/ owner[b][2] \in ToSet(selected))
        /\ selected \in Selections /\ \A u \in queue : u[1] \in DOMAIN selected
        /\ initial # None /\ IsState(initial, {}, {}) /\ round <= MaxRounds
    BY <1>2 DEF SessionInv, RoundInv
  <2>2. \A b \in 1 .. batch' : owner'[b][1] <= round /\ (owner'[b][1] < round \/ owner'[b][2] \in ToSet(selected))
    <3> SUFFICES ASSUME NEW b \in 1 .. batch'
                 PROVE  owner'[b][1] <= round /\ (owner'[b][1] < round \/ owner'[b][2] \in ToSet(selected))
      OBVIOUS
    <3>1. CASE b = batch' BY <1>3, <1>7, <1>8, <3>1
    <3>2. CASE b # batch'
      <4>1. b \in 1 .. batch BY <1>2, <1>7, <3>2
      <4> QED BY <1>8, <2>1, <4>1
    <3> QED BY <3>1, <3>2
  <2>3. batch' > 0 /\ owner'[batch'][1] = round /\ owner'[batch'][2] = k BY <1>2, <1>7, <1>8
  <2>4. batch' # 0 /\ \A u \in queue' : u[1] \in DOMAIN selected BY <1>2, <1>7, <2>1
  <2>5. ClientSlices' = ClientSlices /\ selected' = selected /\ round' = round /\ initial' = initial
    BY <1>2, <1>11
  <2>6. pc' = "server" /\ client' = k /\ current' = k BY <1>2, <1>6
  <2> QED BY <1>3, <2>1, <2>2, <2>3, <2>4, <2>5, <2>6 DEF RoundInv, IsState
<1>18. Untrained' /\ Active' /\ StoredRates' /\ LiveRates'
  BY <1>2, <1>3, <1>6 DEF Untrained, Active, StoredRates, Resting, LiveRates
<1>19. Loaded'
  <2>1. \A i \in ClientSlices : Is(live'[i], Model(k), Moments(k)) BY <1>14 DEF IsState
  <2>2. \A i \in ClientSlices : Is(live'[i], Model(current)', Moments(current)')
    BY <1>6, <1>13, <2>1
  <2>3. \A M : M \cup {} = M OBVIOUS
  <2> QED BY <1>11, <1>12, <2>2, <2>3 DEF Loaded
<1>20. Stored'
  <2>1. SUFFICES ASSUME ~Copies, NEW j \in Client, j # k
        PROVE  IF states'[j] = None THEN Model(j) = {} ELSE IsState(states'[j], Model(j), Moments(j))
    BY <1>6, <1>11, <1>13 DEF Stored, IsState
  <2>2. CASE j = current
    <3>1. \A i \in ClientSlices : Is(live[i], Model(j), Moments(j))
      BY <1>2, <1>12, <2>2, CurrentFacts DEF SessionInv, Loaded, Unloaded
    <3> QED BY <1>14, <1>15, <2>1, <2>2, <3>1 DEF IsState
  <2>3. CASE j # current BY <1>14, <2>1, <2>3 DEF SessionInv, Stored
  <2> QED BY <2>2, <2>3
<1>21. Reached' BY <1>2, <1>3, <1>6 DEF Reached
<1>22. Within'
  <2>1. \A i \in ClientSlices : SeenBy(i) = Seen BY Sizes DEF SeenBy
  <2>2. \A i \in Slice : live[i].model \subseteq SeenBy(i) BY <1>12 DEF SessionInv, Within
  <2>3. \A i \in Slice : live'[i].model \subseteq SeenBy(i)
    BY <1>14, <2>1, <2>2, Sizes, ModelFacts DEF IsState, Is
  <2>4. \A j \in Client : states'[j] # None => \A i \in ClientSlices : states'[j][i].model \subseteq SeenBy(i)
    BY <1>14, <1>15, <2>2, Sizes DEF SessionInv, Within
  <2> QED BY <1>2, <1>11, <1>12, <1>13, <2>3, <2>4 DEF SessionInv, Within
<1>23. Shared' BY <1>2, <1>9, <1>11, <1>12, <1>14 DEF SessionInv, Shared
<1>24. Holders' BY <1>2, <1>9, <1>10, <1>11 DEF SessionInv, Holders
<1>25. Swapped' BY <1>2, <1>10, <1>11, <1>12, <1>13, <1>14 DEF SessionInv, Swapped
<1>26. Steps' BY <1>2, <1>7, <1>12 DEF SessionInv, Steps
<1> QED BY <1>16, <1>17, <1>18, <1>19, <1>20, <1>21, <1>22, <1>23, <1>24, <1>25, <1>26 DEF SessionInv

\* The store and the live slices together hold what was trained, and an average of the
\* states of all the clients of a parallel session is all of it.
LEMMA CallbackIs ==
  ASSUME SessionInv, pc = "next", CallsBack, current # None
  PROVE  /\ DOMAIN CallbackStates = Client
         /\ \A k \in Client :
              /\ CallbackStates[k] # None /\ StateOK(CallbackStates[k], ClientSlices)
              /\ \A i \in ClientSlices : /\ CallbackStates[k][i].model = Seen
                                         /\ CallbackStates[k][i].opt = None
                                         /\ MomentsOf(CallbackStates[k][i]) = {}
<1> DEFINE all == [k \in Client |-> IF SavedStates[k] # None THEN SavedStates[k] ELSE initial]
           A == {all[k] : k \in Client}
           G == GetState(live, ClientSlices)
<1>1. CallbackStates = [k \in Client |-> fedavg(A)] BY DEF CallbackStates, CallsBack
<1>2. /\ initial # None /\ StateOK(initial, ClientSlices) /\ IsState(initial, {}, {})
      /\ current \in Client /\ ~Copies /\ Seen = 1 .. batch
      /\ \A i : Just(i) = {} /\ ~Unloaded
  <2>1. initial # None /\ StateOK(initial, ClientSlices) /\ IsState(initial, {}, {}) /\ current \in Client
    BY DEF SessionInv, Types, RoundInv
  <2> QED BY <2>1 DEF Copies, CallsBack, Seen, InBatch, Just, Stepped, Unloaded
<1>3. /\ \A k \in Client : SavedStates[k] = IF k = current THEN G ELSE states[k]
      /\ \A k \in Client : SavedStates[k] = None \/ StateOK(SavedStates[k], ClientSlices)
      /\ G # None /\ \A i \in ClientSlices : G[i] = live[i]
  BY SavedIs
<1> HIDE DEF G
<1>4. ASSUME NEW k \in Client
      PROVE  /\ all[k] # None /\ StateOK(all[k], ClientSlices)
             /\ \A i \in ClientSlices : all[k][i].model = Model(k)
  <2>1. all[k] = IF SavedStates[k] # None THEN SavedStates[k] ELSE initial OBVIOUS
  <2>2. all[k] # None /\ StateOK(all[k], ClientSlices) BY <1>2, <1>3, <2>1
  <2>3. CASE k = current BY <1>2, <1>3, <2>1, <2>3 DEF SessionInv, Loaded, Is
  <2>4. CASE k # current /\ states[k] # None
    <3>1. IsState(states[k], Model(k), Moments(k)) BY <1>2, <2>4 DEF SessionInv, Stored
    <3> QED BY <1>3, <2>1, <2>2, <2>4, <3>1 DEF IsState, Is
  <2>5. CASE k # current /\ states[k] = None
    <3>1. Model(k) = {} BY <1>2, <2>5 DEF SessionInv, Stored
    <3> QED BY <1>2, <1>3, <2>1, <2>2, <2>5, <3>1 DEF IsState, Is
  <2> QED BY <2>2, <2>3, <2>4, <2>5
<1> HIDE DEF all
<1>5. /\ \A s \in A : s # None /\ StateOK(s, ClientSlices)
      /\ all[current] \in A
  BY <1>2, <1>4
<1>6. ~(A \subseteq {None}) /\ ClientSlices \in SUBSET Slice BY <1>5, Sizes
<1>7. /\ fedavg(A) # None /\ StateOK(fedavg(A), ClientSlices)
      /\ \A i \in ClientSlices : /\ fedavg(A)[i].opt = None /\ MomentsOf(fedavg(A)[i]) = {}
                                 /\ fedavg(A)[i].model = UNION {s[i].model : s \in A \ {None}}
  <2> HIDE DEF A
  <2>1. \A s \in A : s = None \/ StateOK(s, ClientSlices) BY <1>5
  <2>2. fedavg(A) # None BY <1>6, <2>1, FedavgIs
  <2> QED BY <1>6, <2>1, <2>2, FedavgIs
<1>8. ASSUME NEW i \in ClientSlices PROVE UNION {s[i].model : s \in A \ {None}} = Seen
  <2>1. ASSUME NEW b \in Seen PROVE b \in UNION {s[i].model : s \in A \ {None}}
    <3>1. owner[b][2] \in Client BY <1>2, <2>1, SeenFacts DEF SessionInv
    <3>2. b \in Own(owner[b][2]) BY <2>1 DEF Own
    <3>3. Own(owner[b][2]) \subseteq Model(owner[b][2]) BY <1>2, ModelFacts DEF Model
    <3>4. all[owner[b][2]] \in A \ {None} /\ b \in all[owner[b][2]][i].model
      BY <1>4, <3>1, <3>2, <3>3
    <3> QED BY <3>4
  <2>2. ASSUME NEW s \in A PROVE s[i].model \subseteq Seen
    <3>1. PICK k \in Client : s = all[k] OBVIOUS
    <3> QED BY <1>4, <3>1, ModelFacts
  <2> QED BY <2>1, <2>2
<1> QED BY <1>1, <1>7, <1>8

LEMMA EndBatchesInv ==
  ASSUME SessionInv, EndBatches PROVE SessionInv'
<1>1. /\ UNCHANGED <<run, round, selected, queue, client, batch, owner, current, initial,
                     servers, holder, first, micro, slice, inputs, steps>>
      /\ pc = "next" /\ pc' = "finish" /\ ~InBatch /\ ~InBatch' /\ EndOfBatches
  BY DEF EndBatches, loopVars, serverVars, batchVars, InBatch
<1>2. /\ Seen = 1 .. batch /\ Seen' = Seen /\ Old' = Old
      /\ \A k : Own(k)' = Own(k) /\ ServerModel(k)' = ServerModel(k)
      /\ \A i : SeenBy(i)' = SeenBy(i)
      /\ ClientSlices' = ClientSlices /\ ServerSlices' = ServerSlices /\ Top' = Top
      /\ PerClientServer' = PerClientServer /\ Copies' = Copies /\ CallsBack' = CallsBack
      /\ \A i : ~Stepped(i) /\ ~Stepped(i)' /\ Just(i) = {} /\ Just(i)' = {}
  BY <1>1, OutsideBatch
<1>3. /\ batch \in Nat /\ None \notin Client
      /\ current # None <=> batch > 0
      /\ current # None => /\ current \in Client /\ batch \in 1 .. batch /\ owner[batch][2] = current
  BY CurrentFacts DEF SessionInv
<1>4. /\ Whole(live) /\ DOMAIN states = Client
      /\ \A k \in Client : states[k] = None \/ StateOK(states[k], ClientSlices)
      /\ current # None => \A i \in ClientSlices : Is(live[i], Model(current), Moments(current))
      /\ ~Copies => \A k \in Client \ {current} :
           IF states[k] = None THEN Model(k) = {} ELSE IsState(states[k], Model(k), Moments(k))
  <2>1. current # None => \A i \in ClientSlices : Is(live[i], Model(current), Moments(current))
    BY <1>1, <1>2 DEF SessionInv, Loaded, Unloaded
  <2> QED BY <2>1 DEF SessionInv, Types, Stored
<1> DEFINE G == GetState(live, ClientSlices)
<1>5. \* What the session's step leaves: the live slices and the store of the round.
      /\ Whole(live') /\ \A i \in ServerSlices : live'[i] = live[i]
      /\ DOMAIN states' = Client
      /\ \A k \in Client : states'[k] = None \/ StateOK(states'[k], ClientSlices)
      /\ current = None => live' = live /\ states' = states
      /\ Copies => states' = states
      /\ current # None => \A i \in ClientSlices : Is(live'[i], Model(current)', Moments(current)')
      /\ current # None /\ ~Copies => \A k \in Client \ {current} :
           IF states'[k] = None THEN Model(k)' = {} ELSE IsState(states'[k], Model(k)', Moments(k)')
      /\ \A i \in ClientSlices : live'[i].opt.lr = live[i].opt.lr
      /\ \A k \in Client : states'[k] # None => \A i \in ClientSlices : states'[k][i].model \subseteq Seen
  <2>0. \A k \in Client : states[k] # None => \A i \in ClientSlices : states[k][i].model \subseteq Seen
    BY Sizes, ModelFacts DEF SessionInv, Within, SeenBy
  <2>1. CASE CallsBack /\ current # None
    <3> DEFINE avg == CallbackStates[current]
    <3>1. states' = CallbackStates /\ live' = SetState(live, avg)
      BY <1>1, <2>1 DEF EndOfBatches, CallsBack
    <3>2. /\ DOMAIN states' = Client
          /\ \A k \in Client :
               /\ states'[k] # None /\ StateOK(states'[k], ClientSlices)
               /\ \A i \in ClientSlices : /\ states'[k][i].model = Seen /\ states'[k][i].opt = None
                                          /\ MomentsOf(states'[k][i]) = {}
      BY <1>1, <2>1, <3>1, CallbackIs
    <3>3. \A k : Model(k)' = Seen /\ Moments(k)' = {}
      BY <1>1, <1>2, <2>1 DEF Model, Moments, Averaged
    <3>4. avg = states'[current] BY <3>1
    <3> HIDE DEF avg
    <3>5. SetOver(live', live, avg, ClientSlices)
      BY <1>3, <1>4, <2>1, <3>1, <3>2, <3>4, Sizes, SetStateIs
    <3>6. /\ Whole(live') /\ \A i \in ServerSlices : live'[i] = live[i]
          /\ \A i \in ClientSlices : /\ live'[i].model = Seen /\ MomentsOf(live'[i]) = {}
                                     /\ live'[i].opt.lr = live[i].opt.lr
      <4>1. \A i \in ClientSlices : avg[i].model = Seen /\ avg[i].opt = None /\ MomentsOf(avg[i]) = {}
        BY <1>3, <2>1, <3>2, <3>4
      <4>2. \A i \in ServerSlices : i \in Slice \ ClientSlices BY Sizes
      <4> QED BY <3>5, <4>1, <4>2 DEF SetOver
    <3>7. ~Copies BY <2>1 DEF Copies, CallsBack
    <3>8. Model(current)' = Seen /\ Moments(current)' = {} BY <1>1, <3>3
    <3> QED BY <2>1, <3>2, <3>3, <3>6, <3>7, <3>8 DEF Is, IsState
  <2>2. CASE ~CallsBack
    <3>1. \A k : Model(k)' = Model(k) /\ Moments(k)' = Moments(k)
      <4>1. \A k : Averaged(k)' <=> Averaged(k) BY <1>1, <1>2, <2>2 DEF Averaged
      <4> QED BY <1>1, <4>1, SameModels
    <3>2. Model(current)' = Model(current) /\ Moments(current)' = Moments(current) BY <1>1, <3>1
    <3>3. CASE run.mode = "parallel" /\ current # None
      <4>1. states' = SavedStates /\ live' = SetState(live, states'[current])
        BY <1>1, <2>2, <3>3 DEF EndOfBatches, CallbackStates, CallsBack
      <4>2. /\ DOMAIN SavedStates = Client
            /\ \A k \in Client : SavedStates[k] = IF k = current THEN G ELSE states[k]
            /\ StateOK(G, ClientSlices) /\ G # None /\ \A i \in ClientSlices : G[i] = live[i]
            /\ SetState(live, G) = live
        BY SavedIs
      <4> HIDE DEF G
      <4>3. live' = live BY <1>3, <3>3, <4>1, <4>2
      <4>4. ~Copies BY <3>3 DEF Copies
      <4>5. \A i \in ClientSlices : G[i].model \subseteq Seen
        BY <1>4, <3>3, <4>2, ModelFacts DEF Is
      <4> QED BY <1>4, <2>0, <3>1, <3>2, <3>3, <4>1, <4>2, <4>3, <4>4, <4>5
    <3>4. CASE ~(run.mode = "parallel" /\ current # None)
      <4>1. states' = states /\ live' = live BY <1>1, <3>4 DEF EndOfBatches
      <4> QED BY <1>4, <2>0, <3>1, <3>2, <4>1
    <3> QED BY <3>3, <3>4
  <2>3. CASE current = None
    <3>1. states' = states /\ live' = live BY <1>1, <2>3 DEF EndOfBatches
    <3> QED BY <1>4, <2>0, <2>3, <3>1
  <2> QED BY <2>1, <2>2, <2>3
<1>6. Types' BY <1>1, <1>2, <1>5 DEF SessionInv, Types
<1>7. RoundInv' BY <1>1, <1>2 DEF SessionInv, RoundInv, IsState
<1>8. Untrained' BY <1>1, <1>2, <1>5 DEF SessionInv, Untrained, IsState
<1>9. Loaded'
  <2>1. \A M : M \cup {} = M OBVIOUS
  <2> QED BY <1>1, <1>2, <1>5, <2>1 DEF Loaded
<1>10. Stored'
  <2>1. SUFFICES ASSUME ~Copies, NEW k \in Client, k # current
        PROVE  IF states'[k] = None THEN Model(k)' = {} ELSE IsState(states'[k], Model(k)', Moments(k)')
    BY <1>1, <1>2 DEF Stored, IsState
  <2>2. CASE current = None
    <3>1. states'[k] = None BY <1>5, <2>2 DEF SessionInv, Untrained
    <3>2. Model(k)' \subseteq Seen' BY <1>2 DEF Model, Own, Old
    <3>3. Seen' = {} BY <1>2, <1>3, <2>2
    <3> QED BY <3>1, <3>2, <3>3
  <2>3. CASE current # None BY <1>5, <2>1, <2>3
  <2> QED BY <2>2, <2>3
<1>11. Active' /\ StoredRates' BY <1>1 DEF Active, StoredRates, Resting
<1>12. Reached'
  <2>1. SUFFICES ASSUME run.algorithm # "default", current # None, Copies, current \notin ToSet(selected)
        PROVE  \A k \in Client : states'[k] # None /\ \A i \in ClientSlices : states'[k][i].model = Seen
    BY <1>1, <1>2 DEF Reached
  <2> QED BY <1>5, <2>1 DEF SessionInv, Reached
<1>13. Within'
  <2>1. \A i \in ClientSlices : SeenBy(i) = Seen BY Sizes DEF SeenBy
  <2>2. \A i \in Slice : live[i].model \subseteq SeenBy(i) BY <1>2 DEF SessionInv, Within
  <2>3. \A i \in Slice : live'[i].model \subseteq SeenBy(i)
    <3>1. CASE current = None BY <1>5, <2>2, <3>1
    <3>2. CASE current # None
      <4>1. Model(current)' \subseteq Seen
        <5>1. \A k : Model(k)' \subseteq Seen' BY <1>2 DEF Model, Own, Old
        <5> QED BY <1>1, <1>2, <5>1
      <4> QED BY <1>5, <2>1, <2>2, <3>2, <4>1, Sizes DEF Is
    <3> QED BY <3>1, <3>2
  <2> QED BY <1>1, <1>2, <1>5, <2>1, <2>3 DEF SessionInv, Within
<1>14. Shared' BY <1>1, <1>2, <1>5 DEF SessionInv, Shared
<1>15. Holders' BY <1>1, <1>2 DEF SessionInv, Holders
<1>16. Swapped' BY <1>1, <1>2, <1>5 DEF SessionInv, Swapped
<1>17. LiveRates'
  <2>1. ASSUME NEW i \in Slice, batch \in live'[i].model PROVE live'[i].opt.lr = <<steps[i] - 1>>
    <3>1. batch \in live[i].model => live[i].opt.lr = <<steps[i] - 1>>
      BY <1>1 DEF SessionInv, LiveRates, Rated
    <3>2. CASE i \in ServerSlices BY <1>5, <2>1, <3>1, <3>2
    <3>3. CASE i \in ClientSlices
      <4>1. CASE current = None BY <1>5, <2>1, <3>1, <4>1
      <4>2. CASE current # None
        <5>1. batch \in Model(current) BY <1>2, <1>3, <4>2 DEF Model, Own
        <5> QED BY <1>4, <1>5, <3>1, <3>3, <4>2, <5>1 DEF Is
      <4> QED BY <4>1, <4>2
    <3> QED BY <3>2, <3>3, Sizes
  <2> QED BY <1>1, <1>2, <2>1 DEF LiveRates, Rated
<1>18. Steps' BY <1>1 DEF SessionInv, Steps
<1> QED BY <1>6, <1>7, <1>8, <1>9, <1>10, <1>11, <1>12, <1>13, <1>14, <1>15, <1>16, <1>17, <1>18 DEF SessionInv

LEMMA FinishInv ==
  ASSUME SessionInv, Finish PROVE SessionInv'
<1> DEFINE G == GetState(live, ClientSlices)
           GS == GetState(live, ServerSlices)
<1>1. /\ UNCHANGED <<run, round, selected, queue, client, batch, owner, live, current, initial,
                     holder, first, micro, slice, inputs, steps>>
      /\ pc = "finish" /\ pc' = "round_end" /\ ~InBatch /\ ~InBatch'
      /\ states' = SavedStates
      /\ servers' = IF holder = None THEN servers ELSE [servers EXCEPT ![holder] = GS]
  BY DEF Finish, loopVars, batchVars, InBatch
<1>2. /\ Seen = 1 .. batch /\ Seen' = Seen /\ Old' = Old
      /\ \A k : Own(k)' = Own(k) /\ ServerModel(k)' = ServerModel(k)
      /\ \A i : SeenBy(i)' = SeenBy(i)
      /\ ClientSlices' = ClientSlices /\ ServerSlices' = ServerSlices /\ Top' = Top
      /\ PerClientServer' = PerClientServer /\ Copies' = Copies /\ CallsBack' = CallsBack
      /\ \A i : ~Stepped(i) /\ ~Stepped(i)' /\ Just(i) = {} /\ Just(i)' = {}
  BY <1>1, OutsideBatch
<1>3. \A k : Model(k)' = Model(k) /\ Moments(k)' = Moments(k)
  <2>1. \A k : Averaged(k)' <=> Averaged(k) BY <1>1, <1>2 DEF Averaged
  <2> QED BY <1>1, <2>1, SameModels
<1>4. Model(current)' = Model(current) /\ Moments(current)' = Moments(current) BY <1>1, <1>3
<1>5. /\ None \notin Client /\ (current # None => current \in Client)
      /\ Whole(live) /\ holder \in Client \cup {None} /\ DOMAIN servers = Client
  BY CurrentFacts DEF SessionInv, Types
<1>6. /\ DOMAIN states' = Client
      /\ \A k \in Client : states'[k] = IF k = current THEN G ELSE states[k]
      /\ \A k \in Client : states'[k] = None \/ StateOK(states'[k], ClientSlices)
      /\ StateOK(G, ClientSlices) /\ G # None
      /\ \A i \in ClientSlices : G[i] = live[i] /\ G[i].opt # None
      /\ SetState(live, G) = live
  BY <1>1, SavedIs
<1>7. StateOK(GS, ServerSlices) /\ GS # None /\ \A i \in ServerSlices : GS[i] = live[i]
  BY <1>5, Sizes, GetStateIs, StateIsThere
<1> HIDE DEF G, GS
<1>8. /\ DOMAIN servers' = Client
      /\ \A k \in Client : servers'[k] = IF k = holder THEN GS ELSE servers[k]
  BY <1>1, <1>5
<1>9. current # None => \A i \in ClientSlices : Is(live[i], Model(current), Moments(current))
  BY <1>1, <1>2 DEF SessionInv, Loaded, Unloaded
<1>10. Types'
  <2>1. \A k \in Client : servers'[k] = None \/ StateOK(servers'[k], ServerSlices)
    BY <1>7, <1>8 DEF SessionInv, Types
  <2> QED BY <1>1, <1>2, <1>6, <1>8, <2>1 DEF SessionInv, Types
<1>11. RoundInv' BY <1>1, <1>2 DEF SessionInv, RoundInv, IsState
<1>12. Untrained' BY <1>1, <1>2, <1>5, <1>6 DEF SessionInv, Untrained, IsState
<1>13. Loaded' BY <1>1, <1>2, <1>4 DEF SessionInv, Loaded, Unloaded
<1>14. Stored' BY <1>1, <1>2, <1>3, <1>6 DEF SessionInv, Stored, IsState
<1>15. Active'
  <2>1. SUFFICES ASSUME current # None
        PROVE  states'[current] # None /\ IsState(states'[current], Model(current), Moments(current))
               /\ SetState(live, states'[current]) = live
    BY <1>1, <1>2, <1>4 DEF Active, IsState
  <2>2. states'[current] = G BY <1>5, <1>6, <2>1
  <2> QED BY <1>6, <1>9, <2>1, <2>2 DEF IsState
<1>16. Reached'
  <2>1. SUFFICES ASSUME run.algorithm # "default", current # None, Copies, current \notin ToSet(selected)
        PROVE  \A k \in Client : states'[k] # None /\ \A i \in ClientSlices : states'[k][i].model = Seen
    BY <1>1, <1>2 DEF Reached
  <2>2. \A k \in Client : states[k] # None /\ \A i \in ClientSlices : states[k][i].model = Seen
    BY <2>1 DEF SessionInv, Reached
  <2>3. Model(current) = Seen BY <2>1 DEF Model
  <2> QED BY <1>6, <1>9, <2>1, <2>2, <2>3 DEF Is
<1>17. Within'
  <2>1. \A i \in Slice : live[i].model \subseteq SeenBy(i) BY <1>2 DEF SessionInv, Within
  <2>2. \A k \in Client : states'[k] # None => \A i \in ClientSlices : states'[k][i].model \subseteq SeenBy(i)
    BY <1>6, <2>1, Sizes DEF SessionInv, Within
  <2>3. \A k \in Client : servers'[k] # None => \A i \in ServerSlices : servers'[k][i].model \subseteq SeenBy(i)
    BY <1>7, <1>8, <2>1, Sizes DEF SessionInv, Within
  <2> QED BY <1>1, <1>2, <2>1, <2>2, <2>3 DEF SessionInv, Within
<1>18. Shared' BY <1>1, <1>2 DEF SessionInv, Shared
<1>19. Holders' BY <1>1, <1>2, <1>5, <1>7, <1>8 DEF SessionInv, Holders
<1>20. Swapped'
  <2>1. SUFFICES ASSUME PerClientServer, NEW i \in ServerSlices, i <= Top
        PROVE  /\ first[i].model = Old
               /\ live[i].model = (IF holder = None THEN Old ELSE ServerModel(holder))
               /\ \A k \in Client :
                    IF servers'[k] = None THEN Own(k) \subseteq Old ELSE servers'[k][i].model = ServerModel(k)
    BY <1>1, <1>2 DEF Swapped
  <2>2. /\ first[i].model = Old
        /\ live[i].model = (IF holder = None THEN Old ELSE ServerModel(holder))
        /\ \A k \in Client : k # holder =>
             IF servers[k] = None THEN Own(k) \subseteq Old ELSE servers[k][i].model = ServerModel(k)
    BY <1>1, <1>2, <2>1 DEF SessionInv, Swapped
  <2> QED BY <1>5, <1>7, <1>8, <2>1, <2>2
<1>21. LiveRates' BY <1>1, <1>2 DEF SessionInv, LiveRates, Rated
<1>22. StoredRates'
  <2>1. SUFFICES ASSUME current # None, run.algorithm = "default", NEW i \in ClientSlices
        PROVE  /\ states'[current][i].opt # None
               /\ batch \in states'[current][i].model => states'[current][i].opt.lr = <<steps[i] - 1>>
    BY <1>1, <1>2 DEF StoredRates, Rated
  <2>2. states'[current][i] = live[i] /\ live[i].opt # None BY <1>5, <1>6, <2>1
  <2>3. batch \in live[i].model => live[i].opt.lr = <<steps[i] - 1>>
    BY <1>1, Sizes DEF SessionInv, LiveRates, Rated
  <2> QED BY <2>2, <2>3
<1>23. Steps' BY <1>1 DEF SessionInv, Steps
<1> QED BY <1>10, <1>11, <1>12, <1>13, <1>14, <1>15, <1>16, <1>17, <1>18, <1>19, <1>20, <1>21, <1>22, <1>23
        DEF SessionInv

\* An average over the round's participants is everything that was trained: the others
\* trained nothing in this round.
LEMMA RoundAverage ==
  ASSUME SessionInv, pc \in {"round_end", "aggregate"}, run.algorithm # "default"
  PROVE  LET avg == fedavg(StatesOf(selected)) IN
         /\ current = None => avg = None
         /\ current # None =>
              /\ avg # None /\ StateOK(avg, ClientSlices)
              /\ \A i \in ClientSlices : /\ avg[i].model = Seen /\ avg[i].opt = None
                                         /\ MomentsOf(avg[i]) = {}
<1> DEFINE A == StatesOf(selected)
<1>1. /\ selected \in Selections /\ ToSet(selected) \subseteq Client /\ ToSet(selected) # {}
      /\ \A b \in 1 .. batch : owner[b][1] < round \/ owner[b][2] \in ToSet(selected)
      /\ Seen = 1 .. batch /\ ~Unloaded /\ Resting
      /\ \A k \in Client : states[k] = None \/ StateOK(states[k], ClientSlices)
  BY ExecutorAssumption DEF SessionInv, RoundInv, Types, Seen, InBatch, Unloaded, Resting
<1>2. /\ batch \in Nat /\ None \notin Client
      /\ current # None => current \in Client /\ batch \in 1 .. batch
  BY CurrentFacts DEF SessionInv
<1>3. A = {states[k] : k \in ToSet(selected)} BY DEF StatesOf
<1>4. \A s \in A : s = None \/ StateOK(s, ClientSlices) BY <1>1, <1>3
<1>5. CASE current = None
  <2>1. \A k \in Client : states[k] = None BY <1>5 DEF SessionInv, Untrained
  <2>2. A \subseteq {None} BY <1>1, <1>3, <2>1
  <2> HIDE DEF A
  <2>3. fedavg(A) = None BY <1>4, <2>2, Sizes, FedavgIs
  <2> QED BY <1>5, <2>3 DEF A
<1>6. CASE current # None
  <2>1. \A k \in Client : states[k] # None => \A i \in ClientSlices : states[k][i].model \subseteq Seen
    BY ModelFacts DEF SessionInv, Within
  <2>2. \* Whatever was trained is in a participant's state.
        ASSUME NEW b \in Seen, NEW i \in ClientSlices
        PROVE  \E k \in ToSet(selected) : states[k] # None /\ b \in states[k][i].model
    <3>1. CASE ~Copies
      <4>1. \A k \in Client : IF states[k] = None THEN Model(k) = {} ELSE states[k][i].model = Model(k)
        BY <1>1, <1>6, <3>1 DEF SessionInv, Stored, Active, IsState, Is
      <4>2. \A k : Own(k) \cup Old \subseteq Model(k) BY <3>1, ModelFacts DEF Model, Averages
      <4>3. PICK k \in ToSet(selected) : b \in Own(k) \cup Old
        <5>1. CASE owner[b][1] < round
          <6>1. b \in Old BY <5>1 DEF Old
          <6> QED BY <1>1, <6>1
        <5>2. CASE owner[b][2] \in ToSet(selected)
          <6>1. b \in Own(owner[b][2]) BY DEF Own
          <6> QED BY <5>2, <6>1
        <5> QED BY <1>1, <5>1, <5>2
      <4> QED BY <1>1, <4>1, <4>2, <4>3
    <3>2. CASE Copies /\ current \in ToSet(selected)
      <4>1. states[current] # None /\ states[current][i].model = Model(current)
        BY <1>1, <1>6 DEF SessionInv, Active, IsState, Is
      <4>2. Model(current) = Seen BY <3>2 DEF Model
      <4> QED BY <3>2, <4>1, <4>2
    <3>3. CASE Copies /\ current \notin ToSet(selected)
      <4>1. \A k \in Client : states[k] # None /\ states[k][i].model = Seen
        BY <1>6, <3>3 DEF SessionInv, Reached
      <4> QED BY <1>1, <4>1
    <3> QED BY <3>1, <3>2, <3>3
  <2>3. ~(A \subseteq {None})
    <3>1. batch \in Seen /\ 0 \in ClientSlices BY <1>1, <1>2, <1>6, Sizes
    <3>2. PICK k \in ToSet(selected) : states[k] # None BY <2>2, <3>1
    <3>3. states[k] \in A BY <1>3, <3>2
    <3> HIDE DEF A
    <3> QED BY <3>2, <3>3
  <2>4. ASSUME NEW i \in ClientSlices PROVE UNION {s[i].model : s \in A \ {None}} = Seen
    <3>1. ASSUME NEW b \in Seen PROVE b \in UNION {s[i].model : s \in A \ {None}}
      <4>1. PICK k \in ToSet(selected) : states[k] # None /\ b \in states[k][i].model BY <2>2
      <4>2. states[k] \in A \ {None} BY <1>3, <4>1
      <4> HIDE DEF A
      <4> QED BY <4>1, <4>2
    <3>2. ASSUME NEW s \in A \ {None} PROVE s[i].model \subseteq Seen
      BY <1>1, <1>3, <2>1
    <3> HIDE DEF A
    <3> QED BY <3>1, <3>2
  <2> HIDE DEF A
  <2>5. fedavg(A) # None BY <1>4, <2>3, Sizes, FedavgIs
  <2>6. /\ StateOK(fedavg(A), ClientSlices)
        /\ \A i \in ClientSlices : /\ fedavg(A)[i].opt = None /\ MomentsOf(fedavg(A)[i]) = {}
                                   /\ fedavg(A)[i].model = UNION {s[i].model : s \in A \ {None}}
    BY <1>4, <2>5, Sizes, FedavgIs
  <2> QED BY <1>6, <2>4, <2>5, <2>6 DEF A
<1> QED BY <1>5, <1>6

LEMMA RoundEndInv ==
  ASSUME SessionInv, RoundEnd PROVE SessionInv'
<1> DEFINE avg == fedavg(StatesOf(selected))
<1>1. /\ UNCHANGED <<run, round, selected, queue, client, batch, owner, current, initial,
                     servers, holder, first, micro, slice, inputs, steps>>
      /\ pc = "round_end" /\ pc' = "aggregate" /\ ~InBatch /\ ~InBatch'
      /\ OnRoundEnd(selected)
  BY DEF RoundEnd, loopVars, serverVars, batchVars, InBatch
<1>2. /\ Seen = 1 .. batch /\ Seen' = Seen /\ Old' = Old
      /\ \A k : Own(k)' = Own(k) /\ ServerModel(k)' = ServerModel(k)
      /\ \A i : SeenBy(i)' = SeenBy(i)
      /\ ClientSlices' = ClientSlices /\ ServerSlices' = ServerSlices /\ Top' = Top
      /\ PerClientServer' = PerClientServer /\ Copies' = Copies /\ CallsBack' = CallsBack
      /\ \A i : ~Stepped(i) /\ ~Stepped(i)' /\ Just(i) = {} /\ Just(i)' = {}
  BY <1>1, OutsideBatch
<1>3. /\ batch \in Nat /\ None \notin Client
      /\ current # None <=> batch > 0
      /\ current # None => current \in Client /\ batch \in 1 .. batch /\ owner[batch][2] = current
  BY CurrentFacts DEF SessionInv
<1>4. /\ Whole(live) /\ DOMAIN states = Client
      /\ \A k \in Client : states[k] = None \/ StateOK(states[k], ClientSlices)
      /\ current # None =>
           /\ \A i \in ClientSlices : Is(live[i], Model(current), Moments(current))
           /\ states[current] # None /\ IsState(states[current], Model(current), Moments(current))
           /\ SetState(live, states[current]) = live
      /\ ~Copies => \A k \in Client \ {current} :
           IF states[k] = None THEN Model(k) = {} ELSE IsState(states[k], Model(k), Moments(k))
      /\ \A k \in Client : states[k] # None => \A i \in ClientSlices : states[k][i].model \subseteq Seen
  <2>1. current # None => \A i \in ClientSlices : Is(live[i], Model(current), Moments(current))
    BY <1>1, <1>2 DEF SessionInv, Loaded, Unloaded
  <2>2. current # None =>
           /\ states[current] # None /\ IsState(states[current], Model(current), Moments(current))
           /\ SetState(live, states[current]) = live
    BY <1>1 DEF SessionInv, Active, Resting, Unloaded
  <2>3. \A k \in Client : states[k] # None => \A i \in ClientSlices : states[k][i].model \subseteq Seen
    BY ModelFacts DEF SessionInv, Within
  <2> QED BY <2>1, <2>2, <2>3 DEF SessionInv, Types, Stored
<1>5. /\ Whole(live') /\ \A i \in ServerSlices : live'[i] = live[i]
      /\ DOMAIN states' = Client
      /\ \A k \in Client : states'[k] = None \/ StateOK(states'[k], ClientSlices)
      /\ current = None => live' = live /\ states' = states
      /\ current # None =>
           /\ \A i \in ClientSlices : Is(live'[i], Model(current)', Moments(current)')
           /\ states'[current] # None /\ IsState(states'[current], Model(current)', Moments(current)')
           /\ SetState(live', states'[current]) = live'
      /\ current # None /\ ~Copies => \A k \in Client \ {current} :
           IF states'[k] = None THEN Model(k)' = {} ELSE IsState(states'[k], Model(k)', Moments(k)')
      /\ current # None /\ Copies /\ run.algorithm # "default" /\ current \notin ToSet(selected) =>
           \A k \in Client : states'[k] # None /\ \A i \in ClientSlices : states'[k][i].model = Seen
      /\ \A i \in ClientSlices : live'[i].opt.lr = live[i].opt.lr
      /\ \A k \in Client : states'[k] # None => \A i \in ClientSlices : states'[k][i].model \subseteq Seen
      /\ run.algorithm = "default" => states' = states /\ live' = live
  <2>1. CASE run.algorithm = "default"
    <3>1. live' = live /\ states' = states BY <1>1, <2>1 DEF OnRoundEnd
    <3>2. \A k : Model(k)' = Model(k) /\ Moments(k)' = Moments(k)
      <4>1. \A k : Averaged(k)' <=> Averaged(k) BY <1>1, <1>2, <2>1 DEF Averaged
      <4> QED BY <1>1, <4>1, SameModels
    <3>3. Model(current)' = Model(current) /\ Moments(current)' = Moments(current) BY <1>1, <3>2
    <3> QED BY <1>4, <2>1, <3>1, <3>2, <3>3
  <2>2. CASE run.algorithm # "default" /\ current = None
    <3>1. avg = None BY <1>1, <2>2, RoundAverage
    <3>2. live' = live /\ states' = states BY <1>1, <3>1 DEF OnRoundEnd
    <3> QED BY <1>4, <2>2, <3>2
  <2>3. CASE run.algorithm # "default" /\ current # None
    <3>1. /\ avg # None /\ StateOK(avg, ClientSlices)
          /\ \A i \in ClientSlices : avg[i].model = Seen /\ avg[i].opt = None /\ MomentsOf(avg[i]) = {}
      BY <1>1, <2>3, RoundAverage
    <3>2. /\ states' = [k \in Client |-> IF k \in ToSet(selected) THEN avg ELSE states[k]]
          /\ live' = IF states'[current] # None THEN SetState(live, states'[current]) ELSE live
      BY <1>1, <2>3, <3>1 DEF OnRoundEnd, ReplaceStates
    <3> HIDE DEF avg
    <3>3. /\ \A k \in ToSet(selected) : Model(k)' = Seen /\ Moments(k)' = {}
          /\ \A k : k \notin ToSet(selected) => Model(k)' = Model(k) /\ Moments(k)' = Moments(k)
      <4>1. \A k \in ToSet(selected) : Averaged(k)' BY <1>1, <2>3 DEF Averaged
      <4>2. \A k : k \notin ToSet(selected) => (Averaged(k)' <=> Averaged(k))
        BY <1>1, <1>2 DEF Averaged
      <4>3. \A k \in ToSet(selected) : Model(k)' = Seen /\ Moments(k)' = {}
        BY <1>2, <4>1 DEF Model, Moments
      <4> QED BY <1>1, <4>2, <4>3, SameModels
    <3>4. IsState(avg, Seen, {}) BY <3>1 DEF IsState, Is
    <3>5. \A k \in Client : states'[k] = IF k \in ToSet(selected) THEN avg ELSE states[k]
      BY <3>2
    <3>6. CASE current \in ToSet(selected)
      <4>1. states'[current] = avg /\ live' = SetState(live, avg)
        BY <1>3, <2>3, <3>1, <3>2, <3>5, <3>6
      <4>2. SetOver(live', live, avg, ClientSlices) /\ SetState(live', avg) = live'
        BY <1>4, <3>1, <4>1, Sizes, SetStateIs, SetStateTwice
      <4>3. /\ Whole(live') /\ \A i \in ServerSlices : live'[i] = live[i]
            /\ \A i \in ClientSlices : /\ Is(live'[i], Seen, {}) /\ live'[i].opt.lr = live[i].opt.lr
        <5>1. \A i \in ServerSlices : i \in Slice \ ClientSlices BY Sizes
        <5> QED BY <3>1, <4>2, <5>1 DEF SetOver, Is
      <4>4. Model(current)' = Seen /\ Moments(current)' = {} BY <1>1, <3>3, <3>6
      <4>5. ~Copies => \A k \in Client \ {current} :
           IF states'[k] = None THEN Model(k)' = {} ELSE IsState(states'[k], Model(k)', Moments(k)')
        BY <1>4, <3>1, <3>3, <3>4, <3>5
      <4>6. /\ DOMAIN states' = Client
            /\ \A k \in Client : states'[k] = None \/ StateOK(states'[k], ClientSlices)
            /\ \A k \in Client : states'[k] # None => \A i \in ClientSlices : states'[k][i].model \subseteq Seen
        BY <1>4, <3>1, <3>2, <3>5
      <4> QED BY <2>3, <3>1, <3>4, <3>6, <4>1, <4>2, <4>3, <4>4, <4>5, <4>6
    <3>7. CASE current \notin ToSet(selected)
      <4>1. states'[current] = states[current] /\ live' = live
        BY <1>3, <1>4, <2>3, <3>2, <3>5, <3>7
      <4>2. Model(current)' = Model(current) /\ Moments(current)' = Moments(current)
        BY <1>1, <3>3, <3>7
      <4>3. ~Copies => \A k \in Client \ {current} :
           IF states'[k] = None THEN Model(k)' = {} ELSE IsState(states'[k], Model(k)', Moments(k)')
        BY <1>4, <3>1, <3>3, <3>4, <3>5
      <4>4. /\ DOMAIN states' = Client
            /\ \A k \in Client : states'[k] = None \/ StateOK(states'[k], ClientSlices)
            /\ \A k \in Client : states'[k] # None => \A i \in ClientSlices : states'[k][i].model \subseteq Seen
        BY <1>4, <3>1, <3>2, <3>5
      <4>5. Copies => \A k \in Client : states'[k] # None /\ \A i \in ClientSlices : states'[k][i].model = Seen
        <5>1. Copies => \A k \in Client : states[k] # None /\ \A i \in ClientSlices : states[k][i].model = Seen
          BY <2>3, <3>7 DEF SessionInv, Reached
        <5> QED BY <3>1, <3>5, <5>1
      <4> QED BY <1>4, <2>3, <3>7, <4>1, <4>2, <4>3, <4>4, <4>5
    <3> QED BY <3>6, <3>7
  <2> QED BY <2>1, <2>2, <2>3
<1>6. Types' BY <1>1, <1>2, <1>5 DEF SessionInv, Types
<1>7. RoundInv' BY <1>1, <1>2 DEF SessionInv, RoundInv, IsState
<1>8. Untrained' BY <1>1, <1>2, <1>5 DEF SessionInv, Untrained, IsState
<1>9. Loaded'
  <2>1. SUFFICES ASSUME current # None, NEW i \in ClientSlices
        PROVE  Is(live'[i], Model(current)' \cup {}, Moments(current)' \cup {})
    BY <1>1, <1>2 DEF Loaded
  <2>2. Model(current)' \cup {} = Model(current)' /\ Moments(current)' \cup {} = Moments(current)'
    OBVIOUS
  <2> QED BY <1>5, <2>1, <2>2
<1>10. Stored'
  <2>1. SUFFICES ASSUME ~Copies, NEW k \in Client, k # current
        PROVE  IF states'[k] = None THEN Model(k)' = {} ELSE IsState(states'[k], Model(k)', Moments(k)')
    BY <1>1, <1>2 DEF Stored, IsState
  <2>2. CASE current = None
    <3>1. states'[k] = None BY <1>5, <2>2 DEF SessionInv, Untrained
    <3>2. Model(k)' \subseteq Seen' BY <1>2 DEF Model, Own, Old
    <3>3. Seen' = {} BY <1>2, <1>3, <2>2
    <3> QED BY <3>1, <3>2, <3>3
  <2>3. CASE current # None BY <1>5, <2>1, <2>3
  <2> QED BY <2>2, <2>3
<1>11. Active' BY <1>1, <1>2, <1>5 DEF Active, IsState
<1>12. Reached' BY <1>1, <1>2, <1>5 DEF Reached
<1>13. Within'
  <2>1. \A i \in ClientSlices : SeenBy(i) = Seen BY Sizes DEF SeenBy
  <2>2. \A i \in Slice : live[i].model \subseteq SeenBy(i) BY <1>2 DEF SessionInv, Within
  <2>3. \A i \in Slice : live'[i].model \subseteq SeenBy(i)
    <3>1. CASE current = None BY <1>5, <2>2, <3>1
    <3>2. CASE current # None
      <4>1. Model(current)' \subseteq Seen
        <5>1. \A k : Model(k)' \subseteq Seen' BY <1>2 DEF Model, Own, Old
        <5> QED BY <1>1, <1>2, <5>1
      <4> QED BY <1>5, <2>1, <2>2, <3>2, <4>1, Sizes DEF Is
    <3> QED BY <3>1, <3>2
  <2> QED BY <1>1, <1>2, <1>5, <2>1, <2>3 DEF SessionInv, Within
<1>14. Shared' BY <1>1, <1>2, <1>5 DEF SessionInv, Shared
<1>15. Holders' BY <1>1, <1>2 DEF SessionInv, Holders
<1>16. Swapped' BY <1>1, <1>2, <1>5 DEF SessionInv, Swapped
<1>17. LiveRates'
  <2>1. ASSUME NEW i \in Slice, batch \in live'[i].model PROVE live'[i].opt.lr = <<steps[i] - 1>>
    <3>1. batch \in live[i].model => live[i].opt.lr = <<steps[i] - 1>>
      BY <1>1 DEF SessionInv, LiveRates, Rated
    <3>2. CASE i \in ServerSlices BY <1>5, <2>1, <3>1, <3>2
    <3>3. CASE i \in ClientSlices
      <4>1. CASE current = None BY <1>5, <2>1, <3>1, <4>1
      <4>2. CASE current # None
        <5>1. batch \in Model(current) BY <1>2, <1>3, <4>2 DEF Model, Own
        <5> QED BY <1>4, <1>5, <3>1, <3>3, <4>2, <5>1 DEF Is
      <4> QED BY <4>1, <4>2
    <3> QED BY <3>2, <3>3, Sizes
  <2> QED BY <1>1, <1>2, <2>1 DEF LiveRates, Rated
<1>18. StoredRates' BY <1>1, <1>2, <1>5 DEF SessionInv, StoredRates, Resting, Rated
<1>19. Steps' BY <1>1 DEF SessionInv, Steps
<1> QED BY <1>6, <1>7, <1>8, <1>9, <1>10, <1>11, <1>12, <1>13, <1>14, <1>15, <1>16, <1>17, <1>18, <1>19
        DEF SessionInv

\* V1: the average of the participants' server copies is everything that was trained,
\* and when no copy was made the live server slices are.
LEMMA ServerAverage ==
  ASSUME SessionInv, pc = "aggregate", PerClientServer
  PROVE  LET avg == AggregatedServer(selected, servers) IN
         /\ avg # None =>
              /\ StateOK(avg, ServerSlices)
              /\ \A i \in ServerSlices : /\ avg[i].opt = None /\ avg[i].model \subseteq SeenBy(i)
                                         /\ i <= Top => avg[i].model = Seen
         /\ avg = None => \A i \in ServerSlices : i <= Top => live[i].model = Seen
<1> DEFINE A == {servers[k] : k \in ToSet(selected)}
<1>1. AggregatedServer(selected, servers) = fedavg(A) BY DEF AggregatedServer, PerClientServer
<1>2. /\ ToSet(selected) \subseteq Client
      /\ \A b \in 1 .. batch : owner[b][1] < round \/ owner[b][2] \in ToSet(selected)
      /\ Seen = 1 .. batch /\ \A i : Just(i) = {}
      /\ \A k \in Client : servers[k] = None \/ StateOK(servers[k], ServerSlices)
  BY ExecutorAssumption DEF SessionInv, RoundInv, Types, Seen, InBatch, Just, Stepped
<1>3. \A s \in A : s = None \/ StateOK(s, ServerSlices) BY <1>2
<1>4. \A i \in ServerSlices :
        i <= Top =>
          /\ live[i].model = IF holder = None THEN Old ELSE ServerModel(holder)
          /\ \A k \in Client :
               IF servers[k] = None THEN Own(k) \subseteq Old ELSE servers[k][i].model = ServerModel(k)
  BY <1>2 DEF SessionInv, Swapped
<1>5. CASE A \subseteq {None}
  <2>1. fedavg(A) = None
    <3> HIDE DEF A
    <3> QED BY <1>3, <1>5, Sizes, FedavgIs
  <2>2. \A k \in ToSet(selected) : servers[k] = None BY <1>5
  <2>3. holder = None /\ Old = Seen BY <2>2 DEF SessionInv, Holders
  <2> HIDE DEF A
  <2> QED BY <1>1, <1>4, <2>1, <2>3
<1>6. CASE ~(A \subseteq {None})
  <2>1. PICK c \in ToSet(selected) : servers[c] # None BY <1>6
  <2>2. /\ fedavg(A) # None /\ StateOK(fedavg(A), ServerSlices)
        /\ \A i \in ServerSlices : /\ fedavg(A)[i].opt = None
                                   /\ fedavg(A)[i].model = UNION {s[i].model : s \in A \ {None}}
    <3> HIDE DEF A
    <3>1. fedavg(A) # None BY <1>3, <1>6, Sizes, FedavgIs
    <3> QED BY <1>3, <3>1, Sizes, FedavgIs
  <2>3. ASSUME NEW i \in ServerSlices PROVE UNION {s[i].model : s \in A \ {None}} \subseteq SeenBy(i)
    <3>1. ASSUME NEW s \in A \ {None} PROVE s[i].model \subseteq SeenBy(i)
      BY <1>2, <3>1 DEF SessionInv, Within
    <3> HIDE DEF A
    <3> QED BY <3>1
  <2>4. ASSUME NEW i \in ServerSlices, i <= Top, NEW b \in Seen
        PROVE  b \in UNION {s[i].model : s \in A \ {None}}
    <3>1. \A k \in ToSet(selected) : servers[k] # None => servers[k] \in A \ {None} OBVIOUS
    <3>2. \A k \in ToSet(selected) :
            IF servers[k] = None THEN Own(k) \subseteq Old ELSE servers[k][i].model = Own(k) \cup Old
      BY <1>2, <1>4, <2>4 DEF ServerModel
    <3>3. PICK k \in ToSet(selected) : servers[k] # None /\ b \in servers[k][i].model
      <4>1. CASE b \in Old BY <2>1, <3>2, <4>1
      <4>2. CASE b \notin Old
        <5>1. owner[b][2] \in ToSet(selected) /\ b \in Own(owner[b][2])
          BY <1>2, <2>4, <4>2 DEF Old, Own
        <5> QED BY <3>2, <4>2, <5>1
      <4> QED BY <4>1, <4>2
    <3> HIDE DEF A
    <3> QED BY <3>1, <3>3
  <2>5. ASSUME NEW i \in ServerSlices, i <= Top PROVE UNION {s[i].model : s \in A \ {None}} = Seen
    <3>1. SeenBy(i) = Seen BY <2>5 DEF SeenBy
    <3> HIDE DEF A
    <3> QED BY <2>3, <2>4, <2>5, <3>1
  <2> HIDE DEF A
  <2> QED BY <1>1, <2>2, <2>3, <2>5
<1> QED BY <1>5, <1>6

LEMMA AggregateRoundInv ==
  ASSUME SessionInv, AggregateRound PROVE SessionInv'
<1> DEFINE avg == IF run.algorithm = "default" THEN None ELSE fedavg(StatesOf(selected))
           server == AggregatedServer(selected, servers)
           clientSide == IF avg # None /\ current # None THEN SetState(live, avg) ELSE live
<1>1. /\ UNCHANGED <<run, round, selected, queue, client, batch, owner, current, initial,
                     servers, holder, first, micro, inputs, steps>>
      /\ pc = "aggregate" /\ pc' = "evaluate" /\ slice' = 0 /\ ~InBatch /\ ~InBatch'
      /\ states' = IF avg # None THEN [k \in Client |-> avg] ELSE states
      /\ live' = IF server # None THEN SetState(clientSide, server) ELSE clientSide
  BY DEF AggregateRound, Aggregate, loopVars, serverVars, InBatch
<1>2. /\ Seen = 1 .. batch /\ Seen' = Seen /\ Old' = Old
      /\ \A k : Own(k)' = Own(k) /\ ServerModel(k)' = ServerModel(k)
      /\ \A i : SeenBy(i)' = SeenBy(i)
      /\ ClientSlices' = ClientSlices /\ ServerSlices' = ServerSlices /\ Top' = Top
      /\ PerClientServer' = PerClientServer /\ Copies' = Copies /\ CallsBack' = CallsBack
      /\ \A i : ~Stepped(i) /\ ~Stepped(i)' /\ Just(i) = {} /\ Just(i)' = {}
  BY <1>1, OutsideBatch
<1>3. /\ batch \in Nat /\ None \notin Client
      /\ current # None <=> batch > 0
      /\ current # None => current \in Client /\ batch \in 1 .. batch /\ owner[batch][2] = current
  BY CurrentFacts DEF SessionInv
<1>4. /\ Whole(live) /\ DOMAIN states = Client
      /\ \A k \in Client : states[k] = None \/ StateOK(states[k], ClientSlices)
      /\ current # None =>
           /\ \A i \in ClientSlices : Is(live[i], Model(current), Moments(current))
           /\ states[current] # None /\ IsState(states[current], Model(current), Moments(current))
           /\ SetState(live, states[current]) = live
      /\ current # None /\ ~Copies => \A k \in Client \ {current} :
           IF states[k] = None THEN Model(k) = {} ELSE IsState(states[k], Model(k), Moments(k))
      /\ \A k \in Client : states[k] # None => \A i \in ClientSlices : states[k][i].model \subseteq Seen
      /\ \A i \in Slice : live[i].model \subseteq SeenBy(i)
      /\ \A i \in Slice : batch \in live[i].model => live[i].opt.lr = <<steps[i] - 1>>
  <2>1. current # None => \A i \in ClientSlices : Is(live[i], Model(current), Moments(current))
    BY <1>1, <1>2 DEF SessionInv, Loaded, Unloaded
  <2>2. current # None =>
           /\ states[current] # None /\ IsState(states[current], Model(current), Moments(current))
           /\ SetState(live, states[current]) = live
    BY <1>1 DEF SessionInv, Active, Resting, Unloaded
  <2>3. /\ \A k \in Client : states[k] # None => \A i \in ClientSlices : states[k][i].model \subseteq Seen
        /\ \A i \in Slice : live[i].model \subseteq SeenBy(i)
    BY <1>2, ModelFacts DEF SessionInv, Within
  <2>4. \A i \in Slice : batch \in live[i].model => live[i].opt.lr = <<steps[i] - 1>>
    BY <1>1 DEF SessionInv, LiveRates, Rated
  <2> QED BY <2>1, <2>2, <2>3, <2>4 DEF SessionInv, Types, Stored
<1>5. current # None => \A i \in ClientSlices : live[i].opt.lr = <<steps[i] - 1>> \/ batch \notin Model(current)
  BY <1>4, Sizes DEF Is
<1>6. current # None => batch \in Model(current) BY <1>2, <1>3 DEF Model, Own
<1>7. \* The client side.
      /\ Whole(clientSide) /\ \A i \in ServerSlices : clientSide[i] = live[i]
      /\ DOMAIN states' = Client
      /\ \A k \in Client : states'[k] = None \/ StateOK(states'[k], ClientSlices)
      /\ current = None => clientSide = live /\ states' = states
      /\ current # None =>
           /\ \A i \in ClientSlices : Is(clientSide[i], Model(current)', Moments(current)')
           /\ states'[current] # None /\ IsState(states'[current], Model(current)', Moments(current)')
           /\ run.algorithm = "default" => clientSide = live /\ states' = states
           /\ run.algorithm # "default" =>
                /\ Holds(clientSide, states'[current], ClientSlices)
                /\ \A k \in Client : /\ states'[k] # None
                                     /\ \A i \in ClientSlices : states'[k][i].model = Seen /\ states'[k][i].opt = None
      /\ current # None /\ ~Copies => \A k \in Client \ {current} :
           IF states'[k] = None THEN Model(k)' = {} ELSE IsState(states'[k], Model(k)', Moments(k)')
      /\ \A i \in ClientSlices : clientSide[i].opt.lr = live[i].opt.lr
      /\ \A k \in Client : states'[k] # None => \A i \in ClientSlices : states'[k][i].model \subseteq Seen
  <2>1. CASE run.algorithm = "default"
    <3>1. clientSide = live /\ states' = states BY <1>1, <2>1
    <3>2. \A k : Model(k)' = Model(k) /\ Moments(k)' = Moments(k)
      <4>1. \A k : Averaged(k)' <=> Averaged(k) BY <1>1, <1>2, <2>1 DEF Averaged
      <4> QED BY <1>1, <4>1, SameModels
    <3>3. Model(current)' = Model(current) /\ Moments(current)' = Moments(current) BY <1>1, <3>2
    <3> HIDE DEF clientSide
    <3> QED BY <1>4, <2>1, <3>1, <3>2, <3>3
  <2>2. CASE run.algorithm # "default" /\ current = None
    <3>1. avg = None BY <1>1, <2>2, RoundAverage
    <3>2. clientSide = live /\ states' = states BY <1>1, <3>1
    <3> HIDE DEF clientSide
    <3> QED BY <1>4, <2>2, <3>2
  <2>3. CASE run.algorithm # "default" /\ current # None
    <3>1. /\ avg # None /\ StateOK(avg, ClientSlices)
          /\ \A i \in ClientSlices : avg[i].model = Seen /\ avg[i].opt = None /\ MomentsOf(avg[i]) = {}
      BY <1>1, <2>3, RoundAverage
    <3>2. states' = [k \in Client |-> avg] /\ clientSide = SetState(live, avg)
      BY <1>1, <2>3, <3>1
    <3> HIDE DEF avg, clientSide
    <3>3. \A k : Model(k)' = Seen /\ Moments(k)' = {}
      BY <1>1, <1>2, <2>3 DEF Model, Moments, Averaged
    <3>4. Model(current)' = Seen /\ Moments(current)' = {} BY <1>1, <3>3
    <3>5. IsState(avg, Seen, {}) BY <3>1 DEF IsState, Is
    <3>6. \A k \in Client : states'[k] = avg BY <3>2
    <3>7. SetOver(clientSide, live, avg, ClientSlices) BY <1>4, <3>1, <3>2, Sizes, SetStateIs
    <3>8. /\ Whole(clientSide) /\ \A i \in ServerSlices : clientSide[i] = live[i]
          /\ \A i \in ClientSlices : Is(clientSide[i], Seen, {}) /\ clientSide[i].opt.lr = live[i].opt.lr
          /\ Holds(clientSide, avg, ClientSlices)
      <4>1. \A i \in ServerSlices : i \in Slice \ ClientSlices BY Sizes
      <4> QED BY <3>1, <3>7, <4>1 DEF SetOver, Is, Holds
    <3>9. DOMAIN states' = Client /\ states'[current] = avg BY <1>3, <2>3, <3>2
    <3> QED BY <2>3, <3>1, <3>3, <3>4, <3>5, <3>6, <3>8, <3>9
  <2> QED BY <2>1, <2>2, <2>3
<1> HIDE DEF avg, clientSide, server
<1>8. server # None => PerClientServer BY DEF server, AggregatedServer, PerClientServer
<1>9. server # None =>
        /\ StateOK(server, ServerSlices)
        /\ \A i \in ServerSlices : /\ server[i].opt = None /\ server[i].model \subseteq SeenBy(i)
                                   /\ i <= Top => server[i].model = Seen
  BY <1>1, <1>8, ServerAverage DEF server
<1>10. \* The server side.
       /\ Whole(live') /\ \A i \in ClientSlices : live'[i] = clientSide[i]
       /\ \A i \in ServerSlices : /\ live'[i].opt.lr = live[i].opt.lr
                                  /\ live'[i].model \subseteq SeenBy(i)
                                  /\ i <= Top => live'[i].model = Seen
       /\ server = None => live' = clientSide
  <2>1. CASE server = None
    <3>1. live' = clientSide BY <1>1, <2>1
    <3>2. \A i \in ServerSlices : i <= Top => live[i].model = Seen
      <4>1. CASE PerClientServer BY <1>1, <2>1, <4>1, ServerAverage DEF server
      <4>2. CASE ~PerClientServer BY <1>2, <4>2 DEF SessionInv, Shared
      <4> QED BY <4>1, <4>2
    <3> QED BY <1>4, <1>7, <2>1, <3>1, <3>2, Sizes
  <2>2. CASE server # None
    <3>1. SetOver(live', clientSide, server, ServerSlices)
      BY <1>1, <1>7, <1>9, <2>2, Sizes, SetStateIs
    <3>2. \A i \in ClientSlices : i \in Slice \ ServerSlices BY Sizes
    <3> QED BY <1>7, <1>9, <2>2, <3>1, <3>2 DEF SetOver
  <2> QED BY <2>1, <2>2
<1>11. Types' BY <1>1, <1>2, <1>7, <1>10 DEF SessionInv, Types
<1>12. RoundInv' BY <1>1, <1>2 DEF SessionInv, RoundInv, IsState
<1>13. Untrained' BY <1>1, <1>2, <1>7, <1>10 DEF SessionInv, Untrained, IsState
<1>14. Loaded'
  <2>1. SUFFICES ASSUME current # None, NEW i \in ClientSlices
        PROVE  Is(live'[i], Model(current)' \cup {}, Moments(current)' \cup {})
    BY <1>1, <1>2 DEF Loaded
  <2>2. Model(current)' \cup {} = Model(current)' /\ Moments(current)' \cup {} = Moments(current)'
    OBVIOUS
  <2> QED BY <1>7, <1>10, <2>1, <2>2
<1>15. Stored'
  <2>1. SUFFICES ASSUME ~Copies, NEW k \in Client, k # current
        PROVE  IF states'[k] = None THEN Model(k)' = {} ELSE IsState(states'[k], Model(k)', Moments(k)')
    BY <1>1, <1>2 DEF Stored, IsState
  <2>2. CASE current = None
    <3>1. states'[k] = None BY <1>7, <2>2 DEF SessionInv, Untrained
    <3>2. Model(k)' \subseteq Seen' BY <1>2 DEF Model, Own, Old
    <3>3. Seen' = {} BY <1>2, <1>3, <2>2
    <3> QED BY <3>1, <3>2, <3>3
  <2>3. CASE current # None BY <1>7, <2>1, <2>3
  <2> QED BY <2>2, <2>3
<1>16. Active'
  <2>1. SUFFICES ASSUME current # None PROVE SetState(live', states'[current]) = live'
    BY <1>1, <1>2, <1>7 DEF Active, IsState
  <2>2. CASE run.algorithm = "default"
    <3>1. server = None BY <1>8, <2>2 DEF PerClientServer
    <3> QED BY <1>4, <1>7, <1>10, <2>1, <2>2, <3>1
  <2>3. CASE run.algorithm # "default"
    <3>1. Holds(live', states'[current], ClientSlices) BY <1>7, <1>10, <2>1, <2>3 DEF Holds
    <3>2. StateOK(states'[current], ClientSlices) BY <1>3, <1>7, <2>1
    <3> QED BY <1>10, <3>1, <3>2, Sizes, SetStateAgain
  <2> QED BY <2>2, <2>3
<1>17. Reached'
  <2>1. SUFFICES ASSUME run.algorithm # "default", current # None
        PROVE  \A k \in Client : states'[k] # None /\ \A i \in ClientSlices : states'[k][i].model = Seen
    BY <1>1, <1>2 DEF Reached
  <2> QED BY <1>7, <2>1
<1>18. Within'
  <2>1. \A i \in ClientSlices : SeenBy(i) = Seen BY Sizes DEF SeenBy
  <2>2. \A i \in Slice : live'[i].model \subseteq SeenBy(i)
    <3>1. \A i \in ClientSlices : live'[i].model \subseteq SeenBy(i)
      <4>1. CASE current = None BY <1>4, <1>7, <1>10, <4>1, Sizes
      <4>2. CASE current # None
        <5>1. Model(current)' \subseteq Seen
          <6>1. \A k : Model(k)' \subseteq Seen' BY <1>2 DEF Model, Own, Old
          <6> QED BY <1>1, <1>2, <6>1
        <5> QED BY <1>7, <1>10, <2>1, <4>2, <5>1 DEF Is
      <4> QED BY <4>1, <4>2
    <3> QED BY <1>10, <3>1, Sizes
  <2> QED BY <1>1, <1>2, <1>7, <2>1, <2>2 DEF SessionInv, Within
<1>19. Shared' BY <1>1, <1>2, <1>10 DEF Shared
<1>20. Holders' BY <1>1, <1>2 DEF SessionInv, Holders
<1>21. Swapped' BY <1>1, <1>2 DEF SessionInv, Swapped
<1>22. LiveRates'
  <2>1. ASSUME NEW i \in Slice, batch \in live'[i].model PROVE live'[i].opt.lr = <<steps[i] - 1>>
    <3>1. CASE i \in ServerSlices
      <4>1. i <= Top /\ batch \in Seen BY <1>10, <2>1, <3>1 DEF SeenBy
      <4>2. live[i].model = Seen \/ live[i].model = ServerModel(current)
        <5>1. CASE ~PerClientServer BY <1>2, <3>1, <4>1, <5>1 DEF SessionInv, Shared
        <5>2. CASE PerClientServer
          <6>1. live[i].model = IF holder = None THEN Old ELSE ServerModel(holder)
            BY <1>1, <1>2, <3>1, <4>1, <5>2 DEF SessionInv, Swapped
          <6>2. IF holder = None THEN Old = Seen ELSE holder = current
            BY <1>1, <5>2 DEF SessionInv, Holders
          <6> QED BY <6>1, <6>2
        <5> QED BY <5>1, <5>2
      <4>3. batch \in live[i].model
        <5>1. batch \in ServerModel(current)
          <6>1. current # None BY <1>2, <1>3, <4>1
          <6> QED BY <1>3, <4>1, <6>1 DEF ServerModel, Own
        <5> QED BY <4>1, <4>2, <5>1
      <4> QED BY <1>4, <1>10, <3>1, <4>3, Sizes
    <3>2. CASE i \in ClientSlices
      <4>1. CASE current = None BY <1>4, <1>7, <1>10, <2>1, <3>2, <4>1, Sizes
      <4>2. CASE current # None BY <1>5, <1>6, <1>7, <1>10, <3>2, <4>2
      <4> QED BY <4>1, <4>2
    <3> QED BY <3>1, <3>2, Sizes
  <2> QED BY <1>1, <1>2, <2>1 DEF LiveRates, Rated
<1>23. StoredRates'
  <2>1. SUFFICES ASSUME current # None, NEW i \in ClientSlices
        PROVE  IF run.algorithm = "default"
               THEN /\ states'[current][i].opt # None
                    /\ batch \in states'[current][i].model => states'[current][i].opt.lr = <<steps[i] - 1>>
               ELSE live'[i].opt.lr = <<steps[i] - 1>> /\ \A k \in Client : states'[k][i].opt = None
    BY <1>1, <1>2 DEF StoredRates, Rated
  <2>2. CASE run.algorithm = "default"
    <3>1. /\ states[current][i].opt # None
          /\ batch \in states[current][i].model => states[current][i].opt.lr = <<steps[i] - 1>>
      BY <1>1, <2>1, <2>2 DEF SessionInv, StoredRates, Resting, Rated
    <3> QED BY <1>7, <2>1, <2>2, <3>1
  <2>3. CASE run.algorithm # "default" BY <1>5, <1>6, <1>7, <1>10, <2>1, <2>3
  <2> QED BY <2>2, <2>3
<1>24. Steps' BY <1>1 DEF SessionInv, Steps
<1> QED BY <1>11, <1>12, <1>13, <1>14, <1>15, <1>16, <1>17, <1>18, <1>19, <1>20, <1>21, <1>22, <1>23, <1>24
        DEF SessionInv

\* Evaluation loads one client's stored state after the other.
LEMMA EvaluateInv ==
  ASSUME SessionInv, Evaluate PROVE SessionInv'
<1> DEFINE st == IF states[slice] # None THEN states[slice] ELSE initial
<1>1. /\ UNCHANGED <<run, round, selected, queue, client, batch, owner, states, current, initial,
                     servers, holder, first, micro, steps, pc>>
      /\ pc = "evaluate" /\ slice' = slice + 1 /\ slice < NClients /\ ~InBatch /\ ~InBatch'
      /\ live' = SetState(live, st) /\ inputs' = [i \in Slice |-> 0]
  BY DEF Evaluate, loopVars, serverVars, InBatch
<1>2. /\ Seen = 1 .. batch /\ Seen' = Seen /\ Old' = Old
      /\ \A k : Own(k)' = Own(k) /\ ServerModel(k)' = ServerModel(k)
      /\ \A i : SeenBy(i)' = SeenBy(i)
      /\ ClientSlices' = ClientSlices /\ ServerSlices' = ServerSlices /\ Top' = Top
      /\ PerClientServer' = PerClientServer /\ Copies' = Copies /\ CallsBack' = CallsBack
      /\ \A i : ~Stepped(i) /\ ~Stepped(i)' /\ Just(i) = {} /\ Just(i)' = {}
  BY <1>1, OutsideBatch
<1>3. \A k : Model(k)' = Model(k) /\ Moments(k)' = Moments(k)
  <2>1. \A k : Averaged(k)' <=> Averaged(k) BY <1>1, <1>2 DEF Averaged
  <2> QED BY <1>1, <2>1, SameModels
<1>4. Model(current)' = Model(current) /\ Moments(current)' = Moments(current) BY <1>1, <1>3
<1>5. /\ slice \in Nat /\ slice \in Client /\ slice' \in Nat /\ slice' > 0
      /\ Whole(live) /\ initial # None /\ IsState(initial, {}, {}) /\ StateOK(initial, ClientSlices)
      /\ \A k \in Client : states[k] = None \/ StateOK(states[k], ClientSlices)
  <2>1. slice \in Nat /\ NClients \in Nat BY SessionAssumption DEF SessionInv, Types
  <2>2. slice \in Client /\ slice' \in Nat /\ slice' > 0 BY <1>1, <2>1 DEF Client
  <2> QED BY <1>1, <2>1, <2>2 DEF SessionInv, Types, RoundInv
<1>6. StateOK(st, ClientSlices) BY <1>5
<1> HIDE DEF st
<1>7. SetOver(live', live, st, ClientSlices) BY <1>1, <1>5, <1>6, Sizes, SetStateIs
<1>8. /\ Whole(live') /\ \A i \in ServerSlices : live'[i] = live[i]
      /\ \A i \in ClientSlices : /\ live'[i].model = st[i].model /\ MomentsOf(live'[i]) = MomentsOf(st[i])
                                 /\ st[i].opt = None => live'[i].opt.lr = live[i].opt.lr
  <2>1. \A i \in ServerSlices : i \in Slice \ ClientSlices BY Sizes
  <2> QED BY <1>7, <2>1 DEF SetOver
<1>9. Types'
  <2>1. inputs' \in [Slice -> 0 .. run.micro]
    <3>1. 0 \in 0 .. run.micro BY ExecutorAssumption DEF SessionInv, Types
    <3> QED BY <1>1, <3>1
  <2> QED BY <1>1, <1>2, <1>5, <1>8, <2>1 DEF SessionInv, Types
<1>10. RoundInv' BY <1>1, <1>2 DEF SessionInv, RoundInv, IsState
<1>11. Untrained'
  <2>1. SUFFICES ASSUME current = None PROVE IsState(live', {}, {}) /\ \A k \in Client : states[k] = None
    BY <1>1, <1>2 DEF Untrained, IsState
  <2>2. \A k \in Client : states[k] = None BY <2>1 DEF SessionInv, Untrained
  <2>3. st = initial BY <1>5, <2>2 DEF st
  <2> QED BY <1>5, <1>8, <2>2, <2>3 DEF IsState, Is
<1>12. Unloaded' BY <1>1, <1>5 DEF Unloaded
<1>13. Loaded' BY <1>12 DEF Loaded
<1>14. Stored' BY <1>1, <1>2, <1>3 DEF SessionInv, Stored, IsState
<1>15. Active' BY <1>1, <1>2, <1>4, <1>12 DEF SessionInv, Active, Resting, IsState
<1>16. Reached' BY <1>1, <1>2 DEF SessionInv, Reached
<1>17. Within'
  <2>1. \A i \in ClientSlices : st[i].model \subseteq SeenBy(i)
    <3>1. CASE states[slice] # None BY <1>5, <3>1 DEF SessionInv, Within, st
    <3>2. CASE states[slice] = None BY <1>5, <3>2 DEF IsState, Is, st
    <3> QED BY <3>1, <3>2
  <2>2. \A i \in Slice : live'[i].model \subseteq SeenBy(i)
    BY <1>2, <1>8, <2>1, Sizes DEF SessionInv, Within
  <2> QED BY <1>1, <1>2, <2>2 DEF SessionInv, Within
<1>18. Shared' BY <1>1, <1>2, <1>8 DEF SessionInv, Shared
<1>19. Holders' BY <1>1, <1>2 DEF SessionInv, Holders
<1>20. Swapped' BY <1>1, <1>2 DEF SessionInv, Swapped
<1>21. LiveRates' BY <1>1, <1>2, <1>5, <1>8 DEF SessionInv, LiveRates, Rated
<1>22. StoredRates'
  <2>1. SUFFICES ASSUME current # None, NEW i \in ClientSlices
        PROVE  IF run.algorithm = "default"
               THEN /\ states[current][i].opt # None
                    /\ batch \in states[current][i].model => states[current][i].opt.lr = <<steps[i] - 1>>
               ELSE live'[i].opt.lr = <<steps[i] - 1>> /\ \A k \in Client : states[k][i].opt = None
    BY <1>1, <1>2 DEF StoredRates, Rated
  <2>2. IF run.algorithm = "default"
        THEN /\ states[current][i].opt # None
             /\ batch \in states[current][i].model => states[current][i].opt.lr = <<steps[i] - 1>>
        ELSE live[i].opt.lr = <<steps[i] - 1>> /\ \A k \in Client : states[k][i].opt = None
    BY <1>1, <2>1 DEF SessionInv, StoredRates, Rated, Resting
  <2>3. run.algorithm # "default" => states[slice] # None
    BY <1>1, <1>5, <2>1 DEF SessionInv, Reached
  <2>4. run.algorithm # "default" => st[i].opt = None BY <1>5, <2>2, <2>3 DEF st
  <2> QED BY <1>8, <2>2, <2>4
<1>23. Steps' BY <1>1, <1>2 DEF SessionInv, Steps
<1> QED BY <1>9, <1>10, <1>11, <1>13, <1>14, <1>15, <1>16, <1>17, <1>18, <1>19, <1>20, <1>21, <1>22, <1>23
        DEF SessionInv

\* The round is over: what it trained is old, and the active client's state is back.
LEMMA EndEpochInv ==
  ASSUME SessionInv, EndEpoch PROVE SessionInv'
<1>1. /\ UNCHANGED <<run, selected, queue, client, batch, owner, states, current, initial,
                     servers, holder, first, micro, inputs, steps>>
      /\ pc = "evaluate" /\ slice = (IF run.evaluate THEN NClients ELSE 0)
      /\ live' = (IF run.evaluate THEN RestoreActive ELSE live)
      /\ round' = round + 1 /\ pc' = (IF round < MaxRounds THEN "epoch" ELSE "done") /\ slice' = 0
      /\ pc' \in {"epoch", "done"} /\ ~InBatch /\ ~InBatch'
  BY DEF EndEpoch, serverVars, InBatch
<1>2. /\ round \in Nat /\ MaxRounds \in Nat /\ round <= MaxRounds /\ round >= 1
      /\ batch \in Nat
      /\ \A b \in 1 .. batch : owner[b][1] \in Nat /\ owner[b][1] <= round
  BY <1>1, SeenFacts, ExecutorAssumption DEF SessionInv, Types, RoundInv
<1>3. Seen = 1 .. batch /\ Seen' = Seen BY <1>1 DEF Seen
<1>4. Old' = Seen BY <1>1, <1>2, <1>3 DEF Old
<1>5. \A k : Own(k)' = Own(k) BY <1>1, <1>3 DEF Own
<1>6. /\ ClientSlices' = ClientSlices /\ ServerSlices' = ServerSlices /\ Top' = Top
      /\ PerClientServer' = PerClientServer /\ Copies' = Copies /\ CallsBack' = CallsBack
      /\ Averages' = Averages /\ \A i : SeenBy(i)' = SeenBy(i)
      /\ \A i : Just(i) = {} /\ Just(i)' = {} /\ ~Stepped(i) /\ ~Stepped(i)'
  BY <1>1, <1>3, SameSettings DEF SeenBy, Just, Stepped
<1>7. \A k : Model(k)' = Model(k) /\ Moments(k)' = Moments(k)
  <2>1. SUFFICES ASSUME NEW k PROVE Model(k)' = Model(k) /\ Moments(k)' = Moments(k)
    OBVIOUS
  <2>2. /\ Model(k)' = IF Copies THEN Seen ELSE Own(k) \cup (IF Averages THEN Seen ELSE {})
        /\ Moments(k)' = IF Averages THEN Model(k)' \ Seen ELSE Model(k)'
    BY <1>1, <1>3, <1>4, <1>5, <1>6 DEF Model, Moments, Averaged
  <2>3. Own(k) \subseteq Seen BY ModelFacts
  <2>4. CASE Averages
    <3>1. Averaged(k) BY <1>1, <2>4 DEF Averages, Averaged, CallsBack
    <3> QED BY <2>2, <2>3, <2>4, <3>1 DEF Model, Moments
  <2>5. CASE ~Averages
    <3>1. ~Averaged(k) BY <1>1, <2>5 DEF Averages, Averaged, CallsBack
    <3> QED BY <2>2, <2>5, <3>1 DEF Model, Moments
  <2> QED BY <2>4, <2>5
<1>8. Model(current)' = Model(current) /\ Moments(current)' = Moments(current) BY <1>1, <1>7
<1>9. /\ Whole(live) /\ \A k \in Client : states[k] = None \/ StateOK(states[k], ClientSlices)
      /\ (current # None => current \in Client)
      /\ current # None => /\ states[current] # None
                           /\ IsState(states[current], Model(current), Moments(current))
  BY <1>1, CurrentFacts DEF SessionInv, Types, Active, Resting
<1>10. \* The live slices.
       /\ Whole(live') /\ \A i \in ServerSlices : live'[i] = live[i]
       /\ current = None => live' = live
       /\ current # None => /\ \A i \in ClientSlices : Is(live'[i], Model(current), Moments(current))
                            /\ SetState(live', states[current]) = live'
       /\ current # None =>
            \A i \in ClientSlices : batch \in live'[i].model => live'[i].opt.lr = <<steps[i] - 1>>
  <2>1. CASE current = None BY <1>1, <1>9, <2>1 DEF RestoreActive
  <2>2. CASE current # None /\ ~run.evaluate
    <3>1. live' = live /\ slice = 0 /\ ~Unloaded BY <1>1, <2>2 DEF Unloaded
    <3>2. \A i \in ClientSlices : Is(live[i], Model(current), Moments(current))
      <4>1. \A i \in ClientSlices : Is(live[i], Model(current) \cup {}, Moments(current) \cup {})
        BY <1>6, <2>2, <3>1 DEF SessionInv, Loaded
      <4>2. Model(current) \cup {} = Model(current) /\ Moments(current) \cup {} = Moments(current)
        OBVIOUS
      <4> QED BY <4>1, <4>2
    <3>3. SetState(live, states[current]) = live
      BY <1>1, <2>2, <3>1 DEF SessionInv, Active, Resting
    <3>4. \A i \in ClientSlices : batch \in live[i].model => live[i].opt.lr = <<steps[i] - 1>>
      BY <1>1, <3>1, Sizes DEF SessionInv, LiveRates, Rated
    <3> QED BY <1>9, <2>2, <3>1, <3>2, <3>3, <3>4
  <2>3. CASE current # None /\ run.evaluate
    <3>1. live' = SetState(live, states[current]) /\ StateOK(states[current], ClientSlices)
      BY <1>1, <1>9, <2>3 DEF RestoreActive
    <3>2. SetOver(live', live, states[current], ClientSlices) /\ SetState(live', states[current]) = live'
      BY <1>9, <3>1, Sizes, SetStateIs, SetStateTwice
    <3>3. /\ Whole(live') /\ \A i \in ServerSlices : live'[i] = live[i]
          /\ \A i \in ClientSlices :
               /\ Is(live'[i], Model(current), Moments(current))
               /\ states[current][i].opt # None => live'[i] = states[current][i]
               /\ states[current][i].opt = None => live'[i].opt.lr = live[i].opt.lr
      <4>1. \A i \in ServerSlices : i \in Slice \ ClientSlices BY Sizes
      <4>2. \A i \in ClientSlices : Is(states[current][i], Model(current), Moments(current))
        BY <1>9, <2>3 DEF IsState
      <4> QED BY <3>2, <4>1, <4>2 DEF SetOver, Is
    <3>4. \A i \in ClientSlices :
            IF run.algorithm = "default"
            THEN /\ states[current][i].opt # None
                 /\ batch \in states[current][i].model => states[current][i].opt.lr = <<steps[i] - 1>>
            ELSE live[i].opt.lr = <<steps[i] - 1>> /\ states[current][i].opt = None
      BY <1>1, <1>9, <2>3 DEF SessionInv, StoredRates, Rated, Resting
    <3>5. \A i \in ClientSlices : batch \in live'[i].model => live'[i].opt.lr = <<steps[i] - 1>>
      BY <3>3, <3>4
    <3> QED BY <2>3, <3>2, <3>3, <3>5
  <2> QED BY <2>1, <2>2, <2>3
<1>11. Types'
  <2>1. round' \in 1 .. MaxRounds + 1 BY <1>1, <1>2
  <2> QED BY <1>1, <1>6, <1>10, <2>1 DEF SessionInv, Types
<1>12. RoundInv'
  <2>1. \A b \in 1 .. batch : owner[b][1] < round' /\ owner[b][1] <= round' BY <1>1, <1>2
  <2>2. pc' # "done" => round' <= MaxRounds BY <1>1, <1>2
  <2> QED BY <1>1, <1>6, <2>1, <2>2 DEF SessionInv, RoundInv, IsState
<1>13. Untrained' BY <1>1, <1>6, <1>10 DEF SessionInv, Untrained, IsState
<1>14. Loaded'
  <2>1. SUFFICES ASSUME current # None, NEW i \in ClientSlices
        PROVE  Is(live'[i], Model(current) \cup {}, Moments(current) \cup {})
    BY <1>1, <1>6, <1>8 DEF Loaded
  <2>2. Model(current) \cup {} = Model(current) /\ Moments(current) \cup {} = Moments(current)
    OBVIOUS
  <2> QED BY <1>10, <2>1, <2>2
<1>15. Stored' BY <1>1, <1>6, <1>7 DEF SessionInv, Stored, IsState
<1>16. Active' BY <1>1, <1>6, <1>8, <1>9, <1>10 DEF Active, IsState
<1>17. Reached' BY <1>1, <1>3, <1>6 DEF SessionInv, Reached
<1>18. Within'
  <2>1. \A i \in Slice : live'[i].model \subseteq SeenBy(i)
    <3>1. \A i \in Slice : live[i].model \subseteq SeenBy(i) BY <1>6 DEF SessionInv, Within
    <3>2. \A i \in ClientSlices : SeenBy(i) = Seen BY Sizes DEF SeenBy
    <3>3. Model(current) \subseteq Seen BY ModelFacts
    <3> QED BY <1>10, <3>1, <3>2, <3>3, Sizes DEF Is
  <2> QED BY <1>1, <1>6, <2>1 DEF SessionInv, Within
<1>19. Shared' BY <1>1, <1>3, <1>6, <1>10 DEF SessionInv, Shared
<1>20. Holders' /\ Swapped' BY <1>1 DEF Holders, Swapped
<1>21. LiveRates'
  <2>1. ASSUME NEW i \in Slice, batch \in live'[i].model PROVE live'[i].opt.lr = <<steps[i] - 1>>
    <3>1. current # None
      <4>1. CASE current = None
        <5>1. batch \in Seen /\ batch = 0
          BY <1>1, <1>6, <1>10, <2>1, <4>1, CurrentFacts, ModelFacts DEF SessionInv, Within
        <5> QED BY <1>3, <5>1
      <4> QED BY <4>1
    <3>2. CASE i \in ServerSlices BY <1>1, <1>10, <2>1, <3>2 DEF SessionInv, LiveRates, Rated
    <3>3. CASE i \in ClientSlices BY <1>10, <2>1, <3>1, <3>3
    <3> QED BY <3>2, <3>3, Sizes
  <2> QED BY <1>1, <1>6, <2>1 DEF LiveRates, Rated
<1>22. StoredRates' BY <1>1, <1>6 DEF SessionInv, StoredRates, Resting, Rated
<1>23. Steps' BY <1>1, <1>6 DEF SessionInv, Steps
<1> QED BY <1>11, <1>12, <1>13, <1>14, <1>15, <1>16, <1>17, <1>18, <1>19, <1>20, <1>21, <1>22, <1>23
        DEF SessionInv

LEMMA DoneInv ==
  ASSUME SessionInv, UNCHANGED vars PROVE SessionInv'
<1>1. /\ UNCHANGED <<run, round, selected, queue, client, batch, owner, live, states, current, initial,
                     servers, holder, first, micro, slice, inputs, steps, pc>>
  BY DEF vars, loopVars, sessionVars, serverVars, batchVars
<1>2. InBatch' <=> InBatch BY <1>1 DEF InBatch
<1>3. /\ Seen' = Seen /\ Old' = Old
      /\ \A k : Own(k)' = Own(k) /\ ServerModel(k)' = ServerModel(k)
      /\ \A i : SeenBy(i)' = SeenBy(i)
      /\ ClientSlices' = ClientSlices /\ ServerSlices' = ServerSlices /\ Top' = Top
      /\ PerClientServer' = PerClientServer /\ Copies' = Copies /\ CallsBack' = CallsBack
  BY <1>1, <1>2, SameSeen, SameSettings
<1>4. \A i : (Stepped(i)' <=> Stepped(i)) /\ Just(i)' = Just(i) BY <1>1, <1>3 DEF Stepped, Just
<1>5. \A k : Model(k)' = Model(k) /\ Moments(k)' = Moments(k)
  <2>1. \A k : Averaged(k)' <=> Averaged(k) BY <1>1, <1>3 DEF Averaged
  <2> QED BY <1>1, <1>2, <2>1, SameModels
<1>6. Model(current)' = Model(current) /\ Moments(current)' = Moments(current) /\ ServerModel(holder)' = ServerModel(holder)
  BY <1>1, <1>3, <1>5
<1>7. (Resting' <=> Resting) /\ (Unloaded' <=> Unloaded) BY <1>1 DEF Resting, Unloaded
<1>8. Types' /\ RoundInv' BY <1>1, <1>2, <1>3 DEF SessionInv, Types, RoundInv, IsState
<1>9. Untrained' /\ Loaded' /\ Stored'
  BY <1>1, <1>3, <1>4, <1>5, <1>6, <1>7 DEF SessionInv, Untrained, Loaded, Stored, IsState
<1>10. Active' /\ Reached' BY <1>1, <1>3, <1>6, <1>7 DEF SessionInv, Active, Reached, IsState
<1>11. Within' /\ Shared' BY <1>1, <1>3, <1>4 DEF SessionInv, Within, Shared
<1>12. Holders' /\ Swapped' BY <1>1, <1>3, <1>4, <1>6 DEF SessionInv, Holders, Swapped
<1>13. LiveRates' /\ StoredRates' /\ Steps'
  BY <1>1, <1>2, <1>3, <1>4, <1>7 DEF SessionInv, LiveRates, StoredRates, Steps, Rated
<1> QED BY <1>8, <1>9, <1>10, <1>11, <1>12, <1>13 DEF SessionInv

LEMMA SessionInvInit ==
  ASSUME Init PROVE SessionInv
<1>1. /\ run \in Runs /\ live = [i \in Slice |-> Fresh]
      /\ states = [k \in Client |-> None] /\ current = None /\ initial = None
      /\ pc = "epoch" /\ round = 1 /\ batch = 0 /\ owner = <<>>
      /\ servers = [k \in Client |-> None] /\ holder = None /\ first = None
      /\ micro = 1 /\ slice = 0 /\ inputs = [i \in Slice |-> 0] /\ steps = [i \in Slice |-> 0]
  BY DEF Init, NoSession, NoServers
<1>2. /\ MaxRounds \in Nat /\ MaxRounds >= 1 /\ run.micro \in Nat /\ run.micro >= 1
  BY <1>1, ExecutorAssumption
<1>3. /\ Seen = {} /\ \A i : ~Stepped(i) /\ Just(i) = {}
      /\ \A k : Model(k) = {} /\ Own(k) = {}
      /\ ~Resting \/ pc = "epoch"
  <2>1. Seen = {} /\ \A i : ~Stepped(i) /\ Just(i) = {} BY <1>1 DEF Seen, InBatch, Stepped, Just
  <2> QED BY <1>1, <2>1, ModelFacts
<1>4. LayerOK(Fresh) /\ Fresh.opt # None /\ Is(Fresh, {}, {})
  <2> DEFINE o == [seen |-> {}, lr |-> <<>>, base |-> None]
  <2>1. <<>> \in Seq(Nat) OBVIOUS
  <2>2. o \in Optimizer BY <2>1 DEF Optimizer
  <2>3. o # None /\ o.seen = {} /\ o.lr = <<>> /\ o.base = None BY <2>2, SessionAssumption
  <2>4. Fresh = [model |-> {}, opt |-> o] BY DEF Fresh
  <2> HIDE DEF o
  <2>5. Fresh.opt = o /\ Fresh.model = {} /\ Fresh \in Layer BY <2>2, <2>4 DEF Layer
  <2> QED BY <2>3, <2>5 DEF LayerOK, Is, MomentsOf
<1>5. Whole(live) BY <1>1, <1>4 DEF Whole, StateOK, LayerOK
<1>6. IsState(live, {}, {}) /\ \A i \in Slice : live[i].model = {}
  BY <1>1, <1>4, Sizes DEF IsState, Is
<1>7. Types
  <2>1. owner \in Seq(Nat \X Client) /\ Len(owner) = 0 BY <1>1
  <2>2. micro \in 1 .. run.micro /\ inputs \in [Slice -> 0 .. run.micro] /\ steps \in [Slice -> Nat]
    BY <1>1, <1>2
  <2>3. round \in 1 .. MaxRounds + 1 BY <1>1, <1>2
  <2> QED BY <1>1, <1>5, <2>1, <2>2, <2>3 DEF Types
<1>8. RoundInv BY <1>1, <1>2 DEF RoundInv, InBatch
<1>9. Untrained /\ Loaded /\ Stored /\ Active /\ Reached
  BY <1>1, <1>3, <1>6 DEF Untrained, Loaded, Stored, Active, Reached
<1>10. Within /\ Shared BY <1>1, <1>3, <1>6, Sizes DEF Within, Shared
<1>11. Holders /\ Swapped BY <1>1 DEF Holders, Swapped
<1>12. LiveRates /\ StoredRates /\ Steps
  <2>1. \A i \in Slice : batch \notin live[i].model BY <1>6
  <2>2. pc # "backward" /\ pc # "step" BY <1>1
  <2>3. LiveRates BY <2>1, <2>2 DEF LiveRates
  <2>4. StoredRates BY <1>1 DEF StoredRates
  <2>5. \A i \in Slice : steps[i] = 0 BY <1>1
  <2>6. ~InBatch /\ batch = 0 BY <1>1 DEF InBatch
  <2>7. Steps BY <2>5, <2>6 DEF Steps
  <2> QED BY <2>3, <2>4, <2>7
<1> QED BY <1>7, <1>8, <1>9, <1>10, <1>11, <1>12 DEF SessionInv

\* The invariant holds of every run of LocalExecutor (executors/local.py train_epoch),
\* for any settings, participants, loaders, clients, slices and rounds.
THEOREM SessionInvariant == Spec => []SessionInv
<1>1. Init => SessionInv BY SessionInvInit
<1>2. SessionInv /\ [Next]_vars => SessionInv'
  <2> SUFFICES ASSUME SessionInv, [Next]_vars PROVE SessionInv'
    OBVIOUS
  <2>1. CASE BeginEpoch BY <2>1, BeginEpochInv
  <2>2. CASE NextBatch BY <2>2, NextBatchInv
  <2>3. CASE SwapServer BY <2>3, SwapServerInv
  <2>4. CASE Forward BY <2>4, ForwardInv
  <2>5. CASE TooFewChunks BY <2>5, TooFewChunksInv
  <2>6. CASE StandardBackward \/ LocalLossBackward \/ GpipeBackward BY <2>6, BackwardInv
  <2>7. CASE StepDown BY <2>7, StepDownInv
  <2>8. CASE StepAll BY <2>8, StepAllInv
  <2>9. CASE EndBatches BY <2>9, EndBatchesInv
  <2>10. CASE Finish BY <2>10, FinishInv
  <2>11. CASE RoundEnd BY <2>11, RoundEndInv
  <2>12. CASE AggregateRound BY <2>12, AggregateRoundInv
  <2>13. CASE Evaluate BY <2>13, EvaluateInv
  <2>14. CASE EndEpoch BY <2>14, EndEpochInv
  <2>15. CASE Done \/ UNCHANGED vars BY <2>15, DoneInv DEF Done
  <2> QED BY <2>1, <2>2, <2>3, <2>4, <2>5, <2>6, <2>7, <2>8, <2>9, <2>10, <2>11, <2>12, <2>13, <2>14, <2>15
          DEF Next
<1> QED BY <1>1, <1>2, PTL DEF Spec

\* What a batch starts from is what the session promises (clients.py:17-31, 204-207).
LEMMA StartsRight ==
  ASSUME SessionInv PROVE TrainsOnTheRightWeights /\ MomentsBelongToTheWeights
<1> SUFFICES ASSUME Starting PROVE TrainsOnTheRightWeights /\ MomentsBelongToTheWeights
  BY DEF TrainsOnTheRightWeights, MomentsBelongToTheWeights
<1>1. pc = "forward" /\ InBatch /\ \A i : Just(i) = {} BY DEF Starting, InBatch, Just, Stepped
<1>2. /\ DOMAIN owner = 1 .. batch /\ Seen \subseteq 1 .. batch
      /\ batch > 0 /\ batch \notin Seen /\ 1 .. batch = Seen \cup {batch}
      /\ current # None /\ client = current
  BY <1>1, SeenFacts, CurrentFacts DEF SessionInv, RoundInv
<1>3. Batches = Seen BY <1>2 DEF Batches
<1>4. \A k : OwnBatches(k) = Own(k) BY <1>3 DEF OwnBatches, Own
<1>5. OldBatches = Old BY <1>3 DEF OldBatches, Old
<1>6. \A k : ~Averaged(k) BY <1>1 DEF Averaged
<1>7. ExpectedClient(client) = Model(client)
  BY <1>3, <1>4, <1>5, <1>6 DEF ExpectedClient, Model, Copies
<1>8. ExpectedServer(client) = ServerModel(client)
  BY <1>3, <1>4, <1>5 DEF ExpectedServer, ServerModel
<1>9. \A i \in ClientSlices : live[i].model = Model(client) /\ MomentsOf(live[i]) = Moments(client)
  <2>1. \A i \in ClientSlices : /\ live[i].model = Model(current) \cup {}
                                /\ MomentsOf(live[i]) = Moments(current) \cup {}
    BY <1>1, <1>2 DEF SessionInv, Loaded, Unloaded, Is
  <2> QED BY <1>2, <2>1
<1>10. ~LocalLoss => \A i \in ServerSlices : live[i].model = ServerModel(client)
  <2>1. SUFFICES ASSUME ~LocalLoss, NEW i \in ServerSlices PROVE live[i].model = ServerModel(client)
    OBVIOUS
  <2>2. i <= Top BY <2>1, Sizes
  <2>3. CASE PerClientServer
    <3>1. holder = client BY <1>1, <2>3 DEF SessionInv, Holders
    <3>2. live[i].model = ServerModel(holder) \cup {}
      BY <1>1, <1>2, <2>2, <2>3, <3>1 DEF SessionInv, Swapped
    <3> QED BY <3>1, <3>2
  <2>4. CASE ~PerClientServer
    <3>1. live[i].model = Seen \cup {} BY <1>1, <2>2, <2>4 DEF SessionInv, Shared
    <3> QED BY <2>4, <3>1 DEF ServerModel
  <2> QED BY <2>3, <2>4
<1>11. TrainsOnTheRightWeights BY <1>7, <1>8, <1>9, <1>10 DEF TrainsOnTheRightWeights
<1>12. MomentsBelongToTheWeights
  <2>1. \A i \in ClientSlices : live[i].opt # None BY Sizes DEF SessionInv, Types, Whole
  <2>2. \A i \in ClientSlices : live[i].opt.seen = Moments(client) BY <1>9, <2>1 DEF MomentsOf
  <2>3. Moments(client) = IF Averages THEN ExpectedClient(client) \ OldBatches ELSE ExpectedClient(client)
    BY <1>5, <1>6, <1>7 DEF Moments
  <2> QED BY <2>2, <2>3 DEF MomentsBelongToTheWeights
<1> QED BY <1>11, <1>12

\* SessionInv gives what the runs check.
LEMMA SessionInvImplies ==
  ASSUME SessionInv PROVE StatesFollowTheirClient
<1>1. TypeOK
  <2>1. batch \in Nat BY SeenFacts DEF SessionInv
  <2>2. ASSUME NEW i \in Slice PROVE inputs[i] \in 0 .. run.micro /\ steps[i] \in 0 .. batch
    <3>1. inputs[i] \in 0 .. run.micro /\ steps[i] \in Nat BY DEF SessionInv, Types
    <3>2. steps[i] <= batch BY <2>1, <3>1 DEF SessionInv, Steps
    <3> QED BY <2>1, <3>1, <3>2
  <2>3. DOMAIN live = Slice BY DEF SessionInv, Types, Whole, StateOK
  <2> QED BY <2>2, <2>3 DEF SessionInv, Types, TypeOK
<1>2. RateFollowsSchedule
  <2>1. SUFFICES ASSUME NEW i \in Slice, pc \in {"backward", "step", "next"}, batch \in live[i].model
        PROVE  live[i].opt.lr = <<steps[i] - 1>>
    BY DEF RateFollowsSchedule
  <2>2. CASE pc = "next" BY <2>1, <2>2 DEF SessionInv, LiveRates, Rated
  <2>3. CASE pc # "next"
    <3>1. batch \notin Seen BY <2>1, <2>3, SeenFacts DEF SessionInv, InBatch
    <3>2. Stepped(i) BY <2>1, <3>1, ModelFacts DEF SessionInv, Within, Just
    <3> QED BY <2>1, <2>3, <3>2 DEF SessionInv, LiveRates, Rated
  <2> QED BY <2>2, <2>3
<1>3. LiveIsStored BY DEF SessionInv, Active, LiveIsStored, Resting, Unloaded
<1>4. AggregateReachesEveryone
  <2>1. SUFFICES ASSUME pc \in {"evaluate", "epoch", "done"}, run.algorithm # "default",
                        NEW k \in Client, NEW j \in Client, states[k] # None
        PROVE  \A i \in ClientSlices : states[j] # None /\ states[k][i].model = states[j][i].model
    BY DEF AggregateReachesEveryone
  <2>2. current # None BY <2>1 DEF SessionInv, Untrained
  <2> QED BY <2>1, <2>2 DEF SessionInv, Reached
<1> QED BY <1>1, <1>2, <1>3, <1>4, StartsRight DEF StatesFollowTheirClient

\* A client's weights, optimizer and rate are its own wherever they are
\* (ClientSession._switch, aggregate; LocalExecutor.train_epoch).
THEOREM StatesFollow == Spec => []StatesFollowTheirClient
<1>1. SessionInv => StatesFollowTheirClient BY SessionInvImplies
<1> QED BY <1>1, SessionInvariant, PTL

--------------------
(* The gradients. *)

\* The micro-batches 1 to n, through slice i.
Pieces(n, i) == {<<m, i>> : m \in 1 .. n}

\* How many micro-batches have gone back through slice i in this batch.
Passed(i) ==
  IF pc = "step" /\ run.micro > 1 THEN run.micro
  ELSE IF i > slice \/ (i = slice /\ pc = "step") THEN micro ELSE micro - 1

\* The slices keep the inputs of the batch, in `inputs` or per micro-batch in `refs`.
Inputs ==
  run.micro = 1 =>
    /\ pc = "forward" => \A j \in Slice : j < slice => inputs[j] = 1
    /\ pc \in {"backward", "step"} => \A j \in Slice : j <= slice => inputs[j] = 1
References ==
  /\ pc = "forward" =>
       /\ refs \in Seq([Slice -> 0 .. run.micro])
       /\ Len(refs) = IF slice = 0 THEN micro - 1 ELSE micro
       /\ \A m \in 1 .. Len(refs) : \A j \in Slice : j < slice \/ (m < micro /\ j <= Top) => refs[m][j] = m
  /\ pc = "backward" /\ run.micro > 1 => \A m \in 1 .. run.micro : \A j \in Slice : refs[m][j] = m

\* .grad sums up what has come back and was not stepped yet.
Gradients ==
  /\ DOMAIN grad = Slice
  /\ \A i \in Slice :
       grad[i] =
         IF pc \notin {"backward", "step"} \/ Stepped(i) \/ i > Top THEN {}
         ELSE Pieces(Passed(i), i)
                \cup IF run.tied /\ i = 0 /\ Top = LastSlice THEN Pieces(Passed(LastSlice), LastSlice) ELSE {}

GradInv == flow = TRUE /\ Inputs /\ References /\ Gradients

\* What is in Pieces, one more, and none.
LEMMA PieceFacts ==
  /\ \A i : Pieces(0, i) = {} /\ Pieces(1, i) = {<<1, i>>}
  /\ \A n \in Nat : \A i : n > 0 => Pieces(n - 1, i) \cup {<<n, i>>} = Pieces(n, i)
<1>1. ASSUME NEW i PROVE Pieces(0, i) = {} /\ Pieces(1, i) = {<<1, i>>}
  <2>1. 1 .. 0 = {} /\ 1 .. 1 = {1} OBVIOUS
  <2> QED BY <2>1 DEF Pieces
<1>2. ASSUME NEW n \in Nat, NEW i, n > 0 PROVE Pieces(n - 1, i) \cup {<<n, i>>} = Pieces(n, i)
  <2>1. 1 .. n = (1 .. n - 1) \cup {n} BY <1>2
  <2> QED BY <2>1 DEF Pieces
<1> QED BY <1>1, <1>2

\* What the slices and counters are in a batch.
LEMMA BatchTypes ==
  ASSUME SessionInv
  PROVE  /\ run.micro \in Nat /\ run.micro >= 1 /\ micro \in 1 .. run.micro /\ micro \in Nat
         /\ (run.micro = 1 => micro = 1)
         /\ slice \in Nat /\ Top \in Slice /\ Top \in Nat /\ Top <= LastSlice /\ LastSlice \in Nat
         /\ LastSlice \in Slice /\ 0 \in Slice /\ LastSlice # 0 /\ \A i \in Slice : i \in Nat /\ i <= LastSlice
         /\ pc \in {"forward", "backward", "step"} => slice \in Slice /\ slice <= Top
         /\ run.micro > 1 => Top = LastSlice
         /\ inputs \in [Slice -> 0 .. run.micro]
<1>1. run.micro \in Nat /\ run.micro >= 1 /\ micro \in 1 .. run.micro
  BY ExecutorAssumption DEF SessionInv, Types
<1>2. /\ Top \in Slice /\ LastSlice \in Slice /\ 0 \in Slice /\ LastSlice # 0
      /\ \A i \in Slice : i \in Nat /\ i <= LastSlice
  BY Sizes DEF LastSlice
<1>3. slice \in Nat /\ (pc \in {"forward", "backward", "step"} => slice <= Top)
  BY DEF SessionInv, Types, RoundInv
<1>4. pc \in {"forward", "backward", "step"} => slice \in Slice
  BY <1>2, <1>3, Sizes DEF Slice, LastSlice
<1>5. run.micro > 1 => Top = LastSlice BY <1>1, Sizes DEF LocalLoss
<1> QED BY <1>1, <1>2, <1>3, <1>4, <1>5 DEF SessionInv, Types

\* Outside a batch there are no gradients.
LEMMA NoGradients ==
  ASSUME GradInv, UNCHANGED <<flow, grad>>, pc \notin {"backward", "step"},
         pc' \notin {"forward", "backward", "step"}
  PROVE  GradInv'
<1>1. Gradients' BY DEF GradInv, Gradients
<1> QED BY <1>1 DEF GradInv, Inputs, References

LEMMA SwapServerGrad ==
  ASSUME SessionInv, GradInv, SwapServer PROVE GradInv'
<1>1. /\ pc = "server" /\ pc' = "forward" /\ flow' = TRUE /\ grad' = grad /\ micro' = 1 /\ slice' = 0
      /\ refs' = <<>>
  BY DEF SwapServer
<1>2. \A j \in Slice : ~(j < 0) BY BatchTypes
<1>3. Inputs' BY <1>1, <1>2 DEF Inputs
<1>4. References'
  <2>1. <<>> \in Seq([Slice -> 0 .. run'.micro]) /\ Len(<<>>) = 0 /\ 1 .. 0 = {} OBVIOUS
  <2> QED BY <1>1, <2>1 DEF References
<1>5. Gradients' BY <1>1 DEF GradInv, Gradients
<1> QED BY <1>1, <1>3, <1>4, <1>5 DEF GradInv

LEMMA ForwardGrad ==
  ASSUME SessionInv, GradInv, Forward PROVE GradInv'
<1>1. /\ pc = "forward" /\ flow' = TRUE /\ grad' = grad /\ run' = run /\ Top' = Top
      /\ inputs' = [inputs EXCEPT ![slice] = micro]
      /\ refs' = IF slice = 0 THEN Append(refs, inputs') ELSE [refs EXCEPT ![micro][slice] = inputs'[slice]]
  BY BatchTypes, ObservedIs, SameSettings DEF Forward, GradInv, loopVars
<1>2. /\ refs \in Seq([Slice -> 0 .. run.micro])
      /\ Len(refs) = IF slice = 0 THEN micro - 1 ELSE micro
      /\ \A m \in 1 .. Len(refs) : \A j \in Slice : j < slice \/ (m < micro /\ j <= Top) => refs[m][j] = m
  BY <1>1 DEF GradInv, References
<1>3. inputs' \in [Slice -> 0 .. run.micro] /\ inputs'[slice] = micro /\ \A j \in Slice \ {slice} : inputs'[j] = inputs[j]
  BY <1>1, BatchTypes
\* The references, with the input of this slice.
<1>4. /\ refs' \in Seq([Slice -> 0 .. run.micro]) /\ Len(refs') = micro
      /\ \A m \in 1 .. micro : \A j \in Slice : j <= slice \/ (m < micro /\ j <= Top) => refs'[m][j] = m
  <2>1. CASE slice = 0
    <3>1. Len(refs) = micro - 1 /\ refs' = Append(refs, inputs') BY <1>1, <1>2, <2>1
    <3>2. refs' \in Seq([Slice -> 0 .. run.micro]) /\ Len(refs') = micro
      BY <1>2, <1>3, <3>1, BatchTypes
    <3>3. refs'[micro] = inputs' /\ \A m \in 1 .. micro - 1 : refs'[m] = refs[m]
      BY <1>2, <3>1, BatchTypes
    <3>4. ASSUME NEW m \in 1 .. micro, NEW j \in Slice, j <= slice \/ (m < micro /\ j <= Top)
          PROVE  refs'[m][j] = m
      <4>1. CASE m < micro
        <5>1. m \in 1 .. Len(refs) /\ refs'[m] = refs[m] BY <3>1, <3>3, <4>1, BatchTypes
        <5>2. j <= Top BY <3>4, <2>1, BatchTypes
        <5> QED BY <1>2, <4>1, <5>1, <5>2
      <4>2. CASE ~(m < micro)
        <5>1. m = micro /\ j = slice BY <3>4, <4>2, <2>1, BatchTypes
        <5> QED BY <1>3, <3>3, <5>1
      <4> QED BY <4>1, <4>2
    <3> QED BY <3>2, <3>4
  <2>2. CASE slice # 0
    <3>1. Len(refs) = micro /\ refs' = [refs EXCEPT ![micro][slice] = micro] /\ micro \in 1 .. Len(refs)
      BY <1>1, <1>2, <1>3, <2>2, BatchTypes
    <3>2. DOMAIN refs = 1 .. micro /\ \A m \in 1 .. micro : refs[m] \in [Slice -> 0 .. run.micro]
      BY <1>2, <3>1
    <3>3. /\ DOMAIN refs' = 1 .. micro /\ micro \in 1 .. micro
          /\ refs'[micro] = [refs[micro] EXCEPT ![slice] = micro]
          /\ \A m \in 1 .. micro : m # micro => refs'[m] = refs[m]
      <4>1. refs' = [refs EXCEPT ![micro] = [refs[micro] EXCEPT ![slice] = micro]] BY <3>1
      <4>2. micro \in 1 .. micro BY BatchTypes
      <4> QED BY <3>2, <4>1, <4>2
    <3>4. slice \in Slice /\ micro \in 0 .. run.micro BY <1>1, BatchTypes
    <3>5. refs'[micro] \in [Slice -> 0 .. run.micro]
      <4>1. refs[micro] \in [Slice -> 0 .. run.micro] BY <3>2, <3>3
      <4> QED BY <3>3, <3>4, <4>1
    <3>6. refs' \in Seq([Slice -> 0 .. run.micro]) /\ Len(refs') = micro
      <4>1. \A m \in 1 .. micro : refs'[m] \in [Slice -> 0 .. run.micro] BY <3>2, <3>3, <3>5
      <4>2. refs' = [m \in 1 .. micro |-> refs'[m]] BY <3>1, <3>3
      <4> DEFINE r == [m \in 1 .. micro |-> refs'[m]]
      <4>3. micro \in Nat BY BatchTypes
      <4>4. r \in [1 .. micro -> [Slice -> 0 .. run.micro]] BY <4>1
      <4>5. refs' = r BY <4>2
      <4> HIDE DEF r
      <4> QED BY <4>3, <4>4, <4>5
    <3>7. ASSUME NEW m \in 1 .. micro, NEW j \in Slice, j <= slice \/ (m < micro /\ j <= Top)
          PROVE  refs'[m][j] = m
      <4>1. CASE m < micro
        <5>1. m \in 1 .. Len(refs) /\ refs'[m] = refs[m] BY <3>1, <3>3, <4>1, BatchTypes
        <5>2. j <= Top BY <1>1, <3>7, BatchTypes
        <5> QED BY <1>2, <4>1, <5>1, <5>2
      <4>2. CASE m = micro /\ j = slice BY <3>2, <3>3, <4>2
      <4>3. CASE m = micro /\ j # slice
        <5>1. refs'[m][j] = refs[m][j] BY <3>2, <3>3, <4>3
        <5>2. j < slice BY <3>7, <4>3, BatchTypes
        <5> QED BY <1>2, <3>1, <4>3, <5>1, <5>2
      <4> QED BY <4>1, <4>2, <4>3, BatchTypes
    <3> QED BY <3>6, <3>7
  <2> QED BY <2>1, <2>2
<1>5. run.micro = 1 => \A j \in Slice : j <= slice => inputs'[j] = 1
  <2>1. SUFFICES ASSUME run.micro = 1, NEW j \in Slice, j <= slice PROVE inputs'[j] = 1
    OBVIOUS
  <2>2. micro = 1 BY <2>1, BatchTypes
  <2>3. CASE j = slice BY <1>3, <2>2, <2>3
  <2>4. CASE j # slice
    <3>1. j < slice BY <2>1, <2>4, BatchTypes
    <3> QED BY <1>1, <1>3, <2>1, <2>4, <3>1 DEF GradInv, Inputs
  <2> QED BY <2>3, <2>4
<1>6. \A i \in Slice : grad[i] = {} BY <1>1 DEF GradInv, Gradients
<1>7. CASE slice < Top
  <2>1. slice' = slice + 1 /\ micro' = micro /\ pc' = "forward" BY <1>1, <1>7 DEF Forward
  <2>2. Inputs' BY <1>1, <1>5, <2>1, BatchTypes DEF Inputs
  <2>3. References'
    <3>1. slice' # 0 /\ \A j \in Slice : j < slice' => j <= slice BY <2>1, BatchTypes
    <3> QED BY <1>1, <1>4, <2>1, <3>1 DEF References
  <2>4. Gradients' BY <1>1, <2>1 DEF GradInv, Gradients
  <2> QED BY <1>1, <2>2, <2>3, <2>4 DEF GradInv
<1>8. CASE ~(slice < Top) /\ micro < run.micro
  <2>1. slice' = 0 /\ micro' = micro + 1 /\ pc' = "forward" BY <1>1, <1>8 DEF Forward, NextPiece
  <2>2. Inputs' BY <1>1, <2>1, BatchTypes DEF Inputs
  <2>3. References'
    <3>1. \A j \in Slice : j <= Top => j <= slice BY <1>8, <1>1, BatchTypes
    <3>2. \A j \in Slice : ~(j < slice') BY <2>1, BatchTypes
    <3>3. Len(refs') = micro' - 1 BY <1>4, <2>1, BatchTypes
    <3> QED BY <1>1, <1>4, <2>1, <3>1, <3>2, <3>3 DEF References
  <2>4. Gradients' BY <1>1, <2>1 DEF GradInv, Gradients
  <2> QED BY <1>1, <2>2, <2>3, <2>4 DEF GradInv
<1>9. CASE ~(slice < Top) /\ ~(micro < run.micro)
  <2>1. slice' = slice /\ micro' = 1 /\ pc' = "backward" /\ slice = Top /\ micro = run.micro
    BY <1>1, <1>9, BatchTypes DEF Forward, NextPiece
  <2>2. Inputs' BY <1>1, <1>5, <2>1 DEF Inputs
  <2>3. References'
    <3>1. run.micro > 1 => \A j \in Slice : j <= slice BY <2>1, BatchTypes
    <3> QED BY <1>1, <1>4, <2>1, <3>1 DEF References
  <2>4. Gradients'
    <3>1. ASSUME NEW i \in Slice, i <= Top PROVE Passed(i)' = 0
      BY <1>1, <2>1, <3>1, BatchTypes DEF Passed
    <3>2. Top = LastSlice => Passed(LastSlice)' = 0 BY <3>1, BatchTypes
    <3>3. \A i \in Slice : ~(i <= Top) => i > Top BY BatchTypes
    <3> QED BY <1>1, <1>6, <2>1, <3>1, <3>2, <3>3, PieceFacts DEF GradInv, Gradients
  <2> QED BY <1>1, <2>2, <2>3, <2>4 DEF GradInv
<1> QED BY <1>7, <1>8, <1>9

\* A backward finds the input of its micro-batch, and adds to the gradient of its slice
\* (and, from the last one, to that of a tied owner).
LEMMA BackwardIs ==
  ASSUME SessionInv, GradInv, Backward
  PROVE  /\ pc = "backward" /\ flow' = TRUE /\ inputs' = inputs /\ refs' = refs /\ run' = run /\ Top' = Top
         /\ DOMAIN grad' = Slice
         /\ \A i \in Slice :
              grad'[i] = IF i = slice \/ (run.tied /\ i = 0 /\ slice = LastSlice)
                         THEN grad[i] \cup {<<micro, slice>>} ELSE grad[i]
<1>1. pc = "backward" /\ inputs' = inputs /\ refs' = refs /\ run' = run /\ Top' = Top
  BY BatchTypes, ObservedIs, SameSettings DEF Backward, Backpropagate, loopVars
<1>2. slice = 0 \/ Kept(micro, slice) = micro
  <2>1. CASE run.micro = 1 BY <1>1, <2>1, BatchTypes DEF Kept, GradInv, Inputs
  <2>2. CASE run.micro # 1 BY <1>1, <2>2, BatchTypes DEF Kept, GradInv, References
  <2> QED BY <2>1, <2>2
<1>3. flow = TRUE BY DEF GradInv
<1> QED BY <1>1, <1>2, <1>3 DEF Backward, Backpropagate

\* What .grad holds once slice has gone back, in terms of what has passed.
LEMMA GradStep ==
  ASSUME SessionInv, GradInv, Backward, pc' \in {"backward", "step"}, micro' \in Nat,
         \A i \in Slice : i <= Top => (Stepped(i)' <=> Stepped(i)),
         \A i \in Slice : i <= Top => Passed(i)' = IF i = slice THEN micro ELSE Passed(i)
  PROVE  Gradients'
<1>1. /\ pc = "backward" /\ run' = run /\ Top' = Top /\ DOMAIN grad' = Slice
      /\ \A i \in Slice :
           grad'[i] = IF i = slice \/ (run.tied /\ i = 0 /\ slice = LastSlice)
                      THEN grad[i] \cup {<<micro, slice>>} ELSE grad[i]
  BY BackwardIs
<1>2. slice \in Slice /\ slice <= Top /\ ~Stepped(slice) /\ Passed(slice) = micro - 1 /\ micro \in Nat /\ micro > 0
  BY <1>1, BatchTypes DEF Stepped, Passed
<1>3. \A j \in Slice : j = slice => Pieces(Passed(j)', j) = Pieces(Passed(j), j) \cup {<<micro, j>>}
  BY <1>2, PieceFacts
<1>4. \A i \in Slice : i <= Top => (i # slice => Passed(i)' = Passed(i)) OBVIOUS
<1>5. SUFFICES ASSUME NEW i \in Slice
      PROVE  grad'[i] = IF Stepped(i)' \/ i > Top THEN {}
                        ELSE Pieces(Passed(i)', i)
                               \cup IF run.tied /\ i = 0 /\ Top = LastSlice
                                    THEN Pieces(Passed(LastSlice)', LastSlice) ELSE {}
  BY <1>1 DEF Gradients
<1>6. grad[i] = IF Stepped(i) \/ i > Top THEN {}
                ELSE Pieces(Passed(i), i)
                       \cup IF run.tied /\ i = 0 /\ Top = LastSlice
                            THEN Pieces(Passed(LastSlice), LastSlice) ELSE {}
  BY <1>1 DEF GradInv, Gradients
<1>7. LastSlice # 0 /\ LastSlice \in Slice /\ i \in Nat /\ Top \in Nat /\ Top <= LastSlice /\ slice \in Nat
  BY BatchTypes
<1>8. CASE i > Top
  <2>1. i # slice /\ i # 0 BY <1>2, <1>7, <1>8
  <2> QED BY <1>1, <1>6, <1>8, <2>1
<1>9. CASE i <= Top /\ Stepped(i)
  <2>1. i # slice BY <1>2, <1>9
  <2>2. i # 0 BY <1>1, <1>7, <1>9, BatchTypes DEF Stepped
  <2>3. ~(i > Top) BY <1>7, <1>9
  <2> QED BY <1>1, <1>6, <1>9, <2>1, <2>2, <2>3
<1>10. CASE i <= Top /\ ~Stepped(i) /\ i = slice
  <2>1. ~Stepped(i)' /\ ~(i > Top) BY <1>7, <1>10
  <2>2. i = 0 => slice # LastSlice BY <1>7, <1>10
  <2>3. Top = LastSlice /\ i = 0 => Passed(LastSlice)' = Passed(LastSlice)
    BY <1>4, <1>7, <1>10, <2>2
  <2> QED BY <1>1, <1>3, <1>6, <1>10, <2>1, <2>2, <2>3
<1>11. CASE i <= Top /\ ~Stepped(i) /\ i # slice
  <2>1. ~Stepped(i)' /\ ~(i > Top) /\ Passed(i)' = Passed(i) BY <1>4, <1>7, <1>11
  <2>2. CASE slice = LastSlice
    <3>1. Top = LastSlice BY <1>2, <1>7, <2>2
    <3>2. Pieces(Passed(LastSlice)', LastSlice) = Pieces(Passed(LastSlice), LastSlice) \cup {<<micro, slice>>}
      BY <1>3, <1>7, <2>2
    <3>3. grad[i] = Pieces(Passed(i), i)
                      \cup IF run.tied /\ i = 0 THEN Pieces(Passed(LastSlice), LastSlice) ELSE {}
      BY <1>6, <1>11, <2>1, <3>1
    <3>4. grad'[i] = IF run.tied /\ i = 0 THEN grad[i] \cup {<<micro, slice>>} ELSE grad[i]
      BY <1>1, <1>11, <2>2
    <3> QED BY <2>1, <3>1, <3>2, <3>3, <3>4
  <2>3. CASE slice # LastSlice
    <3>1. Top = LastSlice => Passed(LastSlice)' = Passed(LastSlice) BY <1>4, <1>7, <2>3
    <3> QED BY <1>1, <1>6, <1>11, <2>1, <2>3, <3>1
  <2> QED BY <2>2, <2>3
<1> QED BY <1>7, <1>8, <1>9, <1>10, <1>11

LEMMA BackwardGrad ==
  ASSUME SessionInv, GradInv, StandardBackward \/ LocalLossBackward \/ GpipeBackward PROVE GradInv'
<1>1. Backward BY DEF StandardBackward, LocalLossBackward, GpipeBackward
<1>2. pc = "backward" /\ flow' = TRUE /\ inputs' = inputs /\ refs' = refs /\ run' = run /\ Top' = Top
  BY <1>1, BackwardIs
<1>3. CASE StandardBackward \/ LocalLossBackward
  <2>1. run.micro = 1 /\ pc' = "step" /\ micro' = micro /\ slice' = slice
    BY <1>3 DEF StandardBackward, LocalLossBackward, LocalLoss
  <2>2. Inputs' /\ References' BY <1>2, <2>1 DEF GradInv, Inputs, References
  <2>3. \A i \in Slice : Stepped(i)' <=> Stepped(i) BY <1>2, <2>1 DEF Stepped
  <2>4. \A i \in Slice : Passed(i)' = IF i = slice THEN micro ELSE Passed(i)
    BY <1>2, <2>1, BatchTypes DEF Passed
  <2> QED BY <1>1, <1>2, <2>1, <2>2, <2>3, <2>4, GradStep, BatchTypes DEF GradInv
<1>4. CASE GpipeBackward
  <2>1. run.micro > 1 /\ run.micro # 1 /\ run.micro \in Nat
    BY <1>4, BatchTypes DEF GpipeBackward
  <2>2. pc' \in {"backward", "step"} BY <1>2, <1>4 DEF GpipeBackward
  <2>3. Inputs' /\ References' BY <1>2, <2>1, <2>2 DEF GradInv, Inputs, References
  <2>4. CASE slice > 0
    <3>1. slice' = slice - 1 /\ micro' = micro /\ pc' = "backward"
      BY <1>2, <1>4, <2>4 DEF GpipeBackward
    <3>2. \A i \in Slice : Stepped(i)' <=> Stepped(i) BY <1>2, <2>1, <3>1 DEF Stepped
    <3>3. \A i \in Slice : Passed(i)' = IF i = slice THEN micro ELSE Passed(i)
      BY <1>2, <3>1, BatchTypes DEF Passed
    <3> QED BY <1>1, <1>2, <2>2, <2>3, <3>1, <3>2, <3>3, GradStep, BatchTypes DEF GradInv
  <2>5. CASE slice = 0 /\ micro < run.micro
    <3>1. slice' = LastSlice /\ micro' = micro + 1 /\ pc' = "backward"
      BY <1>2, <1>4, <2>5 DEF GpipeBackward
    <3>2. \A i \in Slice : Stepped(i)' <=> Stepped(i) BY <1>2, <2>1, <3>1 DEF Stepped
    <3>3. \A i \in Slice : Passed(i)' = IF i = slice THEN micro ELSE Passed(i)
      BY <1>2, <2>5, <3>1, BatchTypes DEF Passed
    <3> QED BY <1>1, <1>2, <2>2, <2>3, <3>1, <3>2, <3>3, GradStep, BatchTypes DEF GradInv
  <2>6. CASE slice = 0 /\ ~(micro < run.micro)
    <3>1. slice' = 0 /\ micro' = micro /\ pc' = "step" /\ micro = run.micro
      BY <1>2, <1>4, <2>6, BatchTypes DEF GpipeBackward
    <3>2. \A i \in Slice : Stepped(i)' <=> Stepped(i)
      BY <1>2, <2>1, <3>1, BatchTypes DEF Stepped
    <3>3. \A i \in Slice : Passed(i)' = IF i = slice THEN micro ELSE Passed(i)
      BY <1>2, <2>1, <2>6, <3>1, BatchTypes DEF Passed
    <3> QED BY <1>1, <1>2, <2>2, <2>3, <3>1, <3>2, <3>3, GradStep, BatchTypes DEF GradInv
  <2>7. slice \in Nat BY BatchTypes
  <2> QED BY <2>4, <2>5, <2>6, <2>7
<1> QED BY <1>3, <1>4

\* A slice that steps holds the gradient of the whole batch, and none after it.
LEMMA StepTakesAll ==
  ASSUME SessionInv, GradInv, pc = "step"
  PROVE  slice \in Slice /\ grad[slice] = WholeGradient(slice)
<1>1. slice \in Slice /\ slice <= Top /\ ~Stepped(slice) /\ ~(slice > Top) /\ Passed(slice) = run.micro
  BY BatchTypes DEF Stepped, Passed
<1>2. Top = LastSlice => Passed(LastSlice) = run.micro BY <1>1, BatchTypes DEF Passed
<1> QED BY <1>1, <1>2 DEF GradInv, Gradients, WholeGradient, Pieces

LEMMA StepDownGrad ==
  ASSUME SessionInv, GradInv, StepDown PROVE GradInv'
<1>1. /\ pc = "step" /\ run.micro = 1 /\ run' = run /\ micro' = micro /\ refs' = refs /\ flow' = flow
      /\ grad' = [grad EXCEPT ![slice] = {}] /\ inputs' = [inputs EXCEPT ![slice] = 0] /\ Top' = Top
  BY SameSettings DEF StepDown, Optimize, loopVars
<1>2. DOMAIN grad' = Slice /\ grad'[slice] = {} /\ \A i \in Slice \ {slice} : grad'[i] = grad[i]
  BY <1>1, BatchTypes DEF GradInv, Gradients
<1>3. CASE slice > 0
  <2>1. slice' = slice - 1 /\ pc' = "backward" BY <1>3 DEF StepDown
  <2>2. Inputs'
    <3>1. SUFFICES ASSUME NEW j \in Slice, j <= slice' PROVE inputs'[j] = 1
      BY <1>1, <2>1 DEF Inputs
    <3>2. j # slice /\ j <= slice BY <2>1, <3>1, BatchTypes
    <3> QED BY <1>1, <3>2, BatchTypes DEF GradInv, Inputs
  <2>3. References' BY <1>1, <2>1 DEF References
  <2>4. ASSUME NEW i \in Slice, i # slice
        PROVE  /\ Stepped(i)' <=> Stepped(i)
               /\ Passed(i)' = Passed(i)
    BY <1>1, <2>1, <2>4, BatchTypes DEF Stepped, Passed
  <2>5. \A j \in Slice : j = slice => Stepped(j)' BY <1>1, <2>1, BatchTypes DEF Stepped
  <2>6. slice <= Top /\ Passed(LastSlice)' = Passed(LastSlice)
    BY <1>1, <2>1, BatchTypes DEF Passed
  <2>7. ASSUME NEW i \in Slice
        PROVE  grad'[i] = IF Stepped(i)' \/ i > Top THEN {}
                          ELSE Pieces(Passed(i)', i)
                                 \cup IF run.tied /\ i = 0 /\ Top = LastSlice
                                      THEN Pieces(Passed(LastSlice)', LastSlice) ELSE {}
    <3>1. CASE i = slice BY <1>2, <2>5, <2>6, <3>1
    <3>2. CASE i # slice BY <1>1, <1>2, <2>4, <2>6, <3>2 DEF GradInv, Gradients
    <3> QED BY <3>1, <3>2
  <2>8. Gradients' BY <1>1, <1>2, <2>1, <2>7 DEF Gradients
  <2> QED BY <1>1, <2>2, <2>3, <2>8 DEF GradInv
<1>4. CASE slice = 0
  <2>1. slice' = slice /\ pc' = "next" BY <1>4 DEF StepDown
  <2>2. \A i \in Slice \ {slice} : grad[i] = {}
    <3>1. \A i \in Slice \ {slice} : Stepped(i) \/ i > Top BY <1>1, <1>4, BatchTypes DEF Stepped
    <3> QED BY <1>1, <1>4, <3>1 DEF GradInv, Gradients
  <2>3. Gradients' BY <1>2, <2>1, <2>2 DEF Gradients
  <2> QED BY <1>1, <2>1, <2>3 DEF GradInv, Inputs, References
<1>5. slice \in Nat BY BatchTypes
<1> QED BY <1>3, <1>4, <1>5

LEMMA StepAllGrad ==
  ASSUME SessionInv, GradInv, StepAll PROVE GradInv'
<1>1. /\ pc = "step" /\ run.micro > 1 /\ run' = run /\ micro' = micro /\ refs' = refs /\ flow' = flow
      /\ grad' = [grad EXCEPT ![slice] = {}] /\ Top' = Top /\ Top = LastSlice /\ run.micro # 1
  BY SameSettings, BatchTypes DEF StepAll, Optimize, loopVars
<1>2. DOMAIN grad' = Slice /\ grad'[slice] = {} /\ \A i \in Slice \ {slice} : grad'[i] = grad[i]
  BY <1>1, BatchTypes DEF GradInv, Gradients
<1>3. CASE slice < LastSlice
  <2>1. slice' = slice + 1 /\ pc' = "step" BY <1>1, <1>3 DEF StepAll
  <2>2. Inputs' /\ References' BY <1>1, <2>1 DEF Inputs, References
  <2>3. \A i \in Slice : Passed(i)' = Passed(i) BY <1>1, <2>1 DEF Passed
  <2>4. \A i \in Slice \ {slice} : Stepped(i)' <=> Stepped(i)
    BY <1>1, <2>1, BatchTypes DEF Stepped
  <2>5. LastSlice \in Slice /\ \A j \in Slice : j = slice => Stepped(j)'
    BY <1>1, <2>1, BatchTypes DEF Stepped
  <2>6. ASSUME NEW i \in Slice
        PROVE  grad'[i] = IF Stepped(i)' \/ i > Top THEN {}
                          ELSE Pieces(Passed(i)', i)
                                 \cup IF run.tied /\ i = 0 /\ Top = LastSlice
                                      THEN Pieces(Passed(LastSlice)', LastSlice) ELSE {}
    <3>1. CASE i = slice BY <1>2, <2>5, <3>1
    <3>2. CASE i # slice BY <1>1, <1>2, <2>3, <2>4, <2>5, <3>2 DEF GradInv, Gradients
    <3> QED BY <3>1, <3>2
  <2>7. Gradients' BY <1>1, <1>2, <2>1, <2>6 DEF Gradients
  <2> QED BY <1>1, <2>2, <2>7 DEF GradInv
<1>4. CASE ~(slice < LastSlice)
  <2>1. slice' = slice /\ pc' = "next" BY <1>1, <1>4 DEF StepAll
  <2>2. \A i \in Slice \ {slice} : grad[i] = {}
    <3>1. \A i \in Slice \ {slice} : Stepped(i) BY <1>1, <1>4, BatchTypes DEF Stepped
    <3> QED BY <1>1, <3>1 DEF GradInv, Gradients
  <2>3. Gradients' BY <1>2, <2>1, <2>2 DEF Gradients
  <2> QED BY <1>1, <2>1, <2>3 DEF GradInv, Inputs, References
<1> QED BY <1>3, <1>4

\* Every step keeps GradInv.
LEMMA GradInvNext ==
  ASSUME SessionInv, GradInv, [Next]_vars PROVE GradInv'
<1>1. CASE BeginEpoch \/ NextBatch \/ EndBatches \/ Finish \/ RoundEnd \/ AggregateRound \/ Evaluate \/ EndEpoch
  <2>1. /\ UNCHANGED <<flow, grad>> /\ pc \notin {"backward", "step"}
        /\ pc' \notin {"forward", "backward", "step"}
    BY <1>1 DEF BeginEpoch, NextBatch, EndBatches, Finish, RoundEnd, AggregateRound, Evaluate, EndEpoch, batchVars
  <2> QED BY <2>1, NoGradients
<1>2. CASE TooFewChunks BY <1>2, NoGradients DEF TooFewChunks, batchVars
<1>3. CASE SwapServer BY <1>3, SwapServerGrad
<1>4. CASE Forward BY <1>4, ForwardGrad
<1>5. CASE StandardBackward \/ LocalLossBackward \/ GpipeBackward BY <1>5, BackwardGrad
<1>6. CASE StepDown BY <1>6, StepDownGrad
<1>7. CASE StepAll BY <1>7, StepAllGrad
<1>8. CASE Done \/ UNCHANGED vars
  <2>1. UNCHANGED <<pc, run, flow, grad, inputs, refs, micro, slice>>
    BY <1>8 DEF Done, vars, loopVars, batchVars
  <2>2. Top' = Top BY <2>1, SameSettings
  <2>3. \A i : (Stepped(i)' <=> Stepped(i)) /\ Passed(i)' = Passed(i)
    BY <2>1, <2>2 DEF Stepped, Passed
  <2>4. Gradients' BY <2>1, <2>2, <2>3 DEF GradInv, Gradients
  <2> QED BY <2>1, <2>2, <2>4 DEF GradInv, Inputs, References
<1> QED BY <1>1, <1>2, <1>3, <1>4, <1>5, <1>6, <1>7, <1>8 DEF Next

\* Only Optimize counts a step, and only of its slice.
LEMMA StepsMove ==
  ASSUME SessionInv, [Next]_vars, NEW i \in Slice, steps'[i] # steps[i]
  PROVE  pc = "step" /\ i = slice
<1>1. steps' # steps OBVIOUS
<1>2. StepDown \/ StepAll
  BY <1>1 DEF Next, vars, loopVars, batchVars, BeginEpoch, NextBatch, SwapServer, Forward, TooFewChunks,
             StandardBackward, LocalLossBackward, GpipeBackward, Backward, EndBatches, Finish, RoundEnd,
             AggregateRound, Evaluate, EndEpoch, Done
<1>3. pc = "step" /\ steps' = [steps EXCEPT ![slice] = @ + 1]
  BY <1>2 DEF StepDown, StepAll, Optimize
<1>4. DOMAIN steps = Slice BY DEF SessionInv, Types
<1> QED BY <1>3, <1>4

\* Each step of a slice's optimizer takes the gradient of every micro-batch of its batch,
\* of every use of its parameters, and of nothing else (_standard_batch, _gpipe_batch,
\* _local_loss_batch), though attacks run the slices in between (_query).
THEOREM StepsAreWhole == Spec => StepsTakeWholeBatches
<1>1. Init => GradInv
  <2> SUFFICES ASSUME Init PROVE GradInv
    OBVIOUS
  <2>1. pc = "epoch" /\ flow = TRUE /\ grad = [i \in Slice |-> {}] BY DEF Init
  <2> QED BY <2>1 DEF GradInv, Inputs, References, Gradients
<1>2. SessionInv /\ GradInv /\ [Next]_vars => GradInv' BY GradInvNext
<1>3. SessionInv /\ GradInv /\ [Next]_vars =>
        \A i \in Slice : steps'[i] # steps[i] => grad[i] = WholeGradient(i)
  BY StepsMove, StepTakesAll
<1>4. Spec => []GradInv BY <1>1, <1>2, SessionInvariant, PTL DEF Spec
<1> QED BY <1>3, <1>4, SessionInvariant, PTL DEF Spec, StepsTakeWholeBatches

=============================================================================
