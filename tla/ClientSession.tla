----------------------------- MODULE ClientSession -----------------------------
(***************************************************************************)
(* Several data owners (clients) train against shared server slices        *)
(* (sl/clients.py, algorithm/builtin.py).  The process that hosts the      *)
(* client slices holds one live copy of them; ClientSession keeps a state  *)
(* per client and swaps them in and out as the batches change client.      *)
(*                                                                         *)
(* A slice's weights are the set of batches they were trained on, so an    *)
(* average of weights is a union.  Its optimizer is the set of batches its *)
(* moments come from, with the learning rate written at the last step as   *)
(* the sequence of schedule factors applied to the base rate (<<>> is the  *)
(* base rate itself), and `initial_lr`, which is absent before that step.  *)
(***************************************************************************)
EXTENDS Naturals, Sequences, FiniteSets, SequencesExt

CONSTANTS
  NClients,    \* number of clients of the session
  NSlices,     \* number of slices of the model
  None         \* a state not there yet, or a missing optimizer

Client == 0 .. NClients - 1
Slice == 0 .. NSlices - 1

(* A slice's weights, with the optimizer's state or without. *)
Optimizer == [seen : SUBSET Nat, lr : Seq(Nat), base : Seq(Nat) \cup {None}]
Layer == [model : SUBSET Nat, opt : Optimizer \cup {None}]

ASSUME SessionAssumption ==
  /\ NClients \in Nat \ {0}
  /\ NSlices \in Nat \ {0, 1}
  /\ None \notin Nat /\ None \notin Seq(Nat) /\ None \notin Optimizer
  /\ \A slices \in SUBSET Slice : None \notin [slices -> Layer]

VARIABLES
  run,       \* the settings of the run, fixed when it starts
  live,      \* the SplitLayers' weights and optimizers
  states,    \* session.states
  current,   \* session.current
  initial    \* session._initial

sessionVars == <<live, states, current, initial>>

(* Placement.client_slices: what the data owner hosts. *)
ClientSlices ==
  IF run.setting = "vanilla" THEN {0} ELSE {0, NSlices - 1}
ServerSlices == Slice \ ClientSlices

NoSession == states = [k \in Client |-> None] /\ current = None /\ initial = None
Fresh == [model |-> {}, opt |-> [seen |-> {}, lr |-> <<>>, base |-> None]]

(* SplitLayerClientState over some slices of the live copy. *)
GetState(layers, slices) == [i \in slices |-> layers[i]]

\* Mutant: a state without an optimizer leaves the moments of whoever ran last.
SetStateKeepsMoments(layers, state) ==
  [i \in Slice |->
     IF i \notin DOMAIN state THEN layers[i]
     ELSE [model |-> state[i].model,
           opt |-> IF state[i].opt # None THEN state[i].opt ELSE layers[i].opt]]

SetState(layers, state) ==
  [i \in Slice |->
     IF i \notin DOMAIN state THEN layers[i]
     ELSE [model |-> state[i].model,
           opt |-> IF state[i].opt # None THEN state[i].opt
                   ELSE [layers[i].opt EXCEPT !.seen = {}]]]

(* The average of the states that are there; optimizers are dropped. *)
fedavg(all) ==
  LET given == all \ {None}
  IN  IF given = {} THEN None
      ELSE [i \in DOMAIN (CHOOSE s \in given : TRUE) |->
              [model |-> UNION {s[i].model : s \in given}, opt |-> None]]

(* ClientSession._order: the batches of a round, each by the place of its  *)
(* client in the round and its number in that client's loader.  Sequential *)
(* clients train one after the other; parallel ones take turns, and one    *)
(* whose loader is exhausted drops out. *)
Turns(clients) == UNION {{i} \X (1 .. run.batches[clients[i]]) : i \in DOMAIN clients}

Earlier(t, u) ==
  IF run.mode = "sequential"
  THEN t[1] < u[1] \/ (t[1] = u[1] /\ t[2] < u[2])
  ELSE t[2] < u[2] \/ (t[2] = u[2] /\ t[1] < u[1])

(* ClientSession._switch, ahead of client k's batch. *)
Handoff(prev, next) ==
  IF run.handoff = "copy" THEN prev ELSE IF next # None THEN next ELSE initial

SavedStates ==
  IF current = None THEN states
  ELSE [states EXCEPT ![current] = GetState(live, ClientSlices)]

\* Mutant: the client that leaves is not stored.
SwitchForgets(k) ==
  /\ current' = k
  /\ IF current = None /\ states[k] = None
     THEN UNCHANGED <<live, states>>
     ELSE /\ UNCHANGED states
          /\ live' = SetState(live,
               IF run.mode = "sequential" /\ current # None
               THEN Handoff(GetState(live, ClientSlices), states[k])
               ELSE IF states[k] # None THEN states[k] ELSE initial)

Switch(k) ==
  /\ current' = k
  /\ IF current = None /\ states[k] = None
     THEN UNCHANGED <<live, states>>
     ELSE /\ states' = SavedStates
          /\ live' = SetState(live,
               IF run.mode = "sequential" /\ current # None
               THEN Handoff(states'[current], states'[k])
               ELSE IF states'[k] # None THEN states'[k] ELSE initial)

(* The end of batches() in a parallel session, with its own on_round_end   *)
(* callback when the user gave one (here: fedavg, as the docs do). *)
CallbackStates ==
  LET all == [k \in Client |-> IF SavedStates[k] # None THEN SavedStates[k] ELSE initial]
  IN  IF run.callback
      THEN [k \in Client |-> fedavg({all[j] : j \in Client})]
      ELSE SavedStates

EndOfBatches ==
  IF run.mode = "parallel" /\ current # None
  THEN /\ states' = CallbackStates
       /\ live' = SetState(live, states'[current])
  ELSE UNCHANGED <<states, live>>

(* replace_states: the active client's new state is loaded as well. *)
ReplaceStates(new) ==
  /\ states' = new
  /\ live' = IF current # None /\ new[current] # None
             THEN SetState(live, new[current]) ELSE live

(* algorithm_round_end, first half: on_round_end over the participants. *)
StatesOf(clients) == {states[k] : k \in ToSet(clients)}

OnRoundEnd(clients) ==
  LET avg == fedavg(StatesOf(clients))
  IN  IF run.algorithm # "default" /\ avg # None
      THEN ReplaceStates([k \in Client |-> IF k \in ToSet(clients) THEN avg ELSE states[k]])
      ELSE UNCHANGED <<states, live>>

(* Second half: the aggregated client state goes to every client, and the  *)
(* averaged server state to the live server slices. *)
AggregatedServer(clients, servers) ==
  IF run.algorithm # "splitfed_v1" THEN None
  ELSE fedavg({servers[k] : k \in ToSet(clients)})

\* Mutant: only the round's participants get the average.
AggregateParticipants(clients, servers) ==
  LET avg == IF run.algorithm = "default" THEN None ELSE fedavg(StatesOf(clients))
      server == AggregatedServer(clients, servers)
      clientSide == IF avg # None /\ current # None THEN SetState(live, avg) ELSE live
  IN  /\ states' = IF avg # None
                   THEN [k \in Client |-> IF k \in ToSet(clients) THEN avg ELSE states[k]]
                   ELSE states
      /\ live' = IF server # None THEN SetState(clientSide, server) ELSE clientSide

Aggregate(clients, servers) ==
  LET avg == IF run.algorithm = "default" THEN None ELSE fedavg(StatesOf(clients))
      server == AggregatedServer(clients, servers)
      clientSide == IF avg # None /\ current # None THEN SetState(live, avg) ELSE live
  IN  /\ states' = IF avg # None THEN [k \in Client |-> avg] ELSE states
      /\ live' = IF server # None THEN SetState(clientSide, server) ELSE clientSide
================================================================================
