------------------------------- MODULE Setup -------------------------------
(***************************************************************************)
(* From processes to a training run (DistributedExecutor.setup, run_worker *)
(* and the discovery backends): workers start, register and re-register;   *)
(* the coordinator discovers them, asks what they can do, orders and plans *)
(* the slices, ships them, waits for the NCCL rendezvous, trains, and      *)
(* shuts everybody down.  Workers and coordinator may die and be started   *)
(* again at any point.  The P2P driver is the case of a static peer list   *)
(* and slices hosted in the process itself.                                *)
(***************************************************************************)
EXTENDS Integers, FiniteSets, FiniteSetsExt, SequencesExt

CONSTANTS
  Worker,       \* worker addresses
  Owner, TailHost,  \* the slices hosted in the coordinator's or driver's process
  None, Gone, Dropped,  \* no slice yet; its process ended since; a shutdown reset it
  Settings,     \* the runs to explore, records of the fields of `setting`
  LayerMemory,  \* the memory each layer needs, in model order
  Memories,     \* the free memory a machine may have
  HostMemory,   \* the free memory of the coordinator's machine
  MaxRegister,  \* discovery.registration_max_attempts
  MaxInit       \* startup.worker_init_max_attempts

ASSUME SetupAssumption ==
  /\ Owner \notin Worker /\ TailHost \notin Worker \cup {Owner} /\ {None, Gone, Dropped} \cap (Worker \cup {Owner, TailHost}) = {}
  /\ MaxRegister \in Nat \ {0} /\ MaxInit \in Nat \ {0}
  /\ LayerMemory \in Seq(Nat)
  /\ \E most \in Memories : \A m \in Memories : most >= m

(* Who declares what is the workers' own business, and a list of peers     *)
(* names a worker once. *)
ASSUME SettingsAssumption ==
  \A s \in Settings :
    /\ s.n \in 1 .. Len(LayerMemory) /\ s.setting \in {"pipeline", "vanilla", "u_shaped"}
    /\ s.first \subseteq Worker /\ s.caps \in [Worker -> Nat]
    /\ s.peers \in Seq(Worker) /\ IsInjective(s.peers)
    /\ s.runs \in Nat /\ s.tokens \in Nat

(* A setting also bounds what is explored: how often the coordinator is    *)
(* started (runs), how many workers die, calls are lost or memories change *)
(* (faults), and how many shipments leave room for a reinit() (tokens). *)

VARIABLES
  setting,   \* the run's configuration
  phase,     \* where the coordinator is in setup(), training and teardown()
  run,       \* how many times it was started
  nodes,     \* CoordinatorDiscovery._nodes (or the static peers): addresses in order
  info,      \* the NodeInfo of each of them, shared with the executor
  chosen,    \* DistributedExecutor._nodes, in slice order
  proxies,   \* DistributedExecutor._proxies, in slice order
  shares,    \* partitions: the set of layers of each slice
  at,        \* the node a loop of setup() or teardown() is at
  tries,     \* attempts left to init that node
  token,     \* init_token, numbered
  again,     \* reinit() gave the workers slices the planner did not make
  store,     \* the TCPStore: which ranks joined on which GPU, and what they report;
             \* and the init()s that began a rendezvous on it (history)
  threads,   \* the rendezvous threads of the processes
  group,     \* the process group each process holds: who joined it, or nobody
  batch,     \* where the batch in flight is
  stopped,   \* who teardown() told to shut down
  state,     \* each worker's process: off, registering, up or exited
  attempts,  \* registration attempts it has left
  told,      \* the capabilities it registers with, read when it started
  free,      \* its machine's free memory now
  slice,     \* the slice each node holds, or None
  late,      \* the shutdown()s answered whose thread has yet to act
  faults     \* how many of setting.faults happened

setupVars == <<phase, chosen, proxies, shares, at, tries, token, again>>
poolVars == <<nodes, info>>
ncclVars == <<store, threads, group>>
sliceVars == <<slice, late>>
workerVars == <<state, attempts, told, free>>
vars == <<setting, run, setupVars, poolVars, ncclVars, batch, stopped, workerVars, sliceVars, faults>>

Hosted == {Owner, TailHost}
Node == Worker \cup Hosted
n == setting.n
Ranks == 1 .. n

(* The slices this process hosts, and what is left for remote workers. *)
_hosted ==
  CASE setting.setting = "pipeline" -> {}
    [] setting.setting = "vanilla"  -> {1}
    [] setting.setting = "u_shaped" -> {1, n}
HostOf(i) == IF i = 1 THEN Owner ELSE TailHost
Expected == n - Cardinality(_hosted)

Serving == phase \notin {"down", "ended"}
Up(w) == state[w] \in {"registering", "up"}
Reachable(id) == IF id \in Worker THEN Up(id) ELSE TRUE

Unknown == [memory |-> 0, cap |-> 0, first |-> FALSE]

(* capabilities(): declared values and the memory that is free now. *)
capabilities(id) ==
  IF id \in Hosted
  THEN [memory |-> HostMemory, cap |-> 0, first |-> id = Owner]
  ELSE [memory |-> free[id], cap |-> setting.caps[id], first |-> id \in setting.first]

(* A plausible bug: the declared cap is not asked for. *)
MemoryCapFreeOnly(id) == info[id].memory

(* memory_cap_mb(): the declared cap, else what is free; 0 is unknown. *)
memory_cap_mb(id) == IF info[id].cap > 0 THEN info[id].cap ELSE info[id].memory

Memory(layers) == MapThenSumSet(LAMBDA l : LayerMemory[l], layers)
FitsIn(layers, cap) == cap = 0 \/ Memory(layers) <= cap

(* Every way to cut the layers into n contiguous slices. *)
Splits ==
  {[i \in Ranks |-> ends[i] + 1 .. ends[i + 1]] :
     ends \in {e \in [1 .. n + 1 -> 0 .. Len(LayerMemory)] :
                 e[1] = 0 /\ e[n + 1] = Len(LayerMemory) /\ \A i \in Ranks : e[i] < e[i + 1]}}

SliceConfig(i) ==
  [layers |-> shares[i], index |-> i, token |-> token,
   prev |-> IF i > 1 THEN proxies[i - 1] ELSE None,
   next |-> IF i < n THEN proxies[i + 1] ELSE None]

(* The values of SliceConfig; no slice is none of them. *)
SliceRecord ==
  [layers : SUBSET DOMAIN LayerMemory, index : 1 .. Len(LayerMemory), token : Nat,
   prev : Node \cup {None}, next : Node \cup {None}]

ASSUME SliceAssumption == {None, Gone, Dropped} \cap SliceRecord = {}

Holds(id) == slice[id] \notin {None, Gone, Dropped}

(* The slices this process hosts share its one default process group. *)
ProcessOf(id) == IF id \in Hosted THEN Owner ELSE id

NoBatch == [at |-> 0, back |-> FALSE]
Lost == [at |-> -1, back |-> FALSE]

-----------------------------------------------------------------------------

(* The coordinator's store, where the ranks of a shipment will meet. *)
EmptyStore == [begun |-> {}, joined |-> {}, status |-> {}]

Init ==
  /\ setting \in Settings
  /\ phase = "down" /\ run = 0
  /\ nodes = <<>> /\ info = [id \in Node |-> Unknown]
  /\ chosen = <<>> /\ proxies = <<>> /\ shares = <<>>
  /\ at = 1 /\ tries = MaxInit /\ token = 0 /\ again = FALSE
  /\ store = EmptyStore /\ threads = {} /\ group = [id \in Node |-> {}]
  /\ batch = NoBatch /\ stopped = {}
  /\ state = [w \in Worker |-> "off"]
  /\ attempts = [w \in Worker |-> MaxRegister]
  /\ told = [w \in Worker |-> Unknown]
  /\ free \in [Worker -> {Max(Memories)}]
  /\ slice = [id \in Node |-> None] /\ late = {}
  /\ faults = 0

-----------------------------------------------------------------------------
(* The worker process. *)

Fault == faults < setting.faults /\ faults' = faults + 1

(* run_worker(): the server is up before the worker registers; a follower *)
(* of a P2P driver does not register at all. *)
StartWorker(w) ==
  /\ \/ state[w] = "off" /\ UNCHANGED faults
     \/ state[w] = "exited" /\ Fault
  /\ state' = [state EXCEPT ![w] = IF setting.static THEN "up" ELSE "registering"]
  /\ attempts' = [attempts EXCEPT ![w] = MaxRegister]
  /\ told' = [told EXCEPT ![w] = capabilities(w)]
  /\ UNCHANGED <<setting, run, setupVars, poolVars, ncclVars, batch, stopped, free, sliceVars>>

(* A batch that a node was working on is gone. *)
LosesBatch(id) ==
  batch' = IF phase = "training" /\ batch.at > 0 /\ proxies[batch.at] = id THEN Lost ELSE batch

(* Processes end, with their slices and threads. *)
End(ids) ==
  /\ slice' = [id \in Node |-> IF id \in ids /\ slice[id] # None THEN Gone ELSE slice[id]]
  /\ late' = {l \in late : l.id \notin ids}
  /\ threads' = {t \in threads : t.id \notin ids}
  /\ group' = [id \in Node |-> IF id \in ids THEN {} ELSE group[id]]
  /\ UNCHANGED store

CrashWorker(w) ==
  /\ Up(w)
  /\ Fault
  /\ state' = [state EXCEPT ![w] = "off"]
  /\ End({w}) /\ LosesBatch(w)
  /\ UNCHANGED <<setting, run, setupVars, poolVars, stopped, attempts, told, free>>

MemoryMoves(w) ==
  /\ Fault
  /\ \E m \in Memories \ {free[w]} : free' = [free EXCEPT ![w] = m]
  /\ UNCHANGED <<setting, run, setupVars, poolVars, ncclVars, batch, stopped, state, attempts, told, sliceVars>>

(* A plausible bug: only the last node's id is compared. *)
HandleRegisterAppending(w) ==
  /\ nodes' = IF nodes # <<>> /\ Last(nodes) = w THEN nodes ELSE Append(nodes, w)
  /\ info' = [info EXCEPT ![w] = told[w]]

(* handle_register(): idempotent in the node's id; its NodeInfo takes what *)
(* the worker said. *)
handle_register(w) ==
  /\ nodes' = IF w \in ToSet(nodes) THEN nodes ELSE Append(nodes, w)
  /\ info' = [info EXCEPT ![w] = told[w]]

(* The coordinator's handler; a static list takes no registrations. *)
register(w) == ~setting.static /\ handle_register(w)

(* announce_to_coordinator() at startup: one attempt that succeeds, or one *)
(* that fails, whether or not the coordinator handled it. *)
Registered(w) ==
  /\ state[w] = "registering"
  /\ Serving
  /\ register(w)
  /\ state' = [state EXCEPT ![w] = "up"]
  /\ UNCHANGED <<setting, run, setupVars, ncclVars, batch, stopped, attempts, told, free, sliceVars, faults>>

(* The last failure ends the process, unless it is persistent. *)
GivesUp(w) == IF setting.persistent THEN "up" ELSE "exited"

RegistrationFails(w) ==
  /\ state[w] = "registering"
  /\ \/ ~Serving /\ UNCHANGED <<poolVars, faults>>
     \/ Serving /\ Fault /\ (register(w) \/ UNCHANGED poolVars)
  /\ attempts' = [attempts EXCEPT ![w] = @ - 1]
  /\ state' = [state EXCEPT ![w] = IF attempts[w] = 1 THEN GivesUp(w) ELSE @]
  /\ IF state'[w] = "exited" THEN End({w}) /\ LosesBatch(w) ELSE UNCHANGED <<ncclVars, sliceVars, batch>>
  /\ UNCHANGED <<setting, run, setupVars, stopped, told, free>>

(* A plausible bug: the watchdog does not outlive its first coordinator. *)
WatchesOnce(w) == run = 1 /\ state[w] = "up" /\ ~setting.static /\ Serving
Watches(w) == state[w] = "up" /\ ~setting.static /\ Serving

(* The watchdog thread re-registers, so that a restarted coordinator finds *)
(* this worker. *)
Watchdog(w) ==
  /\ Watches(w)
  /\ register(w)
  /\ UNCHANGED <<setting, run, setupVars, ncclVars, batch, stopped, workerVars, sliceVars, faults>>

-----------------------------------------------------------------------------
(* DistributedExecutor.setup(), step by step. *)

(* An exception ends train(), without a teardown, and with it the process. *)
Fail ==
  /\ phase' = "down"
  /\ chosen' = <<>> /\ proxies' = <<>> /\ shares' = <<>>
  /\ at' = 1 /\ tries' = MaxInit /\ again' = FALSE
  /\ UNCHANGED token

(* _start_server() comes first; a static list is the peers themselves. *)
StartCoordinator ==
  /\ phase \in {"down", "ended"}
  /\ run < setting.runs
  /\ run' = run + 1
  /\ phase' = "discover"
  /\ nodes' = IF setting.static THEN setting.peers ELSE <<>>
  /\ info' = [id \in Node |-> IF id \in Hosted THEN capabilities(id) ELSE Unknown]
  /\ chosen' = <<>> /\ proxies' = <<>> /\ shares' = <<>>
  /\ at' = 1 /\ tries' = MaxInit /\ again' = FALSE
  /\ store' = EmptyStore
  /\ threads' = {t \in threads : t.id \in Worker} /\ group' = [group EXCEPT ![Owner] = {}]
  /\ batch' = NoBatch /\ stopped' = {}
  /\ slice' = [slice EXCEPT ![Owner] = None, ![TailHost] = None]
  /\ late' = {l \in late : l.id \in Worker}
  /\ UNCHANGED <<setting, token, workerVars, faults>>

CrashCoordinator ==
  /\ Serving
  /\ run < setting.runs
  /\ Fail
  /\ UNCHANGED <<setting, run, poolVars, ncclVars, batch, stopped, workerVars, sliceVars, faults>>

(* _discover(): the slices this process hosts, and the first registered    *)
(* workers for the others, in order. *)
_discover ==
  LET remote(i) == nodes[Cardinality(1 .. i \ _hosted)]
  IN [i \in Ranks |-> IF i \in _hosted THEN HostOf(i) ELSE remote(i)]

Discover ==
  /\ phase = "discover"
  /\ Len(nodes) >= Expected
  /\ chosen' = _discover
  /\ proxies' = _discover
  /\ phase' = "reach" /\ at' = 1
  /\ UNCHANGED <<setting, run, shares, tries, token, again, poolVars, ncclVars, batch, stopped,
                 workerVars, sliceVars, faults>>

DiscoverTimeout ==
  /\ phase = "discover"
  /\ Len(nodes) < Expected
  /\ Fail
  /\ UNCHANGED <<setting, run, poolVars, ncclVars, batch, stopped, workerVars, sliceVars, faults>>

(* A loop of setup() over the proxies: go on to the next, or to the phase  *)
(* after the loop. *)
Advance(next) ==
  /\ phase' = IF at = n THEN next ELSE phase
  /\ at' = IF at = n THEN 1 ELSE at + 1
  /\ UNCHANGED <<chosen, proxies, shares, tries, token, again>>

(* _probe_nodes(): first every remote worker must accept connections... *)
Reach ==
  /\ phase = "reach"
  /\ IF Reachable(proxies[at]) THEN Advance("describe") ELSE Fail
  /\ UNCHANGED <<setting, run, poolVars, ncclVars, batch, stopped, workerVars, sliceVars, faults>>

(* ...then each says what it can do; one that fails to answer is planned   *)
(* with what is known already. *)
_probe_nodes ==
  /\ phase = "describe"
  /\ Advance("order")
  /\ info' = IF Reachable(proxies[at])
             THEN [info EXCEPT ![chosen[at]] = capabilities(proxies[at])] ELSE info
  /\ UNCHANGED <<setting, run, nodes, ncclVars, batch, stopped, workerVars, sliceVars, faults>>

(* Plausible bugs: first_slice is not looked at; or the other nodes are    *)
(* not moved out of its way. *)
FirstsForgotten == {}
MoveFirstOver(s, f) == [s EXCEPT ![1] = s[f]]

(* _order_nodes(): the worker that declares first_slice goes first. *)
Firsts == {i \in Ranks : info[chosen[i]].first}
MoveFirst(s, f) == <<s[f]>> \o RemoveAt(s, f)

_order_nodes ==
  /\ phase = "order"
  /\ \/ /\ 1 \in _hosted \/ Firsts = {}
        /\ phase' = "plan"
        /\ UNCHANGED <<chosen, proxies, shares, at, tries, token, again>>
     \/ /\ 1 \notin _hosted /\ Cardinality(Firsts) = 1
        /\ LET f == CHOOSE i \in Firsts : TRUE
           IN chosen' = MoveFirst(chosen, f) /\ proxies' = MoveFirst(proxies, f)
        /\ phase' = "plan"
        /\ UNCHANGED <<shares, at, tries, token, again>>
     \/ /\ 1 \notin _hosted /\ Cardinality(Firsts) > 1
        /\ Fail
  /\ UNCHANGED <<setting, run, poolVars, ncclVars, batch, stopped,
                 workerVars, sliceVars, faults>>

(* planner(nodes), with a strategy that looks at the nodes: any split in   *)
(* which every slice fits its node, as module Slicing shows; none means    *)
(* that the strategy raises. *)
planner == {s \in Splits : \A i \in Ranks : FitsIn(s[i], memory_cap_mb(chosen[i]))}

ShipFrom(parts) ==
  /\ parts # {}
  /\ \E s \in parts : shares' = s
  /\ phase' = "init"
  /\ at' = 1 /\ tries' = MaxInit /\ token' = token + 1
  /\ UNCHANGED <<chosen, proxies>>

Plan ==
  /\ phase = "plan"
  /\ \/ ShipFrom(planner) /\ UNCHANGED again
     \/ planner = {} /\ Fail
  /\ UNCHANGED <<setting, run, poolVars, ncclVars, batch, stopped, workerVars, sliceVars, faults>>

(* reinit(): another model, cut as the caller likes, on the same workers. *)
Reinit ==
  /\ phase = "training" /\ batch = NoBatch
  /\ token < setting.tokens
  /\ ShipFrom(Splits)
  /\ again' = TRUE
  /\ UNCHANGED <<setting, run, poolVars, ncclVars, batch, stopped, workerVars, sliceVars, faults>>

AfterInit == IF setting.nccl THEN "rendezvous" ELSE "training"

(* A plausible bug: attempts that fail are not counted. *)
UnavailableForever == UNCHANGED setupVars

(* _init_worker(): only UNAVAILABLE is tried again. *)
Unavailable ==
  IF tries > 1
  THEN tries' = tries - 1 /\ UNCHANGED <<phase, chosen, proxies, shares, at, token, again>>
  ELSE Fail

Shipped ==
  /\ phase' = IF at = n THEN AfterInit ELSE phase
  /\ at' = IF at = n THEN 1 ELSE at + 1
  /\ tries' = MaxInit
  /\ UNCHANGED <<chosen, proxies, shares, token, again>>

(* init() gives the node its slice and starts a rendezvous in a thread of  *)
(* the worker, whatever a thread of an earlier init() is doing. *)
Begun == [token |-> token, index |-> at, number |-> MaxInit - tries + 1]

HandleInit(id) ==
  /\ slice' = [slice EXCEPT ![id] = SliceConfig(at)]
  /\ IF setting.nccl
     THEN /\ threads' = threads \cup {[id |-> id, run |-> run, join |-> Begun, at |-> "begun"]}
          /\ store' = [store EXCEPT !.begun = @ \cup {Begun}]
     ELSE UNCHANGED <<threads, store>>
  /\ UNCHANGED <<group, late>>

_init_slices ==
  /\ phase = "init"
  /\ LET id == proxies[at] IN
     \/ Reachable(id) /\ HandleInit(id) /\ Shipped /\ UNCHANGED faults
     \/ /\ id \in Worker /\ Reachable(id)   \* the slice is there, the answer is not
        /\ Fault
        /\ HandleInit(id) /\ Unavailable
     \/ ~Reachable(id) /\ Unavailable /\ UNCHANGED <<ncclVars, sliceVars, faults>>
  /\ UNCHANGED <<setting, run, poolVars, batch, stopped, workerVars>>

-----------------------------------------------------------------------------
(* The NCCL rendezvous: a thread of the worker for every init(), each of   *)
(* which uses the keys of its shipment and rank. *)

(* The init() of a rank was repeated, its answer having been lost. *)
Repeated == \E b, c \in store.begun : b.token = c.token /\ b.index = c.index /\ b # c

Joined(t) == {j \in store.joined : j.token = t}
HasJoined(t, i) == \E j \in Joined(t) : j.index = i
(* A plausible bug: the status keys do not name the shipment. *)
ReportedEver(t) == {[s EXCEPT !.token = t] : s \in store.status}

Reported(t) == {s \in store.status : s.token = t}
SharedGpu(t, i) ==
  \E j, k \in Joined(t) : j.index = i /\ k.index # i /\ j.gpu = k.gpu

(* What is set under the key of a shipment's rank replaces what was there. *)
Put(entries, e) == {o \in entries : o.token # e.token \/ o.index # e.index} \cup {e}

(* The store is the coordinator's: it ends with that process. *)
Connected(t) == t.run = run /\ Serving

(* A process group there may be is destroyed first. *)
Join(t) ==
  /\ t.at = "begun" /\ Connected(t)
  /\ group' = [group EXCEPT ![ProcessOf(t.id)] = {}]
  /\ store' = [store EXCEPT !.joined = Put(@,
       [token |-> t.join.token, index |-> t.join.index, number |-> t.join.number, gpu |-> setting.gpu[t.id]])]
  /\ threads' = (threads \ {t}) \cup {[t EXCEPT !.at = "joined"]}
  /\ UNCHANGED <<setting, run, setupVars, poolVars, batch, stopped, workerVars, sliceVars, faults>>

(* With every rank there, a shared GPU is an error of each that shares it, *)
(* and so is a process group another thread of the process has; the group  *)
(* forms otherwise, but of what a repeated init() left in the store it may *)
(* form or not.  Waiting for a rank ends in an error when the store's      *)
(* timeout expires.  How torch.distributed forms a group is external. *)
Outcome(t) ==
  LET k == t.join.token
      all == \A r \in Ranks : HasJoined(k, r)
  IN IF ~all \/ (\E r \in Ranks : SharedGpu(k, r)) \/ group[ProcessOf(t.id)] # {} THEN {"err"}
     ELSE IF Repeated THEN {"ok", "err"} ELSE {"ok"}

(* The end of _rendezvous(): the group, and the rank's status. *)
_rendezvous(t) ==
  /\ t.at = "joined" /\ Connected(t)
  /\ \E res \in Outcome(t) :
       /\ store' = [store EXCEPT !.status =
            Put(@, [token |-> t.join.token, index |-> t.join.index, result |-> res])]
       /\ group' = IF res = "ok" THEN [group EXCEPT ![ProcessOf(t.id)] = Joined(t.join.token)] ELSE group
  /\ threads' = threads \ {t}
  /\ UNCHANGED <<setting, run, setupVars, poolVars, batch, stopped, workerVars, sliceVars, faults>>

(* The store of an earlier coordinator answers no more. *)
Disconnect(t) ==
  /\ ~Connected(t)
  /\ threads' = threads \ {t}
  /\ UNCHANGED <<setting, run, setupVars, poolVars, store, group, batch, stopped, workerVars, sliceVars, faults>>

(* _wait_nccl_ready(): every rank ok, or the first error, or the timeout. *)
Errors(t) == {s \in Reported(t) : s.result = "err"}

_wait_nccl_ready ==
  /\ phase = "rendezvous"
  /\ \/ Errors(token) # {} /\ Fail
     \/ /\ Errors(token) = {} /\ Cardinality(Reported(token)) = n
        /\ phase' = "training"
        /\ UNCHANGED <<chosen, proxies, shares, at, tries, token, again>>
     \/ Cardinality(Reported(token)) < n /\ Fail   \* the deadline passed
  /\ UNCHANGED <<setting, run, poolVars, ncclVars, batch, stopped, workerVars, sliceVars, faults>>

-----------------------------------------------------------------------------
(* Training: one batch through the slices and back, and the heartbeats. *)

(* The batch reaches slice i.  A worker that holds no slice (it was        *)
(* started since, or a shutdown() of the run before reset it since) cannot *)
(* say to whom it fails, and stops its server. *)
Deliver(i, back) ==
  LET id == proxies[i]
      refused == id \in Worker /\ Reachable(id) /\ ~Holds(id)
  IN /\ batch' = IF Holds(id) THEN [at |-> i, back |-> back] ELSE Lost
     /\ state' = [w \in Worker |-> IF refused /\ w = id THEN "exited" ELSE state[w]]
     /\ End(IF refused THEN {id} ELSE {})

SendBatch ==
  /\ phase = "training" /\ batch = NoBatch
  /\ \/ /\ Reachable(proxies[1])
        /\ Deliver(1, FALSE)
        /\ UNCHANGED setupVars
     \/ ~Reachable(proxies[1]) /\ Fail /\ UNCHANGED <<batch, state, ncclVars, sliceVars>>
  /\ UNCHANGED <<setting, run, poolVars, stopped, attempts, told, free, faults>>

Compute ==
  /\ phase = "training" /\ batch.at > 0
  /\ \/ ~batch.back /\ batch.at < n /\ Deliver(batch.at + 1, FALSE)
     \/ (batch.back \/ batch.at = n) /\ batch.at > 1 /\ Deliver(batch.at - 1, TRUE)
     \/ /\ (batch.back \/ batch.at = n) /\ batch.at = 1 /\ batch' = NoBatch
        /\ UNCHANGED <<state, ncclVars, sliceVars>>
  /\ UNCHANGED <<setting, run, setupVars, poolVars, stopped, attempts, told, free, faults>>

(* _heartbeat_loop(): get_stats(epoch=-1) asks only whether the server     *)
(* answers; WorkerFailureError ends train() without a teardown. *)
Heartbeat(i) ==
  /\ phase = "training"
  /\ ~Reachable(proxies[i])
  /\ Fail
  /\ UNCHANGED <<setting, run, poolVars, ncclVars, batch, stopped, workerVars, sliceVars, faults>>

-----------------------------------------------------------------------------
(* teardown() *)

Teardown ==
  /\ phase = "training" /\ batch = NoBatch
  /\ phase' = "stopping" /\ at' = 1
  /\ UNCHANGED <<setting, run, chosen, proxies, shares, tries, token, again, poolVars, ncclVars, batch,
                 stopped, workerVars, sliceVars, faults>>

(* shutdown() answers, and leaves the rest to a thread. *)
ShutdownCalls(ids) ==
  /\ stopped' = stopped \cup ids
  /\ late' = late \cup {[id |-> id, run |-> run] : id \in {i \in ids : Reachable(i)}}
  /\ UNCHANGED <<ncclVars, state, slice>>

(* The thread: a persistent worker, and a node hosted in the process, drop *)
(* their slice, which may be the next run's by now; another worker's       *)
(* process ends. *)
ActOnShutdown(l) ==
  /\ LosesBatch(l.id)
  /\ IF setting.persistent \/ l.id \in Hosted
     THEN /\ late' = late \ {l}
          /\ slice' = [slice EXCEPT ![l.id] = IF Holds(l.id) THEN Dropped ELSE @]
          /\ UNCHANGED <<ncclVars, state>>
     ELSE End({l.id}) /\ state' = [state EXCEPT ![l.id] = "exited"]
  /\ UNCHANGED <<setting, run, setupVars, poolVars, stopped, attempts, told, free, faults>>

ShutdownActive ==
  /\ phase = "stopping"
  /\ Advance("idle")
  /\ ShutdownCalls({proxies[at]})
  /\ UNCHANGED <<setting, run, poolVars, batch, attempts, told, free, faults>>

(* A plausible bug: the slices of this process count as discovered. *)
IdleNodesCountingHosted ==
  IF setting.static THEN {} ELSE ToSet(SubSeq(nodes, n + 1, Len(nodes)))

(* idle_nodes(): registered, and not among the first `expected`. *)
idle_nodes == IF setting.static THEN {} ELSE ToSet(SubSeq(nodes, Expected + 1, Len(nodes)))

_shutdown_idle_workers ==
  /\ phase = "idle"
  /\ ShutdownCalls(idle_nodes \ ToSet(proxies))
  /\ phase' = "ended"
  /\ UNCHANGED <<setting, run, chosen, proxies, shares, at, tries, token, again, poolVars, batch,
                 attempts, told, free, faults>>

-----------------------------------------------------------------------------

SetupStep ==
  Reach \/ _probe_nodes \/ _order_nodes \/ Plan \/ _init_slices \/ _wait_nccl_ready
Stopping == ShutdownActive \/ _shutdown_idle_workers
Rendezvous(t) == Join(t) \/ _rendezvous(t) \/ Disconnect(t)
WorkerStep(w) == Registered(w) \/ RegistrationFails(w)

Next ==
  \/ StartCoordinator \/ CrashCoordinator \/ Discover \/ DiscoverTimeout
  \/ SetupStep
  \/ Reinit \/ SendBatch \/ Compute \/ Teardown \/ Stopping
  \/ \E i \in 1 .. Len(proxies) : Heartbeat(i)
  \/ \E t \in threads : Rendezvous(t)
  \/ \E l \in late : ActOnShutdown(l)
  \/ \E w \in Worker :
       StartWorker(w) \/ CrashWorker(w) \/ MemoryMoves(w) \/ WorkerStep(w) \/ Watchdog(w)

(* Threads and loops go on; nobody has to start, restart or crash.  The    *)
(* discovery timeout is long against the watchdog's interval, so it is not *)
(* among the steps that must come. *)
Fairness ==
  /\ WF_vars(Discover) /\ WF_vars(SetupStep) /\ WF_vars(Compute) /\ WF_vars(Stopping)
  /\ WF_vars(\E i \in 1 .. Len(proxies) : Heartbeat(i))
  /\ WF_vars(\E t \in threads : Rendezvous(t)) /\ WF_vars(\E l \in late : ActOnShutdown(l))
  /\ \A w \in Worker : WF_vars(WorkerStep(w)) /\ WF_vars(Watchdog(w))

Spec == Init /\ [][Next]_vars /\ Fairness

-----------------------------------------------------------------------------
(* Properties. *)

Phases ==
  {"down", "discover", "reach", "describe", "order", "plan", "init", "rendezvous", "training",
   "stopping", "idle", "ended"}

(* Every variable keeps its type; in particular a worker that registers    *)
(* again, from a new process or because a reply was lost, keeps its one    *)
(* place in the list of nodes (CoordinatorDiscovery.handle_register). *)
TypeOK ==
  /\ setting \in Settings /\ phase \in Phases /\ run \in 0 .. setting.runs
  /\ nodes \in Seq(Worker) /\ IsInjective(nodes)
  /\ \A id \in Node : info[id].memory \in Memories \cup {0, HostMemory}
  /\ chosen \in Seq(Node) /\ proxies \in Seq(Node) /\ Len(chosen) = Len(proxies)
  /\ at \in Ranks /\ tries \in 1 .. MaxInit /\ token \in 0 .. setting.tokens + setting.runs
  /\ batch.at \in -1 .. n /\ again \in BOOLEAN
  /\ stopped \subseteq Node
  /\ state \in [Worker -> {"off", "registering", "up", "exited"}]
  /\ attempts \in [Worker -> 0 .. MaxRegister]
  /\ slice \in [Node -> SliceRecord \cup {None, Gone, Dropped}]
  /\ \A l \in late : l.id \in Node /\ l.run \in 1 .. run

(* When training starts, the slices out there are one model: every node    *)
(* holds the slice of its place, from the same shipment, with the          *)
(* neighbours the others know, and together they hold each layer once.     *)
(* Only a process that ended since may miss its slice, and, from the       *)
(* second run on, a node that a shutdown() of an earlier run resets after  *)
(* the init() of this one (setup(), _init_slices, with lost replies,       *)
(* retries and restarts). *)
SlicesFormTheModel ==
  phase = "training" =>
    /\ IsInjective(proxies)
    /\ \A i \in Ranks :
         \/ slice[proxies[i]] = Gone
         \/ slice[proxies[i]] = Dropped /\ run > 1
         \/ /\ Holds(proxies[i])
            /\ slice[proxies[i]].index = i /\ slice[proxies[i]].token = token
            /\ i > 1 => slice[proxies[i]].prev = proxies[i - 1]
            /\ i < n => slice[proxies[i]].next = proxies[i + 1]
    /\ \A l \in DOMAIN LayerMemory :
         Cardinality({i \in Ranks : Holds(proxies[i]) /\ l \in slice[proxies[i]].layers}) <= 1
    /\ (\A i \in Ranks : Holds(proxies[i])) =>
         UNION {slice[proxies[i]].layers : i \in Ranks} = DOMAIN LayerMemory

(* Raw data stays where it is: the process that has it holds the slices    *)
(* its setting promises, and no worker that registers as first_slice ever  *)
(* holds another slice than the first of a run it owns the data of         *)
(* (sl/roles.py, NodeInfo.first_slice, _order_nodes).  A worker of a       *)
(* static list declares it to describe() alone, which may get no answer. *)
DataStaysWithItsOwner ==
  /\ phase = "training" => \A i \in _hosted : proxies[i] = HostOf(i)
  /\ \A w \in setting.first :
       (Holds(w) /\ _hosted = {} /\ ~setting.static) => slice[w].index = 1

(* No slice of a shipment the planner made exceeds the memory cap that its *)
(* worker registered with, whatever it described or forgot in between      *)
(* (memory_cap_mb, handle_register, _probe_nodes). *)
DeclaredCapsHold ==
  \A i \in DOMAIN proxies :
    LET id == proxies[i] IN
    (/\ phase \in {"init", "rendezvous", "training"} /\ ~again /\ ~setting.static
     /\ id \in Worker /\ Holds(id) /\ slice[id].token = token)
      => FitsIn(slice[id].layers, setting.caps[id])

(* Training over NCCL starts only when every rank of this very shipment    *)
(* has come to the rendezvous, each with a GPU of its own, and, unless the *)
(* init() of a rank was repeated on this store, when every process that    *)
(* still runs its slice is in the one group of them all: a rank that is    *)
(* not would leave its peers in a receive that never ends                  *)
(* (_wait_nccl_ready).  A repeated init() takes its rank out of the group, *)
(* at any time from then on, and _wait_nccl_ready may have read the "ok"   *)
(* of the rendezvous before. *)
GroupIsWhole ==
  (phase = "training" /\ setting.nccl) =>
    /\ \A i \in Ranks : HasJoined(token, i) /\ ~SharedGpu(token, i)
    /\ \A i \in Ranks :
         (Holds(proxies[i]) /\ ~Repeated) =>
           /\ group[ProcessOf(proxies[i])] = Joined(token)
           /\ \A t \in threads : t.id = proxies[i] => ~Connected(t)

(* A run that ends has told everybody who registered with it, chosen or    *)
(* not (teardown, _shutdown_idle_workers). *)
EveryoneIsTold ==
  [][(phase # "ended" /\ phase' = "ended") =>
       (IF setting.static THEN {} ELSE ToSet(nodes)) \cup ToSet(proxies) \subseteq stopped']_vars

(* setup() ends: it trains or gives up, whoever dies, restarts or loses a  *)
(* call meanwhile (wait_ready, call_with_retry, _wait_nccl_ready). *)
SettingUp == phase \in {"reach", "describe", "order", "plan", "init", "rendezvous"}
SetupSettles == SettingUp ~> ~SettingUp

(* A coordinator that waits for workers hears of every one that is up,     *)
(* even of those that registered with its predecessor (the watchdog of     *)
(* run_worker). *)
FoundAgain ==
  \A w \in Worker :
    (phase = "discover" /\ Up(w)) ~> (phase # "discover" \/ ~Up(w) \/ w \in ToSet(nodes))

(* A run trains only on a right shipment: the whole model, once, the data  *)
(* at its owner, within the caps the workers declared, in a group that is  *)
(* whole (setup, _init_slices, _wait_nccl_ready); what a late shutdown()   *)
(* or a repeated init() may take from it is said above, and nothing else. *)
ShipmentIsRight ==
  /\ TypeOK
  /\ SlicesFormTheModel /\ DataStaysWithItsOwner /\ DeclaredCapsHold /\ GroupIsWhole

(* Starting gets somewhere: a coordinator hears of the workers there are,  *)
(* and its setup ends (run_worker, DistributedExecutor.setup). *)
StartingEnds == SetupSettles /\ FoundAgain
=============================================================================
