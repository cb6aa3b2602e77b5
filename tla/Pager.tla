------------------------------- MODULE Pager -------------------------------
(***************************************************************************)
(* The slice pager of the offload executor: slices live in a slow tier and *)
(* are paged through a few slots of the device while a batch goes through  *)
(* them.  offload/pager.py, and the order in which _offload_batch() of     *)
(* offload/executor.py calls it.                                           *)
(*                                                                         *)
(* Compute, the copies to the device and those from it run on three CUDA   *)
(* streams, the files' I/O on a thread per slot and the optimizer of the   *)
(* host on a thread of its own.  Each is a queue whose operations start in *)
(* order, when what they wait for is done.  An event or a future is the    *)
(* number of the operation it is of, 0 is none.                            *)
(*                                                                         *)
(* A tensor is the slice it belongs to and how often it was updated.       *)
(* Every slice has buffers, and room for any is room for all.              *)
(***************************************************************************)
EXTENDS Integers, Sequences, FiniteSets

CONSTANTS
  NumSlices,
  NumSlots,    \* offload.slots
  NumBatches,  \* batches of the run
  MayFreeze    \* slices that may have no optimizer

ASSUME PagerAssumption ==
  /\ NumSlices \in Nat \ {0}
  /\ NumSlots \in Nat /\ NumSlots >= 2
  /\ NumBatches \in Nat \ {0}
  /\ MayFreeze \subseteq 1 .. NumSlices

Slice == 1 .. NumSlices
Last == NumSlices
Slot == 1 .. NumSlots
None == 0

VARIABLES
  mode,     \* "cpu": homes in RAM, "host": and the step on the CPU, "disk": files
  frozen,   \* the slices without an optimizer (like mode, it never changes)
  at,       \* where _offload_batch() is
  batch,    \* batches done
  page,     \* the state of each slice's page
  slot,     \* the state of each slot
  grown,    \* the slots have room for optimizer state
  clock,    \* _clock
  mem,      \* what every place holds
  queue,    \* the operations of every stream and thread
  ops,      \* operations issued so far
  mark,     \* the last operation issued to the compute stream
  latest    \* updates of each slice's tensors, in program order (history)

config == <<mode, frozen>>
vars == <<config, at, batch, page, slot, grown, clock, mem, queue, ops, mark, latest>>

\* Parameters, buffers, optimizer state, gradients.
Region == {"p", "b", "s", "g"}
Home(i) == <<"home", i>>
InSlot(s) == <<"slot", s>>
Staging(s) == <<"staging", s>>   \* disk: the pinned buffer of a slot
Place == {Home(i) : i \in Slice} \union {InSlot(s) : s \in Slot} \union {Staging(s) : s \in Slot}

Compute == <<"compute", 0>>
H2D == <<"h2d", 0>>
D2H == <<"d2h", 0>>
HostStep == <<"step", 0>>
Lane(s) == <<"lane", s>>
Queues == {Compute, H2D, D2H, HostStep} \union {Lane(s) : s \in Slot}

Nothing == [r \in Region |-> <<0, 0>>]

Init ==
  /\ mode \in {"cpu", "host", "disk"}
  /\ frozen \in SUBSET MayFreeze
  /\ at = [leg |-> "forward", slice |-> 1, call |-> "first"]
  /\ batch = 0
  /\ page = [i \in Slice |-> [slot |-> None, stateIn |-> FALSE, adopted |-> FALSE,
                              homeReady |-> 0, homeEv |-> 0]]
  /\ slot = [s \in Slot |-> [page |-> None, busy |-> FALSE, ready |-> 0, free |-> 0,
                             out |-> 0, last |-> 0, fresh |-> TRUE]]
  /\ grown = FALSE /\ clock = 0
  /\ mem = [place \in Place |->
              IF place[1] = "home"
              THEN [Nothing EXCEPT !["p"] = <<place[2], 0>>, !["b"] = <<place[2], 0>>]
              ELSE Nothing]
  /\ queue = [q \in Queues |-> <<>>]
  /\ ops = 0 /\ mark = 0
  /\ latest = [i \in Slice |-> [r \in {"p", "b", "s"} |-> 0]]

-----------------------------------------------------------------------------
(* Streams and threads. *)

\* The latest values of a slice, and the gradient of its n-th batch.
Now(i, regions) == [r \in regions |-> <<i, latest[i][r]>>]
Gradient(i, n) == [r \in {"g"} |-> <<i, n>>]
With(f, g) == [r \in DOMAIN f \union DOMAIN g |-> IF r \in DOMAIN f THEN f[r] ELSE g[r]]

\* want: what an operation should find where it reads, region by region.
Copy(after, from, to, want) ==
  [does |-> "copy", id |-> ops + 1, after |-> after, from |-> from, to |-> to, want |-> want]

\* Compute at a place.
Run(after, place, want, makes) ==
  [does |-> "run", id |-> ops + 1, after |-> after, from |-> place, to |-> place,
   want |-> want, makes |-> makes]

\* A file is read into the staging buffer, and the copy to the slot is issued.
Read(after, i, s, want, waits) ==
  [does |-> "read", id |-> ops + 1, after |-> after, from |-> Home(i), to |-> Staging(s),
   want |-> want, slot |-> s, waits |-> waits]

PendingIn(queues, id) ==
  \E q \in queues : \E k \in DOMAIN queue[q] : queue[q][k].id = id
Done(id) == ~PendingIn(Queues, id)

\* Future.result(): the operation of a thread has returned.
Returned(id) == ~PendingIn({HostStep} \union {Lane(s) : s \in Slot}, id)

Ready(q) == queue[q] # <<>> /\ \A id \in Head(queue[q]).after : Done(id)

Put(place, new) == [mem EXCEPT ![place] = [r \in Region |-> IF r \in DOMAIN new THEN new[r] ELSE @[r]]]
Issued(q, op) == [queue EXCEPT ![q] = Append(@, op)]
Taken(q) == [queue EXCEPT ![q] = Tail(@)]

Execute(q) ==
  /\ Ready(q)
  /\ LET op == Head(queue[q])
         found == [r \in DOMAIN op.want |-> mem[op.from][r]]
     IN  /\ mem' = Put(op.to, IF op.does = "run" THEN op.makes ELSE found)
         /\ queue' = IF op.does = "read"
                     THEN [Taken(q) EXCEPT ![H2D] = Append(@,
                            [does |-> "copy", id |-> op.id, after |-> op.waits,
                             from |-> op.to, to |-> InSlot(op.slot), want |-> op.want])]
                     ELSE Taken(q)
  /\ UNCHANGED <<config, at, batch, page, slot, grown, clock, ops, mark, latest>>

-----------------------------------------------------------------------------
(* Paging. *)

Idle == {s \in Slot : ~slot[s].busy}
\* _victim(): an empty slot, or the one that computed longest ago.
Victim ==
  LET empty == {s \in Idle : slot[s].page = None}
  IN  IF empty # {} THEN CHOOSE s \in empty : \A t \in empty : s <= t
      ELSE CHOOSE s \in Idle : \A t \in Idle : slot[s].last <= slot[t].last

\* _evict(): what changed has been written back when the slice was released.
Evicted(s) ==
  [i \in Slice |-> IF i = slot[s].page THEN [page[i] EXCEPT !.slot = None, !.stateIn = FALSE]
                   ELSE page[i]]

\* Mutant: the copies out of the slot are not waited for.
WaitsForCompute(i, s) == {slot[s].free, page[i].homeEv} \union IF slot[s].fresh THEN {mark} ELSE {}
\* What the copy into slot s waits for: the slot's last compute, the last copy
\* out of it and the last one to the slice's home; all compute, if s is new.
Waits(i, s) ==
  {slot[s].free, slot[s].out, page[i].homeEv} \union IF slot[s].fresh THEN {mark} ELSE {}

\* _page_in(): the host waits for the disk write or the CPU step of the slice.
PageIn(i, s, regions, pages) ==
  /\ Returned(page[i].homeReady)
  /\ page' = [pages EXCEPT ![i].slot = s, ![i].homeReady = 0,
                           ![i].stateIn = @ \/ "s" \in regions]
  /\ slot' = [slot EXCEPT ![s].page = i, ![s].ready = ops + 1, ![s].fresh = FALSE]
  /\ queue' = IF mode = "disk"
              THEN Issued(Lane(s), Read({slot[s].ready}, i, s, Now(i, regions), Waits(i, s)))
              ELSE Issued(H2D, Copy(Waits(i, s), Home(i), InSlot(s), Now(i, regions)))
  /\ ops' = ops + 1

\* fetch() raises when the slots have no room for the state, or none is idle.
Raises(i, wantState) ==
  \/ wantState /\ ~page[i].stateIn /\ ~grown
  \/ page[i].slot = None /\ Idle = {}

\* fetch(): a slice that is in a slot stays there, and may still lack its state.
Fetch(i, state, next) ==
  LET wantState == state /\ mode # "host" /\ page[i].adopted
      here == page[i].slot # None
      regions == (IF here THEN {} ELSE {"p", "b"})
                   \union IF wantState /\ ~page[i].stateIn THEN {"s"} ELSE {}
  IN  /\ IF Raises(i, wantState) \/ regions = {} THEN UNCHANGED <<page, slot, queue, ops>>
         ELSE IF here THEN PageIn(i, page[i].slot, regions, page)
         ELSE PageIn(i, Victim, regions, Evicted(Victim))
      /\ at' = IF Raises(i, wantState) THEN [at EXCEPT !.call = "error"] ELSE next
      /\ UNCHANGED <<config, batch, grown, clock, mem, mark, latest>>

-----------------------------------------------------------------------------
(* One batch. *)

Goto(call) == [at EXCEPT !.call = call]
Trains(i) == i \notin frozen
StateOnDevice(i) == mode # "host" /\ Trains(i)

\* Where the batch starts, and where it goes on after slice i.
FirstCall == [leg |-> IF Last = 1 THEN "backward" ELSE "forward", slice |-> 1, call |-> "acquire"]
NextCall ==
  LET i == at.slice
  IN  CASE at.leg = "forward" /\ i + 1 < Last -> [leg |-> "forward", slice |-> i + 1, call |-> "acquire"]
        [] at.leg = "forward" /\ i + 1 = Last -> [leg |-> "backward", slice |-> Last, call |-> "acquire"]
        [] at.leg = "backward" /\ i > 1 -> [leg |-> "backward", slice |-> i - 1, call |-> "acquire"]
        [] at.leg = "backward" /\ i = 1 -> Goto("end")

FetchFirst == at.call = "first" /\ Fetch(1, Last = 1, FirstCall)

\* acquire(): compute waits for the page-in and for the last copy out of the
\* slot; for a backward pass the gradients in the slot are zeroed.
Acquire ==
  LET i == at.slice
      s == page[i].slot
      makes == IF at.leg = "backward" THEN Gradient(i, 0) ELSE Now(i, {})
  IN  /\ at.call = "acquire"
      /\ IF s = None THEN Fetch(i, at.leg = "backward", at)
         ELSE /\ Returned(slot[s].ready)
              /\ slot' = [slot EXCEPT ![s].busy = TRUE, ![s].last = clock + 1]
              /\ clock' = clock + 1
              /\ queue' = Issued(Compute, Run({slot[s].ready, slot[s].out}, InSlot(s), Now(i, {}), makes))
              /\ ops' = ops + 1 /\ mark' = ops + 1
              /\ at' = Goto("fetch")
              /\ UNCHANGED <<config, batch, page, grown, mem, latest>>

\* While slice i computes, the next one is paged in.
Prefetch ==
  LET i == at.slice
  IN  /\ at.call = "fetch"
      /\ IF at.leg = "forward" THEN Fetch(i + 1, i + 1 = Last, Goto("run"))
         ELSE IF i > 1 THEN Fetch(i - 1, TRUE, Goto("run"))
         ELSE /\ at' = Goto("run")
              /\ UNCHANGED <<config, batch, page, slot, grown, clock, mem, queue, ops, mark, latest>>

Updated(i, regions) == [r \in regions |-> <<i, latest[i][r] + 1>>]
Counted(i, regions) ==
  latest' = [latest EXCEPT ![i] = [r \in {"p", "b", "s"} |-> IF r \in regions THEN @[r] + 1 ELSE @[r]]]

\* Mutant: the replay updates the buffers again.
ReplayUpdates(i) == {"b"} \union IF StateOnDevice(i) THEN {"p", "s"} ELSE {}
\* A first forward pass updates the buffers; the one that is replayed for the
\* backward pass is undone.  The step of the device follows.
BackwardUpdates(i) ==
  (IF i = Last THEN {"b"} ELSE {}) \union IF StateOnDevice(i) THEN {"p", "s"} ELSE {}

\* Before it has a home, the optimizer state is where the optimizer made it.
UsesState(i) == at.leg = "backward" /\ StateOnDevice(i) /\ page[i].adopted

Pass ==
  LET i == at.slice
      s == page[i].slot
      updates == IF at.leg = "forward" THEN {"b"} ELSE BackwardUpdates(i)
      reads == {"p", "b"} \union IF UsesState(i) THEN {"s"} ELSE {}
      inSlot == IF UsesState(i) THEN updates ELSE updates \ {"s"}
      gradient == IF at.leg = "backward" THEN Gradient(i, batch + 1) ELSE Now(i, {})
  IN  /\ at.call = "run"
      /\ queue' = Issued(Compute, Run({}, InSlot(s), Now(i, reads), With(gradient, Updated(i, inSlot))))
      /\ Counted(i, updates)
      /\ ops' = ops + 1 /\ mark' = ops + 1
      /\ at' = Goto("release")
      /\ UNCHANGED <<config, batch, page, slot, grown, clock, mem>>

\* Mutant: the buffers of a slice that is not trained stay behind.
ChangedIfTrained(i) ==
  IF ~Trains(i) THEN {}
  ELSE IF at.leg = "forward" THEN {"b"}
  ELSE {"p", "b"} \union IF page[i].stateIn THEN {"s"} ELSE {}
\* What release() has to write home.
Changed(i) ==
  IF at.leg = "forward" \/ ~Trains(i) THEN {"b"}
  ELSE {"p", "b"} \union IF page[i].stateIn THEN {"s"} ELSE {}

\* Mutant: the slot stays busy.
StillBusy(s) == [slot EXCEPT ![s].free = mark, ![s].out = ops + 1]
\* A slot that stopped computing, and is copied from.
Released(s) == [slot EXCEPT ![s].busy = FALSE, ![s].free = mark, ![s].out = ops + 1]

\* release(): write back at once.  The first time, the optimizer state gets a
\* home, when compute is over.
Release ==
  LET i == at.slice
      s == page[i].slot
      adopt == at.leg = "backward" /\ Trains(i) /\ ~page[i].adopted
  IN  /\ at.call = "release"
      /\ at.leg = "forward" \/ mode # "host"
      /\ adopt => queue[Compute] = <<>>
      /\ mem' = IF adopt THEN Put(Home(i), Now(i, {"s"})) ELSE mem
      /\ slot' = Released(s)
      /\ ops' = ops + 1
      /\ IF mode = "disk"
         THEN /\ queue' = Issued(D2H, Copy({mark}, InSlot(s), Staging(s), Now(i, Changed(i))))
              /\ page' = [page EXCEPT ![i].adopted = @ \/ adopt]
              /\ at' = Goto("submit")
         ELSE /\ queue' = Issued(D2H, Copy({mark}, InSlot(s), Home(i), Now(i, Changed(i))))
              /\ page' = [page EXCEPT ![i].adopted = @ \/ adopt, ![i].homeEv = ops + 1]
              /\ at' = NextCall
      /\ UNCHANGED <<config, batch, grown, clock, mark, latest>>

\* _disk_write(), after the copy to the staging buffer is issued.
Submit ==
  LET i == at.slice
      s == page[i].slot
  IN  /\ at.call = "submit"
      /\ Returned(page[i].homeReady)
      /\ queue' = Issued(Lane(s), Copy({slot[s].out}, Staging(s), Home(i), Now(i, Changed(i))))
      /\ page' = [page EXCEPT ![i].homeReady = ops + 1]
      /\ ops' = ops + 1
      /\ at' = NextCall
      /\ UNCHANGED <<config, batch, slot, grown, clock, mem, mark, latest>>

\* step_on_cpu(): the gradients go home, the slice leaves the slot.
StepOnCpu ==
  LET i == at.slice
      s == page[i].slot
      gradient == IF Trains(i) THEN Gradient(i, batch + 1) ELSE Now(i, {})
      steps == IF Trains(i) THEN {"p"} ELSE {}
      step == [Run({ops + 1}, Home(i), With(gradient, Now(i, steps)), Updated(i, steps))
                 EXCEPT !.id = ops + 2]
  IN  /\ at.call = "release"
      /\ at.leg = "backward" /\ mode = "host"
      /\ slot' = [Released(s) EXCEPT ![s].page = None]
      /\ page' = [page EXCEPT ![i].slot = None, ![i].homeEv = ops + 1, ![i].homeReady = ops + 2]
      /\ queue' = [queue EXCEPT
           ![D2H] = Append(@, Copy({mark}, InSlot(s), Home(i), With(gradient, Now(i, {"b"})))),
           ![HostStep] = Append(@, step)]
      /\ ops' = ops + 2
      /\ Counted(i, steps)
      /\ at' = NextCall
      /\ UNCHANGED <<config, batch, grown, clock, mem, mark>>

-----------------------------------------------------------------------------
(* Between batches, and the end of the run. *)

\* drain()
Drained ==
  /\ \A i \in Slice : Returned(page[i].homeReady)
  /\ \A s \in Slot : Returned(slot[s].ready)
  /\ queue[H2D] = <<>> /\ queue[D2H] = <<>>

AllEvicted == [i \in Slice |-> [page[i] EXCEPT !.slot = None, !.stateIn = FALSE]]

\* _ensure_cap(): the slots are allocated again, with room for the state.
Grow ==
  /\ Drained
  /\ page' = AllEvicted
  /\ slot' = [s \in Slot |-> [slot[s] EXCEPT !.page = None, !.ready = 0, !.free = 0, !.out = 0,
                                             !.fresh = TRUE]]
  /\ grown' = TRUE
  /\ mem' = [place \in DOMAIN mem |-> IF place[1] = "home" THEN mem[place] ELSE Nothing]

\* The loss of the batch is read: compute is over.
EndBatch ==
  /\ at.call = "end"
  /\ queue[Compute] = <<>>
  /\ IF mode # "host" /\ ~grown /\ \E i \in Slice : page[i].adopted
     THEN Grow
     ELSE UNCHANGED <<page, slot, grown, mem>>
  /\ batch' = batch + 1
  /\ at' = [leg |-> "forward", slice |-> 1,
            call |-> IF batch + 1 < NumBatches THEN "first" ELSE "close"]
  /\ UNCHANGED <<config, clock, queue, ops, mark, latest>>

Close ==
  /\ at.call = "close"
  /\ Drained
  /\ page' = AllEvicted
  /\ slot' = [s \in Slot |-> [slot[s] EXCEPT !.page = None]]
  /\ at' = Goto("closed")
  /\ UNCHANGED <<config, batch, grown, clock, mem, queue, ops, mark, latest>>

\* The run is closed, or fetch() raised.
Over == at.call \in {"closed", "error"} /\ UNCHANGED vars

Host ==
  \/ FetchFirst \/ Acquire \/ Prefetch \/ Pass \/ Release \/ Submit \/ StepOnCpu
  \/ EndBatch \/ Close

Next == Host \/ (\E q \in Queues : Execute(q)) \/ Over

Spec == Init /\ [][Next]_vars /\ WF_vars(Host) /\ \A q \in Queues : WF_vars(Execute(q))

-----------------------------------------------------------------------------
Latest(i, regions) == \A r \in regions : mem[Home(i)][r] = <<i, latest[i][r]>>

\* The values of every variable; the buffers of a slice are updated once in a
\* batch, whatever is replayed, and so are its parameters.
TypeOK ==
  /\ mode \in {"cpu", "host", "disk"} /\ frozen \subseteq MayFreeze
  /\ at.leg \in {"forward", "backward"} /\ at.slice \in Slice
  /\ batch \in 0 .. NumBatches
  /\ \A i \in Slice : page[i].slot \in Slot \union {None}
  /\ \A s \in Slot : slot[s].page \in Slice \union {None}
  /\ \A i \in Slice, r \in {"p", "b", "s"} : latest[i][r] \in 0 .. batch + 1
  /\ \A place \in DOMAIN mem, r \in Region :
       mem[place][r] \in (Slice \union {0}) \X (0 .. NumBatches)

\* The next copy out of a slot does not wait for the lane to have written what
\* is in the staging buffer, which is written again then.
WritesFile(op) == op.does = "copy" /\ op.from[1] = "staging" /\ op.to[1] = "home"

\* Whatever is still in flight, a pass finds in its slot the parameters, buffers
\* and optimizer state of its own slice, with every update made so far in the
\* order of the program, the step on the CPU finds its gradients, and a copy or
\* a read moves what there was in that order; but for a write to a file.
ComputesOnLatest ==
  \A q \in Queues : Ready(q) /\ ~WritesFile(Head(queue[q])) =>
    LET op == Head(queue[q]) IN \A r \in DOMAIN op.want : mem[op.from][r] = op.want[r]

\* A slice that is paged out is at home with its latest values as soon as what
\* its page waits for is done, and when the run is closed all are.
HomesCatchUp ==
  \A i \in Slice :
    page[i].slot = None /\ Done(page[i].homeEv) /\ Done(page[i].homeReady) =>
      Latest(i, {"p", "b"} \union IF page[i].adopted THEN {"s"} ELSE {})

\* Two slots are enough, and they never have to grow in the middle of a batch:
\* no fetch() raises, and none is left to acquire().
FetchesAhead ==
  /\ at.call # "error"
  /\ at.call = "acquire" => page[at.slice].slot # None

\* The host and the threads it waits for never wait for each other.
RunCloses == <>(at.call = "closed")

(* What the program computes on, and what it leaves at home, is what it    *)
(* would be without paging, and the pages are there in time                *)
(* (SlicePager.fetch, acquire, release, evict). *)
PagesAreLatest == TypeOK /\ ComputesOnLatest /\ HomesCatchUp /\ FetchesAhead
=============================================================================
