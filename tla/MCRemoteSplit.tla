--------------------------- MODULE MCRemoteSplit ---------------------------
(***************************************************************************)
(* One process with every hook over small batches, and two processes that  *)
(* serve two nodes.                                                        *)
(***************************************************************************)
EXTENDS RemoteSplit

Hook(kind) == [kind |-> kind, bits |-> 8, ratio |-> <<1, 2>>, std |-> 1, seed |-> 1, grad |-> TRUE]
ForwardOnly(h) == [h EXCEPT !.grad = FALSE]
Bits(n) == [Hook("quantize") EXCEPT !.bits = n]
Conv(n) == [Hook("conv") EXCEPT !.ratio = n]
TopK(a, b) == [Hook("topk") EXCEPT !.ratio = <<a, b>>]

Hooks ==
  {<<>>, <<Hook("cast")>>, <<ForwardOnly(Hook("cast"))>>, <<Hook("noise")>>,
   <<Conv(1)>>, <<Conv(2)>>, <<Conv(3)>>,
   <<TopK(1, 2)>>, <<ForwardOnly(TopK(1, 3))>>, <<TopK(1, 1)>>,
   <<Hook("noise"), Bits(2)>>, <<Hook("cast"), TopK(1, 2)>>, <<Hook("cast"), Hook("noise"), Bits(4)>>,
   <<TopK(1, 2), Hook("cast")>>, <<Bits(4), Hook("noise")>>}
  \cup {<<Bits(n)>> : n \in {1, 2, 4, 8}} \cup {<<ForwardOnly(Bits(2))>>}

Float(shape, data) == Tensor(shape, "float32", data)

Activations ==
  {Float(<<3>>, <<1, -2, 0>>), Float(<<1, 3>>, <<2, 2, 2>>), Float(<<3, 2>>, <<5, -1, 0, 3, -4, 4>>),
   Float(<<2, 2, 2>>, <<1, -7, 7, 0, 2, 3, -3, 3>>), Float(<<2, 5>>, <<1, 2, 3, 4, 5, 0, 0, -1, 0, 9>>)}

NoFaults == [slow |-> 0, raise |-> 0, lose |-> 0, stop |-> 0]

Setting(procs, nodes, rounds, batches, hook, activation, faults) ==
  [procs |-> procs, nodes |-> nodes, rounds |-> rounds, batches |-> batches,
   hook |-> hook, activation |-> activation, faults |-> faults]

Cuts == {Setting(1, 1, 1, 2, hook, z, NoFaults) : hook \in Hooks, z \in Activations}

Small == Float(<<1>>, <<1>>)

(* Two processes and two nodes with at most one fault, and one process     *)
(* that meets every kind of fault. *)
Shared ==
  {Setting(2, 2, 1, 1, <<>>, Small, [NoFaults EXCEPT !.slow = 1]),
   Setting(2, 2, 1, 1, <<>>, Small, [NoFaults EXCEPT !.stop = 1]),
   Setting(2, 2, 1, 1, <<>>, Small, [NoFaults EXCEPT !.raise = 1]),
   Setting(2, 2, 1, 2, <<>>, Small, NoFaults),
   Setting(2, 2, 2, 1, <<Hook("noise")>>, Small, NoFaults),
   Setting(1, 1, 2, 1, <<>>, Small, [slow |-> 1, raise |-> 1, lose |-> 1, stop |-> 1])}

Every == Cuts \cup Shared
=============================================================================
