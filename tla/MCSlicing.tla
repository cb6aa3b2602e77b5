----------------------------- MODULE MCSlicing -----------------------------
(***************************************************************************)
(* Every traced model of four nodes, packed chains of four and five stages *)
(* with every cost, and a graph with a skip connection, an expanded        *)
(* module, a shared parameter and a frozen one.                            *)
(***************************************************************************)
EXTENDS Slicing

Weight(id, size) == [id |-> id, size |-> size, trains |-> TRUE]

FxNode(op, args) ==
  [op |-> op, args |-> args, scope |-> {}, params |-> {}, flops |-> 1, bytes |-> 1]

Fx(nodes, inputs, out) == [packed |-> FALSE, fx |-> nodes, inputs |-> inputs, out |-> out]

(* What node k may be: a constant, or a call on one or two earlier values. *)
NodesAt(k) ==
  {FxNode("attr", <<>>)}
  \cup {FxNode("call", <<a>>) : a \in 1 .. k - 1}
  \cup {FxNode("add", <<a, b>>) : a \in 1 .. k - 1, b \in {k - 1}}

Input == FxNode("placeholder", <<>>)

FourNodes ==
  {Fx(<<Input, n2, n3, n4, n5>>, 1, out) :
     n2 \in NodesAt(2), n3 \in NodesAt(3), n4 \in NodesAt(4), n5 \in NodesAt(5), out \in {4, 5}}

(* Models the tracer must refuse, and two that only look like them. *)
Refused ==
  LET relu == FxNode("inplace", <<1>>)
      f(a) == FxNode("call", <<a>>)
  IN {Fx(<<Input, relu, f(1)>>, 1, 3), Fx(<<Input, relu, f(2)>>, 1, 3),
      Fx(<<Input, Input, f(1), FxNode("add", <<2, 3>>)>>, 2, 4),
      Fx(<<Input, Input, f(1), f(3)>>, 2, 4),
      Fx(<<Input, f(1)>>, 1, 1), Fx(<<Input, f(1)>>, 1, 0),
      Fx(<<FxNode("attr", <<>>), f(1)>>, 0, 2)}

Stage(id, size, bytes) ==
  [FxNode("stage", <<>>) EXCEPT !.params = {Weight(id, size)}, !.flops = size, !.bytes = bytes]

Packed(stages) == [packed |-> TRUE, fx |-> stages, inputs |-> 0, out |-> 0]

Chains ==
  {Packed([i \in 1 .. 5 |-> Stage(i, sizes[i], 1 + (i % 2))]) : sizes \in [1 .. 5 -> {1, 3}]}
  \cup {Packed([i \in 1 .. 4 |-> Stage(i, sizes[i], 1 + (i % 2))]) : sizes \in [1 .. 4 -> {1, 2, 4}]}

(* x -> embed -> block1 (two layers) -> add -> block2 -> head, tied to the *)
(* embedding, with a frozen block2. *)
Residual ==
  LET at(node, module, params, flops) ==
        [node EXCEPT !.scope = {module}, !.params = params, !.flops = flops, !.bytes = flops]
      frozen == [id |-> 3, size |-> 4, trains |-> FALSE]
  IN Fx(<<Input,
          at(FxNode("call", <<1>>), "embed", {Weight(1, 4)}, 1),
          at(FxNode("call", <<2>>), "block1", {Weight(2, 2)}, 2),
          at(FxNode("call", <<3>>), "block1", {}, 1),
          at(FxNode("add", <<2, 4>>), "block1", {}, 1),
          at(FxNode("call", <<5>>), "block2", {frozen}, 3),
          at(FxNode("call", <<6>>), "head", {Weight(1, 4), Weight(4, 1)}, 2)>>, 1, 7)

At(k) == [at |-> k, module |-> ""]
Module(name) == [at |-> 0, module |-> name]

Strategy(kind, n) ==
  [kind |-> kind, n |-> n, names |-> <<>>, trainableOnly |-> FALSE, slot |-> 0, state |-> 2]

Uniform == {Strategy("uniform", n) : n \in 2 .. 4}

Named ==
  {[Strategy("named", Len(names) + 1) EXCEPT !.names = names] :
     names \in {<<At(1)>>, <<At(2)>>, <<At(-2)>>, <<At(1), At(3)>>, <<At(2), At(1)>>,
                <<Module("block1")>>, <<Module("block1"), Module("block2")>>,
                <<Module("embed"), At(3)>>, <<Module("none")>>}}

Costed ==
  {Strategy(kind, n) : kind \in {"params", "flops"}, n \in 2 .. 3}
  \cup {[Strategy("params", 2) EXCEPT !.trainableOnly = TRUE], Strategy("memory", 2)}
  \cup {[Strategy("memory", 1) EXCEPT !.slot = slot] : slot \in {11, 16, 24}}

SmallCases ==
  (FourNodes \X ({Strategy("uniform", n) : n \in 2 .. 3} \cup {[Strategy("named", 2) EXCEPT !.names = <<At(2)>>],
                               [Strategy("named", 3) EXCEPT !.names = <<At(1), At(3)>>]}))
  \cup (Refused \X {Strategy("uniform", 2)})
  \cup (Chains \X Costed)
  \cup ({Residual} \X (Uniform \cup Named \cup Costed))

Worker(cap, speed, link) == [cap |-> cap, speed |-> speed, link |-> link]

SmallFleets ==
  {<<Worker(0, 2, 1), Worker(0, 2, 0)>>, <<Worker(0, 1, 2), Worker(24, 3, 0)>>,
   <<Worker(16, 4, 1), Worker(32, 5, 2), Worker(32, 4, 0)>>,
   <<Worker(24, 3, 2), Worker(0, 1, 1), Worker(40, 2, 0)>>,
   <<Worker(0, 0, 1), Worker(16, 1, 1), Worker(16, 1, 1), Worker(0, 1, 0)>>}
=============================================================================
