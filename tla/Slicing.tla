------------------------------ MODULE Slicing ------------------------------
(***************************************************************************)
(* From a model to the slices of a run: ts.slice() traces the model into a *)
(* graph of layers (core/model_graph.py), a strategy chooses where to cut  *)
(* it (strategies/), validate() rejects what the executors would run       *)
(* wrongly, and the executor plans again for the workers it found and for  *)
(* those a failure leaves (executors/distributed.py).                      *)
(*                                                                         *)
(* A layer is what it reads, what it costs and the parameters it holds;    *)
(* the value it returns is its own number.  Layers, slices and workers are *)
(* numbered from 1, and 0 stands for what a slice is given (-1 in the      *)
(* code).                                                                  *)
(***************************************************************************)
EXTENDS Integers, Sequences, FiniteSets, SequencesExt

CONSTANTS
  Cases,        \* a model, traced or packed, and how to cut it
  Fleets,       \* the workers a run may find, in slice order
  AdamFactor    \* weights, gradients and optimizer state, per weight

(* A traced node takes values computed before it: torch.fx keeps its nodes *)
(* in order.  Every strategy is asked for at least one slice. *)
IsFxNode(node) ==
  /\ node = [op |-> node.op, args |-> node.args, scope |-> node.scope,
              params |-> node.params, flops |-> node.flops, bytes |-> node.bytes]
  /\ node.flops \in Nat /\ node.bytes \in Nat
  /\ IsFiniteSet(node.params) /\ node.params \subseteq [id : Nat, size : Nat, trains : BOOLEAN]

IsModel(m) ==
  /\ m.packed \in BOOLEAN /\ Len(m.fx) \in Nat \ {0} /\ DOMAIN m.fx = 1 .. Len(m.fx)
  /\ \A k \in DOMAIN m.fx : IsFxNode(m.fx[k]) /\ m.fx[k].args \in Seq(1 .. k - 1)
  /\ m.inputs \in 0 .. Len(m.fx) /\ m.out \in 0 .. Len(m.fx)

ASSUME SlicingAssumption ==
  /\ AdamFactor \in Nat \ {0}
  /\ \A c \in Cases : IsModel(c[1]) /\ c[2].n \in Nat \ {0} /\ c[2].names \in Seq([at : Int, module : STRING])
  /\ Fleets \subseteq Seq([cap : Nat, speed : Nat, link : Nat])

VARIABLES
  model,      \* the traced or packed model
  splitter,   \* the strategy, with its arguments
  graph,      \* ModelGraph.nodes
  parts,      \* the partitions: the layers of each, and what each layer reads
  fleet,      \* the workers the run is planned for
  reached,    \* how far ts.slice() and setup() are
  fallback    \* the partitions are recovery's uniform split

slicingVars == <<model, splitter, graph, parts, fleet, reached, fallback>>

SlicingPhases == {"model", "traced", "split", "sliced", "running", "rejected", "stopped"}

(* The elements of a set of numbers, the smallest first. *)
Ascending(S) ==
  [n \in 1 .. Cardinality(S) |-> CHOOSE i \in S : Cardinality({j \in S : j <= i}) = n]

(* The elements of a sequence at these places. *)
ElementsAt(seq, places) ==
  LET order == Ascending(places) IN [n \in DOMAIN order |-> seq[order[n]]]

-----------------------------------------------------------------------------
(* ModelGraph.from_module *)

Placeholders(m) == 1 .. m.inputs
ModelInput == 1

(* node_args: the distinct nodes a node takes, in order. *)
Args(m, k) ==
  LET args == m.fx[k].args
  IN ElementsAt(args, {j \in DOMAIN args : \A i \in 1 .. j - 1 : args[i] # args[j]})

(* What the output depends on, found from the last node to the first. *)
Live(m) ==
  LET from[k \in 1 .. Len(m.fx) + 1] ==
        IF k > Len(m.fx) THEN {m.out}
        ELSE from[k + 1] \cup (IF k \in from[k + 1] THEN ToSet(m.fx[k].args) ELSE {})
  IN from[1]

(* What the layers compute. *)
Computed(m) == Live(m) \ Placeholders(m)

Dropped(m) == DOMAIN m.fx \ (Live(m) \cup Placeholders(m))

(* The checks on the traced graph that raise TraceError. *)
Traceable(m) ==
  /\ m.out # 0
  /\ \A k \in Dropped(m) : m.fx[k].op # "inplace"
  /\ Placeholders(m) \cap Live(m) \subseteq {ModelInput}
  /\ m.out \notin Placeholders(m)

ReadsInput(m, k) == m.inputs > 0 /\ ModelInput \in ToSet(m.fx[k].args)

(* The model input is a node of its own when it fans out. *)
\* Mutant: a node that takes something else as well is overlooked.
InputFansOut(m) == Cardinality({k \in Computed(m) : ReadsInput(m, k)}) > 1

NeedsInputNode(m) ==
  LET users == {k \in Computed(m) : ReadsInput(m, k)}
  IN \/ Cardinality(users) > 1
     \/ \E u \in users : Len(Args(m, u)) > 1

KeptNodes(m) == Ascending(Computed(m))

(* node_to_idx, 0 for a value that is no node of the graph. *)
NodeOf(m, a) ==
  LET shift == IF NeedsInputNode(m) THEN 1 ELSE 0
  IN CASE a \in Placeholders(m) -> shift
       [] a \in Computed(m) -> shift + Cardinality({k \in Computed(m) : k <= a})
       [] OTHER -> 0

(* _node_to_module: an add of two nodes takes what it is given, an         *)
(* argument given twice included; the other modules have a slot for each   *)
(* distinct argument. *)
IsAddWrapper(m, k) ==
  m.fx[k].op = "add" /\ \A j \in DOMAIN m.fx[k].args : NodeOf(m, m.fx[k].args[j]) # 0

Predecessors(m, k) ==
  LET args == Args(m, k)
      taken == IF IsAddWrapper(m, k) THEN m.fx[k].args
               ELSE ElementsAt(args, {j \in DOMAIN args : NodeOf(m, args[j]) # 0})
  IN [j \in DOMAIN taken |-> NodeOf(m, taken[j])]

LayerNode(preds, takesInput, fx) ==
  [preds |-> preds, takesInput |-> takesInput,
   scope |-> fx.scope, params |-> fx.params, flops |-> fx.flops, bytes |-> fx.bytes]

InputNode == [scope |-> {}, params |-> {}, flops |-> 0, bytes |-> 0]

Traced(m) ==
  LET kept == KeptNodes(m)
      nodes == [i \in DOMAIN kept |->
                 LayerNode(Predecessors(m, kept[i]),
                           ReadsInput(m, kept[i]) /\ ~NeedsInputNode(m), m.fx[kept[i]])]
  IN (IF NeedsInputNode(m) THEN <<LayerNode(<<>>, TRUE, InputNode)>> ELSE <<>>) \o nodes

(* from_stages: the stages of a pack function, as a chain. *)
\* Mutant: off by one.
ChainOnItself(m) ==
  [i \in DOMAIN m.fx |-> LayerNode(IF i > 1 THEN <<i>> ELSE <<>>, i = 1, m.fx[i])]

Chain(m) ==
  [i \in DOMAIN m.fx |-> LayerNode(IF i > 1 THEN <<i - 1>> ELSE <<>>, i = 1, m.fx[i])]

-----------------------------------------------------------------------------
(* ModelGraph's helpers *)

Successors(g, i) == {j \in DOMAIN g : i \in ToSet(g[j].preds)}

\* Mutant: a value that is needed once more after the cut is overlooked.
IsValidCutOffByOne(g, k) ==
  /\ \A q \in 1 .. k - 1 : \A j \in Successors(g, q) : j <= k + 1
  /\ \A j \in k + 1 .. Len(g) : ~g[j].takesInput
  /\ Successors(g, k) # {}

IsValidCut(g, k) ==
  /\ \A q \in 1 .. k - 1 : \A j \in Successors(g, q) : j <= k
  /\ \A j \in k + 1 .. Len(g) : ~g[j].takesInput
  /\ Successors(g, k) # {}

valid_cuts(g) == {k \in 1 .. Len(g) - 1 : IsValidCut(g, k)}

Inside(g, module) == {i \in DOMAIN g : module \in g[i].scope}

(* index_of: a position, from the end when negative, or the last node of a *)
(* module; 0 when there is none. *)
index_of(g, name) ==
  CASE name.at # 0 /\ name.at > 0 /\ name.at <= Len(g) -> name.at
    [] name.at < 0 /\ -name.at <= Len(g) -> Len(g) + 1 + name.at
    [] name.at = 0 /\ Inside(g, name.module) # {} -> Max(Inside(g, name.module))
    [] OTHER -> 0

-----------------------------------------------------------------------------
(* BaseSplitter *)

Interval(a, b) == [i \in 1 .. b - a + 1 |-> a + i - 1]

(* _intra_predecessors: a layer with one predecessor outside its slice     *)
(* takes the slice's input, one with more says where it takes it. *)
\* Mutant: a layer of several inputs forgets those from outside.
IntraPredecessorsDropping(g, layers) ==
  LET local(q) == IF Contains(layers, q) THEN q - layers[1] + 1 ELSE 0
  IN [l \in DOMAIN layers |->
       SelectSeq([j \in DOMAIN g[layers[l]].preds |-> local(g[layers[l]].preds[j])],
                 LAMBDA q : q # 0)]

_intra_predecessors(g, layers) ==
  LET local(q) == IF Contains(layers, q) THEN q - layers[1] + 1 ELSE 0
      reads(i) == [j \in DOMAIN g[i].preds |-> local(g[i].preds[j])]
  IN [l \in DOMAIN layers |->
       IF Len(reads(layers[l])) > 1 \/ 0 \notin ToSet(reads(layers[l])) THEN reads(layers[l])
       ELSE <<>>]

Partition(g, layers) == [layers |-> layers, preds |-> _intra_predecessors(g, layers)]

partitions_from_cuts(g, cuts) ==
  LET bounds == <<0>> \o Ascending(cuts) \o <<Len(g)>>
  IN [p \in 1 .. Cardinality(cuts) + 1 |->
       Partition(g, Interval(bounds[p] + 1, bounds[p + 1]))]

PartOf(ps, i) == CHOOSE p \in DOMAIN ps : Contains(ps[p].layers, i)

LastOf(ps, p) == ps[p].layers[Len(ps[p].layers)]

(* What may cross into a layer of slice p: the last layer of slice p - 1. *)
\* Mutant: any layer of the slice before will do.
CrossesAnywhere(ps, q, p) == PartOf(ps, q) = p - 1

Crosses(ps, q, p) == PartOf(ps, q) = p - 1 /\ q = LastOf(ps, p - 1)

CoversAll(g, ps) ==
  /\ \A p \in DOMAIN ps : ps[p].layers # <<>>
  /\ FlattenSeq([p \in DOMAIN ps |-> ps[p].layers]) = Interval(1, Len(g))

validate(g, ps) ==
  /\ CoversAll(g, ps)
  /\ \A i \in DOMAIN g :
       LET p == PartOf(ps, i)
       IN /\ g[i].takesInput => p = 1
          /\ \A q \in ToSet(g[i].preds) : PartOf(ps, q) = p \/ Crosses(ps, q, p)

-----------------------------------------------------------------------------
(* UniformSplitter and NamedCutSplitter.  A split() returns the set of its *)
(* one answer, and no answer where it raises ValueError. *)

CeilDiv(a, b) == (a + b - 1) \div b

\* Mutant: the sizes are rounded up even when that leaves a slice empty.
UniformSizesUp(total, n) == [p \in 1 .. n |-> CeilDiv(total, n)]

UniformSizes(total, n) ==
  LET size == CeilDiv(total, n)
  IN [p \in 1 .. n |->
       IF (total - 1) \div size + 1 >= n THEN size
       ELSE total \div n + (IF p <= total % n THEN 1 ELSE 0)]

SlicesOfSizes(g, sizes) ==
  LET upTo[p \in 0 .. Len(sizes)] == IF p = 0 THEN 0 ELSE upTo[p - 1] + sizes[p]
      end(p) == IF upTo[p] < Len(g) THEN upTo[p] ELSE Len(g)
      ps == {p \in DOMAIN sizes : upTo[p - 1] < Len(g)}
  IN [p \in ps |-> Partition(g, Interval(upTo[p - 1] + 1, end(p)))]

UniformSplit(g, n) ==
  IF n > Len(g) THEN {} ELSE {SlicesOfSizes(g, UniformSizes(Len(g), n))}

NamedSplit(g, names, n) ==
  LET at == [c \in DOMAIN names |-> index_of(g, names[c])]
  IN IF /\ n = Len(names) + 1
        /\ \A c \in DOMAIN at : at[c] \in valid_cuts(g)
        /\ \A c \in 2 .. Len(at) : at[c - 1] < at[c]
     THEN {partitions_from_cuts(g, ToSet(at))}
     ELSE {}

-----------------------------------------------------------------------------
(* CostSplitter: what a layer costs.  A parameter several layers share is  *)
(* counted where it is first used. *)

NewParams(g, i) == g[i].params \ UNION {g[j].params : j \in 1 .. i - 1}

ParamCosts(g, trainableOnly) ==
  [i \in DOMAIN g |->
    SumFunction([p \in {q \in NewParams(g, i) : q.trains \/ ~trainableOnly} |-> p.size])]

node_costs(g, s) ==
  IF s.kind = "flops" THEN [i \in DOMAIN g |-> g[i].flops]
  ELSE ParamCosts(g, s.trainableOnly)

node_memory(g, factor) ==
  [i \in DOMAIN g |->
    SumFunction([p \in NewParams(g, i) |-> p.size * (IF p.trains THEN factor ELSE 1)])]

MemoryFactor(s) == IF s.kind = "memory" THEN 2 + s.state ELSE AdamFactor

(* device_terms: the caps, the speeds and the links to plan with; an empty *)
(* sequence when a term is off.  A speed is a fraction, speeds[p] / per.   *)
(* A worker has a cap, a speed and the speed of its link to the next one,  *)
(* 0 when it is not known. *)
NoTerms == [caps |-> <<>>, speeds |-> <<>>, per |-> 1, links |-> <<>>]

Speeds(f) == [p \in DOMAIN f |-> f[p].speed]

LinkSpeeds(f) == [p \in 1 .. Len(f) - 1 |-> f[p].link]

Known(f) == \A p \in DOMAIN f : f[p].speed > 0

(* Speeds that differ by more than speed_tolerance, 1.25. *)
Heterogeneous(f) ==
  Known(f) /\ 4 * Max(ToSet(Speeds(f))) > 5 * Min(ToSet(Speeds(f)))

Timed(s, f) ==
  /\ s.kind = "flops" /\ Known(f)
  /\ LinkSpeeds(f) # <<>> /\ 0 \notin ToSet(LinkSpeeds(f))

device_terms(s, f) ==
  LET mean == Timed(s, f) /\ ~Heterogeneous(f)
      total == SumFunction(Speeds(f))
  IN [caps   |-> IF \E p \in DOMAIN f : f[p].cap > 0 THEN [p \in DOMAIN f |-> f[p].cap]
                 ELSE <<>>,
      speeds |-> CASE mean -> [p \in DOMAIN f |-> total]
                   [] Heterogeneous(f) -> Speeds(f)
                   [] OTHER -> <<>>,
      per    |-> IF mean THEN Len(f) ELSE 1,
      links  |-> IF Timed(s, f) THEN LinkSpeeds(f) ELSE <<>>]

Product(seq) == FoldFunction(LAMBDA x, y : x * y, 1, seq)

SumRange(costs, a, b) == SumFunction([i \in a .. b |-> costs[i]])

(* What slice p takes when it runs layers a..b: its time, scaled to an     *)
(* integer, and the time of the link it sends over. *)
SliceCost(g, costs, t, p, a, b) ==
  LET scale == Product(t.speeds) * Product(t.links)
  IN SumRange(costs, a, b) * t.per * (IF t.speeds = <<>> THEN scale ELSE scale \div t.speeds[p])
     + (IF p \in DOMAIN t.links THEN 2 * g[b].bytes * (scale \div t.links[p]) ELSE 0)

Fits(mem, t, p, a, b) ==
  (t.caps # <<>> /\ t.caps[p] > 0) => SumRange(mem, a, b) <= t.caps[p]

(* balanced_cuts: best[p][j + 1] is the best way to run the first j    *)
(* blocks in p slices, a block being what lies between two valid cuts. *)
NoWay == [ok |-> FALSE, max |-> 0, squares |-> 0, from |-> 0]

\* Mutant: the later of two blocks is kept whatever they cost.
BetterLast(x, y) == x.from > y.from

Better(x, y) ==
  \/ x.max < y.max
  \/ x.max = y.max /\ x.squares < y.squares
  \/ x.max = y.max /\ x.squares = y.squares /\ x.from < y.from

BestOf(ways) ==
  IF ways = {} THEN NoWay
  ELSE CHOOSE x \in ways : \A y \in ways \ {x} : Better(x, y)

Larger(x, y) == IF x > y THEN x ELSE y

(* What there is to balance: the costs, the memory, the terms, and the last *)
(* layer of every block. *)
Blocks(g, s, t) ==
  [graph |-> g, terms |-> t, costs |-> node_costs(g, s), mem |-> node_memory(g, MemoryFactor(s)),
   ends |-> Ascending(valid_cuts(g)) \o <<Len(g)>>]

(* One row of the table, for one slice more than the row before. *)
NextRow(b, n, row, p) ==
  LET m == Len(b.ends)
      first(i) == IF i = 0 THEN 1 ELSE b.ends[i] + 1
      ways(j) == {i \in p - 1 .. j - 1 :
                    row[i + 1].ok /\ Fits(b.mem, b.terms, p, first(i), b.ends[j])}
      way(i, c) == [ok |-> TRUE, max |-> Larger(row[i + 1].max, c),
                    squares |-> row[i + 1].squares + c * c, from |-> i]
      cost(i, j) == SliceCost(b.graph, b.costs, b.terms, p, first(i), b.ends[j])
      cell(j) == IF j \in p .. m - (n - p) THEN BestOf({way(i, cost(i, j)) : i \in ways(j)})
                 ELSE NoWay
  IN <<NoWay>> \o [j \in 1 .. m |-> cell(j)]

BestWays(b, n) ==
  LET rows[p \in 0 .. n] ==
        IF p = 0 THEN <<[NoWay EXCEPT !.ok = TRUE]>> \o [j \in DOMAIN b.ends |-> NoWay]
        ELSE NextRow(b, n, rows[p - 1], p)
  IN [p \in 0 .. n |-> rows[p]]

(* The cuts read back from the table: one set of cuts, or none. *)
CutsOf(b, n, best) ==
  LET at[p \in 0 .. n] ==
        IF p = n THEN Len(b.ends) ELSE best[p + 1][at[p + 1] + 1].from
  IN IF best[n][Len(b.ends) + 1].ok THEN {{b.ends[at[p]] : p \in 1 .. n - 1}} ELSE {}

balanced_cuts(b, n) == UNION {CutsOf(b, n, best) : best \in {BestWays(b, n)}}

CostSplit(g, s, n, t) ==
  UNION {{partitions_from_cuts(g, cuts) : cuts \in balanced_cuts(b, n)} : b \in {Blocks(g, s, t)}}

(* MemorySplitter: as many slices as it takes for each to fit its slot. *)
SlotTerms(s, k) == [NoTerms EXCEPT !.caps = [p \in 1 .. k |-> s.slot]]

FittingSplits(g, s, n) ==
  UNION {CostSplit(g, s, k, SlotTerms(s, k)) : k \in n .. Cardinality(valid_cuts(g)) + 1}

\* Mutant: every layer a slice of its own fits best.
MemorySplitMost(g, s, n) ==
  LET splits == FittingSplits(g, s, n)
  IN {ps \in splits : \A other \in splits : Len(other) <= Len(ps)}

MemorySplit(g, s, n) ==
  LET splits == FittingSplits(g, s, n)
  IN {ps \in splits : \A other \in splits : Len(ps) <= Len(other)}

Split(g, s, n, t) ==
  CASE s.kind = "uniform" -> UniformSplit(g, n)
    [] s.kind = "named" -> NamedSplit(g, s.names, n)
    [] s.kind = "memory" /\ s.slot > 0 -> MemorySplit(g, s, n)
    [] OTHER -> CostSplit(g, s, n, t)

AcceptsNodes(s) == s.kind \in {"params", "flops", "memory"}

(* SlicedModel.plan: the partitions for these workers, or none. *)
plan(g, s, old, f) ==
  LET terms == IF AcceptsNodes(s) THEN device_terms(s, f) ELSE NoTerms
      splits == IF ~AcceptsNodes(s) /\ Len(f) = Len(old) THEN {old}
                ELSE UNION {Split(g, s, Len(f), t) : t \in {terms}}
  IN {ps \in splits : validate(g, ps)}

(* recover()'s own split, when the plan does not give every survivor one. *)
_uniform_split(g, n) ==
  SlicesOfSizes(g, [p \in 1 .. n |-> Len(g) \div n + (IF p <= Len(g) % n THEN 1 ELSE 0)])

-----------------------------------------------------------------------------
(* ts.slice(), setup() and recover() *)

SlicingInit ==
  /\ \E c \in Cases : model = c[1] /\ splitter = c[2]
  /\ graph = <<>> /\ parts = <<>> /\ fleet = <<>>
  /\ reached = "model" /\ fallback = FALSE

Trace ==
  /\ reached = "model"
  /\ reached' = IF model.packed \/ Traceable(model) THEN "traced" ELSE "rejected"
  /\ graph' = CASE model.packed -> Chain(model)
                [] ~model.packed /\ Traceable(model) -> Traced(model)
                [] OTHER -> <<>>
  /\ UNCHANGED <<model, splitter, parts, fleet, fallback>>

SplitModel ==
  /\ reached = "traced"
  /\ \E splits \in {Split(graph, splitter, splitter.n, NoTerms)} :
       /\ reached' = IF splits = {} THEN "rejected" ELSE "split"
       /\ parts' \in IF splits # {} THEN splits ELSE {parts}
  /\ UNCHANGED <<model, splitter, graph, fleet, fallback>>

Validate ==
  /\ reached = "split"
  /\ reached' = IF validate(graph, parts) THEN "sliced" ELSE "rejected"
  /\ UNCHANGED <<model, splitter, graph, parts, fleet, fallback>>

(* setup() plans again for the workers it found, one per partition. *)
PlanSlices ==
  /\ reached = "sliced"
  /\ \E found \in {f \in Fleets : Len(f) = Len(parts)} :
     \E plans \in {{ps \in plan(graph, splitter, parts, found) : Len(ps) = Len(found)}} :
       /\ fleet' = found
       /\ reached' = IF plans # {} THEN "running" ELSE "rejected"
       /\ parts' \in IF plans # {} THEN plans ELSE {parts}
  /\ UNCHANGED <<model, splitter, graph, fallback>>

(* recover(): the strategy plans for the survivors, or each gets as many   *)
(* layers as the others. *)
Surviving(lost) ==
  LET alive == Ascending(DOMAIN fleet \ lost)
  IN [p \in DOMAIN alive |-> fleet[alive[p]]]

RecoverPlan(alive, plans, even) ==
  LET works == Len(even) = Len(alive) /\ validate(graph, even)
  IN /\ reached' = IF plans # {} \/ works THEN "running" ELSE "stopped"
     /\ parts' \in CASE plans # {} -> plans
                    [] plans = {} /\ works -> {even}
                    [] OTHER -> {parts}
     /\ fleet' = alive
     /\ fallback' = (plans = {} /\ works)

Recover ==
  /\ reached = "running"
  /\ \E lost \in (SUBSET DOMAIN fleet) \ {{}} :
       IF lost = DOMAIN fleet
       THEN reached' = "stopped" /\ UNCHANGED <<parts, fleet, fallback>>
       ELSE \E alive \in {Surviving(lost)} :
            \E plans \in {{ps \in plan(graph, splitter, parts, alive) : Len(ps) = Len(alive)}} :
              RecoverPlan(alive, plans, _uniform_split(graph, Len(alive)))
  /\ UNCHANGED <<model, splitter, graph>>

(* A run that ends, or a model that is only sliced. *)
Ended == reached \in {"sliced", "rejected", "stopped"} /\ UNCHANGED slicingVars

SlicingNext == Trace \/ SplitModel \/ Validate \/ PlanSlices \/ Recover \/ Ended

SlicingSpec == SlicingInit /\ [][SlicingNext]_slicingVars

-----------------------------------------------------------------------------
(* SplitLayer.run: what layer l of slice p is called with.  A slice whose  *)
(* layers all take its input runs them one after the other. *)
Given(ps, p) == IF p = 1 THEN 0 ELSE LastOf(ps, p - 1)

Reads(ps, p, l) ==
  LET layers == ps[p].layers
      preds == ps[p].preds[l]
      sequential == \A j \in DOMAIN layers : ps[p].preds[j] = <<>>
  IN CASE sequential -> <<IF l = 1 THEN Given(ps, p) ELSE layers[l - 1]>>
       [] ~sequential /\ preds = <<>> -> <<Given(ps, p)>>
       [] OTHER -> [j \in DOMAIN preds |->
                     IF preds[j] = 0 THEN Given(ps, p) ELSE layers[preds[j]]]

(* run_nodes: what it is called with in the whole model.  A constant of    *)
(* the model is called with a value it ignores. *)
ReadsInModel(g, i) == IF g[i].preds = <<>> THEN <<0>> ELSE g[i].preds

IsConstant(g, i) == g[i].preds = <<>> /\ ~g[i].takesInput

Computes(g, ps) ==
  /\ \A p \in DOMAIN ps : \A l \in DOMAIN ps[p].layers :
       LET i == ps[p].layers[l]
       IN IsConstant(g, i) \/ Reads(ps, p, l) = ReadsInModel(g, i)
  /\ LastOf(ps, Len(ps)) = Len(g)

-----------------------------------------------------------------------------
SlicingTypeOK ==
  /\ reached \in SlicingPhases /\ fallback \in BOOLEAN
  /\ \A i \in DOMAIN graph : ToSet(graph[i].preds) \subseteq 1 .. i - 1
  /\ \A p \in DOMAIN parts :
       /\ ToSet(parts[p].layers) \subseteq DOMAIN graph
       /\ Len(parts[p].preds) = Len(parts[p].layers)
  /\ fallback => reached \in {"running", "stopped"}

(* Tracing loses no argument (from_module): a layer takes what the traced  *)
(* node took, in that order, and the model input, which is no layer unless *)
(* it fans out, only ever alone. *)
TraceKeepsEveryArgument ==
  (graph # <<>> /\ ~model.packed) =>
    LET from == (IF NeedsInputNode(model) THEN <<ModelInput>> ELSE <<>>) \o KeptNodes(model)
    IN /\ from[Len(graph)] = model.out
       /\ \A i \in DOMAIN graph \ {j \in DOMAIN graph : from[j] = ModelInput} :
            LET read == [j \in DOMAIN graph[i].preds |-> from[graph[i].preds[j]]]
            IN IF graph[i].takesInput THEN Args(model, from[i]) = <<ModelInput>> /\ read = <<>>
               ELSE read = Args(model, from[i]) \/ read = model.fx[from[i]].args

(* validate() refuses a split exactly when its slices, each run by a       *)
(* SplitLayer on the one tensor it is given, would not compute the model;  *)
(* valid_cuts(), which strategies choose from, is the same rule, read      *)
(* boundary by boundary. *)
ValidateIsExact ==
  reached = "split" =>
    /\ validate(graph, parts) <=> Computes(graph, parts)
    /\ validate(graph, parts)
         <=> \A p \in 1 .. Len(parts) - 1 : LastOf(parts, p) \in valid_cuts(graph)

(* Whatever the strategy, the workers found and those lost, the slices of  *)
(* a run compute the model, one slice for each worker. *)
SlicesComputeTheModel ==
  /\ reached \in {"sliced", "running"} => Computes(graph, parts)
  /\ reached = "running" => Len(parts) = Len(fleet)

(* A strategy gives the number of slices it was asked for; the memory one  *)
(* at least that. *)
AsManyAsAsked ==
  reached \in {"split", "sliced"} =>
    \/ Len(parts) = splitter.n
    \/ splitter.kind = "memory" /\ Len(parts) > splitter.n

(* The terms the partitions were balanced with. *)
TermsInForce ==
  LET slots == splitter.kind = "memory" /\ splitter.slot > 0
  IN CASE slots -> SlotTerms(splitter, Len(parts))
       [] ~slots /\ reached = "running" -> device_terms(splitter, fleet)
       [] OTHER -> NoTerms

Ways(k, t) ==
  LET mem == node_memory(graph, MemoryFactor(splitter))
  IN {ps \in {partitions_from_cuts(graph, cuts) : cuts \in kSubset(k - 1, valid_cuts(graph))} :
        \A p \in 1 .. k : Fits(mem, t, p, ps[p].layers[1], LastOf(ps, p))}

Slowest(ps, costs, t) ==
  Max({SliceCost(graph, costs, t, p, ps[p].layers[1], LastOf(ps, p)) : p \in DOMAIN ps})

(* balanced_cuts() finds, of all the ways to cut where every slice fits    *)
(* its worker's memory, one whose slowest slice is the fastest. *)
BalancedIsBest ==
  (AcceptsNodes(splitter) /\ ~fallback /\ reached \in {"split", "sliced", "running"}) =>
    LET terms == TermsInForce
        costs == node_costs(graph, splitter)
        ways == Ways(Len(parts), terms)
        slowest == Slowest(parts, costs, terms)
    IN /\ parts \in ways
       /\ \A ps \in ways : slowest <= Slowest(ps, costs, terms)

(* It raises only when there is no way; the memory strategy uses no more   *)
(* slices than it must. *)
NoWayIsMissed ==
  AcceptsNodes(splitter) =>
    LET slots == splitter.kind = "memory" /\ splitter.slot > 0
        Missed(k) == Ways(k, IF slots THEN SlotTerms(splitter, k) ELSE NoTerms) # {}
        tried == IF slots THEN splitter.n .. Len(graph) ELSE {splitter.n}
    IN /\ (reached = "rejected" /\ graph # <<>> /\ parts = <<>>) => \A k \in tried : ~Missed(k)
       /\ (reached = "split" /\ slots) => \A k \in splitter.n .. Len(parts) - 1 : ~Missed(k)

(* From the traced graph to the slices of a run, recovered ones included,  *)
(* no argument is lost: what the workers compute is the model              *)
(* (from_module, slice_model, recover). *)
RunsComputeTheModel == SlicingTypeOK /\ TraceKeepsEveryArgument /\ SlicesComputeTheModel

(* A strategy answers with as many slices as it was asked for, the best    *)
(* there are, and gives up only when there are none (UniformSplitter,      *)
(* balanced_cuts, MemorySplitter). *)
StrategiesDoTheirBest == AsManyAsAsked /\ BalancedIsBest /\ NoWayIsMissed
=============================================================================
