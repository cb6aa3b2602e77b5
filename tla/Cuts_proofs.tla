----------------------------- MODULE Cuts_proofs -----------------------------
(***************************************************************************)
(* Proofs about modules Slicing, for any model, strategy and workers       *)
(* (where a model is cut, and what the slices compute), and RemoteSplit,   *)
(* for any settings, number of slices and number of threads: what the      *)
(* server's lock is for, what a step takes, whose results leave a client.  *)
(***************************************************************************)
EXTENDS Slicing, RemoteSplit, FiniteSetTheorems, FunctionTheorems, SequenceTheorems,
        WellFoundedInduction, TLAPS

\* A set of numbers has a least one.
LEMMA LeastOne ==
  ASSUME NEW S, S \subseteq Nat, S # {}
  PROVE  \E k \in S : \A j \in S : k <= j
<1>1. PICK x \in S : \A y \in S : ~(<<y, x>> \in OpToRel(<, Nat))
  BY NatLessThanWellFounded, WFMin
<1>2. ASSUME NEW y \in S PROVE x <= y
  <2>1. x \in Nat /\ y \in Nat OBVIOUS
  <2>2. y < x => <<y, x>> \in OpToRel(<, Nat) BY <2>1 DEF OpToRel
  <2>3. ~(y < x) BY <1>1, <2>2
  <2> QED BY <2>1, <2>3
<1> QED BY <1>2

\* Induction up to m, as a set.
LEMMA UpTo ==
  ASSUME NEW m \in Nat, NEW S, 0 \in S, \A k \in 0 .. m - 1 : k \in S => k + 1 \in S
  PROVE  \A k \in 0 .. m : k \in S
<1> SUFFICES ASSUME NEW k \in 0 .. m, k \notin S PROVE FALSE
  OBVIOUS
<1> DEFINE Not == {i \in 0 .. m : i \notin S}
<1>1. PICK least \in Not : \A j \in Not : least <= j
  <2>1. Not \subseteq Nat /\ Not # {} OBVIOUS
  <2> QED BY <2>1, LeastOne
<1>2. least # 0 /\ least - 1 \in 0 .. m - 1 /\ least - 1 \notin Not BY <1>1
<1> QED BY <1>1, <1>2

--------------------
(* Ascending lists a set of numbers in order. *)

Rank(S, i) == Cardinality({j \in S : j <= i})

LEMMA Ranks ==
  ASSUME NEW m \in Nat, NEW S, S \subseteq 1 .. m
  PROVE  /\ IsFiniteSet(S) /\ Cardinality(S) \in Nat
         /\ \A i \in S : Rank(S, i) \in 1 .. Cardinality(S)
         /\ \A i, j \in S : i < j => Rank(S, i) < Rank(S, j)
         /\ \A n \in 1 .. Cardinality(S) : \E i \in S : Rank(S, i) = n
<1>1. IsFiniteSet(S) /\ Cardinality(S) \in Nat
  <2>1. IsFiniteSet(1 .. m) /\ S \in SUBSET (1 .. m) BY FS_Interval
  <2> QED BY <2>1, FS_Subset, FS_CardinalityType
<1>2. ASSUME NEW i \in S PROVE Rank(S, i) \in 1 .. Cardinality(S)
  <2> DEFINE T == {j \in S : j <= i}
  <2>1. IsFiniteSet(T) /\ Cardinality(T) <= Cardinality(S) BY <1>1, FS_Subset
  <2>2. Cardinality(T) \in Nat /\ Cardinality(T) # 0
    BY <2>1, FS_CardinalityType, FS_EmptySet, i \in T
  <2> QED BY <1>1, <2>1, <2>2 DEF Rank
<1>3. ASSUME NEW i \in S, NEW j \in S, i < j PROVE Rank(S, i) < Rank(S, j)
  <2> DEFINE T(k) == {x \in S : x <= k}
  <2>0. \A x \in S : x \in Int OBVIOUS
  <2>1. IsFiniteSet(T(j)) /\ T(i) \in SUBSET T(j) /\ j \in T(j) /\ j \notin T(i)
    <3>1. T(j) \in SUBSET S OBVIOUS
    <3>2. IsFiniteSet(T(j)) BY <1>1, <3>1, FS_Subset
    <3>3. \A x \in T(i) : x \in T(j)
      <4> SUFFICES ASSUME NEW x \in T(i) PROVE x \in T(j)
        OBVIOUS
      <4>1. x \in S /\ x <= i /\ x \in Int /\ i \in Int /\ j \in Int BY <2>0
      <4> QED BY <4>1, <1>3
    <3>4. j \in T(j) /\ j \notin T(i)
      <4>1. i \in Int /\ j \in Int BY <2>0
      <4> QED BY <4>1, <1>3
    <3> QED BY <3>2, <3>3, <3>4
  <2>2. Cardinality(T(i)) <= Cardinality(T(j)) /\ Cardinality(T(i)) # Cardinality(T(j))
    BY <2>1, FS_Subset
  <2>3. Rank(S, i) \in Nat /\ Rank(S, j) \in Nat BY <1>1, <1>2
  <2> QED BY <2>2, <2>3 DEF Rank
<1>4. ASSUME NEW n \in 1 .. Cardinality(S) PROVE \E i \in S : Rank(S, i) = n
  <2> DEFINE R == [i \in S |-> Rank(S, i)]
             N == 1 .. Cardinality(S)
  <2>1. R \in [S -> N] BY <1>2
  <2>2. \A i, j \in S : R[i] = R[j] => i = j
    <3> SUFFICES ASSUME NEW i \in S, NEW j \in S, R[i] = R[j], i # j PROVE FALSE
      OBVIOUS
    <3>1. Rank(S, i) \in Int /\ Rank(S, j) \in Int /\ Rank(S, i) = Rank(S, j) BY <1>1, <1>2
    <3>2. i < j \/ j < i OBVIOUS
    <3> QED BY <1>3, <3>1, <3>2
  <2>3. R \in Injection(S, N) BY <2>1, <2>2, Fun_IsInj
  <2>4. IsFiniteSet(N) /\ Cardinality(N) = Cardinality(S) BY <1>1, FS_Interval
  <2>5. R \in Surjection(S, N) BY <2>3, <2>4, FS_Injection
  <2> QED BY <2>5 DEF Surjection
<1> QED BY <1>1, <1>2, <1>3, <1>4

LEMMA AscendingLists ==
  ASSUME NEW m \in Nat, NEW S, S \subseteq 1 .. m
  PROVE  /\ IsFiniteSet(S) /\ Cardinality(S) \in Nat
         /\ Ascending(S) \in [1 .. Cardinality(S) -> S]
         /\ Ascending(S) \in Seq(S) /\ Len(Ascending(S)) = Cardinality(S)
         /\ \A n \in 1 .. Cardinality(S) : Rank(S, Ascending(S)[n]) = n
         /\ \A i \in S : Rank(S, i) \in 1 .. Cardinality(S) /\ Ascending(S)[Rank(S, i)] = i
         /\ \A n, k \in 1 .. Cardinality(S) : n < k => Ascending(S)[n] < Ascending(S)[k]
<1> DEFINE N == 1 .. Cardinality(S)
           A == Ascending(S)
<1>0. \A i \in S : i \in Int OBVIOUS
<1>1. IsFiniteSet(S) /\ Cardinality(S) \in Nat BY Ranks
<1>2. A = [n \in N |-> CHOOSE i \in S : Rank(S, i) = n] BY DEF Ascending, Rank
<1>3. \A n \in N : A[n] \in S /\ Rank(S, A[n]) = n
  <2> SUFFICES ASSUME NEW n \in N PROVE A[n] \in S /\ Rank(S, A[n]) = n
    OBVIOUS
  <2>1. \E i \in S : Rank(S, i) = n BY Ranks
  <2>2. A[n] = CHOOSE i \in S : Rank(S, i) = n BY <1>2
  <2> HIDE DEF A
  <2> QED BY <2>1, <2>2
<1>4. A \in [N -> S] BY <1>2, <1>3
<1>5. A \in Seq(S) /\ Len(A) = Cardinality(S)
  <2> HIDE DEF A
  <2> QED BY <1>1, <1>4
<1>6. \A i, j \in S : Rank(S, i) = Rank(S, j) => i = j
  <2> SUFFICES ASSUME NEW i \in S, NEW j \in S, Rank(S, i) = Rank(S, j), i # j PROVE FALSE
    OBVIOUS
  <2>1. i \in Int /\ j \in Int OBVIOUS
  <2>2. i < j \/ j < i BY <2>1
  <2>5. \A x \in S : Rank(S, x) \in 1 .. Cardinality(S) BY Ranks
  <2>3. Rank(S, i) \in Int /\ Rank(S, j) \in Int BY <2>5, <1>1
  <2>4. \A x, y \in S : x < y => Rank(S, x) < Rank(S, y) BY Ranks
  <2> QED BY ONLY <2>2, <2>3, <2>4, i \in S, j \in S, Rank(S, i) = Rank(S, j)
<1>7. \A i \in S : Rank(S, i) \in N /\ A[Rank(S, i)] = i
  <2> HIDE DEF A
  <2> SUFFICES ASSUME NEW i \in S PROVE Rank(S, i) \in N /\ A[Rank(S, i)] = i
    OBVIOUS
  <2>1. Rank(S, i) \in N BY Ranks
  <2> QED BY <2>1, <1>3, <1>6
<1>8. \A n, k \in N : n < k => A[n] < A[k]
  <2> HIDE DEF A
  <2> SUFFICES ASSUME NEW n \in N, NEW k \in N, n < k, ~(A[n] < A[k]) PROVE FALSE
    OBVIOUS
  <2>1. A[n] \in S /\ A[k] \in S /\ Rank(S, A[n]) = n /\ Rank(S, A[k]) = k BY <1>3
  <2>0. A[n] \in Int /\ A[k] \in Int BY <2>1, <1>0
  <2>2. A[k] < A[n] \/ A[k] = A[n] BY <2>0
  <2>3. k \in Int /\ n \in Int BY <1>1
  <2>4. \A x, y \in S : x < y => Rank(S, x) < Rank(S, y) BY Ranks
  <2> QED BY ONLY <2>1, <2>2, <2>3, <2>4, n < k
<1> QED BY <1>1, <1>3, <1>4, <1>5, <1>7, <1>8

--------------------
(* Slices that tile the model: slice p ends with layer ends[p]. *)

Ends(m, n) ==
  {ends \in [0 .. n -> 0 .. m] : ends[0] = 0 /\ ends[n] = m /\ \A p \in 1 .. n : ends[p - 1] < ends[p]}

Span(a, b) == [l \in 1 .. b - a |-> a + l]

Tiles(g, ends, n) == [p \in 1 .. n |-> Partition(g, Interval(ends[p - 1] + 1, ends[p]))]

Tiled(g, ps) == \E n \in Nat \ {0} : \E ends \in Ends(Len(g), n) : ps = Tiles(g, ends, n)

LEMMA EndsGrow ==
  ASSUME NEW m \in Nat, NEW n \in Nat, NEW ends \in Ends(m, n)
  PROVE  \A p, q \in 0 .. n : p < q => ends[p] < ends[q]
<1> DEFINE S == {q \in 0 .. n : \A p \in 0 .. n : p < q => ends[p] < ends[q]}
<1>1. 0 \in S OBVIOUS
<1>2. ASSUME NEW k \in 0 .. n - 1, k \in S PROVE k + 1 \in S
  <2>1. k + 1 \in 1 .. n /\ ends[(k + 1) - 1] < ends[k + 1] BY DEF Ends
  <2>2. ASSUME NEW p \in 0 .. n, p < k + 1 PROVE ends[p] < ends[k + 1]
    <3>1. ends[p] \in Int /\ ends[k] \in Int /\ ends[k + 1] \in Int /\ (k + 1) - 1 = k
      BY <2>1 DEF Ends
    <3>2. p = k \/ p < k BY <2>2
    <3>3. p < k => ends[p] < ends[k] BY <1>2
    <3> QED BY <2>1, <3>1, <3>2, <3>3
  <2> QED BY <2>1, <2>2
<1>3. \A q \in 0 .. n : q \in S
  <2> HIDE DEF S
  <2> QED BY <1>1, <1>2, UpTo
<1> QED BY <1>3

\* Every layer is in one slice.
LEMMA PlaceOf ==
  ASSUME NEW m \in Nat, NEW n \in Nat, NEW ends \in Ends(m, n), NEW i \in 1 .. m
  PROVE  /\ \E p \in 1 .. n : ends[p - 1] < i /\ i <= ends[p]
         /\ \A p, q \in 1 .. n : ends[p - 1] < i /\ i <= ends[p] /\ ends[q - 1] < i /\ i <= ends[q] => p = q
<1>0. ends \in [0 .. n -> 0 .. m] /\ ends[0] = 0 /\ ends[n] = m BY DEF Ends
<1>1. \E p \in 1 .. n : ends[p - 1] < i /\ i <= ends[p]
  <2> DEFINE S == {p \in 0 .. n : i <= ends[p]}
  <2>1. S \subseteq Nat /\ n \in S BY <1>0
  <2>2. PICK p \in S : \A q \in S : p <= q
    <3> HIDE DEF S
    <3> QED BY <2>1, LeastOne
  <2>3. p # 0 /\ p \in 0 .. n BY <1>0, <2>2
  <2>4. p - 1 \in 0 .. n /\ p - 1 \notin S BY <2>2, <2>3
  <2> QED BY <1>0, <2>2, <2>3, <2>4
<1>2. ASSUME NEW p \in 1 .. n, NEW q \in 1 .. n, ends[p - 1] < i, i <= ends[p], ends[q - 1] < i, i <= ends[q], p < q
      PROVE FALSE
  <2>1. q - 1 \in 0 .. n /\ p \in 0 .. n /\ (p < q - 1 \/ p = q - 1) BY <1>2
  <2>2. ends[p] <= ends[q - 1]
    <3>1. ends[p] \in Int /\ ends[q - 1] \in Int BY <1>0, <2>1
    <3>2. p < q - 1 => ends[p] < ends[q - 1] BY <2>1, EndsGrow
    <3> QED BY <2>1, <3>1, <3>2
  <2>3. ends[p] \in Int /\ ends[q - 1] \in Int BY <1>0, <2>1
  <2> QED BY <1>2, <2>2, <2>3
<1>3. \A p, q \in 1 .. n : p = q \/ p < q \/ q < p OBVIOUS
<1> QED BY <1>1, <1>2, <1>3

LEMMA TileFacts ==
  ASSUME NEW g, Len(g) \in Nat, NEW n \in Nat \ {0}, NEW ends \in Ends(Len(g), n)
  PROVE  LET ps == Tiles(g, ends, n)
         IN  /\ ends \in [0 .. n -> 0 .. Len(g)] /\ ends[0] = 0 /\ ends[n] = Len(g)
             /\ DOMAIN ps = 1 .. n /\ Len(ps) = n
             /\ \A p \in 1 .. n :
                  /\ ps[p].layers = Span(ends[p - 1], ends[p])
                  /\ Len(ps[p].layers) = ends[p] - ends[p - 1] /\ ends[p - 1] < ends[p]
                  /\ ps[p].layers \in Seq(Nat)
                  /\ ps[p].preds = _intra_predecessors(g, ps[p].layers)
                  /\ LastOf(ps, p) = ends[p]
                  /\ \A i \in Int : Contains(ps[p].layers, i) <=> ends[p - 1] < i /\ i <= ends[p]
                  /\ \A i \in 1 .. Len(g) : PartOf(ps, i) = p <=> ends[p - 1] < i /\ i <= ends[p]
             /\ \A i \in 1 .. Len(g) : PartOf(ps, i) \in 1 .. n
<1> DEFINE ps == Tiles(g, ends, n)
<1>1. ends \in [0 .. n -> 0 .. Len(g)] /\ ends[0] = 0 /\ ends[n] = Len(g) /\ \A p \in 1 .. n : ends[p - 1] < ends[p]
  BY DEF Ends
<1>2. DOMAIN ps = 1 .. n /\ Len(ps) = n /\ \A p \in 1 .. n : ps[p] = Partition(g, Interval(ends[p - 1] + 1, ends[p]))
  BY DEF Tiles
<1>3. ASSUME NEW p \in 1 .. n
      PROVE  /\ ps[p].layers = Span(ends[p - 1], ends[p])
             /\ Len(ps[p].layers) = ends[p] - ends[p - 1] /\ ends[p - 1] < ends[p]
             /\ ps[p].layers \in Seq(Nat)
             /\ ps[p].preds = _intra_predecessors(g, ps[p].layers)
             /\ LastOf(ps, p) = ends[p]
             /\ \A i \in Int : Contains(ps[p].layers, i) <=> ends[p - 1] < i /\ i <= ends[p]
  <2>1. ends[p] \in Nat /\ ends[p - 1] \in Nat /\ ends[p - 1] < ends[p] BY <1>1
  <2> DEFINE a == ends[p - 1]
             b == ends[p]
  <2>2. Interval(a + 1, b) = Span(a, b)
    <3>1. b - (a + 1) + 1 = b - a /\ \A l \in 1 .. b - a : (a + 1) + l - 1 = a + l
      BY <2>1, SMTT(30)
    <3> HIDE DEF a, b
    <3> QED BY <3>1 DEF Interval, Span
  <2>3. ps[p].layers = Interval(a + 1, b) /\ ps[p].preds = _intra_predecessors(g, Interval(a + 1, b))
    <3> HIDE DEF ps
    <3> QED BY <1>2 DEF Partition
  <2> HIDE DEF ps, a, b
  <2>4. b - a \in Nat \ {0} /\ a \in Nat /\ b \in Nat BY <2>1 DEF a, b
  <2>5. ps[p].layers = Span(a, b) /\ Span(a, b) = [l \in 1 .. b - a |-> a + l]
    BY <2>2, <2>3 DEF Span
  <2>6. ps[p].layers \in Seq(Nat) /\ Len(ps[p].layers) = b - a BY <2>4, <2>5
  <2>7. LastOf(ps, p) = b
    <3>1. b - a \in 1 .. b - a /\ a + (b - a) = b BY <2>4
    <3> QED BY <2>5, <2>6, <3>1 DEF LastOf
  <2>8. ASSUME NEW i \in Int PROVE Contains(ps[p].layers, i) <=> a < i /\ i <= b
    <3>1. Contains(ps[p].layers, i) <=> \E l \in 1 .. b - a : a + l = i
      BY <2>5, <2>6 DEF Contains
    <3>2. (a < i /\ i <= b) => (i - a \in 1 .. b - a /\ a + (i - a) = i) BY <2>4
    <3> QED BY <2>4, <3>1, <3>2
  <2> QED BY <2>1, <2>2, <2>3, <2>5, <2>6, <2>7, <2>8 DEF a, b
<1> HIDE DEF ps
<1>4. ASSUME NEW i \in 1 .. Len(g)
      PROVE  /\ PartOf(ps, i) \in 1 .. n
             /\ \A p \in 1 .. n : PartOf(ps, i) = p <=> ends[p - 1] < i /\ i <= ends[p]
  <2>1. PICK q \in 1 .. n : ends[q - 1] < i /\ i <= ends[q] BY PlaceOf
  <2>2. \A p \in 1 .. n : ends[p - 1] < i /\ i <= ends[p] => p = q BY <2>1, PlaceOf
  <2>3. \A p \in 1 .. n : Contains(ps[p].layers, i) <=> p = q
    <3> SUFFICES ASSUME NEW p \in 1 .. n PROVE Contains(ps[p].layers, i) <=> p = q
      OBVIOUS
    <3>1. i \in Int OBVIOUS
    <3>2. Contains(ps[p].layers, i) <=> ends[p - 1] < i /\ i <= ends[p] BY <1>3, <3>1
    <3> QED BY <2>1, <2>2, <3>2
  <2>4. PartOf(ps, i) = q BY <1>2, <2>3 DEF PartOf
  <2> QED BY <2>1, <2>2, <2>4
<1> QED BY <1>1, <1>2, <1>3, <1>4 DEF ps

--------------------
(* Graphs. *)

\* Layers take values computed before them; only what takes nothing takes the
\* model input; every layer but the last is needed.
Regular(g) ==
  /\ Len(g) \in Nat \ {0} /\ DOMAIN g = 1 .. Len(g)
  /\ \A i \in DOMAIN g : g[i].preds \in Seq(1 .. i - 1)
  /\ \A i \in DOMAIN g : g[i].takesInput \in BOOLEAN /\ (g[i].takesInput => g[i].preds = <<>>)
  /\ \A i \in 1 .. Len(g) - 1 : Successors(g, i) # {}

LEMMA AsSequence ==
  ASSUME NEW n \in Nat, NEW S, NEW f \in [1 .. n -> S]
  PROVE  f \in Seq(S) /\ Len(f) = n /\ DOMAIN f = 1 .. n
OBVIOUS

\* What a layer of a tile reads inside it.
LEMMA IntraPreds ==
  ASSUME NEW g, Regular(g), NEW a \in Nat, NEW b \in Nat, a < b, b <= Len(g),
         NEW l \in 1 .. b - a
  PROVE  LET preds == g[a + l].preds
             mine == _intra_predecessors(g, Span(a, b))[l]
             local(q) == IF q > a THEN q - a ELSE 0
         IN  /\ preds \in Seq(Nat) /\ \A j \in DOMAIN preds : preds[j] \in 1 .. (a + l) - 1
             /\ Len(preds) = 0 => mine = <<>>
             /\ Len(preds) = 1 => mine = IF preds[1] > a THEN <<preds[1] - a>> ELSE <<>>
             /\ Len(preds) > 1 => mine = [j \in 1 .. Len(preds) |-> local(preds[j])]
<1> DEFINE layers == Span(a, b)
           preds == g[a + l].preds
           loc(q) == IF Contains(layers, q) THEN q - layers[1] + 1 ELSE 0
           reads == [j \in DOMAIN preds |-> loc(preds[j])]
           local(q) == IF q > a THEN q - a ELSE 0
           mine == _intra_predecessors(g, layers)[l]
<1>1. layers \in Seq(Nat) /\ Len(layers) = b - a /\ layers[l] = a + l /\ layers[1] = a + 1 /\ layers = [k \in 1 .. b - a |-> a + k]
  BY DEF Span
<1> HIDE DEF layers
<1>2. a + l \in 1 .. Len(g) /\ a + l \in DOMAIN g BY DEF Regular
<1>3. preds \in Seq(1 .. (a + l) - 1) BY <1>2 DEF Regular
<1>4. preds \in Seq(Nat) /\ DOMAIN preds = 1 .. Len(preds) /\ Len(preds) \in Nat /\ \A j \in DOMAIN preds : preds[j] \in 1 .. (a + l) - 1
  BY <1>2, <1>3
<1>5. mine = IF Len(reads) > 1 \/ 0 \notin ToSet(reads) THEN reads ELSE <<>>
  BY <1>1 DEF _intra_predecessors
<1>6. ASSUME NEW j \in DOMAIN preds PROVE loc(preds[j]) = local(preds[j])
  <2>1. preds[j] \in Nat /\ preds[j] < a + l BY <1>4, SMTT(30)
  <2>2. Contains(layers, preds[j]) <=> preds[j] > a
    <3>1. Contains(layers, preds[j]) <=> \E x \in 1 .. b - a : a + x = preds[j]
      BY <1>1 DEF Contains
    <3>2. preds[j] > a => preds[j] - a \in 1 .. b - a /\ a + (preds[j] - a) = preds[j] BY <2>1
    <3>3. \A x \in 1 .. b - a : a + x = preds[j] => preds[j] > a OBVIOUS
    <3> QED BY <3>1, <3>2, <3>3, <2>1
  <2>3. preds[j] - layers[1] + 1 = preds[j] - a BY <1>1, <2>1
  <2> QED BY <2>2, <2>3
<1> HIDE DEF loc, mine
<1>7. reads = [j \in 1 .. Len(preds) |-> local(preds[j])] BY <1>4, <1>6
<1>8. reads \in Seq(Nat) /\ Len(reads) = Len(preds) /\ \A j \in 1 .. Len(preds) : reads[j] = local(preds[j])
  <2>1. \A j \in 1 .. Len(preds) : local(preds[j]) \in Nat BY <1>4, SMTT(30)
  <2>2. reads \in [1 .. Len(preds) -> Nat] /\ \A j \in 1 .. Len(preds) : reads[j] = local(preds[j])
    BY <1>7, <2>1
  <2> HIDE DEF reads, preds
  <2> QED BY <1>4, <2>2, AsSequence
<1> HIDE DEF reads, preds
<1>9. CASE Len(preds) = 0
  <2>1. ToSet(reads) = {} /\ reads = <<>> BY <1>7, <1>8, <1>9 DEF ToSet
  <2> QED BY <1>4, <1>5, <1>9, <2>1 DEF preds, mine, layers
<1>10. CASE Len(preds) = 1
  <2>1. reads = <<local(preds[1])>> /\ preds[1] \in Nat BY <1>4, <1>8, <1>10
  <2>2. ToSet(reads) = {local(preds[1])} BY <1>8, <1>10, <2>1 DEF ToSet
  <2>3. mine = IF preds[1] > a THEN <<preds[1] - a>> ELSE <<>> BY <1>5, <1>8, <1>10, <2>1, <2>2
  <2> QED BY <1>4, <1>10, <2>3 DEF preds, mine, layers
<1>11. CASE Len(preds) > 1
  <2>1. mine = [j \in 1 .. Len(preds) |-> local(preds[j])] BY <1>5, <1>7, <1>8, <1>11
  <2>2. Len(preds) # 0 /\ Len(preds) # 1
    <3>1. \A k \in Nat : k > 1 => k # 0 /\ k # 1 OBVIOUS
    <3> QED BY <1>4, <1>11, <3>1
  <2> QED BY <1>4, <2>1, <2>2 DEF preds, mine, layers
<1> QED BY <1>4, <1>9, <1>10, <1>11 DEF preds, mine, layers

--------------------
(* What validate() asks of the edges, and what a slice is given. *)

EdgesCross(g, ps) ==
  \A i \in DOMAIN g :
    LET p == PartOf(ps, i)
    IN /\ g[i].takesInput => p = 1
       /\ \A q \in ToSet(g[i].preds) : PartOf(ps, q) = p \/ Crosses(ps, q, p)

\* An edge may come from inside, or from the last layer before the slice.
EdgesReach(g, ends, n) ==
  \A p \in 1 .. n : \A i \in ends[p - 1] + 1 .. ends[p] :
    /\ g[i].takesInput => ends[p - 1] = 0
    /\ \A q \in ToSet(g[i].preds) : q >= ends[p - 1]

LEMMA PredTypes ==
  ASSUME NEW g, Regular(g), NEW i \in 1 .. Len(g)
  PROVE  /\ g[i].preds \in Seq(Nat) /\ Len(g[i].preds) \in Nat /\ DOMAIN g[i].preds = 1 .. Len(g[i].preds)
         /\ \A j \in 1 .. Len(g[i].preds) : g[i].preds[j] \in 1 .. i - 1
         /\ \A q \in ToSet(g[i].preds) : q \in 1 .. i - 1
<1>1. g[i].preds \in Seq(1 .. i - 1) BY DEF Regular
<1>2. \A j \in DOMAIN g[i].preds : g[i].preds[j] \in 1 .. i - 1 BY <1>1
<1> QED BY <1>1, <1>2 DEF ToSet

LEMMA GivenFacts ==
  ASSUME NEW g, Regular(g), NEW n \in Nat \ {0}, NEW ends \in Ends(Len(g), n), NEW p \in 1 .. n
  PROVE  /\ Given(Tiles(g, ends, n), p) = ends[p - 1]
         /\ ends[p - 1] \in Nat /\ ends[p] \in Nat /\ ends[p - 1] < ends[p] /\ ends[p] <= Len(g)
         /\ p = 1 <=> ends[p - 1] = 0
<1> DEFINE ps == Tiles(g, ends, n)
<1>0. Len(g) \in Nat BY DEF Regular
<1>1. /\ ends \in [0 .. n -> 0 .. Len(g)] /\ ends[0] = 0
      /\ \A q \in 1 .. n : ends[q - 1] < ends[q] /\ LastOf(ps, q) = ends[q]
  BY <1>0, TileFacts
<1> HIDE DEF ps
<1>2. ends[p - 1] \in Nat /\ ends[p] \in Nat /\ ends[p - 1] < ends[p] /\ ends[p] <= Len(g)
  BY <1>0, <1>1
<1>3. CASE p = 1 BY <1>1, <1>2, <1>3 DEF Given, ps
<1>4. CASE p # 1
  <2>1. p - 1 \in 1 .. n /\ (p - 1) - 1 \in 0 .. n BY <1>4
  <2>2. LastOf(ps, p - 1) = ends[p - 1] /\ ends[(p - 1) - 1] < ends[p - 1] /\ ends[(p - 1) - 1] \in Nat
    BY <1>1, <2>1
  <2>3. Given(ps, p) = ends[p - 1] /\ ends[p - 1] # 0 BY <1>2, <1>4, <2>2 DEF Given
  <2> QED BY <1>2, <1>4, <2>3 DEF ps
<1> QED BY <1>3, <1>4

LEMMA EdgesSame ==
  ASSUME NEW g, Regular(g), NEW n \in Nat \ {0}, NEW ends \in Ends(Len(g), n)
  PROVE  EdgesCross(g, Tiles(g, ends, n)) <=> EdgesReach(g, ends, n)
<1> DEFINE ps == Tiles(g, ends, n)
<1>0. Len(g) \in Nat /\ DOMAIN g = 1 .. Len(g) BY DEF Regular
<1>1. /\ ends \in [0 .. n -> 0 .. Len(g)] /\ ends[0] = 0
      /\ \A i \in 1 .. Len(g) : PartOf(ps, i) \in 1 .. n
      /\ \A p \in 1 .. n : LastOf(ps, p) = ends[p] /\ ends[p - 1] < ends[p]
      /\ \A p \in 1 .. n : \A i \in 1 .. Len(g) : PartOf(ps, i) = p <=> ends[p - 1] < i /\ i <= ends[p]
  <2>1. /\ ends \in [0 .. n -> 0 .. Len(g)] /\ ends[0] = 0
        /\ \A i \in 1 .. Len(g) : PartOf(ps, i) \in 1 .. n
        /\ \A p \in 1 .. n : LastOf(ps, p) = ends[p] /\ ends[p - 1] < ends[p]
    BY <1>0, TileFacts
  <2>2. ASSUME NEW p \in 1 .. n, NEW i \in 1 .. Len(g)
        PROVE  PartOf(ps, i) = p <=> ends[p - 1] < i /\ i <= ends[p]
    BY <1>0, TileFacts, SMTT(30)
  <2> HIDE DEF ps
  <2> QED BY <2>1, <2>2
<1> HIDE DEF ps
<1>2. ASSUME NEW p \in 1 .. n, NEW i \in ends[p - 1] + 1 .. ends[p]
      PROVE  /\ i \in 1 .. Len(g) /\ PartOf(ps, i) = p
             /\ (g[i].takesInput => p = 1) <=> (g[i].takesInput => ends[p - 1] = 0)
             /\ \A q \in ToSet(g[i].preds) : (PartOf(ps, q) = p \/ Crosses(ps, q, p)) <=> q >= ends[p - 1]
  <2>1. ends[p - 1] \in Nat /\ ends[p] \in Nat /\ ends[p] <= Len(g) /\ (p = 1 <=> ends[p - 1] = 0)
    BY GivenFacts
  <2>2. i \in 1 .. Len(g) /\ i \in Nat /\ ends[p - 1] < i /\ i <= ends[p] BY <1>0, <2>1
  <2>3. PartOf(ps, i) = p BY <1>1, <2>2
  <2>4. ASSUME NEW q \in ToSet(g[i].preds)
        PROVE  (PartOf(ps, q) = p \/ Crosses(ps, q, p)) <=> q >= ends[p - 1]
    <3>1. q \in 1 .. i - 1 BY <2>2, PredTypes
    <3>2. q \in 1 .. Len(g) /\ q \in Nat /\ q <= ends[p] BY <1>0, <2>1, <2>2, <3>1
    <3>3. PartOf(ps, q) = p <=> ends[p - 1] < q BY <1>1, <3>2
    <3>4. CASE p = 1
      <4>1. PartOf(ps, q) # p - 1 BY <1>1, <3>2, <3>4
      <4>2. ~Crosses(ps, q, p) BY <4>1 DEF Crosses
      <4> QED BY <2>1, <3>2, <3>3, <3>4, <4>2
    <3>5. CASE p # 1
      <4>1. p - 1 \in 1 .. n BY <3>5
      <4>2. LastOf(ps, p - 1) = ends[p - 1] /\ ends[(p - 1) - 1] < ends[p - 1] BY <1>1, <4>1
      <4>3. q = ends[p - 1] => PartOf(ps, q) = p - 1 BY <1>1, <2>1, <3>2, <4>1, <4>2
      <4>4. Crosses(ps, q, p) <=> q = ends[p - 1] BY <4>2, <4>3 DEF Crosses
      <4> QED BY <2>1, <3>2, <3>3, <4>4
    <3> QED BY <3>4, <3>5
  <2> QED BY <2>1, <2>2, <2>3, <2>4
<1>3. ASSUME NEW i \in 1 .. Len(g) PROVE \E p \in 1 .. n : i \in ends[p - 1] + 1 .. ends[p]
  <2>1. PICK p \in 1 .. n : ends[p - 1] < i /\ i <= ends[p] BY <1>0, PlaceOf
  <2>2. ends[p - 1] \in Nat /\ ends[p] \in Nat BY GivenFacts
  <2> QED BY <2>1, <2>2
<1>4. ASSUME EdgesCross(g, ps) PROVE EdgesReach(g, ends, n)
  <2> SUFFICES ASSUME NEW p \in 1 .. n, NEW i \in ends[p - 1] + 1 .. ends[p]
               PROVE  /\ g[i].takesInput => ends[p - 1] = 0
                      /\ \A q \in ToSet(g[i].preds) : q >= ends[p - 1]
    BY DEF EdgesReach
  <2>1. i \in DOMAIN g /\ PartOf(ps, i) = p BY <1>0, <1>2
  <2>2. g[i].takesInput => p = 1 BY <1>4, <2>1 DEF EdgesCross
  <2>3. \A q \in ToSet(g[i].preds) : PartOf(ps, q) = p \/ Crosses(ps, q, p)
    BY <1>4, <2>1 DEF EdgesCross
  <2> QED BY <1>2, <2>2, <2>3
<1>5. ASSUME EdgesReach(g, ends, n) PROVE EdgesCross(g, ps)
  <2> SUFFICES ASSUME NEW i \in DOMAIN g
               PROVE  /\ g[i].takesInput => PartOf(ps, i) = 1
                      /\ \A q \in ToSet(g[i].preds) : PartOf(ps, q) = PartOf(ps, i) \/ Crosses(ps, q, PartOf(ps, i))
    BY DEF EdgesCross
  <2>1. PICK p \in 1 .. n : i \in ends[p - 1] + 1 .. ends[p] BY <1>0, <1>3
  <2>2. PartOf(ps, i) = p BY <1>2, <2>1
  <2>3. /\ g[i].takesInput => ends[p - 1] = 0
        /\ \A q \in ToSet(g[i].preds) : q >= ends[p - 1]
    BY <1>5, <2>1 DEF EdgesReach
  <2>4. g[i].takesInput => p = 1 BY <1>2, <2>1, <2>3
  <2>5. \A q \in ToSet(g[i].preds) : PartOf(ps, q) = p \/ Crosses(ps, q, p) BY <1>2, <2>1, <2>3
  <2> QED BY <2>2, <2>4, <2>5
<1> QED BY <1>4, <1>5 DEF ps

--------------------
(* What the layers of a slice are called with. *)

\* The partition-local predecessors of layer l of slice p.
Mine(g, ends, n, p, l) == Tiles(g, ends, n)[p].preds[l]

Sequential(g, ends, n, p) == \A l \in 1 .. ends[p] - ends[p - 1] : Mine(g, ends, n, p, l) = <<>>

LEMMA MineFacts ==
  ASSUME NEW g, Regular(g), NEW n \in Nat \ {0}, NEW ends \in Ends(Len(g), n), NEW p \in 1 .. n,
         NEW l \in 1 .. ends[p] - ends[p - 1]
  PROVE  LET a == ends[p - 1]
             preds == g[a + l].preds
             mine == Mine(g, ends, n, p, l)
         IN  /\ Len(preds) = 0 => mine = <<>>
             /\ Len(preds) = 1 => mine = IF preds[1] > a THEN <<preds[1] - a>> ELSE <<>>
             /\ Len(preds) > 1 => mine = [j \in 1 .. Len(preds) |-> IF preds[j] > a THEN preds[j] - a ELSE 0]
<1> DEFINE ps == Tiles(g, ends, n)
<1>0. Len(g) \in Nat BY DEF Regular
<1>1. /\ ps[p].layers = Span(ends[p - 1], ends[p])
      /\ ps[p].preds = _intra_predecessors(g, ps[p].layers)
  BY <1>0, TileFacts
<1>2. ends[p - 1] \in Nat /\ ends[p] \in Nat /\ ends[p - 1] < ends[p] /\ ends[p] <= Len(g)
  BY GivenFacts
<1> HIDE DEF ps
<1>3. Mine(g, ends, n, p, l) = _intra_predecessors(g, ps[p].layers)[l] BY <1>1 DEF Mine, ps
<1> DEFINE a == ends[p - 1]
           b == ends[p]
<1>4. a \in Nat /\ b \in Nat /\ a < b /\ b <= Len(g) /\ ps[p].layers = Span(a, b) /\ l \in 1 .. b - a
  BY <1>1, <1>2
<1> HIDE DEF a, b
<1>5. LET preds == g[a + l].preds
          mine == _intra_predecessors(g, Span(a, b))[l]
          local(q) == IF q > a THEN q - a ELSE 0
      IN  /\ preds \in Seq(Nat) /\ \A j \in DOMAIN preds : preds[j] \in 1 .. (a + l) - 1
          /\ Len(preds) = 0 => mine = <<>>
          /\ Len(preds) = 1 => mine = IF preds[1] > a THEN <<preds[1] - a>> ELSE <<>>
          /\ Len(preds) > 1 => mine = [j \in 1 .. Len(preds) |-> local(preds[j])]
  BY <1>4, IntraPreds, SMTT(30)
<1> QED BY <1>3, <1>4, <1>5 DEF a

LEMMA MineTypes ==
  ASSUME NEW g, Regular(g), NEW n \in Nat \ {0}, NEW ends \in Ends(Len(g), n), NEW p \in 1 .. n,
         NEW l \in 1 .. ends[p] - ends[p - 1]
  PROVE  LET mine == Mine(g, ends, n, p, l)
         IN  DOMAIN mine = 1 .. Len(mine) /\ \A j \in DOMAIN mine : mine[j] \in 0 .. l - 1
<1> DEFINE a == ends[p - 1]
           i == a + l
           preds == g[i].preds
           mine == Mine(g, ends, n, p, l)
<1>1. a \in Nat /\ ends[p] \in Nat /\ a < ends[p] /\ ends[p] <= Len(g) /\ Len(g) \in Nat
  BY GivenFacts DEF Regular
<1>2. i \in 1 .. Len(g) /\ i \in Nat BY <1>1
<1> HIDE DEF i
<1>3. Len(preds) \in Nat /\ \A j \in 1 .. Len(preds) : preds[j] \in 1 .. i - 1
  BY <1>2, PredTypes
<1>4. /\ Len(preds) = 0 => mine = <<>>
      /\ Len(preds) = 1 => mine = IF preds[1] > a THEN <<preds[1] - a>> ELSE <<>>
      /\ Len(preds) > 1 => mine = [j \in 1 .. Len(preds) |-> IF preds[j] > a THEN preds[j] - a ELSE 0]
  BY MineFacts DEF i
<1>5. \A j \in 1 .. Len(preds) : preds[j] > a => preds[j] - a \in 0 .. l - 1
  <2> SUFFICES ASSUME NEW j \in 1 .. Len(preds), preds[j] > a PROVE preds[j] - a \in 0 .. l - 1
    OBVIOUS
  <2>1. preds[j] \in Nat /\ preds[j] <= i - 1 BY <1>2, <1>3
  <2> HIDE DEF preds
  <2> QED BY <1>1, <2>1, SMTT(30) DEF i
<1> HIDE DEF preds, mine
<1>6. CASE Len(preds) = 0 BY <1>4, <1>6 DEF mine
<1>7. CASE Len(preds) = 1
  <2>1. mine = <<>> \/ (mine = <<preds[1] - a>> /\ preds[1] - a \in 0 .. l - 1)
    BY <1>4, <1>5, <1>7
  <2> HIDE DEF a
  <2> QED BY <2>1 DEF mine
<1>8. CASE Len(preds) > 1
  <2>1. mine = [j \in 1 .. Len(preds) |-> IF preds[j] > a THEN preds[j] - a ELSE 0]
    BY <1>4, <1>8
  <2>2. mine \in [1 .. Len(preds) -> 0 .. l - 1] BY <1>5, <2>1
  <2>3. Len(mine) = Len(preds) /\ DOMAIN mine = 1 .. Len(preds) BY <1>3, <2>2, AsSequence
  <2> QED BY <2>2, <2>3 DEF mine
<1>9. Len(preds) = 0 \/ Len(preds) = 1 \/ Len(preds) > 1
  <2>1. \A k \in Nat : k = 0 \/ k = 1 \/ k > 1 OBVIOUS
  <2> QED BY <1>3, <2>1
<1> QED BY <1>6, <1>7, <1>8, <1>9

LEMMA ReadsFacts ==
  ASSUME NEW g, Regular(g), NEW n \in Nat \ {0}, NEW ends \in Ends(Len(g), n), NEW p \in 1 .. n,
         NEW l \in 1 .. ends[p] - ends[p - 1]
  PROVE  LET a == ends[p - 1]
             mine == Mine(g, ends, n, p, l)
         IN  Reads(Tiles(g, ends, n), p, l) =
               IF Sequential(g, ends, n, p) THEN <<a + l - 1>>
               ELSE IF mine = <<>> THEN <<a>> ELSE [j \in DOMAIN mine |-> a + mine[j]]
<1> DEFINE ps == Tiles(g, ends, n)
           a == ends[p - 1]
           b == ends[p]
           layers == ps[p].layers
           mine == Mine(g, ends, n, p, l)
<1>0. Len(g) \in Nat BY DEF Regular
<1>1. layers = [k \in 1 .. b - a |-> a + k]
  <2>1. layers = Span(a, b) BY <1>0, TileFacts
  <2> QED BY <2>1 DEF Span
<1>2. a \in Nat /\ b \in Nat /\ a < b /\ Given(ps, p) = a BY GivenFacts
<1>3. mine = ps[p].preds[l] /\ DOMAIN layers = 1 .. b - a BY <1>1 DEF Mine
<1>4. Sequential(g, ends, n, p) <=> \A j \in DOMAIN layers : ps[p].preds[j] = <<>>
  BY <1>1 DEF Sequential, Mine
<1>5. DOMAIN mine = 1 .. Len(mine) /\ \A j \in DOMAIN mine : mine[j] \in 0 .. l - 1 BY MineTypes
<1> HIDE DEF ps, mine, layers, a, b
<1>6. Reads(ps, p, l) =
        CASE Sequential(g, ends, n, p) -> <<IF l = 1 THEN a ELSE layers[l - 1]>>
          [] ~Sequential(g, ends, n, p) /\ mine = <<>> -> <<a>>
          [] OTHER -> [j \in DOMAIN mine |-> IF mine[j] = 0 THEN a ELSE layers[mine[j]]]
  BY <1>2, <1>3, <1>4 DEF Reads, layers
<1>7. l \in 1 .. b - a /\ l \in Nat BY <1>2 DEF a, b
<1>8. (IF l = 1 THEN a ELSE layers[l - 1]) = a + l - 1
  <2>1. CASE l = 1 BY <1>2, <2>1
  <2>2. CASE l # 1
    <3>1. l - 1 \in 1 .. b - a BY <1>2, <1>7, <2>2
    <3>2. layers[l - 1] = a + (l - 1) BY <1>1, <3>1
    <3> QED BY <1>2, <1>7, <2>2, <3>2
  <2> QED BY <2>1, <2>2
<1>9. ASSUME NEW j \in DOMAIN mine PROVE (IF mine[j] = 0 THEN a ELSE layers[mine[j]]) = a + mine[j]
  <2>1. mine[j] \in Nat /\ (mine[j] # 0 => mine[j] \in 1 .. b - a) BY <1>2, <1>5, <1>7
  <2> QED BY <1>1, <1>2, <2>1
<1>10. CASE Sequential(g, ends, n, p) BY <1>6, <1>8, <1>10 DEF ps, a
<1>11. CASE ~Sequential(g, ends, n, p) /\ mine = <<>> BY <1>6, <1>11 DEF ps, a, mine
<1>12. CASE ~Sequential(g, ends, n, p) /\ mine # <<>>
  <2>1. Reads(ps, p, l) = [j \in DOMAIN mine |-> IF mine[j] = 0 THEN a ELSE layers[mine[j]]]
    BY <1>6, <1>12
  <2>2. Reads(ps, p, l) = [j \in DOMAIN mine |-> a + mine[j]] BY <2>1, <1>9
  <2> QED BY <1>12, <2>2 DEF ps, a, mine
<1> QED BY <1>10, <1>11, <1>12

--------------------
(* The edges cross as they should exactly when the slices compute the      *)
(* model. *)

LEMMA SequentialIsSingle ==
  ASSUME NEW g, Regular(g), NEW n \in Nat \ {0}, NEW ends \in Ends(Len(g), n), EdgesReach(g, ends, n),
         NEW p \in 1 .. n, Sequential(g, ends, n, p)
  PROVE  ends[p] = ends[p - 1] + 1
<1> SUFFICES ASSUME ends[p] # ends[p - 1] + 1 PROVE FALSE
  OBVIOUS
<1> DEFINE a == ends[p - 1]
           b == ends[p]
<1>1. a \in Nat /\ b \in Nat /\ a < b /\ b <= Len(g) /\ Len(g) \in Nat /\ DOMAIN g = 1 .. Len(g)
  BY GivenFacts DEF Regular
<1>2. a + 1 \in 1 .. Len(g) - 1 /\ a + 1 < b BY <1>1
<1>3. PICK j \in DOMAIN g : a + 1 \in ToSet(g[j].preds) BY <1>2 DEF Regular, Successors
<1>4. j \in 1 .. Len(g) /\ a + 1 < j
  <2>1. a + 1 \in 1 .. j - 1 BY <1>1, <1>3, PredTypes
  <2> QED BY <1>1, <1>3, <2>1
<1>5. PICK k \in 1 .. n : ends[k - 1] < j /\ j <= ends[k] BY <1>1, <1>4, PlaceOf, ZenonT(30)
<1>6. ends[k - 1] \in Nat /\ ends[k] \in Nat /\ j \in ends[k - 1] + 1 .. ends[k]
  BY <1>4, <1>5, GivenFacts, SMTT(30)
<1>7. a + 1 >= ends[k - 1] BY <1>3, <1>6 DEF EdgesReach
<1>8. k = p
  <2> SUFFICES ASSUME k # p PROVE FALSE
    OBVIOUS
  <2>1. CASE k < p
    <3>1. ends[k] <= a
      <4>1. k = p - 1 \/ (k < p - 1 /\ p - 1 \in 0 .. n /\ k \in 0 .. n) BY <2>1
      <4>2. k < p - 1 => ends[k] < ends[p - 1] BY <1>1, <4>1, EndsGrow
      <4> QED BY <1>1, <1>6, <4>1, <4>2
    <3> QED BY <1>1, <1>4, <1>5, <1>6, <3>1
  <2>2. CASE p < k
    <3>1. b <= ends[k - 1]
      <4>1. p = k - 1 \/ (p < k - 1 /\ k - 1 \in 0 .. n /\ p \in 0 .. n) BY <2>2
      <4>2. p < k - 1 => ends[p] < ends[k - 1] BY <1>1, <4>1, EndsGrow
      <4> QED BY <1>1, <1>6, <4>1, <4>2
    <3> QED BY <1>1, <1>2, <1>6, <1>7, <3>1, SMTT(30)
  <2>3. k < p \/ p < k OBVIOUS
  <2> QED BY <2>1, <2>2, <2>3
<1> DEFINE l == j - a
           preds == g[j].preds
<1>9. l \in 1 .. b - a /\ a + l = j BY <1>1, <1>4, <1>5, <1>6, <1>8
<1> HIDE DEF l
<1>10. Mine(g, ends, n, p, l) = <<>> BY <1>9 DEF Sequential
<1>11. /\ Len(preds) = 0 => Mine(g, ends, n, p, l) = <<>>
       /\ Len(preds) = 1 => Mine(g, ends, n, p, l) = IF preds[1] > a THEN <<preds[1] - a>> ELSE <<>>
       /\ Len(preds) > 1 => Mine(g, ends, n, p, l) = [i \in 1 .. Len(preds) |-> IF preds[i] > a THEN preds[i] - a ELSE 0]
  BY <1>9, MineFacts, SMTT(30)
<1>12. /\ preds \in Seq(Nat) /\ Len(preds) \in Nat /\ DOMAIN preds = 1 .. Len(preds)
       /\ \A i \in 1 .. Len(preds) : preds[i] \in 1 .. j - 1
  BY <1>4, PredTypes
<1>13. PICK i \in 1 .. Len(preds) : preds[i] = a + 1 BY <1>3, <1>12 DEF ToSet
<1> HIDE DEF preds
<1>14. CASE Len(preds) = 1
  <2>1. preds[1] = a + 1 /\ preds[1] > a BY <1>1, <1>13, <1>14
  <2>2. Mine(g, ends, n, p, l) = <<preds[1] - a>> BY <1>11, <1>14, <2>1
  <2> HIDE DEF a
  <2> QED BY <1>10, <2>2
<1>15. CASE Len(preds) > 1
  <2>1. Mine(g, ends, n, p, l) = [x \in 1 .. Len(preds) |-> IF preds[x] > a THEN preds[x] - a ELSE 0]
    BY <1>11, <1>15
  <2>2. DOMAIN Mine(g, ends, n, p, l) = 1 .. Len(preds) /\ 1 \in 1 .. Len(preds)
    BY <1>12, <1>13, <2>1
  <2>3. DOMAIN <<>> = {} OBVIOUS
  <2> QED BY <1>10, <2>2, <2>3
<1>16. Len(preds) = 1 \/ Len(preds) > 1 BY <1>12, <1>13
<1> QED BY <1>14, <1>15, <1>16

\* In slice p, layer l computes what it computes in the model.
LayerComputes(g, ends, n, p, l) ==
  LET i == ends[p - 1] + l
  IN IsConstant(g, i) \/ Reads(Tiles(g, ends, n), p, l) = ReadsInModel(g, i)

LEMMA ReachComputes ==
  ASSUME NEW g, Regular(g), NEW n \in Nat \ {0}, NEW ends \in Ends(Len(g), n), EdgesReach(g, ends, n),
         NEW p \in 1 .. n, NEW l \in 1 .. ends[p] - ends[p - 1]
  PROVE  LayerComputes(g, ends, n, p, l)
<1> DEFINE a == ends[p - 1]
           i == a + l
           preds == g[i].preds
           mine == Mine(g, ends, n, p, l)
           reads == Reads(Tiles(g, ends, n), p, l)
           seq == Sequential(g, ends, n, p)
<1>1. a \in Nat /\ ends[p] \in Nat /\ a < ends[p] /\ ends[p] <= Len(g) /\ Len(g) \in Nat /\ DOMAIN g = 1 .. Len(g)
  BY GivenFacts DEF Regular
<1>2. i \in 1 .. Len(g) /\ i \in a + 1 .. ends[p] /\ l \in Nat BY <1>1
<1>3. reads = IF seq THEN <<a + l - 1>> ELSE IF mine = <<>> THEN <<a>> ELSE [j \in DOMAIN mine |-> a + mine[j]]
  BY ReadsFacts
<1>4. /\ Len(preds) = 0 => mine = <<>>
      /\ Len(preds) = 1 => mine = IF preds[1] > a THEN <<preds[1] - a>> ELSE <<>>
      /\ Len(preds) > 1 => mine = [j \in 1 .. Len(preds) |-> IF preds[j] > a THEN preds[j] - a ELSE 0]
  BY MineFacts
<1>5. /\ preds \in Seq(Nat) /\ Len(preds) \in Nat /\ DOMAIN preds = 1 .. Len(preds)
      /\ \A j \in 1 .. Len(preds) : preds[j] \in 1 .. i - 1
  BY <1>2, PredTypes
<1>6. seq => l = 1
  <2>1. seq => ends[p] = a + 1 BY SequentialIsSingle
  <2> QED BY <1>1, <2>1
<1>7. g[i].takesInput => a = 0 BY <1>2 DEF EdgesReach
<1>8. \A j \in 1 .. Len(preds) : preds[j] >= a
  <2>1. \A q \in ToSet(preds) : q >= a BY <1>2 DEF EdgesReach
  <2> QED BY <1>5, <2>1 DEF ToSet
<1>9. SUFFICES ASSUME ~IsConstant(g, i) PROVE reads = ReadsInModel(g, i)
  BY DEF LayerComputes
<1> HIDE DEF i, preds, mine, reads, seq
<1>10. CASE Len(preds) = 0
  <2>1. preds = <<>> BY <1>5, <1>10
  <2>2. g[i].takesInput /\ ReadsInModel(g, i) = <<0>>
    BY <1>9, <2>1 DEF IsConstant, ReadsInModel, preds
  <2>3. a = 0 /\ mine = <<>> BY <1>4, <1>7, <1>10, <2>2
  <2>4. seq => a + l - 1 = 0 BY <1>2, <1>6, <2>3
  <2> QED BY <1>3, <2>2, <2>3, <2>4
<1>11. CASE Len(preds) = 1
  <2>1. preds = <<preds[1]>> /\ preds # <<>> /\ preds[1] \in 1 .. i - 1 /\ preds[1] >= a
    <3>1. 1 \in 1 .. Len(preds) /\ DOMAIN preds = {1} BY <1>5, <1>11
    <3>2. preds = <<preds[1]>> BY <1>5, <1>11
    <3>3. preds # <<>> BY <1>11, SMTT(30)
    <3>4. preds[1] \in 1 .. i - 1 /\ preds[1] >= a BY <1>5, <1>8, <3>1
    <3> QED BY <3>2, <3>3, <3>4
  <2>2. ReadsInModel(g, i) = <<preds[1]>> BY <2>1 DEF ReadsInModel, preds
  <2>3. CASE preds[1] > a
    <3>1. mine = <<preds[1] - a>> /\ mine # <<>> BY <1>4, <1>11, <2>3
    <3>2. ~seq
      <4>1. l = 1 => preds[1] <= a BY <1>1, <2>1 DEF i
      <4> QED BY <1>1, <1>6, <2>1, <2>3, <4>1
    <3>3. reads = [j \in DOMAIN mine |-> a + mine[j]] BY <1>3, <3>1, <3>2
    <3>4. a + (preds[1] - a) = preds[1] BY <1>1, <2>1
    <3>5. reads = <<preds[1]>> BY <3>1, <3>3, <3>4
    <3> QED BY <2>2, <3>5
  <2>4. CASE preds[1] = a
    <3>1. mine = <<>> BY <1>1, <1>4, <1>11, <2>4
    <3>2. seq => a + l - 1 = a BY <1>1, <1>2, <1>6
    <3> QED BY <1>3, <2>2, <2>4, <3>1, <3>2
  <2>5. preds[1] > a \/ preds[1] = a BY <1>1, <2>1
  <2> QED BY <2>3, <2>4, <2>5
<1>12. CASE Len(preds) > 1
  <2>1. mine = [j \in 1 .. Len(preds) |-> IF preds[j] > a THEN preds[j] - a ELSE 0]
    BY <1>4, <1>12
  <2>2. mine # <<>> /\ preds # <<>>
    <3>1. DOMAIN mine = 1 .. Len(preds) /\ DOMAIN preds = 1 .. Len(preds) /\ 1 \in 1 .. Len(preds)
      BY <1>5, <1>12, <2>1
    <3>2. DOMAIN <<>> = {} OBVIOUS
    <3> QED BY <3>1, <3>2
  <2>3. ~seq
    <3>1. seq => mine = <<>> BY DEF seq, Sequential, mine
    <3> QED BY <2>2, <3>1
  <2>4. reads = [j \in DOMAIN mine |-> a + mine[j]] BY <1>3, <2>2, <2>3
  <2>5. \A j \in 1 .. Len(preds) : a + (IF preds[j] > a THEN preds[j] - a ELSE 0) = preds[j]
    BY <1>1, <1>5, <1>8
  <2>6. reads = [j \in 1 .. Len(preds) |-> preds[j]]
    <3> HIDE DEF a
    <3> QED BY <2>1, <2>4, <2>5
  <2>7. reads = preds BY <1>5, <2>6
  <2> QED BY <2>2, <2>7 DEF ReadsInModel, preds
<1>13. Len(preds) = 0 \/ Len(preds) = 1 \/ Len(preds) > 1
  <2>1. \A k \in Nat : k = 0 \/ k = 1 \/ k > 1 OBVIOUS
  <2> QED BY <1>5, <2>1
<1> QED BY <1>10, <1>11, <1>12, <1>13

LEMMA ComputesReach ==
  ASSUME NEW g, Regular(g), NEW n \in Nat \ {0}, NEW ends \in Ends(Len(g), n), NEW p \in 1 .. n,
         NEW i \in ends[p - 1] + 1 .. ends[p], LayerComputes(g, ends, n, p, i - ends[p - 1])
  PROVE  /\ g[i].takesInput => ends[p - 1] = 0
         /\ \A q \in ToSet(g[i].preds) : q >= ends[p - 1]
<1> DEFINE a == ends[p - 1]
           l == i - a
           preds == g[i].preds
           mine == Mine(g, ends, n, p, l)
           reads == Reads(Tiles(g, ends, n), p, l)
           seq == Sequential(g, ends, n, p)
<1>1. a \in Nat /\ ends[p] \in Nat /\ a < ends[p] /\ ends[p] <= Len(g) /\ Len(g) \in Nat /\ DOMAIN g = 1 .. Len(g)
  BY GivenFacts DEF Regular
<1>2. i \in 1 .. Len(g) /\ i \in Nat /\ l \in 1 .. ends[p] - a /\ a + l = i /\ l \in Nat \ {0}
  BY <1>1, SMTT(30)
<1>3. IsConstant(g, i) \/ reads = ReadsInModel(g, i) BY <1>2 DEF LayerComputes
<1> HIDE DEF l
<1>4. reads = IF seq THEN <<a + l - 1>> ELSE IF mine = <<>> THEN <<a>> ELSE [j \in DOMAIN mine |-> a + mine[j]]
  BY <1>2, ReadsFacts
<1>5. DOMAIN mine = 1 .. Len(mine) /\ \A j \in DOMAIN mine : mine[j] \in 0 .. l - 1
  BY <1>2, MineTypes
<1>6. Len(preds) = 0 => mine = <<>> BY <1>2, MineFacts
<1>7. /\ preds \in Seq(Nat) /\ Len(preds) \in Nat /\ DOMAIN preds = 1 .. Len(preds)
      /\ \A j \in 1 .. Len(preds) : preds[j] \in 1 .. i - 1
  BY <1>2, PredTypes
<1> HIDE DEF preds, mine, reads, seq
<1>8. ASSUME g[i].takesInput PROVE a = 0
  <2>1. preds = <<>> /\ ~IsConstant(g, i) /\ ReadsInModel(g, i) = <<0>>
    BY <1>1, <1>2, <1>8 DEF Regular, IsConstant, ReadsInModel, preds
  <2>2. reads = <<0>> /\ mine = <<>> BY <1>3, <1>6, <2>1
  <2>3. CASE seq
    <3>1. <<a + l - 1>> = <<0>> BY <1>4, <2>2, <2>3
    <3> QED BY <1>1, <1>2, <3>1
  <2>4. CASE ~seq
    <3>1. <<a>> = <<0>> BY <1>4, <2>2, <2>4
    <3> QED BY <1>1, <3>1
  <2> QED BY <2>3, <2>4
<1>9. ASSUME NEW q \in ToSet(preds) PROVE q >= a
  <2>1. PICK j \in 1 .. Len(preds) : preds[j] = q BY <1>7 DEF ToSet
  <2>2. preds # <<>> BY <1>7, <2>1
  <2>3. reads = preds BY <1>3, <2>2 DEF IsConstant, ReadsInModel, preds
  <2>4. CASE seq
    <3>1. preds = <<a + l - 1>> BY <1>4, <2>3, <2>4
    <3>2. q = a + l - 1 BY <2>1, <3>1
    <3> QED BY <1>1, <1>2, <3>2
  <2>5. CASE ~seq /\ mine = <<>>
    <3>1. preds = <<a>> BY <1>4, <2>3, <2>5
    <3>2. q = a BY <2>1, <3>1
    <3> QED BY <1>1, <3>2
  <2>6. CASE ~seq /\ mine # <<>>
    <3>1. preds = [x \in DOMAIN mine |-> a + mine[x]] BY <1>4, <2>3, <2>6
    <3>2. j \in DOMAIN mine /\ q = a + mine[j] BY <1>7, <2>1, <3>1
    <3> QED BY <1>1, <1>2, <1>5, <3>2
  <2> QED BY <2>4, <2>5, <2>6
<1> QED BY <1>8, <1>9 DEF preds

\* On a tiling, validate()'s edges are exact.
LEMMA EdgesAreExact ==
  ASSUME NEW g, Regular(g), NEW ps, Tiled(g, ps)
  PROVE  EdgesCross(g, ps) <=> Computes(g, ps)
<1>0. Len(g) \in Nat BY DEF Regular
<1>1. PICK n \in Nat \ {0} : \E ends \in Ends(Len(g), n) : ps = Tiles(g, ends, n) BY DEF Tiled
<1>2. PICK ends \in Ends(Len(g), n) : ps = Tiles(g, ends, n) BY <1>1
<1>3. /\ DOMAIN ps = 1 .. n /\ Len(ps) = n /\ LastOf(ps, n) = Len(g)
      /\ \A p \in 1 .. n : ps[p].layers = Span(ends[p - 1], ends[p])
  <2>1. /\ DOMAIN ps = 1 .. n /\ Len(ps) = n /\ ends[n] = Len(g)
        /\ \A p \in 1 .. n : ps[p].layers = Span(ends[p - 1], ends[p])
    BY <1>0, <1>2, TileFacts, SMTT(30)
  <2>2. n \in 1 .. n OBVIOUS
  <2>3. LastOf(ps, n) = ends[n] BY <1>0, <1>2, <2>2, TileFacts
  <2> QED BY <2>1, <2>3
<1>4. \A p \in 1 .. n : ends[p - 1] \in Nat /\ ends[p] \in Nat /\ ends[p - 1] < ends[p]
  BY GivenFacts
<1>5. Computes(g, ps) <=> \A p \in 1 .. n : \A l \in 1 .. ends[p] - ends[p - 1] : LayerComputes(g, ends, n, p, l)
  <2>1. ASSUME NEW p \in 1 .. n
        PROVE  /\ DOMAIN ps[p].layers = 1 .. ends[p] - ends[p - 1]
               /\ \A l \in 1 .. ends[p] - ends[p - 1] : ps[p].layers[l] = ends[p - 1] + l
    BY <1>3 DEF Span
  <2>2. ASSUME NEW p \in 1 .. n, NEW l \in 1 .. ends[p] - ends[p - 1]
        PROVE  LayerComputes(g, ends, n, p, l)
                 <=> (LET i == ps[p].layers[l] IN IsConstant(g, i) \/ Reads(ps, p, l) = ReadsInModel(g, i))
    BY <1>2, <2>1 DEF LayerComputes
  <2> QED BY <1>3, <2>1, <2>2, ZenonT(30) DEF Computes
<1>6. ASSUME EdgesReach(g, ends, n) PROVE Computes(g, ps)
  BY <1>5, <1>6, ReachComputes
<1>7. ASSUME Computes(g, ps) PROVE EdgesReach(g, ends, n)
  <2> SUFFICES ASSUME NEW p \in 1 .. n, NEW i \in ends[p - 1] + 1 .. ends[p]
               PROVE  /\ g[i].takesInput => ends[p - 1] = 0
                      /\ \A q \in ToSet(g[i].preds) : q >= ends[p - 1]
    BY DEF EdgesReach
  <2>1. i - ends[p - 1] \in 1 .. ends[p] - ends[p - 1] BY <1>4
  <2>2. LayerComputes(g, ends, n, p, i - ends[p - 1]) BY <1>5, <1>7, <2>1
  <2> QED BY <2>2, ComputesReach
<1> QED BY <1>2, <1>6, <1>7, EdgesSame

\* On a tiling, validate()'s edges are the valid cuts.
LEMMA CutsAreEdges ==
  ASSUME NEW g, Regular(g), NEW ps, Tiled(g, ps)
  PROVE  EdgesCross(g, ps) <=> \A p \in 1 .. Len(ps) - 1 : LastOf(ps, p) \in valid_cuts(g)
<1>0. Len(g) \in Nat \ {0} /\ DOMAIN g = 1 .. Len(g) BY DEF Regular
<1>1. PICK n \in Nat \ {0} : \E ends \in Ends(Len(g), n) : ps = Tiles(g, ends, n) BY DEF Tiled
<1>2. PICK ends \in Ends(Len(g), n) : ps = Tiles(g, ends, n) BY <1>1
<1>3. Len(ps) = n /\ \A p \in 1 .. n : LastOf(ps, p) = ends[p] BY <1>0, <1>2, TileFacts
<1>4. \A p \in 1 .. n : ends[p - 1] \in Nat /\ ends[p] \in Nat /\ ends[p - 1] < ends[p] /\ ends[p] <= Len(g)
  BY GivenFacts
<1>5. ends[0] = 0 /\ ends[n] = Len(g) BY DEF Ends
<1>6. SUFFICES EdgesReach(g, ends, n) <=> \A p \in 1 .. n - 1 : ends[p] \in valid_cuts(g)
  <2>1. \A p \in 1 .. n - 1 : LastOf(ps, p) = ends[p] BY <1>3
  <2> QED BY <1>2, <1>3, <2>1, EdgesSame
<1>7. ASSUME NEW p \in 1 .. n - 1, EdgesReach(g, ends, n) PROVE ends[p] \in valid_cuts(g)
  <2> DEFINE k == ends[p]
  <2>1. k \in 1 .. Len(g) - 1
    <3>1. p \in 0 .. n /\ n \in 0 .. n /\ p < n /\ p \in 1 .. n OBVIOUS
    <3>2. ends[p] < ends[n] BY <1>0, <3>1, EndsGrow
    <3>3. ends[p - 1] \in Nat /\ ends[p] \in Nat /\ ends[p - 1] < ends[p] BY <1>4, <3>1
    <3> QED BY <1>0, <1>5, <3>2, <3>3
  <2> HIDE DEF k
  <2>2. ASSUME NEW j \in k + 1 .. Len(g) PROVE ~g[j].takesInput /\ \A q \in ToSet(g[j].preds) : q >= k
    <3>1. j \in 1 .. Len(g) /\ j > k BY <1>0, <2>1, <2>2
    <3>2. PICK r \in 1 .. n : ends[r - 1] < j /\ j <= ends[r] BY <1>0, <3>1, PlaceOf
    <3>3. ends[r - 1] \in Nat /\ ends[r] \in Nat /\ j \in ends[r - 1] + 1 .. ends[r]
      BY <1>4, <3>1, <3>2
    <3>4. p < r
      <4> SUFFICES ASSUME r <= p PROVE FALSE
        OBVIOUS
      <4>1. ends[r] <= ends[p]
        <5>1. r = p \/ (r < p /\ r \in 0 .. n /\ p \in 0 .. n) OBVIOUS
        <5>2. r < p => ends[r] < ends[p] BY <1>0, <5>1, EndsGrow
        <5> QED BY <1>4, <3>3, <5>1, <5>2
      <4> QED BY <2>1, <3>1, <3>2, <3>3, <4>1 DEF k
    <3>5. ends[r - 1] >= k
      <4>1. p = r - 1 \/ (p < r - 1 /\ p \in 0 .. n /\ r - 1 \in 0 .. n) BY <3>4
      <4>2. p < r - 1 => ends[p] < ends[r - 1] BY <1>0, <4>1, EndsGrow
      <4> QED BY <2>1, <3>3, <4>1, <4>2 DEF k
    <3>6. (g[j].takesInput => ends[r - 1] = 0) /\ \A q \in ToSet(g[j].preds) : q >= ends[r - 1]
      BY <1>7, <3>3 DEF EdgesReach
    <3>7. g[j].takesInput \in BOOLEAN /\ \A q \in ToSet(g[j].preds) : q \in 1 .. j - 1
      BY <1>0, <3>1, PredTypes DEF Regular
    <3> QED BY <2>1, <3>3, <3>5, <3>6, <3>7
  <2>3. ASSUME NEW q \in 1 .. k - 1, NEW j \in Successors(g, q) PROVE j <= k
    <3>1. j \in 1 .. Len(g) /\ q \in ToSet(g[j].preds) BY <1>0 DEF Successors
    <3> QED BY <1>0, <2>1, <2>2, <3>1
  <2>4. Successors(g, k) # {} BY <2>1 DEF Regular
  <2> QED BY <2>1, <2>2, <2>3, <2>4 DEF valid_cuts, IsValidCut, k
<1>8. ASSUME \A p \in 1 .. n - 1 : ends[p] \in valid_cuts(g) PROVE EdgesReach(g, ends, n)
  <2> SUFFICES ASSUME NEW p \in 1 .. n, NEW i \in ends[p - 1] + 1 .. ends[p]
               PROVE  /\ g[i].takesInput => ends[p - 1] = 0
                      /\ \A q \in ToSet(g[i].preds) : q >= ends[p - 1]
    BY DEF EdgesReach
  <2>1. ends[p - 1] \in Nat /\ ends[p] \in Nat /\ ends[p] <= Len(g) /\ i \in 1 .. Len(g) /\ i > ends[p - 1]
    BY <1>0, <1>4
  <2>2. \A q \in ToSet(g[i].preds) : q \in 1 .. i - 1 BY <2>1, PredTypes
  <2>3. CASE p = 1 BY <1>5, <2>1, <2>2, <2>3
  <2>4. CASE p # 1
    <3>1. p - 1 \in 1 .. n - 1 BY <2>4
    <3>2. ends[p - 1] \in valid_cuts(g) BY <1>8, <3>1
    <3>3. /\ \A q \in 1 .. ends[p - 1] - 1 : \A j \in Successors(g, q) : j <= ends[p - 1]
          /\ \A j \in ends[p - 1] + 1 .. Len(g) : ~g[j].takesInput
      BY <3>2 DEF valid_cuts, IsValidCut
    <3>4. ~g[i].takesInput BY <1>0, <2>1, <3>3
    <3>5. ASSUME NEW q \in ToSet(g[i].preds), q < ends[p - 1] PROVE FALSE
      <4>1. q \in 1 .. ends[p - 1] - 1 BY <2>1, <2>2, <3>5
      <4>2. i \in Successors(g, q) BY <1>0, <2>1 DEF Successors
      <4> QED BY <2>1, <3>3, <4>1, <4>2
    <3> QED BY <2>1, <2>2, <3>4, <3>5
  <2> QED BY <2>3, <2>4
<1> QED BY <1>7, <1>8

--------------------
(* validate() on a tiling: what is left of it is its edges. *)

Joined(g, ends, n) == [p \in 1 .. n |-> Span(0, ends[p])]

LEMMA JoinSpans ==
  ASSUME NEW a \in Nat, NEW b \in Nat, a < b
  PROVE  Span(0, a) \o Span(a, b) = Span(0, b)
<1>1. Span(0, a) = [l \in 1 .. a |-> l] /\ Span(0, b) = [l \in 1 .. b |-> l] BY DEF Span
<1>2. Span(0, a) \in Seq(Nat) /\ Len(Span(0, a)) = a
  <2>1. [l \in 1 .. a |-> l] \in [1 .. a -> Nat] OBVIOUS
  <2> QED BY <1>1, <2>1, AsSequence
<1>3. Span(a, b) \in Seq(Nat) /\ Len(Span(a, b)) = b - a
  <2>1. Span(a, b) \in [1 .. b - a -> Nat] /\ b - a \in Nat BY DEF Span
  <2> QED BY <2>1, AsSequence
<1>4. Span(0, b) \in Seq(Nat) /\ Len(Span(0, b)) = b
  <2>1. [l \in 1 .. b |-> l] \in [1 .. b -> Nat] OBVIOUS
  <2> QED BY <1>1, <2>1, AsSequence
<1> DEFINE u == Span(0, a)
           v == Span(a, b)
           s == u \o v
           t == Span(0, b)
<1>5. ASSUME NEW l \in 1 .. b PROVE s[l] = t[l]
  <2>1. u \in Seq(Nat) /\ v \in Seq(Nat) /\ Len(u) = a /\ Len(v) = b - a BY <1>2, <1>3
  <2>2. t[l] = l /\ (l <= a => u[l] = l) BY <1>1
  <2>3. l > a => l - a \in 1 .. b - a /\ v[l - a] = l BY DEF Span
  <2> HIDE DEF u, v, t
  <2>4. l \in 1 .. Len(u) + Len(v) BY <2>1
  <2>5. s[l] = IF l <= Len(u) THEN u[l] ELSE v[l - Len(u)] BY <2>1, <2>4
  <2> QED BY <2>1, <2>2, <2>3, <2>5
<1>6. s \in Seq(Nat) /\ t \in Seq(Nat) /\ Len(s) = b /\ Len(t) = b
  <2>1. u \in Seq(Nat) /\ v \in Seq(Nat) /\ Len(u) = a /\ Len(v) = b - a BY <1>2, <1>3
  <2> HIDE DEF u, v
  <2>2. Len(s) = Len(u) + Len(v) /\ s \in Seq(Nat) BY <2>1
  <2>3. Len(s) = b BY <2>1, <2>2
  <2> QED BY <1>4, <2>2, <2>3
<1> HIDE DEF s, t
<1>7. \A l \in 1 .. b : s[l] = t[l] BY <1>5
<1>8. s = t BY <1>6, <1>7
<1> QED BY <1>8 DEF s, t, u, v

LEMMA TilesCoverAll ==
  ASSUME NEW g, Len(g) \in Nat, NEW n \in Nat \ {0}, NEW ends \in Ends(Len(g), n)
  PROVE  CoversAll(g, Tiles(g, ends, n))
<1> DEFINE ps == Tiles(g, ends, n)
           seqs == [p \in DOMAIN ps |-> ps[p].layers]
           J == Joined(g, ends, n)
<1>1. /\ ends \in [0 .. n -> 0 .. Len(g)] /\ ends[0] = 0 /\ ends[n] = Len(g)
      /\ DOMAIN ps = 1 .. n /\ Len(ps) = n
      /\ \A p \in 1 .. n : ps[p].layers = Span(ends[p - 1], ends[p]) /\ Len(ps[p].layers) = ends[p] - ends[p - 1]
                           /\ ends[p - 1] < ends[p] /\ ps[p].layers \in Seq(Nat)
  BY TileFacts
<1>2. DOMAIN seqs = 1 .. n /\ Len(seqs) = n /\ \A p \in 1 .. n : seqs[p] = Span(ends[p - 1], ends[p])
  <2>1. seqs \in [1 .. n -> Seq(Nat)] BY <1>1
  <2> HIDE DEF seqs
  <2>2. Len(seqs) = n /\ DOMAIN seqs = 1 .. n BY <2>1, AsSequence
  <2> QED BY <1>1, <2>2 DEF seqs
<1>3. \A p \in DOMAIN ps : ps[p].layers # <<>> BY <1>1
<1> HIDE DEF ps, seqs
<1>4. \A p \in 1 .. n : J[p] = IF p = 1 THEN seqs[p] ELSE J[p - 1] \o seqs[p]
  <2> SUFFICES ASSUME NEW p \in 1 .. n PROVE J[p] = IF p = 1 THEN seqs[p] ELSE J[p - 1] \o seqs[p]
    OBVIOUS
  <2>1. ends[p - 1] \in Nat /\ ends[p] \in Nat /\ ends[p - 1] < ends[p] BY <1>1
  <2>2. CASE p = 1 BY <1>1, <1>2, <2>2 DEF Joined
  <2>3. CASE p # 1
    <3>1. p - 1 \in 1 .. n BY <2>3
    <3>2. J[p - 1] = Span(0, ends[p - 1]) /\ J[p] = Span(0, ends[p]) BY <3>1 DEF Joined
    <3> QED BY <1>2, <2>1, <2>3, <3>2, JoinSpans, ZenonT(30)
  <2> QED BY <2>2, <2>3
<1> DEFINE Eq(f) == f = [i \in 1 .. Len(seqs) |-> IF i = 1 THEN seqs[i] ELSE f[i - 1] \o seqs[i]]
<1>5. Eq(J) BY <1>2, <1>4 DEF Joined
<1>6. ASSUME NEW f, Eq(f) PROVE f[n] = J[n]
  <2> DEFINE S == {0} \cup {p \in 1 .. n : f[p] = J[p]}
  <2>1. 0 \in S OBVIOUS
  <2>2. ASSUME NEW k \in 0 .. n - 1, k \in S PROVE k + 1 \in S
    <3>1. k + 1 \in 1 .. n /\ (k + 1) - 1 = k OBVIOUS
    <3>2. f[k + 1] = IF k + 1 = 1 THEN seqs[k + 1] ELSE f[(k + 1) - 1] \o seqs[k + 1]
      BY <1>2, <1>6, <3>1
    <3>3. J[k + 1] = IF k + 1 = 1 THEN seqs[k + 1] ELSE J[(k + 1) - 1] \o seqs[k + 1]
      BY <1>4, <3>1
    <3>4. k + 1 # 1 => k # 0 OBVIOUS
    <3>5. k + 1 # 1 => f[k] = J[k] BY <2>2, <3>4
    <3> QED BY <3>1, <3>2, <3>3, <3>5
  <2>3. \A k \in 0 .. n : k \in S
    <3> HIDE DEF S
    <3> QED BY <2>1, <2>2, UpTo
  <2> QED BY <2>3
<1>7. FlattenSeq(seqs) = J[n]
  <2> DEFINE f == CHOOSE h : Eq(h)
  <2>1. Eq(f)
    <3> HIDE DEF Eq, J
    <3> QED BY <1>5
  <2>2. f[n] = J[n]
    <3> HIDE DEF f
    <3> QED BY <1>6, <2>1
  <2> QED BY <1>2, <2>2 DEF FlattenSeq
<1>8. J[n] = Interval(1, Len(g))
  <2>1. J[n] = Span(0, Len(g)) BY <1>1 DEF Joined
  <2>2. Span(0, Len(g)) = Interval(1, Len(g)) BY DEF Span, Interval
  <2> QED BY <2>1, <2>2
<1> QED BY <1>3, <1>7, <1>8 DEF CoversAll, ps, seqs

LEMMA ValidateAsks ==
  ASSUME NEW g, Regular(g), NEW ps, Tiled(g, ps)
  PROVE  validate(g, ps) <=> EdgesCross(g, ps)
<1>1. PICK n \in Nat \ {0} : \E ends \in Ends(Len(g), n) : ps = Tiles(g, ends, n) BY DEF Tiled
<1>2. CoversAll(g, ps) BY <1>1, TilesCoverAll DEF Regular
<1> QED BY <1>2 DEF validate, EdgesCross

--------------------
(* What strategies answer with are tilings. *)

LEMMA BoundsOf ==
  ASSUME NEW A \in Seq(Nat), NEW m \in Nat
  PROVE  LET bounds == <<0>> \o A \o <<m>>
         IN  /\ bounds \in Seq(Nat) /\ Len(bounds) = Len(A) + 2
             /\ bounds[1] = 0 /\ bounds[Len(A) + 2] = m
             /\ \A p \in 1 .. Len(A) : bounds[p + 1] = A[p]
<1> DEFINE u == <<0>> \o A
           bounds == u \o <<m>>
<1>1. Len(A) \in Nat OBVIOUS
<1>2. u \in Seq(Nat) /\ Len(u) = Len(A) + 1 /\ u[1] = 0 /\ \A p \in 1 .. Len(A) : u[p + 1] = A[p]
  OBVIOUS
<1> HIDE DEF u
<1>3. bounds \in Seq(Nat) /\ Len(bounds) = Len(A) + 2 BY <1>1, <1>2
<1>4. \A p \in 1 .. Len(u) : bounds[p] = u[p] BY <1>2
<1>5. bounds[Len(u) + 1] = m BY <1>2
<1> HIDE DEF bounds
<1>6. \A p \in 1 .. Len(A) : p + 1 \in 1 .. Len(u) BY <1>1, <1>2
<1>7. 1 \in 1 .. Len(u) /\ Len(u) + 1 = Len(A) + 2 BY <1>1, <1>2
<1>8. \A p \in 1 .. Len(A) : bounds[p + 1] = A[p] BY <1>2, <1>4, <1>6
<1>9. bounds[1] = 0 /\ bounds[Len(A) + 2] = m BY <1>2, <1>4, <1>5, <1>7
<1> QED BY <1>3, <1>8, <1>9 DEF bounds, u

LEMMA CutsTile ==
  ASSUME NEW g, Len(g) \in Nat \ {0}, NEW cuts, cuts \subseteq 1 .. Len(g) - 1
  PROVE  /\ Tiled(g, partitions_from_cuts(g, cuts))
         /\ Len(partitions_from_cuts(g, cuts)) = Cardinality(cuts) + 1
<1> DEFINE A == Ascending(cuts)
           c == Cardinality(cuts)
           bounds == <<0>> \o A \o <<Len(g)>>
           ends == [p \in 0 .. c + 1 |-> bounds[p + 1]]
<1>0. Len(g) - 1 \in Nat /\ Len(g) \in Nat OBVIOUS
<1>1. /\ c \in Nat /\ A \in Seq(cuts) /\ Len(A) = c
      /\ A \in [1 .. c -> cuts]
      /\ \A n, k \in 1 .. c : n < k => A[n] < A[k]
  BY <1>0, AscendingLists
<1>2. A \in Seq(Nat)
  <2>1. cuts \subseteq Nat OBVIOUS
  <2> HIDE DEF A, c
  <2>2. A \in [1 .. c -> Nat] BY <1>1, <2>1
  <2> QED BY <1>1, <2>2, AsSequence
<1> HIDE DEF A, c
<1>3. /\ bounds \in Seq(Nat) /\ Len(bounds) = c + 2
      /\ bounds[1] = 0 /\ bounds[c + 2] = Len(g)
      /\ \A p \in 1 .. c : bounds[p + 1] = A[p]
  BY <1>0, <1>1, <1>2, BoundsOf
<1> HIDE DEF bounds
<1>4. /\ \A p \in 0 .. c + 1 : ends[p] = bounds[p + 1]
      /\ ends[0] = 0 /\ ends[c + 1] = Len(g)
      /\ \A p \in 1 .. c : ends[p] = A[p] /\ ends[p] \in 1 .. Len(g) - 1
  <2>1. \A p \in 0 .. c + 1 : ends[p] = bounds[p + 1] OBVIOUS
  <2>2. \A p \in 1 .. c : p \in 0 .. c + 1 BY <1>1
  <2>3. 0 \in 0 .. c + 1 /\ c + 1 \in 0 .. c + 1 /\ (c + 1) + 1 = c + 2 /\ 0 + 1 = 1 BY <1>1
  <2> HIDE DEF ends
  <2>4. \A p \in 1 .. c : ends[p] = A[p] BY <1>3, <2>1, <2>2
  <2>5. \A p \in 1 .. c : A[p] \in 1 .. Len(g) - 1 BY <1>1
  <2>6. ends[0] = 0 /\ ends[c + 1] = Len(g) BY <1>3, <2>1, <2>3
  <2> QED BY <2>1, <2>4, <2>5, <2>6
<1>5. ends \in [0 .. c + 1 -> 0 .. Len(g)]
  <2>1. \A p \in 0 .. c + 1 : ends[p] \in 0 .. Len(g)
    <3> SUFFICES ASSUME NEW p \in 0 .. c + 1 PROVE ends[p] \in 0 .. Len(g)
      OBVIOUS
    <3> HIDE DEF ends
    <3>1. p = 0 \/ p = c + 1 \/ p \in 1 .. c BY <1>1
    <3> QED BY <1>0, <1>4, <3>1
  <2> QED BY <2>1
<1>6. \A p \in 1 .. c + 1 : ends[p - 1] < ends[p]
  <2> SUFFICES ASSUME NEW p \in 1 .. c + 1 PROVE ends[p - 1] < ends[p]
    OBVIOUS
  <2> HIDE DEF ends
  <2>1. CASE p = 1
    <3>1. ends[p - 1] = 0 BY <1>4, <2>1
    <3>2. p = c + 1 \/ p \in 1 .. c BY <1>1
    <3> QED BY <1>0, <1>4, <3>1, <3>2
  <2>2. CASE p # 1 /\ p = c + 1
    <3>1. p - 1 \in 1 .. c BY <1>1, <2>2
    <3> QED BY <1>0, <1>4, <2>2, <3>1
  <2>3. CASE p # 1 /\ p # c + 1
    <3>1. p - 1 \in 1 .. c /\ p \in 1 .. c /\ p - 1 < p BY <1>1, <2>3
    <3>2. A[p - 1] < A[p] BY <1>1, <3>1
    <3> QED BY <1>4, <3>1, <3>2
  <2> QED BY <2>1, <2>2, <2>3
<1>7. ends \in Ends(Len(g), c + 1) /\ c + 1 \in Nat \ {0}
  <2> HIDE DEF ends
  <2> QED BY <1>1, <1>4, <1>5, <1>6 DEF Ends
<1>8. partitions_from_cuts(g, cuts) = Tiles(g, ends, c + 1)
  <2>1. \A p \in 1 .. c + 1 : bounds[p] = ends[p - 1] /\ bounds[p + 1] = ends[p]
    <3> SUFFICES ASSUME NEW p \in 1 .. c + 1 PROVE bounds[p] = ends[p - 1] /\ bounds[p + 1] = ends[p]
      OBVIOUS
    <3>1. p - 1 \in 0 .. c + 1 /\ p \in 0 .. c + 1 /\ (p - 1) + 1 = p BY <1>1
    <3> HIDE DEF ends
    <3>2. ends[p - 1] = bounds[(p - 1) + 1] /\ ends[p] = bounds[p + 1] BY <1>4, <3>1
    <3> QED BY <3>1, <3>2
  <2>2. partitions_from_cuts(g, cuts) = [p \in 1 .. c + 1 |-> Partition(g, Interval(bounds[p] + 1, bounds[p + 1]))]
    BY DEF partitions_from_cuts, bounds, c, A
  <2> HIDE DEF ends
  <2> QED BY <2>1, <2>2 DEF Tiles
<1> HIDE DEF ends
<1>9. Len(Tiles(g, ends, c + 1)) = c + 1 BY <1>0, <1>7, TileFacts
<1> QED BY <1>7, <1>8, <1>9 DEF Tiled, c

LEMMA NamedTile ==
  ASSUME NEW g, Len(g) \in Nat \ {0}, NEW names \in Seq([at : Int, module : STRING]), NEW n, NEW ps \in NamedSplit(g, names, n)
  PROVE  Tiled(g, ps)
<1> DEFINE at == [c \in DOMAIN names |-> index_of(g, names[c])]
<1>1. ps = partitions_from_cuts(g, ToSet(at)) /\ \A c \in DOMAIN at : at[c] \in valid_cuts(g)
  <2> HIDE DEF at
  <2>1. NamedSplit(g, names, n) =
          IF /\ n = Len(names) + 1
             /\ \A c \in DOMAIN at : at[c] \in valid_cuts(g)
             /\ \A c \in 2 .. Len(at) : at[c - 1] < at[c]
          THEN {partitions_from_cuts(g, ToSet(at))}
          ELSE {}
    BY DEF NamedSplit, at
  <2> QED BY <2>1
<1> HIDE DEF at
<1>2. valid_cuts(g) \subseteq 1 .. Len(g) - 1 BY DEF valid_cuts
<1>3. ToSet(at) \subseteq 1 .. Len(g) - 1 BY <1>1, <1>2 DEF ToSet
<1> QED BY <1>1, <1>3, CutsTile

--------------------
(* Functions defined step by step. *)

Stepwise(n, S, s0, step) ==
  {f \in [0 .. n -> S] : f[0] = s0 /\ \A p \in 1 .. n : f[p] = step[p][f[p - 1]]}

LEMMA StepByStep ==
  ASSUME NEW n \in Nat, NEW S, NEW s0 \in S, NEW step, step \in [1 .. n -> [S -> S]]
  PROVE  Stepwise(n, S, s0, step) # {}
<1> DEFINE T == {k \in 0 .. n : \E f \in [0 .. k -> S] : f[0] = s0 /\ \A p \in 1 .. k : f[p] = step[p][f[p - 1]]}
<1>1. 0 \in T
  <2> DEFINE f == [p \in 0 .. 0 |-> s0]
  <2>1. f \in [0 .. 0 -> S] /\ f[0] = s0 /\ \A p \in 1 .. 0 : f[p] = step[p][f[p - 1]] OBVIOUS
  <2> HIDE DEF f
  <2> QED BY <2>1
<1>2. ASSUME NEW k \in 0 .. n - 1, k \in T PROVE k + 1 \in T
  <2>1. PICK f \in [0 .. k -> S] : f[0] = s0 /\ \A p \in 1 .. k : f[p] = step[p][f[p - 1]]
    BY <1>2
  <2> DEFINE h == [p \in 0 .. k + 1 |-> IF p = k + 1 THEN step[k + 1][f[k]] ELSE f[p]]
  <2>2. f[k] \in S /\ k + 1 \in 1 .. n BY <2>1
  <2>3. step[k + 1][f[k]] \in S BY <2>2
  <2>4. h \in [0 .. k + 1 -> S] BY <2>1, <2>3
  <2>5. h[0] = s0 BY <2>1
  <2>6. ASSUME NEW p \in 1 .. k + 1 PROVE h[p] = step[p][h[p - 1]]
    <3>1. CASE p = k + 1
      <4>1. h[p - 1] = f[k] BY <3>1
      <4>2. h[p] = step[k + 1][f[k]] BY <3>1
      <4> QED BY <3>1, <4>1, <4>2
    <3>2. CASE p # k + 1
      <4>1. p \in 1 .. k /\ h[p] = f[p] /\ h[p - 1] = f[p - 1] BY <3>2
      <4> QED BY <2>1, <4>1
    <3> QED BY <3>1, <3>2
  <2> HIDE DEF h
  <2>7. k + 1 \in 0 .. n OBVIOUS
  <2> QED BY <2>4, <2>5, <2>6, <2>7
<1>3. \A k \in 0 .. n : k \in T
  <2> HIDE DEF T
  <2> QED BY <1>1, <1>2, UpTo
<1>4. n \in T BY <1>3
<1> QED BY <1>4 DEF Stepwise

--------------------
(* Slices by their sizes. *)

SizesOf(sizes) ==
  LET upTo[p \in 0 .. Len(sizes)] == IF p = 0 THEN 0 ELSE upTo[p - 1] + sizes[p] IN upTo

LEMMA SizesOfFacts ==
  ASSUME NEW n \in Nat, NEW sizes \in [1 .. n -> Nat]
  PROVE  /\ SizesOf(sizes) \in [0 .. n -> Nat] /\ SizesOf(sizes)[0] = 0
         /\ \A p \in 1 .. n : SizesOf(sizes)[p] = SizesOf(sizes)[p - 1] + sizes[p]
<1> DEFINE Eq(h) == h = [p \in 0 .. n |-> IF p = 0 THEN 0 ELSE h[p - 1] + sizes[p]]
           step == [p \in 1 .. n |-> [k \in Nat |-> k + sizes[p]]]
<1>1. step \in [1 .. n -> [Nat -> Nat]] /\ \A p \in 1 .. n, k \in Nat : step[p][k] = k + sizes[p]
  OBVIOUS
<1> HIDE DEF step
<1>2. PICK f \in [0 .. n -> Nat] : f[0] = 0 /\ \A p \in 1 .. n : f[p] = step[p][f[p - 1]]
  <2> DEFINE N == Nat
             z == 0
  <2>1. z \in N /\ step \in [1 .. n -> [N -> N]] BY <1>1
  <2> HIDE DEF N, z
  <2>2. Stepwise(n, N, z, step) # {} BY <2>1, StepByStep
  <2> QED BY <2>2 DEF N, z, Stepwise
<1>3. \A p \in 1 .. n : f[p] = f[p - 1] + sizes[p]
  <2>1. \A p \in 1 .. n : p - 1 \in 0 .. n OBVIOUS
  <2>2. \A p \in 1 .. n : f[p - 1] \in Nat BY <2>1
  <2> QED BY <1>1, <1>2, <2>2
<1>4. Eq(f)
  <2>1. \A p \in 0 .. n : f[p] = IF p = 0 THEN 0 ELSE f[p - 1] + sizes[p] BY <1>2, <1>3
  <2> QED BY <2>1
<1> DEFINE upTo == CHOOSE h : Eq(h)
<1>5. Eq(upTo)
  <2> HIDE DEF Eq
  <2> QED BY <1>4
<1> HIDE DEF upTo
<1>6. DOMAIN upTo = 0 .. n /\ upTo[0] = 0 /\ \A p \in 1 .. n : upTo[p] = upTo[p - 1] + sizes[p]
  BY <1>5
<1>7. \A p \in 0 .. n : upTo[p] \in Nat
  <2> DEFINE T == {p \in 0 .. n : upTo[p] \in Nat}
  <2>1. 0 \in T BY <1>6
  <2>2. ASSUME NEW k \in 0 .. n - 1, k \in T PROVE k + 1 \in T
    <3>1. k + 1 \in 1 .. n /\ (k + 1) - 1 = k OBVIOUS
    <3>2. upTo[k + 1] = upTo[(k + 1) - 1] + sizes[k + 1] BY <1>6, <3>1
    <3> QED BY <2>2, <3>1, <3>2
  <2>3. \A p \in 0 .. n : p \in T
    <3> HIDE DEF T
    <3> QED BY <2>1, <2>2, UpTo
  <2> QED BY <2>3
<1>8. upTo \in [0 .. n -> Nat]
  <2>1. upTo = [p \in 0 .. n |-> upTo[p]] BY <1>5
  <2> QED BY <1>7, <2>1
<1>9. SizesOf(sizes) = upTo
  <2>1. Len(sizes) = n BY AsSequence
  <2> QED BY <2>1 DEF SizesOf, upTo
<1> QED BY <1>6, <1>8, <1>9

\* The slices these ends give, the last one cut off at the model's end.
Cut(g, n, upTo) ==
  LET last(p) == IF upTo[p] < Len(g) THEN upTo[p] ELSE Len(g)
      ps == {p \in 1 .. n : upTo[p - 1] < Len(g)}
  IN [p \in ps |-> Partition(g, Interval(upTo[p - 1] + 1, last(p)))]

LEMMA SizesTile ==
  ASSUME NEW g, Len(g) \in Nat \ {0}, NEW n \in Nat \ {0}, NEW sizes \in [1 .. n -> Nat],
         NEW upTo \in [0 .. n -> Nat], upTo[0] = 0, \A p \in 1 .. n : upTo[p] = upTo[p - 1] + sizes[p],
         \A p \in 1 .. n : upTo[p - 1] < Len(g) => sizes[p] > 0,
         upTo[n] >= Len(g)
  PROVE  Tiled(g, Cut(g, n, upTo))
<1> DEFINE last(p) == IF upTo[p] < Len(g) THEN upTo[p] ELSE Len(g)
           ps == {p \in 1 .. n : upTo[p - 1] < Len(g)}
           Over == {p \in 0 .. n : upTo[p] >= Len(g)}
<1>1. Over \subseteq Nat /\ n \in Over OBVIOUS
<1>2. PICK m \in Over : \A k \in Over : m <= k
  <2> HIDE DEF Over
  <2> QED BY <1>1, LeastOne
<1>3. m \in 1 .. n /\ upTo[m] >= Len(g)
  <2>1. m # 0 BY <1>2
  <2> QED BY <1>2, <2>1
<1>4. \A p \in 0 .. m - 1 : upTo[p] < Len(g)
  <2> SUFFICES ASSUME NEW p \in 0 .. m - 1 PROVE upTo[p] < Len(g)
    OBVIOUS
  <2>1. p \in 0 .. n /\ p \notin Over BY <1>2, <1>3, SMTT(30)
  <2> QED BY <2>1
<1>5. \A p \in m .. n : upTo[p] >= Len(g)
  <2> DEFINE T == {k \in 0 .. n - m : upTo[m + k] >= Len(g)}
  <2>1. 0 \in T /\ n - m \in Nat BY <1>3
  <2>2. ASSUME NEW k \in 0 .. (n - m) - 1, k \in T PROVE k + 1 \in T
    <3>1. m + (k + 1) \in 1 .. n /\ (m + (k + 1)) - 1 = m + k /\ m + k \in 0 .. n BY <1>3
    <3>2. upTo[m + (k + 1)] = upTo[m + k] + sizes[m + (k + 1)] BY <3>1
    <3>3. upTo[m + k] \in Nat /\ sizes[m + (k + 1)] \in Nat /\ upTo[m + k] >= Len(g)
      BY <2>2, <3>1
    <3>4. k + 1 \in 0 .. n - m BY <2>1
    <3> QED BY <3>2, <3>3, <3>4, SMTT(30)
  <2>3. \A k \in 0 .. n - m : k \in T
    <3> HIDE DEF T
    <3> QED BY <2>1, <2>2, UpTo
  <2> SUFFICES ASSUME NEW p \in m .. n PROVE upTo[p] >= Len(g)
    OBVIOUS
  <2>4. p - m \in 0 .. n - m /\ m + (p - m) = p BY <1>3
  <2> QED BY <2>3, <2>4
<1>6. ps = 1 .. m
  <2>1. ASSUME NEW p \in 1 .. n PROVE upTo[p - 1] < Len(g) <=> p <= m
    <3>1. CASE p <= m
      <4>1. p - 1 \in 0 .. m - 1 BY <1>3, <3>1
      <4> QED BY <1>4, <3>1, <4>1
    <3>2. CASE p > m
      <4>1. p - 1 \in m .. n /\ p - 1 \in 0 .. n BY <1>3, <3>2
      <4>2. upTo[p - 1] >= Len(g) /\ upTo[p - 1] \in Nat BY <1>5, <4>1
      <4> QED BY <1>3, <3>2, <4>2
    <3> QED BY <1>3, <3>1, <3>2
  <2>2. \A p : p \in 1 .. m <=> p \in 1 .. n /\ p <= m BY <1>3, SMTT(30)
  <2>3. \A p : p \in ps <=> p \in 1 .. n /\ upTo[p - 1] < Len(g) OBVIOUS
  <2> HIDE DEF ps
  <2>4. \A p : p \in ps <=> p \in 1 .. m BY <2>1, <2>2, <2>3
  <2> QED BY <2>4
<1> DEFINE ends == [p \in 0 .. m |-> last(p)]
<1>7. \A p \in 0 .. m : ends[p] = last(p) /\ last(p) \in 0 .. Len(g) /\ (p < m => last(p) = upTo[p]) /\ last(m) = Len(g)
  <2> SUFFICES ASSUME NEW p \in 0 .. m PROVE ends[p] = last(p) /\ last(p) \in 0 .. Len(g) /\ (p < m => last(p) = upTo[p]) /\ last(m) = Len(g)
    OBVIOUS
  <2>1. p \in 0 .. n /\ m \in 0 .. n /\ upTo[p] \in Nat /\ upTo[m] \in Nat BY <1>3, SMTT(30)
  <2>2. ends[p] = last(p) OBVIOUS
  <2>3. p < m => p \in 0 .. m - 1 BY <1>3
  <2>4. p < m => upTo[p] < Len(g) BY <1>4, <2>3
  <2> QED BY <1>3, <2>1, <2>2, <2>4, SMTT(30)
<1>8. ends \in Ends(Len(g), m)
  <2>1. ends \in [0 .. m -> 0 .. Len(g)] BY <1>7
  <2> HIDE DEF ends, last
  <2>2. ends[0] = 0 /\ ends[m] = Len(g)
    <3>1. 0 \in 0 .. m /\ m \in 0 .. m /\ 0 < m BY <1>3
    <3> QED BY <1>7, <3>1
  <2>3. ASSUME NEW p \in 1 .. m PROVE ends[p - 1] < ends[p]
    <3>1. p - 1 \in 0 .. m /\ p \in 0 .. m /\ p - 1 < m /\ p \in 1 .. n /\ p - 1 \in 0 .. m - 1 /\ p - 1 \in 0 .. n /\ p \in 0 .. n
      BY <1>3, SMTT(30)
    <3>2. ends[p - 1] = upTo[p - 1] /\ upTo[p - 1] < Len(g) BY <1>4, <1>7, <3>1
    <3>3. upTo[p] = upTo[p - 1] + sizes[p] /\ sizes[p] > 0 /\ upTo[p - 1] \in Nat /\ sizes[p] \in Nat /\ upTo[p] \in Nat
      BY <3>1, <3>2
    <3>4. p < m \/ p = m OBVIOUS
    <3>5. p = m => ends[p] = Len(g) BY <1>7, <3>1
    <3>6. p < m => ends[p] = upTo[p] BY <1>7, <3>1
    <3>7. CASE p = m BY <3>2, <3>5, <3>7
    <3>8. CASE p < m
      <4>1. upTo[p - 1] < upTo[p] BY <3>3, SMTT(30)
      <4> QED BY <3>2, <3>6, <3>8, <4>1
    <3> QED BY <3>4, <3>7, <3>8
  <2> QED BY <2>1, <2>2, <2>3 DEF Ends
<1>9. [p \in ps |-> Partition(g, Interval(upTo[p - 1] + 1, last(p)))] = Tiles(g, ends, m)
  <2> SUFFICES ASSUME NEW p \in 1 .. m PROVE upTo[p - 1] = ends[p - 1] /\ last(p) = ends[p]
    BY <1>6 DEF Tiles
  <2> HIDE DEF last, ends
  <2>1. p - 1 \in 0 .. m /\ p \in 0 .. m /\ p - 1 < m BY <1>3
  <2> QED BY <1>7, <2>1
<1>10. m \in Nat \ {0} BY <1>3
<1> QED
  <2> HIDE DEF ends, last, ps
  <2>1. Tiled(g, [p \in ps |-> Partition(g, Interval(upTo[p - 1] + 1, last(p)))])
    BY <1>8, <1>9, <1>10 DEF Tiled
  <2> QED BY <2>1 DEF last, ps, Cut

LEMMA Divide ==
  ASSUME NEW a \in Nat, NEW k \in Nat \ {0}
  PROVE  a = k * (a \div k) + (a % k) /\ a % k \in 0 .. k - 1 /\ a \div k \in Nat
  BY SMT

LEMMA DivideUp ==
  ASSUME NEW a \in Nat \ {0}, NEW k \in Nat \ {0}
  PROVE  CeilDiv(a, k) \in Nat \ {0} /\ k * CeilDiv(a, k) >= a
<1>1. (a + k - 1) \div k >= 1 /\ (a + k - 1) \div k \in Nat /\ k * ((a + k - 1) \div k) >= a
  BY SMT
<1> QED BY <1>1 DEF CeilDiv

LEMMA NextProduct ==
  ASSUME NEW p \in Nat, NEW k \in Nat
  PROVE  (p + 1) * k = p * k + k /\ p * k \in Nat
  BY SMT

LEMMA SlicesTile ==
  ASSUME NEW g, Len(g) \in Nat \ {0}, NEW n \in Nat \ {0}, NEW sizes \in [1 .. n -> Nat],
         \A p \in 1 .. n : SizesOf(sizes)[p - 1] < Len(g) => sizes[p] > 0,
         SizesOf(sizes)[n] >= Len(g)
  PROVE  Tiled(g, SlicesOfSizes(g, sizes))
<1>1. DOMAIN sizes = 1 .. n /\ n \in Nat OBVIOUS
<1>2. SlicesOfSizes(g, sizes) = Cut(g, n, SizesOf(sizes))
  BY <1>1 DEF SlicesOfSizes, SizesOf, Cut
<1>3. /\ SizesOf(sizes) \in [0 .. n -> Nat] /\ SizesOf(sizes)[0] = 0
      /\ \A p \in 1 .. n : SizesOf(sizes)[p] = SizesOf(sizes)[p - 1] + sizes[p]
  BY <1>1, SizesOfFacts
<1> DEFINE u == SizesOf(sizes)
<1>4. /\ u \in [0 .. n -> Nat] /\ u[0] = 0 /\ u[n] >= Len(g)
      /\ \A p \in 1 .. n : u[p] = u[p - 1] + sizes[p]
      /\ \A p \in 1 .. n : u[p - 1] < Len(g) => sizes[p] > 0
  BY <1>3
<1> HIDE DEF u
<1>5. Tiled(g, Cut(g, n, u)) BY <1>4, SizesTile
<1> QED BY <1>2, <1>5 DEF u

\* Equal sizes: after p slices, p * size layers.
LEMMA EqualSizes ==
  ASSUME NEW n \in Nat, NEW size \in Nat, NEW sizes \in [1 .. n -> Nat], \A p \in 1 .. n : sizes[p] = size
  PROVE  \A p \in 0 .. n : SizesOf(sizes)[p] = p * size
<1> DEFINE T == {p \in 0 .. n : SizesOf(sizes)[p] = p * size}
<1>0. /\ SizesOf(sizes) \in [0 .. n -> Nat] /\ SizesOf(sizes)[0] = 0
      /\ \A p \in 1 .. n : SizesOf(sizes)[p] = SizesOf(sizes)[p - 1] + sizes[p]
  BY SizesOfFacts
<1>1. 0 \in T BY <1>0
<1>2. ASSUME NEW k \in 0 .. n - 1, k \in T PROVE k + 1 \in T
  <2>1. k + 1 \in 1 .. n /\ (k + 1) - 1 = k /\ k \in Nat OBVIOUS
  <2>2. SizesOf(sizes)[k + 1] = SizesOf(sizes)[(k + 1) - 1] + sizes[k + 1] BY <1>0, <2>1
  <2>3. SizesOf(sizes)[k + 1] = k * size + size BY <1>2, <2>1, <2>2
  <2>4. (k + 1) * size = k * size + size BY <2>1, NextProduct
  <2> QED BY <2>1, <2>3, <2>4
<1>3. \A k \in 0 .. n : k \in T
  <2> HIDE DEF T
  <2> QED BY <1>1, <1>2, UpTo
<1> QED BY <1>3

\* Sizes that differ by one: after p slices, p * size layers and one for each
\* of the first r.
LEMMA EvenSizes ==
  ASSUME NEW n \in Nat, NEW size \in Nat, NEW r \in Nat, NEW sizes \in [1 .. n -> Nat],
         \A p \in 1 .. n : sizes[p] = size + (IF p <= r THEN 1 ELSE 0)
  PROVE  \A p \in 0 .. n : SizesOf(sizes)[p] = p * size + (IF p <= r THEN p ELSE r)
<1> DEFINE T == {p \in 0 .. n : SizesOf(sizes)[p] = p * size + (IF p <= r THEN p ELSE r)}
<1>0. /\ SizesOf(sizes) \in [0 .. n -> Nat] /\ SizesOf(sizes)[0] = 0
      /\ \A p \in 1 .. n : SizesOf(sizes)[p] = SizesOf(sizes)[p - 1] + sizes[p]
  BY SizesOfFacts
<1>1. 0 \in T BY <1>0
<1>2. ASSUME NEW k \in 0 .. n - 1, k \in T PROVE k + 1 \in T
  <2>1. k + 1 \in 1 .. n /\ (k + 1) - 1 = k /\ k \in Nat OBVIOUS
  <2>2. SizesOf(sizes)[k + 1] = SizesOf(sizes)[(k + 1) - 1] + sizes[k + 1] BY <1>0, <2>1
  <2>3. (k + 1) * size = k * size + size /\ k * size \in Nat BY <2>1, NextProduct
  <2> DEFINE ks == k * size
  <2>4. SizesOf(sizes)[k + 1] = ks + (IF k <= r THEN k ELSE r) + size + (IF k + 1 <= r THEN 1 ELSE 0)
    <3>1. SizesOf(sizes)[k] = ks + (IF k <= r THEN k ELSE r) BY <1>2
    <3>2. sizes[k + 1] = size + (IF k + 1 <= r THEN 1 ELSE 0) BY <2>1
    <3>3. ks \in Nat BY <2>3
    <3> HIDE DEF ks
    <3> QED BY <2>1, <2>2, <3>1, <3>2, <3>3, SMTT(30)
  <2>5. ks \in Nat /\ (k + 1) * size = ks + size BY <2>3
  <2> HIDE DEF ks
  <2>6. SizesOf(sizes)[k + 1] = (k + 1) * size + (IF k + 1 <= r THEN k + 1 ELSE r)
    <3>1. SizesOf(sizes)[k + 1] = ks + size + (IF k + 1 <= r THEN k + 1 ELSE r)
      <4>1. CASE k + 1 <= r BY <2>1, <2>4, <2>5, <4>1
      <4>2. CASE ~(k + 1 <= r)
        <5>1. (IF k <= r THEN k ELSE r) = r BY <2>1, <4>2
        <5> QED BY <2>1, <2>4, <2>5, <4>2, <5>1
      <4> QED BY <4>1, <4>2
    <3> QED BY <2>5, <3>1
  <2> QED BY <2>1, <2>6
<1>3. \A k \in 0 .. n : k \in T
  <2> HIDE DEF T
  <2> QED BY <1>1, <1>2, UpTo
<1> QED BY <1>3

LEMMA EvenSplitTiles ==
  ASSUME NEW g, Len(g) \in Nat \ {0}, NEW n \in Nat \ {0}
  PROVE  Tiled(g, _uniform_split(g, n))
<1> DEFINE size == Len(g) \div n
           r == Len(g) % n
           sizes == [p \in 1 .. n |-> Len(g) \div n + (IF p <= Len(g) % n THEN 1 ELSE 0)]
<1>1. Len(g) = n * size + r /\ r \in 0 .. n - 1 /\ size \in Nat BY Divide
<1>2. sizes \in [1 .. n -> Nat] /\ \A p \in 1 .. n : sizes[p] = size + (IF p <= r THEN 1 ELSE 0)
  <2>1. \A p \in 1 .. n : sizes[p] = size + (IF p <= r THEN 1 ELSE 0) OBVIOUS
  <2>2. \A p \in 1 .. n : size + (IF p <= r THEN 1 ELSE 0) \in Nat
    <3> HIDE DEF size, r
    <3> QED BY <1>1
  <2> QED BY <2>1, <2>2
<1>3. _uniform_split(g, n) = SlicesOfSizes(g, sizes) BY DEF _uniform_split
<1> HIDE DEF size, r, sizes
<1>4. \A p \in 0 .. n : SizesOf(sizes)[p] = p * size + (IF p <= r THEN p ELSE r)
  <2>1. n \in Nat /\ r \in Nat BY <1>1
  <2> QED BY <1>1, <1>2, <2>1, EvenSizes, ZenonT(30)
<1>5. SizesOf(sizes)[n] >= Len(g)
  <2>1. SizesOf(sizes)[n] = n * size + (IF n <= r THEN n ELSE r) BY <1>4
  <2>2. ~(n <= r) BY <1>1
  <2> QED BY <1>1, <2>1, <2>2
<1>6. ASSUME NEW p \in 1 .. n, SizesOf(sizes)[p - 1] < Len(g) PROVE sizes[p] > 0
  <2>1. CASE size > 0 BY <1>1, <1>2, <2>1
  <2>2. CASE size = 0
    <3>1. Len(g) = r
      <4>1. n * size = 0 BY <2>2
      <4> QED BY <1>1, <4>1
    <3>2. SizesOf(sizes)[p - 1] = IF p - 1 <= r THEN p - 1 ELSE r
      <4>1. p - 1 \in 0 .. n /\ (p - 1) * size = 0 BY <2>2
      <4>2. SizesOf(sizes)[p - 1] = (p - 1) * size + (IF p - 1 <= r THEN p - 1 ELSE r)
        BY <1>4, <4>1
      <4> QED BY <1>1, <4>1, <4>2
    <3>3. p <= r BY <1>1, <1>6, <3>1, <3>2
    <3> QED BY <1>2, <2>2, <3>3
  <2> QED BY <1>1, <2>1, <2>2
<1> QED BY <1>2, <1>3, <1>5, <1>6, SlicesTile

LEMMA UniformTiles ==
  ASSUME NEW g, Len(g) \in Nat \ {0}, NEW n \in Nat \ {0}, NEW ps \in UniformSplit(g, n)
  PROVE  Tiled(g, ps)
<1> DEFINE size == CeilDiv(Len(g), n)
           sizes == UniformSizes(Len(g), n)
<1>1. ps = SlicesOfSizes(g, sizes) /\ n <= Len(g) BY DEF UniformSplit
<1>2. size \in Nat \ {0} /\ n * size >= Len(g) BY DivideUp
<1>3. CASE (Len(g) - 1) \div size + 1 >= n
  <2>1. sizes = [p \in 1 .. n |-> size] BY <1>3 DEF UniformSizes
  <2> HIDE DEF size, sizes
  <2>2. sizes \in [1 .. n -> Nat] /\ \A p \in 1 .. n : sizes[p] = size BY <1>2, <2>1
  <2>3. \A p \in 0 .. n : SizesOf(sizes)[p] = p * size BY <1>2, <2>2, EqualSizes
  <2>4. SizesOf(sizes)[n] >= Len(g) BY <1>2, <2>3
  <2>5. \A p \in 1 .. n : sizes[p] > 0 BY <1>2, <2>2
  <2> QED BY <1>1, <2>2, <2>4, <2>5, SlicesTile
<1>4. CASE ~((Len(g) - 1) \div size + 1 >= n)
  <2>1. sizes = [p \in 1 .. n |-> Len(g) \div n + (IF p <= Len(g) % n THEN 1 ELSE 0)]
    BY <1>4 DEF UniformSizes
  <2>2. ps = _uniform_split(g, n) BY <1>1, <2>1 DEF _uniform_split
  <2> QED BY <2>2, EvenSplitTiles
<1> QED BY <1>3, <1>4

--------------------
(* Sums and products of natural numbers are natural numbers. *)

Chosen(s) == CHOOSE x \in s : TRUE

SetStepwise(S, V, base, step) ==
  {f \in [SUBSET S -> V] :
     \A s \in SUBSET S : f[s] = IF s = {} THEN base ELSE step[Chosen(s)][f[s \ {Chosen(s)}]]}

LEMMA OneLess ==
  ASSUME NEW S, IsFiniteSet(S)
  PROVE  /\ Cardinality(S) \in Nat
         /\ \A s \in SUBSET S :
              /\ Cardinality(s) \in Nat /\ Cardinality(s) <= Cardinality(S)
              /\ Cardinality(s) = 0 <=> s = {}
              /\ s # {} => /\ Chosen(s) \in s /\ s \ {Chosen(s)} \in SUBSET S
                           /\ Cardinality(s \ {Chosen(s)}) = Cardinality(s) - 1
<1> SUFFICES ASSUME NEW s \in SUBSET S
             PROVE  /\ Cardinality(S) \in Nat
                    /\ Cardinality(s) \in Nat /\ Cardinality(s) <= Cardinality(S)
                    /\ Cardinality(s) = 0 <=> s = {}
                    /\ s # {} => /\ Chosen(s) \in s /\ s \ {Chosen(s)} \in SUBSET S
                                 /\ Cardinality(s \ {Chosen(s)}) = Cardinality(s) - 1
  BY FS_CardinalityType
<1>1. IsFiniteSet(s) /\ Cardinality(s) <= Cardinality(S) BY FS_Subset
<1>2. Cardinality(s) \in Nat /\ Cardinality(S) \in Nat BY <1>1, FS_CardinalityType
<1>3. Cardinality(s) = 0 <=> s = {} BY <1>1, FS_EmptySet
<1>4. ASSUME s # {} PROVE /\ Chosen(s) \in s /\ s \ {Chosen(s)} \in SUBSET S
                          /\ Cardinality(s \ {Chosen(s)}) = Cardinality(s) - 1
  <2>1. Chosen(s) \in s BY <1>4 DEF Chosen
  <2>2. Cardinality(s \ {Chosen(s)}) = Cardinality(s) - 1 BY <1>1, <2>1, FS_RemoveElement
  <2> QED BY <2>1, <2>2
<1> QED BY <1>1, <1>2, <1>3, <1>4

LEMMA SetByStep ==
  ASSUME NEW S, IsFiniteSet(S), NEW V, NEW base \in V, NEW step, step \in [S -> [V -> V]]
  PROVE  SetStepwise(S, V, base, step) # {}
<1> DEFINE Small(k) == {s \in SUBSET S : Cardinality(s) <= k}
           Right(f, s) == f[s] = IF s = {} THEN base ELSE step[Chosen(s)][f[s \ {Chosen(s)}]]
           T == {k \in 0 .. Cardinality(S) : \E f \in [Small(k) -> V] : \A s \in Small(k) : Right(f, s)}
<1>0. /\ Cardinality(S) \in Nat
      /\ \A s \in SUBSET S : Cardinality(s) \in Nat /\ Cardinality(s) <= Cardinality(S) /\ (Cardinality(s) = 0 <=> s = {})
      /\ \A s \in SUBSET S : s # {} => /\ Chosen(s) \in s /\ s \ {Chosen(s)} \in SUBSET S
                                       /\ Cardinality(s \ {Chosen(s)}) = Cardinality(s) - 1
  BY OneLess
<1>1. 0 \in T
  <2> DEFINE f == [s \in Small(0) |-> base]
  <2>1. \A s \in Small(0) : s = {} BY <1>0
  <2>2. f \in [Small(0) -> V] /\ \A s \in Small(0) : Right(f, s) BY <2>1
  <2> HIDE DEF f, Small, Right
  <2>3. 0 \in 0 .. Cardinality(S) BY <1>0
  <2> QED BY <2>2, <2>3
<1>2. ASSUME NEW k \in 0 .. Cardinality(S) - 1, k \in T PROVE k + 1 \in T
  <2>1. PICK f \in [Small(k) -> V] : \A s \in Small(k) : Right(f, s) BY <1>2
  <2> DEFINE next(s) == step[Chosen(s)][f[s \ {Chosen(s)}]]
             h == [s \in Small(k + 1) |-> IF s \in Small(k) THEN f[s] ELSE next(s)]
  <2>2. ASSUME NEW s \in Small(k + 1), s \notin Small(k)
        PROVE  s # {} /\ Chosen(s) \in S /\ s \ {Chosen(s)} \in Small(k) /\ next(s) \in V
    <3>1. Cardinality(s) = k + 1 /\ s \in SUBSET S BY <2>2, <1>0
    <3>2. s # {} BY <1>0, <3>1
    <3>3. Chosen(s) \in s /\ s \ {Chosen(s)} \in SUBSET S /\ Cardinality(s \ {Chosen(s)}) = Cardinality(s) - 1
      BY <1>0, <3>1, <3>2
    <3>4. s \ {Chosen(s)} \in Small(k) BY <3>1, <3>3
    <3>5. f[s \ {Chosen(s)}] \in V /\ step[Chosen(s)] \in [V -> V] BY <2>1, <3>1, <3>3, <3>4
    <3> QED BY <3>2, <3>1, <3>3, <3>4, <3>5
  <2>3. h \in [Small(k + 1) -> V]
    <3>1. \A s \in Small(k + 1) : (IF s \in Small(k) THEN f[s] ELSE next(s)) \in V
      <4> HIDE DEF next, Small
      <4> QED BY <2>1, <2>2
    <3> HIDE DEF next, Small
    <3> QED BY <3>1
  <2>4. ASSUME NEW s \in Small(k + 1) PROVE Right(h, s)
    <3>1. CASE s \in Small(k)
      <4>1. h[s] = f[s] /\ Right(f, s) BY <2>1, <3>1
      <4>2. CASE s = {} BY <4>1, <4>2
      <4>3. CASE s # {}
        <5>1. s \ {Chosen(s)} \in SUBSET S /\ Cardinality(s \ {Chosen(s)}) = Cardinality(s) - 1 /\ Cardinality(s) \in Nat
          BY <1>0, <4>3
        <5>2. s \ {Chosen(s)} \in Small(k) /\ s \ {Chosen(s)} \in Small(k + 1) BY <3>1, <5>1
        <5>3. h[s \ {Chosen(s)}] = f[s \ {Chosen(s)}]
          <6> HIDE DEF Small, next
          <6> QED BY <5>2
        <5> QED BY <4>1, <4>3, <5>3
      <4> QED BY <4>2, <4>3
    <3>2. CASE s \notin Small(k)
      <4>1. s # {} /\ s \ {Chosen(s)} \in Small(k) BY <2>2, <3>2
      <4>2. s \ {Chosen(s)} \in Small(k + 1) BY <1>0, <2>2, <3>2, <4>1
      <4>3. h[s \ {Chosen(s)}] = f[s \ {Chosen(s)}] /\ h[s] = next(s)
        <5> HIDE DEF Small, next
        <5> QED BY <3>2, <4>1, <4>2
      <4> QED BY <4>1, <4>3
    <3> QED BY <3>1, <3>2
  <2> HIDE DEF h, Small, Right
  <2>5. k + 1 \in 0 .. Cardinality(S) BY <1>0
  <2> QED BY <2>3, <2>4, <2>5
<1>3. \A k \in 0 .. Cardinality(S) : k \in T
  <2> HIDE DEF T
  <2> QED BY <1>0, <1>1, <1>2, UpTo
<1>4. Cardinality(S) \in T
  <2> HIDE DEF T
  <2> QED BY <1>0, <1>3
<1>5. Small(Cardinality(S)) = SUBSET S BY <1>0
<1> HIDE DEF Small
<1>6. PICK f \in [Small(Cardinality(S)) -> V] : \A s \in Small(Cardinality(S)) : Right(f, s)
  BY <1>4
<1> QED BY <1>5, <1>6 DEF SetStepwise

LEMMA SumTyped ==
  ASSUME NEW S, IsFiniteSet(S), NEW fun \in [S -> Nat]
  PROVE  SumFunction(fun) \in Nat /\ ((S # {} /\ \A x \in S : fun[x] > 0) => SumFunction(fun) > 0)
<1> DEFINE Eq(h) == h = [s \in SUBSET S |-> IF s = {} THEN 0 ELSE fun[CHOOSE x \in s : TRUE] + h[s \ {CHOOSE x \in s : TRUE}]]
           step == [x \in S |-> [v \in Nat |-> fun[x] + v]]
           N == Nat
           z == 0
<1>1. step \in [S -> [N -> N]] /\ \A x \in S, v \in N : step[x][v] = fun[x] + v OBVIOUS
<1>2. z \in N OBVIOUS
<1> HIDE DEF step, N, z
<1>3. PICK f \in SetStepwise(S, N, z, step) : TRUE BY <1>1, <1>2, SetByStep
<1>4. f \in [SUBSET S -> N] /\ \A s \in SUBSET S : f[s] = IF s = {} THEN z ELSE step[Chosen(s)][f[s \ {Chosen(s)}]]
  BY <1>3 DEF SetStepwise
<1>5. Eq(f)
  <2> SUFFICES ASSUME NEW s \in SUBSET S
               PROVE  f[s] = IF s = {} THEN 0 ELSE fun[Chosen(s)] + f[s \ {Chosen(s)}]
    BY <1>4 DEF Chosen
  <2>1. CASE s = {} BY <1>4, <2>1 DEF z
  <2>2. CASE s # {}
    <3>1. Chosen(s) \in S /\ s \ {Chosen(s)} \in SUBSET S BY OneLess, <2>2
    <3>2. f[s \ {Chosen(s)}] \in N BY <1>4, <3>1
    <3> QED BY <1>1, <1>4, <2>2, <3>1, <3>2
  <2> QED BY <2>1, <2>2
<1> DEFINE iter == CHOOSE h : Eq(h)
<1>6. Eq(iter)
  <2> HIDE DEF Eq
  <2> QED BY <1>5
<1>7. SumFunction(fun) = iter[S]
  BY DEF SumFunction, SumFunctionOnSet, FoldFunctionOnSet, MapThenFoldSet
<1> HIDE DEF iter
<1>8. ASSUME NEW s \in SUBSET S PROVE iter[s] = IF s = {} THEN 0 ELSE fun[Chosen(s)] + iter[s \ {Chosen(s)}]
  BY <1>6 DEF Chosen
<1> DEFINE T == {k \in 0 .. Cardinality(S) : \A s \in SUBSET S : Cardinality(s) = k => iter[s] \in Nat}
<1>9. /\ Cardinality(S) \in Nat
      /\ \A s \in SUBSET S : Cardinality(s) \in Nat /\ Cardinality(s) <= Cardinality(S) /\ (Cardinality(s) = 0 <=> s = {})
      /\ \A s \in SUBSET S : s # {} => /\ Chosen(s) \in s /\ s \ {Chosen(s)} \in SUBSET S
                                       /\ Cardinality(s \ {Chosen(s)}) = Cardinality(s) - 1
  BY OneLess
<1>10. 0 \in T BY <1>8, <1>9
<1>11. ASSUME NEW k \in 0 .. Cardinality(S) - 1, k \in T PROVE k + 1 \in T
  <2> SUFFICES ASSUME NEW s \in SUBSET S, Cardinality(s) = k + 1 PROVE iter[s] \in Nat
    BY <1>9
  <2>1. s # {} BY <1>9
  <2>2. Chosen(s) \in S /\ s \ {Chosen(s)} \in SUBSET S /\ Cardinality(s \ {Chosen(s)}) = k
    BY <1>9, <2>1
  <2>3. iter[s \ {Chosen(s)}] \in Nat BY <1>11, <2>2
  <2>4. iter[s] = fun[Chosen(s)] + iter[s \ {Chosen(s)}] BY <1>8, <2>1
  <2>5. fun[Chosen(s)] \in Nat BY <2>2
  <2> QED BY <2>3, <2>4, <2>5
<1>12. \A k \in 0 .. Cardinality(S) : k \in T
  <2> HIDE DEF T
  <2> QED BY <1>9, <1>10, <1>11, UpTo
<1>13. \A s \in SUBSET S : iter[s] \in Nat
  <2> SUFFICES ASSUME NEW s \in SUBSET S PROVE iter[s] \in Nat
    OBVIOUS
  <2>1. Cardinality(s) \in 0 .. Cardinality(S) BY <1>9
  <2>2. Cardinality(s) \in T
    <3> HIDE DEF T
    <3> QED BY <1>12, <2>1
  <2> QED BY <2>2
<1>14. ASSUME S # {}, \A x \in S : fun[x] > 0 PROVE iter[S] > 0
  <2>1. Chosen(S) \in S /\ S \ {Chosen(S)} \in SUBSET S BY <1>9, <1>14
  <2>2. iter[S] = fun[Chosen(S)] + iter[S \ {Chosen(S)}] BY <1>8, <1>14
  <2>3. iter[S \ {Chosen(S)}] \in Nat BY <1>13, <2>1
  <2>4. fun[Chosen(S)] \in Nat /\ fun[Chosen(S)] > 0 BY <1>14, <2>1
  <2> QED BY <2>2, <2>3, <2>4
<1>15. S \in SUBSET S OBVIOUS
<1> QED
  <2> HIDE DEF T
  <2> QED BY <1>7, <1>13, <1>14, <1>15
LEMMA Times ==
  \A x, y \in Nat \ {0} : x * y \in Nat \ {0}
  BY SMT

LEMMA ProductTyped ==
  ASSUME NEW S, IsFiniteSet(S), NEW fun \in [S -> Nat \ {0}]
  PROVE  Product(fun) \in Nat \ {0}
<1> DEFINE Eq(h) == h = [s \in SUBSET S |-> IF s = {} THEN 1 ELSE fun[CHOOSE x \in s : TRUE] * h[s \ {CHOOSE x \in s : TRUE}]]
           step == [x \in S |-> [v \in Nat \ {0} |-> fun[x] * v]]
           N == Nat \ {0}
           z == 1
<1>1. step \in [S -> [N -> N]] /\ \A x \in S, v \in N : step[x][v] = fun[x] * v BY Times
<1>2. z \in N OBVIOUS
<1> HIDE DEF step, N, z
<1>3. PICK f \in SetStepwise(S, N, z, step) : TRUE BY <1>1, <1>2, SetByStep
<1>4. f \in [SUBSET S -> N] /\ \A s \in SUBSET S : f[s] = IF s = {} THEN z ELSE step[Chosen(s)][f[s \ {Chosen(s)}]]
  BY <1>3 DEF SetStepwise
<1>5. Eq(f)
  <2> SUFFICES ASSUME NEW s \in SUBSET S
               PROVE  f[s] = IF s = {} THEN 1 ELSE fun[Chosen(s)] * f[s \ {Chosen(s)}]
    BY <1>4 DEF Chosen
  <2>1. CASE s = {} BY <1>4, <2>1 DEF z
  <2>2. CASE s # {}
    <3>1. Chosen(s) \in S /\ s \ {Chosen(s)} \in SUBSET S BY OneLess, <2>2
    <3>2. f[s \ {Chosen(s)}] \in N BY <1>4, <3>1
    <3> QED BY <1>1, <1>4, <2>2, <3>1, <3>2
  <2> QED BY <2>1, <2>2
<1> DEFINE iter == CHOOSE h : Eq(h)
<1>6. Eq(iter)
  <2> HIDE DEF Eq
  <2> QED BY <1>5
<1>7. Product(fun) = iter[S] BY DEF Product, FoldFunction, FoldFunctionOnSet, MapThenFoldSet
<1> HIDE DEF iter
<1>8. ASSUME NEW s \in SUBSET S PROVE iter[s] = IF s = {} THEN 1 ELSE fun[Chosen(s)] * iter[s \ {Chosen(s)}]
  BY <1>6 DEF Chosen
<1> DEFINE T == {k \in 0 .. Cardinality(S) : \A s \in SUBSET S : Cardinality(s) = k => iter[s] \in Nat \ {0}}
<1>9. /\ Cardinality(S) \in Nat
      /\ \A s \in SUBSET S : Cardinality(s) \in Nat /\ Cardinality(s) <= Cardinality(S) /\ (Cardinality(s) = 0 <=> s = {})
      /\ \A s \in SUBSET S : s # {} => /\ Chosen(s) \in s /\ s \ {Chosen(s)} \in SUBSET S
                                       /\ Cardinality(s \ {Chosen(s)}) = Cardinality(s) - 1
  BY OneLess
<1>10. 0 \in T
  <2>1. \A s \in SUBSET S : Cardinality(s) = 0 => iter[s] = 1 BY <1>8, <1>9
  <2>2. 0 \in 0 .. Cardinality(S) BY <1>9
  <2> QED BY <2>1, <2>2
<1>11. ASSUME NEW k \in 0 .. Cardinality(S) - 1, k \in T PROVE k + 1 \in T
  <2> SUFFICES ASSUME NEW s \in SUBSET S, Cardinality(s) = k + 1 PROVE iter[s] \in Nat \ {0}
    BY <1>9
  <2>1. s # {} BY <1>9
  <2>2. Chosen(s) \in S /\ s \ {Chosen(s)} \in SUBSET S /\ Cardinality(s \ {Chosen(s)}) = k
    BY <1>9, <2>1
  <2>3. iter[s \ {Chosen(s)}] \in Nat \ {0} BY <1>11, <2>2
  <2>4. iter[s] = fun[Chosen(s)] * iter[s \ {Chosen(s)}] BY <1>8, <2>1
  <2>5. fun[Chosen(s)] \in Nat \ {0} BY <2>2
  <2> QED BY <2>3, <2>4, <2>5, Times
<1>12. \A k \in 0 .. Cardinality(S) : k \in T
  <2> HIDE DEF T
  <2> QED BY <1>9, <1>10, <1>11, UpTo
<1> QED BY <1>7, <1>9, <1>12

--------------------
(* What slices cost is a natural number. *)

\* The costs a graph's layers carry.
Costed(g) ==
  \A i \in DOMAIN g :
    /\ g[i].flops \in Nat /\ g[i].bytes \in Nat
    /\ IsFiniteSet(g[i].params) /\ g[i].params \subseteq [id : Nat, size : Nat, trains : BOOLEAN]

LEMMA NodeCosts ==
  ASSUME NEW g, Regular(g), Costed(g), NEW s
  PROVE  node_costs(g, s) \in [1 .. Len(g) -> Nat]
<1>1. DOMAIN g = 1 .. Len(g) BY DEF Regular
<1>2. CASE s.kind = "flops" BY <1>1, <1>2 DEF node_costs, Costed
<1>3. CASE s.kind # "flops"
  <2> SUFFICES ASSUME NEW i \in 1 .. Len(g)
               PROVE  SumFunction([p \in {q \in NewParams(g, i) : q.trains \/ ~s.trainableOnly} |-> p.size]) \in Nat
    BY <1>1, <1>3 DEF node_costs, ParamCosts
  <2> DEFINE P == {q \in NewParams(g, i) : q.trains \/ ~s.trainableOnly}
             fun == [p \in P |-> p.size]
  <2>1. P \subseteq g[i].params /\ IsFiniteSet(g[i].params) BY <1>1 DEF NewParams, Costed
  <2>2. IsFiniteSet(P)
    <3> HIDE DEF P
    <3> QED BY <2>1, FS_Subset
  <2>3. \A p \in P : p.size \in Nat BY <1>1, <2>1 DEF Costed
  <2> HIDE DEF P
  <2>4. fun \in [P -> Nat] BY <2>3
  <2> HIDE DEF fun
  <2>5. SumFunction(fun) \in Nat BY <2>2, <2>4, SumTyped
  <2> QED BY <2>5 DEF fun, P
<1> QED BY <1>2, <1>3

LEMMA RangeCosts ==
  ASSUME NEW m \in Nat, NEW costs \in [1 .. m -> Nat], NEW a \in Nat \ {0}, NEW b \in 0 .. m
  PROVE  SumRange(costs, a, b) \in Nat
<1> DEFINE fun == [i \in a .. b |-> costs[i]]
<1>1. IsFiniteSet(a .. b) BY FS_Interval
<1>2. fun \in [a .. b -> Nat] OBVIOUS
<1> HIDE DEF fun
<1>3. SumFunction(fun) \in Nat BY <1>1, <1>2, SumTyped
<1> QED BY <1>3 DEF SumRange, fun

\* The terms a strategy may plan n slices with.
TermsFor(t, n) ==
  /\ t.per \in Nat
  /\ t.speeds \in Seq(Nat \ {0}) /\ (t.speeds = <<>> \/ Len(t.speeds) = n)
  /\ t.links \in Seq(Nat \ {0})

LEMMA ProductOf ==
  ASSUME NEW seq \in Seq(Nat \ {0})
  PROVE  Product(seq) \in Nat \ {0}
<1>1. Len(seq) \in Nat /\ seq \in [1 .. Len(seq) -> Nat \ {0}] OBVIOUS
<1>2. IsFiniteSet(1 .. Len(seq)) BY <1>1, FS_Interval
<1> DEFINE S == 1 .. Len(seq)
<1>3. IsFiniteSet(S) /\ seq \in [S -> Nat \ {0}] BY <1>1, <1>2
<1> HIDE DEF S
<1> QED BY <1>3, ProductTyped

LEMMA NatTimes ==
  \A x, y \in Nat : x * y \in Nat
  BY SMT

LEMMA NatDiv ==
  \A x \in Nat : \A y \in Nat \ {0} : x \div y \in Nat
  BY SMT

LEMMA SliceCosts ==
  ASSUME NEW g, Regular(g), Costed(g), NEW costs \in [1 .. Len(g) -> Nat], NEW n \in Nat \ {0}, NEW t, TermsFor(t, n),
         NEW p \in 1 .. n, NEW a \in Nat \ {0}, NEW b \in 1 .. Len(g)
  PROVE  SliceCost(g, costs, t, p, a, b) \in Nat
<1> DEFINE scale == Product(t.speeds) * Product(t.links)
           range == SumRange(costs, a, b)
           speed == IF t.speeds = <<>> THEN scale ELSE scale \div t.speeds[p]
           link == IF p \in DOMAIN t.links THEN 2 * g[b].bytes * (scale \div t.links[p]) ELSE 0
<1>0. Len(g) \in Nat /\ DOMAIN g = 1 .. Len(g) /\ g[b].bytes \in Nat BY DEF Regular, Costed
<1>1. scale \in Nat BY ProductOf, Times DEF TermsFor
<1>2. range \in Nat
  <2>1. b \in 0 .. Len(g) BY <1>0
  <2> QED BY <1>0, <2>1, RangeCosts
<1> HIDE DEF scale, range
<1>3. speed \in Nat
  <2>1. CASE t.speeds = <<>> BY <1>1, <2>1
  <2>2. CASE t.speeds # <<>>
    <3>1. t.speeds[p] \in Nat \ {0} BY <2>2 DEF TermsFor
    <3>2. scale \div t.speeds[p] \in Nat BY <1>1, <3>1, NatDiv
    <3> QED BY <2>2, <3>2
  <2> QED BY <2>1, <2>2
<1>4. link \in Nat
  <2>1. CASE p \in DOMAIN t.links
    <3>1. t.links[p] \in Nat \ {0} BY <2>1 DEF TermsFor
    <3>2. scale \div t.links[p] \in Nat BY <1>1, <3>1, NatDiv
    <3>3. 2 * g[b].bytes \in Nat BY <1>0
    <3>4. 2 * g[b].bytes * (scale \div t.links[p]) \in Nat BY <3>2, <3>3, NatTimes
    <3> QED BY <2>1, <3>4
  <2>2. CASE p \notin DOMAIN t.links BY <2>2
  <2> QED BY <2>1, <2>2
<1> HIDE DEF speed, link
<1>5. range * t.per \in Nat BY <1>2, NatTimes DEF TermsFor
<1>6. range * t.per * speed \in Nat BY <1>3, <1>5, NatTimes
<1>7. range * t.per * speed + link \in Nat BY <1>4, <1>6
<1> QED BY <1>7 DEF SliceCost, scale, range, speed, link

--------------------
(* BestOf finds one of the ways. *)

Way == [ok : {TRUE}, max : Nat, squares : Nat, from : Nat]

LEMMA BestIsOne ==
  ASSUME NEW ways, ways \subseteq Way, ways # {}
  PROVE  /\ BestOf(ways) \in ways
         /\ \A y \in ways : BestOf(ways).max <= y.max
<1> DEFINE Maxes == {x.max : x \in ways}
<1>1. Maxes \subseteq Nat /\ Maxes # {} BY DEF Way
<1>2. PICK max \in Maxes : \A k \in Maxes : max <= k
  <2> HIDE DEF Maxes
  <2> QED BY <1>1, LeastOne
<1> DEFINE W1 == {x \in ways : x.max = max}
           Sums == {x.squares : x \in W1}
<1>3. Sums \subseteq Nat /\ Sums # {} BY <1>2 DEF Way
<1>4. PICK sum \in Sums : \A k \in Sums : sum <= k
  <2> HIDE DEF Sums
  <2> QED BY <1>3, LeastOne
<1> DEFINE W2 == {x \in W1 : x.squares = sum}
           Froms == {x.from : x \in W2}
<1>5. Froms \subseteq Nat /\ Froms # {}
  <2>1. PICK x \in W1 : x.squares = sum BY <1>4
  <2>2. x \in W2 BY <2>1
  <2>3. \A y \in W2 : y.from \in Nat BY DEF Way
  <2> HIDE DEF W2
  <2> QED BY <2>2, <2>3
<1>6. PICK from \in Froms : \A k \in Froms : from <= k
  <2> HIDE DEF Froms
  <2> QED BY <1>5, LeastOne
<1>7. PICK x \in W2 : x.from = from BY <1>6
<1>8. x \in ways /\ x.max = max /\ x.squares = sum /\ x.from = from BY <1>7
<1>9. ASSUME NEW y \in ways \ {x} PROVE Better(x, y)
  <2>1. x \in Way /\ y \in Way BY <1>8
  <2>2. max <= y.max BY <1>2
  <2>3. y.max = max => sum <= y.squares BY <1>4
  <2>4. y.max = max /\ y.squares = sum => from <= y.from BY <1>6
  <2>5. ~(y.max = max /\ y.squares = sum /\ y.from = from)
    <3> SUFFICES ASSUME y.max = max /\ y.squares = sum /\ y.from = from PROVE FALSE
      OBVIOUS
    <3>1. x = [ok |-> TRUE, max |-> max, squares |-> sum, from |-> from] BY <1>8, <2>1 DEF Way
    <3>2. y = [ok |-> TRUE, max |-> max, squares |-> sum, from |-> from] BY <2>1 DEF Way
    <3> QED BY <3>1, <3>2
  <2>6. y.max \in Nat /\ y.squares \in Nat /\ y.from \in Nat /\ max \in Nat /\ sum \in Nat /\ from \in Nat
    BY <1>8, <2>1 DEF Way
  <2> HIDE DEF Maxes, W1, Sums, W2, Froms
  <2> QED BY <1>8, <2>2, <2>3, <2>4, <2>5, <2>6 DEF Better
<1> DEFINE best == CHOOSE z \in ways : \A y \in ways \ {z} : Better(z, y)
<1>10. best \in ways /\ \A y \in ways \ {best} : Better(best, y) BY <1>8, <1>9
<1>11. BestOf(ways) = best BY DEF BestOf
<1> HIDE DEF best
<1>12. ASSUME NEW y \in ways PROVE best.max <= y.max
  <2>1. best \in Way /\ y \in Way BY <1>10
  <2>2. best.max \in Nat /\ y.max \in Nat BY <2>1 DEF Way
  <2>3. y = best \/ Better(best, y) BY <1>10
  <2> QED BY <2>2, <2>3 DEF Better
<1> QED BY <1>10, <1>11, <1>12

--------------------
(* The table of balanced_cuts(). *)

Cell == [ok : BOOLEAN, max : Nat, squares : Nat, from : Nat]

CostRows(m) == [1 .. m + 1 -> Cell]

\* What a strategy balances: the blocks of a graph, with costs.
Balanced(b, g, t) ==
  /\ b.graph = g /\ b.terms = t
  /\ b.costs \in [1 .. Len(g) -> Nat]
  /\ b.ends = Ascending(valid_cuts(g)) \o <<Len(g)>>

LEMMA BlocksBalanced ==
  ASSUME NEW g, Regular(g), Costed(g), NEW s, NEW t
  PROVE  Balanced(Blocks(g, s, t), g, t)
BY NodeCosts DEF Balanced, Blocks

LEMMA BlockEnds ==
  ASSUME NEW g, Regular(g), NEW t, NEW b, Balanced(b, g, t)
  PROVE  /\ Len(b.ends) = Cardinality(valid_cuts(g)) + 1 /\ Len(b.ends) \in Nat \ {0}
         /\ DOMAIN b.ends = 1 .. Len(b.ends)
         /\ \A j \in 1 .. Len(b.ends) : b.ends[j] \in 1 .. Len(g)
         /\ \A j \in 1 .. Len(b.ends) - 1 : b.ends[j] \in valid_cuts(g)
         /\ b.ends[Len(b.ends)] = Len(g)
         /\ \A i, j \in 1 .. Len(b.ends) : i < j => b.ends[i] < b.ends[j]
<1> DEFINE C == valid_cuts(g)
           A == Ascending(C)
           m == Cardinality(C)
           e == b.ends
<1>1. Len(g) \in Nat \ {0} /\ Len(g) - 1 \in Nat BY DEF Regular
<1>2. C \subseteq 1 .. Len(g) - 1 BY DEF valid_cuts
<1>3. m \in Nat /\ A \in [1 .. m -> C] /\ A \in Seq(C) /\ Len(A) = m
      /\ \A i, j \in 1 .. m : i < j => A[i] < A[j]
  BY <1>1, <1>2, AscendingLists
<1>4. e = A \o <<Len(g)>> BY DEF Balanced
<1> HIDE DEF e, A, C, m
<1>5. A \in Seq(Nat)
  <2>0. C \subseteq Nat BY <1>1, <1>2
  <2>1. A \in [1 .. m -> Nat] BY <1>3, <2>0
  <2> QED BY <1>3, <2>1, AsSequence
<1>6. Len(e) = m + 1 /\ DOMAIN e = 1 .. m + 1 BY <1>1, <1>3, <1>4, <1>5
<1>7. e[m + 1] = Len(g) BY <1>1, <1>3, <1>4, <1>5
<1>8. \A j \in 1 .. m : e[j] = A[j] BY <1>1, <1>3, <1>4, <1>5
<1>9. \A j \in 1 .. m : A[j] \in C /\ A[j] \in 1 .. Len(g) - 1 BY <1>2, <1>3
<1>10. \A j \in 1 .. m + 1 : j \in 1 .. m \/ j = m + 1 BY <1>3
<1>11. \A j \in 1 .. m + 1 : e[j] \in 1 .. Len(g) BY <1>1, <1>7, <1>8, <1>9, <1>10
<1>12. ASSUME NEW i \in 1 .. m + 1, NEW j \in 1 .. m + 1, i < j PROVE e[i] < e[j]
  <2>1. i \in 1 .. m BY <1>3, <1>12
  <2>2. CASE j = m + 1
    <3>1. e[i] \in 1 .. Len(g) - 1 BY <1>8, <1>9, <2>1
    <3> QED BY <1>1, <1>7, <2>2, <3>1
  <2>3. CASE j \in 1 .. m BY <1>3, <1>8, <1>12, <2>1, <2>3
  <2> QED BY <1>10, <2>2, <2>3
<1>13. (m + 1) - 1 = m /\ m + 1 \in Nat \ {0} BY <1>3
<1>14. \A j \in 1 .. m : e[j] \in C BY <1>8, <1>9
<1> QED BY <1>6, <1>7, <1>11, <1>12, <1>13, <1>14 DEF e, m, C

\* A row of the table: where a way comes from.
RowFrom(m, p, row, next) ==
  /\ next \in CostRows(m)
  /\ \A j \in 0 .. m : next[j + 1].ok =>
       j >= p /\ next[j + 1].from \in p - 1 .. j - 1 /\ row[next[j + 1].from + 1].ok

LEMMA RowOf ==
  ASSUME NEW f, NEW m \in Nat, f \in [1 .. m -> Cell]
  PROVE  /\ <<NoWay>> \o f \in CostRows(m)
         /\ ~(<<NoWay>> \o f)[1].ok
         /\ \A j \in 1 .. m : (<<NoWay>> \o f)[j + 1] = f[j]
<1>1. NoWay \in Cell /\ ~NoWay.ok BY DEF NoWay, Cell
<1>2. f \in Seq(Cell) /\ Len(f) = m BY AsSequence
<1> DEFINE r == <<NoWay>> \o f
<1>3. r \in Seq(Cell) /\ Len(r) = m + 1 /\ r[1] = NoWay /\ \A j \in 1 .. m : r[j + 1] = f[j]
  <2> HIDE DEF NoWay, Cell
  <2> QED BY <1>1, <1>2
<1> HIDE DEF r
<1>4. r \in [1 .. m + 1 -> Cell] BY <1>3
<1> QED BY <1>1, <1>3, <1>4 DEF r, CostRows

\* What a slice of the blocks after i, up to j, takes, and whether it fits.
FirstOf(b, i) == IF i = 0 THEN 1 ELSE b.ends[i] + 1

FitsBlocks(b, p, i, j) == Fits(b.mem, b.terms, p, FirstOf(b, i), b.ends[j])

PriceOf(b, p, i, j) == SliceCost(b.graph, b.costs, b.terms, p, FirstOf(b, i), b.ends[j])

\* A row of the table: a way takes no less than any of its slices, and no way
\* from the row before takes less.
RowBest(b, n, p, row, next) ==
  /\ \A j \in 1 .. Len(b.ends) : next[j + 1].ok =>
       LET i == next[j + 1].from
       IN FitsBlocks(b, p, i, j) /\ row[i + 1].max <= next[j + 1].max /\ PriceOf(b, p, i, j) <= next[j + 1].max
  /\ \A j \in p .. Len(b.ends) - (n - p) : \A i \in p - 1 .. j - 1 :
       (row[i + 1].ok /\ FitsBlocks(b, p, i, j)) =>
         next[j + 1].ok /\ (next[j + 1].max <= row[i + 1].max \/ next[j + 1].max <= PriceOf(b, p, i, j))

LEMMA PricesTyped ==
  ASSUME NEW g, Regular(g), Costed(g), NEW n \in Nat \ {0}, NEW t, TermsFor(t, n), NEW b, Balanced(b, g, t),
         NEW p \in 1 .. n, NEW i \in 0 .. Len(b.ends), NEW j \in 1 .. Len(b.ends)
  PROVE  PriceOf(b, p, i, j) \in Nat
<1>1. /\ Len(b.ends) \in Nat \ {0} /\ \A k \in 1 .. Len(b.ends) : b.ends[k] \in 1 .. Len(g)
      /\ Len(g) \in Nat \ {0}
  BY BlockEnds DEF Regular
<1>2. FirstOf(b, i) \in Nat \ {0}
  <2>1. CASE i = 0 BY <2>1 DEF FirstOf
  <2>2. CASE i # 0
    <3>1. i \in 1 .. Len(b.ends) BY <1>1, <2>2
    <3>2. b.ends[i] \in Nat BY <1>1, <3>1
    <3> QED BY <2>2, <3>2 DEF FirstOf
  <2> QED BY <2>1, <2>2
<1>3. b.graph = g /\ b.terms = t /\ b.costs \in [1 .. Len(g) -> Nat] BY DEF Balanced
<1> DEFINE a == FirstOf(b, i)
           l == b.ends[j]
           cs == b.costs
<1>4. a \in Nat \ {0} /\ l \in 1 .. Len(g) /\ cs \in [1 .. Len(g) -> Nat] BY <1>1, <1>2, <1>3
<1> HIDE DEF a, l, cs
<1>5. SliceCost(g, cs, t, p, a, l) \in Nat BY <1>4, SliceCosts
<1> QED BY <1>3, <1>5 DEF a, l, cs, PriceOf

LEMMA NextRowFrom ==
  ASSUME NEW g, Regular(g), Costed(g), NEW n \in Nat \ {0}, NEW t, TermsFor(t, n),
         NEW b, Balanced(b, g, t), NEW row \in CostRows(Len(b.ends)), NEW p \in 1 .. n
  PROVE  /\ RowFrom(Len(b.ends), p, row, NextRow(b, n, row, p))
         /\ RowBest(b, n, p, row, NextRow(b, n, row, p))
<1> DEFINE m == Len(b.ends)
           ways(j) == {i \in p - 1 .. j - 1 : row[i + 1].ok /\ FitsBlocks(b, p, i, j)}
           way(i, c) == [ok |-> TRUE, max |-> Larger(row[i + 1].max, c),
                         squares |-> row[i + 1].squares + c * c, from |-> i]
           cost(i, j) == PriceOf(b, p, i, j)
           all(j) == {way(i, cost(i, j)) : i \in ways(j)}
           cell(j) == IF j \in p .. m - (n - p) THEN BestOf(all(j)) ELSE NoWay
           cells == [j \in 1 .. m |-> cell(j)]
<1>1. /\ m \in Nat \ {0} /\ \A j \in 1 .. m : b.ends[j] \in 1 .. Len(g)
      /\ Len(g) \in Nat \ {0}
  BY BlockEnds DEF Regular
<1>2. NextRow(b, n, row, p) = <<NoWay>> \o cells BY DEF NextRow, FitsBlocks, PriceOf, FirstOf
<1>3. ASSUME NEW j \in p .. m, NEW i \in p - 1 .. j - 1
      PROVE  /\ cost(i, j) \in Nat
             /\ row[i + 1].max \in Nat /\ row[i + 1].squares \in Nat
  <2>1. i \in 0 .. m /\ i \in 0 .. m - 1 /\ j \in 1 .. m BY <1>1
  <2>2. cost(i, j) \in Nat BY <2>1, PricesTyped
  <2>3. row[i + 1] \in Cell
    <3>1. i + 1 \in 1 .. m + 1 BY <1>1, <2>1
    <3> QED BY <3>1 DEF CostRows
  <2> QED BY <2>2, <2>3 DEF Cell
<1>4. ASSUME NEW j \in p .. m PROVE all(j) \subseteq Way
  <2> SUFFICES ASSUME NEW i \in ways(j) PROVE way(i, cost(i, j)) \in Way
    OBVIOUS
  <2>1. i \in p - 1 .. j - 1 /\ i \in Nat OBVIOUS
  <2> DEFINE c == cost(i, j)
  <2>2. c \in Nat /\ row[i + 1].max \in Nat /\ row[i + 1].squares \in Nat BY <1>3, <2>1
  <2> HIDE DEF c
  <2>3. c * c \in Nat BY <2>2, NatTimes
  <2>4. row[i + 1].squares + c * c \in Nat /\ Larger(row[i + 1].max, c) \in Nat
    <3> DEFINE d == c * c
               r == row[i + 1].squares
    <3>1. d \in Nat /\ r \in Nat BY <2>2, <2>3
    <3> HIDE DEF d, r
    <3>2. r + d \in Nat BY <3>1, SMTT(30)
    <3>3. Larger(row[i + 1].max, c) \in Nat BY <2>2, SMTT(30) DEF Larger
    <3> QED BY <3>2, <3>3 DEF d, r
  <2>5. way(i, c) \in Way BY <2>1, <2>4, SMTT(30) DEF Way
  <2> QED BY <2>5 DEF c
<1>5. ASSUME NEW j \in 1 .. m
      PROVE  /\ cell(j) \in Cell
             /\ cell(j).ok => /\ j >= p /\ cell(j).from \in p - 1 .. j - 1 /\ row[cell(j).from + 1].ok
                              /\ FitsBlocks(b, p, cell(j).from, j) /\ row[cell(j).from + 1].max <= cell(j).max
                              /\ cost(cell(j).from, j) <= cell(j).max
  <2>1. NoWay \in Cell /\ ~NoWay.ok BY DEF NoWay, Cell
  <2>2. CASE j \notin p .. m - (n - p) BY <2>1, <2>2
  <2>3. CASE j \in p .. m - (n - p) /\ all(j) = {}
    <3>1. cell(j) = NoWay
      <4> HIDE DEF all
      <4> QED BY <2>3 DEF BestOf
    <3> HIDE DEF cell
    <3> QED BY <2>1, <3>1
  <2>4. CASE j \in p .. m - (n - p) /\ all(j) # {}
    <3>1. j \in p .. m
      <4>1. j \in p .. m - (n - p) /\ p <= n /\ n \in Nat /\ p \in Nat BY <2>4
      <4> HIDE DEF all, m
      <4> QED BY <1>1, <4>1
    <3>2. BestOf(all(j)) \in all(j)
      <4>1. all(j) \subseteq Way /\ all(j) # {} BY <1>4, <2>4, <3>1
      <4> HIDE DEF all
      <4> QED BY <4>1, BestIsOne
    <3>3. cell(j) = BestOf(all(j)) BY <2>4
    <3>4. PICK i \in ways(j) : cell(j) = way(i, cost(i, j)) BY <3>2, <3>3
    <3>5. cell(j) \in Way BY <1>4, <3>1, <3>2, <3>3
    <3>6. cell(j).ok /\ cell(j).from = i /\ cell(j).max = Larger(row[i + 1].max, cost(i, j))
      <4> HIDE DEF cell, ways, cost
      <4> QED BY <3>4
    <3>7. i \in p - 1 .. j - 1 /\ row[i + 1].ok /\ FitsBlocks(b, p, i, j) OBVIOUS
    <3>8. row[i + 1].max \in Nat /\ cost(i, j) \in Nat BY <1>3, <3>1, <3>7
    <3> HIDE DEF cell, ways, way, cost, all
    <3>9. cell(j) \in Cell BY <3>5 DEF Way, Cell
    <3>10. row[i + 1].max <= cell(j).max /\ cost(i, j) <= cell(j).max BY <3>6, <3>8 DEF Larger
    <3> QED BY <3>1, <3>6, <3>7, <3>9, <3>10
  <2> QED BY <2>2, <2>3, <2>4, ZenonT(30)
<1>51. ASSUME NEW j \in p .. m - (n - p), NEW i \in p - 1 .. j - 1, row[i + 1].ok, FitsBlocks(b, p, i, j)
       PROVE  cell(j).ok /\ (cell(j).max <= row[i + 1].max \/ cell(j).max <= cost(i, j))
  <2>1. j \in p .. m
    <3>1. j \in p .. m - (n - p) /\ p <= n /\ n \in Nat /\ p \in Nat OBVIOUS
    <3> HIDE DEF m
    <3> QED BY <1>1, <3>1
  <2>2. way(i, cost(i, j)) \in all(j) BY <1>51
  <2>3. all(j) \subseteq Way BY <1>4, <2>1
  <2>4. cell(j) = BestOf(all(j)) OBVIOUS
  <2>5. BestOf(all(j)) \in all(j) /\ BestOf(all(j)).max <= way(i, cost(i, j)).max
    <3> HIDE DEF all, way
    <3> QED BY <2>2, <2>3, BestIsOne
  <2>6. cell(j).ok
    <3>1. cell(j) \in Way BY <2>3, <2>4, <2>5
    <3> HIDE DEF cell
    <3> QED BY <3>1 DEF Way
  <2>7. way(i, cost(i, j)).max = Larger(row[i + 1].max, cost(i, j)) OBVIOUS
  <2> HIDE DEF cell, way, cost, all
  <2> QED BY <2>4, <2>5, <2>6, <2>7 DEF Larger
<1>6. cells \in [1 .. m -> Cell] /\ \A j \in 1 .. m : cells[j] = cell(j)
  <2> HIDE DEF cell
  <2> QED BY <1>5
<1> DEFINE next == <<NoWay>> \o cells
<1> HIDE DEF cells, cell
<1>7. next \in CostRows(m) /\ ~next[1].ok /\ \A j \in 1 .. m : next[j + 1] = cells[j]
  <2>1. m \in Nat BY <1>1
  <2> HIDE DEF m
  <2> QED BY <1>6, <2>1, RowOf
<1> HIDE DEF next, m
<1>8. \A j \in 0 .. m : next[j + 1].ok =>
        j >= p /\ next[j + 1].from \in p - 1 .. j - 1 /\ row[next[j + 1].from + 1].ok
  <2> SUFFICES ASSUME NEW j \in 0 .. m, next[j + 1].ok
               PROVE  j >= p /\ next[j + 1].from \in p - 1 .. j - 1 /\ row[next[j + 1].from + 1].ok
    OBVIOUS
  <2>1. j # 0 BY <1>7
  <2>2. j \in 1 .. m /\ next[j + 1] = cell(j) BY <1>1, <1>6, <1>7, <2>1
  <2> QED BY <1>5, <2>2
<1>9. \A j \in 1 .. m : next[j + 1] = cell(j) BY <1>6, <1>7
<1>10. RowBest(b, n, p, row, next)
  <2>1. \A j \in p .. m - (n - p) : j \in 1 .. m BY <1>1
  <2> QED BY <1>5, <1>51, <1>9, <2>1 DEF RowBest, m
<1> QED BY <1>2, <1>7, <1>8, <1>10 DEF RowFrom, next, m

\* The table, row by row.
Table(b, n, best) ==
  LET m == Len(b.ends)
  IN /\ best \in [0 .. n -> CostRows(m)]
     /\ best[0] = <<[NoWay EXCEPT !.ok = TRUE]>> \o [j \in 1 .. m |-> NoWay]
     /\ \A p \in 1 .. n : best[p] = NextRow(b, n, best[p - 1], p)

LEMMA FirstRow ==
  ASSUME NEW m \in Nat
  PROVE  LET first == <<[NoWay EXCEPT !.ok = TRUE]>> \o [j \in 1 .. m |-> NoWay]
         IN  first \in CostRows(m) /\ first[1].ok /\ first[1].max = 0 /\ \A j \in 1 .. m : ~first[j + 1].ok
<1> DEFINE start == [NoWay EXCEPT !.ok = TRUE]
           rest == [j \in 1 .. m |-> NoWay]
           first == <<start>> \o rest
<1>1. start \in Cell /\ start.ok /\ start.max = 0 /\ NoWay \in Cell /\ ~NoWay.ok
  BY DEF NoWay, Cell
<1>2. rest \in Seq(Cell) /\ Len(rest) = m /\ \A j \in 1 .. m : rest[j] = NoWay
  <2>1. rest \in [1 .. m -> Cell] BY <1>1
  <2> QED BY <2>1, AsSequence
<1> HIDE DEF start, rest
<1>3. first \in Seq(Cell) /\ Len(first) = m + 1 /\ first[1] = start /\ \A j \in 1 .. m : first[j + 1] = rest[j]
  <2> HIDE DEF NoWay, Cell
  <2> QED BY <1>1, <1>2
<1> HIDE DEF first
<1>4. first \in CostRows(m) BY <1>3 DEF CostRows
<1> QED BY <1>1, <1>2, <1>3, <1>4 DEF first, start, rest

LEMMA BestWaysTable ==
  ASSUME NEW g, Regular(g), Costed(g), NEW n \in Nat \ {0}, NEW t, TermsFor(t, n), NEW b, Balanced(b, g, t)
  PROVE  Table(b, n, BestWays(b, n))
<1> DEFINE m == Len(b.ends)
           first == <<[NoWay EXCEPT !.ok = TRUE]>> \o [j \in 1 .. m |-> NoWay]
           R == CostRows(m)
           Eq(h) == h = [p \in 0 .. n |-> IF p = 0 THEN <<[NoWay EXCEPT !.ok = TRUE]>> \o [j \in DOMAIN b.ends |-> NoWay]
                                          ELSE NextRow(b, n, h[p - 1], p)]
           step == [p \in 1 .. n |-> [row \in R |-> NextRow(b, n, row, p)]]
<1>1. m \in Nat \ {0} /\ DOMAIN b.ends = 1 .. m BY BlockEnds
<1>2. first \in R
  <2>1. m \in Nat BY <1>1
  <2> HIDE DEF m
  <2> QED BY <2>1, FirstRow
<1>3. \A row \in R : \A p \in 1 .. n : NextRow(b, n, row, p) \in R BY NextRowFrom DEF RowFrom
<1>4. step \in [1 .. n -> [R -> R]] /\ \A p \in 1 .. n : \A row \in R : step[p][row] = NextRow(b, n, row, p)
  <2> HIDE DEF R
  <2> QED BY <1>3
<1> HIDE DEF step, R, first
<1>5. PICK f \in Stepwise(n, R, first, step) : TRUE BY <1>2, <1>4, StepByStep
<1>6. f \in [0 .. n -> R] /\ f[0] = first /\ \A p \in 1 .. n : f[p] = step[p][f[p - 1]]
  BY <1>5 DEF Stepwise
<1>7. \A p \in 1 .. n : f[p - 1] \in R /\ f[p] = NextRow(b, n, f[p - 1], p)
  <2> SUFFICES ASSUME NEW p \in 1 .. n PROVE f[p - 1] \in R /\ f[p] = NextRow(b, n, f[p - 1], p)
    OBVIOUS
  <2>1. p - 1 \in 0 .. n OBVIOUS
  <2>2. f[p - 1] \in R BY <1>6, <2>1
  <2> QED BY <1>4, <1>6, <2>2
<1>8. Eq(f)
  <2>1. \A p \in 0 .. n : f[p] = IF p = 0 THEN first ELSE NextRow(b, n, f[p - 1], p)
    BY <1>6, <1>7
  <2>2. f = [p \in 0 .. n |-> IF p = 0 THEN first ELSE NextRow(b, n, f[p - 1], p)] BY <1>6, <2>1
  <2> QED BY <1>1, <2>2 DEF first
<1> DEFINE rows == CHOOSE h : Eq(h)
<1>9. Eq(rows)
  <2> HIDE DEF Eq
  <2> QED BY <1>8
<1>10. BestWays(b, n) = [p \in 0 .. n |-> rows[p]] BY DEF BestWays
<1> HIDE DEF rows
<1>11. DOMAIN rows = 0 .. n /\ rows[0] = first /\ \A p \in 1 .. n : rows[p] = NextRow(b, n, rows[p - 1], p)
  <2>1. rows = [p \in 0 .. n |-> IF p = 0 THEN first ELSE NextRow(b, n, rows[p - 1], p)]
    BY <1>1, <1>9 DEF first
  <2>2. DOMAIN rows = 0 .. n BY <2>1
  <2>3. \A p \in 0 .. n : rows[p] = IF p = 0 THEN first ELSE NextRow(b, n, rows[p - 1], p)
    BY <2>1
  <2>4. 0 \in 0 .. n /\ \A p \in 1 .. n : p \in 0 .. n /\ p # 0 OBVIOUS
  <2> QED BY <2>2, <2>3, <2>4
<1>12. BestWays(b, n) = rows BY <1>9, <1>10
<1>13. \A p \in 0 .. n : rows[p] \in R
  <2> DEFINE T == {p \in 0 .. n : rows[p] \in R}
  <2>1. 0 \in T BY <1>2, <1>11
  <2>2. ASSUME NEW k \in 0 .. n - 1, k \in T PROVE k + 1 \in T
    <3>1. k + 1 \in 1 .. n /\ (k + 1) - 1 = k /\ k + 1 \in 0 .. n OBVIOUS
    <3>2. rows[k + 1] = NextRow(b, n, rows[(k + 1) - 1], k + 1) BY <1>11, <3>1
    <3>3. rows[k] \in R BY <2>2
    <3> QED BY <1>3, <3>1, <3>2, <3>3
  <2>3. \A p \in 0 .. n : p \in T
    <3> HIDE DEF T
    <3> QED BY <2>1, <2>2, UpTo
  <2> QED BY <2>3
<1>14. rows \in [0 .. n -> R] BY <1>9, <1>13
<1> QED BY <1>11, <1>12, <1>14 DEF Table, first, R, m

\* Where each slice of the best way ends, in blocks.
LastBlocks(b, n, best) ==
  {at \in [0 .. n -> 0 .. Len(b.ends)] :
     /\ at[n] = Len(b.ends)
     /\ \A p \in 0 .. n - 1 : at[p] = best[p + 1][at[p + 1] + 1].from
     /\ \A p \in 0 .. n : best[p][at[p] + 1].ok
     /\ \A p \in 0 .. n - 1 : at[p] < at[p + 1]}

LEMMA CutsFound ==
  ASSUME NEW g, Regular(g), Costed(g), NEW n \in Nat \ {0}, NEW t, TermsFor(t, n), NEW b, Balanced(b, g, t),
         NEW best, Table(b, n, best), NEW cuts \in CutsOf(b, n, best)
  PROVE  /\ best[n][Len(b.ends) + 1].ok
         /\ \E at \in LastBlocks(b, n, best) : cuts = {b.ends[at[p]] : p \in 1 .. n - 1}
<1> DEFINE m == Len(b.ends)
           Eq(h) == h = [p \in 0 .. n |-> IF p = n THEN m ELSE best[p + 1][h[p + 1] + 1].from]
           at == CHOOSE h : Eq(h)
<1>1. CutsOf(b, n, best) = IF best[n][m + 1].ok THEN {{b.ends[at[p]] : p \in 1 .. n - 1}} ELSE {}
  BY DEF CutsOf
<1>2. best[n][m + 1].ok /\ cuts = {b.ends[at[p]] : p \in 1 .. n - 1}
  <2> HIDE DEF at
  <2> QED BY <1>1
<1>3. m \in Nat \ {0} BY BlockEnds
<1>4. ASSUME NEW p \in 1 .. n, NEW j \in 0 .. m, best[p][j + 1].ok
      PROVE  best[p][j + 1].from \in 0 .. j - 1 /\ best[p - 1][best[p][j + 1].from + 1].ok
  <2>1. p - 1 \in 0 .. n /\ best[p - 1] \in CostRows(m) /\ best[p] = NextRow(b, n, best[p - 1], p)
    BY DEF Table
  <2>2. RowFrom(m, p, best[p - 1], best[p]) BY <2>1, NextRowFrom
  <2>3. best[p][j + 1].from \in p - 1 .. j - 1 /\ best[p - 1][best[p][j + 1].from + 1].ok
    BY <1>4, <2>2 DEF RowFrom
  <2> QED BY <2>3
\* Read back from row n to row 0.
<1> DEFINE row(q) == best[(n - q) + 1]
           step == [q \in 1 .. n |-> [j \in 0 .. m |-> IF row(q)[j + 1].ok THEN row(q)[j + 1].from ELSE 0]]
           M == 0 .. m
<1>5. step \in [1 .. n -> [M -> M]]
  <2> SUFFICES ASSUME NEW q \in 1 .. n, NEW j \in 0 .. m
               PROVE  (IF row(q)[j + 1].ok THEN row(q)[j + 1].from ELSE 0) \in 0 .. m
    OBVIOUS
  <2>1. (n - q) + 1 \in 1 .. n OBVIOUS
  <2>2. row(q)[j + 1].ok => row(q)[j + 1].from \in 0 .. j - 1 BY <1>4, <2>1
  <2> HIDE DEF row
  <2> QED BY <1>3, <2>2
<1>6. \A q \in 1 .. n : \A j \in M : step[q][j] = IF best[(n - q) + 1][j + 1].ok THEN best[(n - q) + 1][j + 1].from ELSE 0
  OBVIOUS
<1>7. m \in M BY <1>3
<1> HIDE DEF step, M
<1>8. PICK f \in Stepwise(n, M, m, step) : TRUE
  <2> HIDE DEF m
  <2> QED BY <1>5, <1>7, StepByStep
<1>9. f \in [0 .. n -> M] /\ f[0] = m /\ \A q \in 1 .. n : f[q] = step[q][f[q - 1]]
  BY <1>8 DEF Stepwise
<1>10. \A q \in 0 .. n : best[n - q][f[q] + 1].ok
  <2> DEFINE T == {q \in 0 .. n : best[n - q][f[q] + 1].ok}
  <2>1. 0 \in T
    <3>1. n - 0 = n /\ 0 \in 0 .. n BY SMTT(30)
    <3>2. best[n][f[0] + 1].ok BY <1>2, <1>9, ZenonT(30)
    <3> QED BY <3>1, <3>2
  <2>2. ASSUME NEW k \in 0 .. n - 1, k \in T PROVE k + 1 \in T
    <3>1. /\ k + 1 \in 1 .. n /\ (k + 1) - 1 = k /\ k \in 0 .. n /\ n - k \in 1 .. n
          /\ (n - (k + 1)) + 1 = n - k /\ (n - k) - 1 = n - (k + 1)
      OBVIOUS
    <3>2. f[k] \in M /\ best[n - k][f[k] + 1].ok /\ f[k] \in 0 .. m BY <1>9, <2>2, <3>1 DEF M
    <3>3. f[k + 1] = step[k + 1][f[(k + 1) - 1]] BY <1>9, <3>1
    <3>4. step[k + 1][f[k]] = best[n - k][f[k] + 1].from
      <4>1. step[k + 1][f[k]] = IF best[(n - (k + 1)) + 1][f[k] + 1].ok THEN best[(n - (k + 1)) + 1][f[k] + 1].from ELSE 0
        BY <1>6, <3>1, <3>2
      <4> QED BY <3>1, <3>2, <4>1
    <3>5. best[(n - k) - 1][best[n - k][f[k] + 1].from + 1].ok BY <1>4, <3>1, <3>2
    <3> QED BY <3>1, <3>3, <3>4, <3>5
  <2>3. \A q \in 0 .. n : q \in T
    <3> HIDE DEF T
    <3> QED BY <2>1, <2>2, UpTo
  <2> QED BY <2>3
<1> DEFINE h == [p \in 0 .. n |-> f[n - p]]
<1>11. Eq(h)
  <2> SUFFICES ASSUME NEW p \in 0 .. n PROVE f[n - p] = IF p = n THEN m ELSE best[p + 1][h[p + 1] + 1].from
    OBVIOUS
  <2>1. CASE p = n BY <1>9, <2>1
  <2>2. CASE p # n
    <3>1. p + 1 \in 0 .. n /\ n - p \in 1 .. n /\ (n - p) - 1 = n - (p + 1) /\ (n - (n - p)) + 1 = p + 1 /\ n - (p + 1) \in 0 .. n
          /\ n - (n - (p + 1)) = p + 1
      BY <2>2
    <3>2. h[p + 1] = f[n - (p + 1)] BY <3>1
    <3>3. f[n - p] = step[n - p][f[n - (p + 1)]] BY <1>9, <3>1
    <3>4. f[n - (p + 1)] \in M BY <1>9, <3>1
    <3>5. best[p + 1][f[n - (p + 1)] + 1].ok
      <4>1. best[n - (n - (p + 1))][f[n - (p + 1)] + 1].ok BY <1>10, <3>1
      <4> QED BY <3>1, <4>1
    <3>6. f[n - p] = best[p + 1][f[n - (p + 1)] + 1].from
      <4>1. step[n - p][f[n - (p + 1)]] = IF best[(n - (n - p)) + 1][f[n - (p + 1)] + 1].ok
                                          THEN best[(n - (n - p)) + 1][f[n - (p + 1)] + 1].from ELSE 0
        BY <1>6, <3>1, <3>4, SMTT(30)
      <4> QED BY <3>1, <3>3, <3>5, <4>1
    <3> QED BY <2>2, <3>2, <3>6
  <2> QED BY <2>1, <2>2
<1>12. Eq(at)
  <2> HIDE DEF Eq, h
  <2> QED BY <1>11, SMTT(30)
<1> HIDE DEF at
<1>13. at = [p \in 0 .. n |-> at[p]] /\ at[n] = m /\ \A p \in 0 .. n - 1 : at[p] = best[p + 1][at[p + 1] + 1].from
  <2>1. at = [p \in 0 .. n |-> IF p = n THEN m ELSE best[p + 1][at[p + 1] + 1].from]
    BY <1>12, SMTT(30)
  <2> HIDE DEF m
  <2>2. \A p \in 0 .. n : at[p] = IF p = n THEN m ELSE best[p + 1][at[p + 1] + 1].from BY <2>1
  <2>3. n \in 0 .. n /\ \A p \in 0 .. n - 1 : p \in 0 .. n /\ p # n OBVIOUS
  <2>4. at[n] = m /\ \A p \in 0 .. n - 1 : at[p] = best[p + 1][at[p + 1] + 1].from BY <2>2, <2>3
  <2>5. at = [p \in 0 .. n |-> at[p]] BY <2>1
  <2> QED BY <2>4, <2>5, ZenonT(30)
<1>14. \A q \in 0 .. n : at[n - q] \in 0 .. m /\ best[n - q][at[n - q] + 1].ok
  <2> DEFINE T == {q \in 0 .. n : at[n - q] \in 0 .. m /\ best[n - q][at[n - q] + 1].ok}
  <2>1. 0 \in T BY <1>2, <1>3, <1>13
  <2>2. ASSUME NEW k \in 0 .. n - 1, k \in T PROVE k + 1 \in T
    <3>1. /\ k + 1 \in 0 .. n /\ n - k \in 1 .. n
          /\ n - (k + 1) \in 0 .. n - 1 /\ (n - (k + 1)) + 1 = n - k /\ (n - k) - 1 = n - (k + 1)
      OBVIOUS
    <3>2. at[n - k] \in 0 .. m /\ best[n - k][at[n - k] + 1].ok BY <2>2
    <3>3. at[n - (k + 1)] = best[(n - (k + 1)) + 1][at[(n - (k + 1)) + 1] + 1].from
      BY <1>13, <3>1
    <3>4. at[n - (k + 1)] = best[n - k][at[n - k] + 1].from BY <3>1, <3>3
    <3>5. best[n - k][at[n - k] + 1].from \in 0 .. at[n - k] - 1 /\ best[(n - k) - 1][best[n - k][at[n - k] + 1].from + 1].ok
      BY <1>4, <3>1, <3>2
    <3>6. at[n - (k + 1)] \in 0 .. m
      <4> HIDE DEF m
      <4> QED BY <1>3, <3>2, <3>4, <3>5
    <3> QED BY <3>1, <3>4, <3>5, <3>6
  <2>3. \A q \in 0 .. n : q \in T
    <3> HIDE DEF T
    <3> QED BY <2>1, <2>2, UpTo
  <2> QED BY <2>3
<1>15. \A p \in 0 .. n : at[p] \in 0 .. m /\ best[p][at[p] + 1].ok
  <2> SUFFICES ASSUME NEW p \in 0 .. n PROVE at[p] \in 0 .. m /\ best[p][at[p] + 1].ok
    OBVIOUS
  <2>1. n - p \in 0 .. n /\ n - (n - p) = p OBVIOUS
  <2>2. at[n - (n - p)] \in 0 .. m /\ best[n - (n - p)][at[n - (n - p)] + 1].ok BY <1>14, <2>1
  <2> QED BY <2>1, <2>2
<1>16. ASSUME NEW p \in 0 .. n - 1 PROVE at[p] < at[p + 1]
  <2>1. p + 1 \in 1 .. n /\ p + 1 \in 0 .. n OBVIOUS
  <2>2. at[p + 1] \in 0 .. m /\ best[p + 1][at[p + 1] + 1].ok BY <1>15, <2>1
  <2>3. best[p + 1][at[p + 1] + 1].from \in 0 .. at[p + 1] - 1 BY <1>4, <2>1, <2>2
  <2>4. at[p] = best[p + 1][at[p + 1] + 1].from BY <1>13
  <2> QED BY <2>2, <2>3, <2>4
<1>17. at \in [0 .. n -> 0 .. m] BY <1>13, <1>15
<1>18. at \in LastBlocks(b, n, best) BY <1>13, <1>15, <1>16, <1>17 DEF LastBlocks, m
<1> QED BY <1>2, <1>18 DEF m

LEMMA CutsValid ==
  ASSUME NEW g, Regular(g), Costed(g), NEW n \in Nat \ {0}, NEW t, TermsFor(t, n), NEW b, Balanced(b, g, t),
         NEW cuts \in balanced_cuts(b, n)
  PROVE  cuts \subseteq valid_cuts(g) /\ Cardinality(cuts) = n - 1
<1> DEFINE best == BestWays(b, n)
           m == Len(b.ends)
<1>1. cuts \in CutsOf(b, n, best) BY DEF balanced_cuts
<1>2. Table(b, n, best) BY BestWaysTable
<1> HIDE DEF best
<1>3. PICK at \in LastBlocks(b, n, best) : cuts = {b.ends[at[p]] : p \in 1 .. n - 1}
  BY <1>1, <1>2, CutsFound
<1>4. /\ at \in [0 .. n -> 0 .. m] /\ at[n] = m
      /\ \A p \in 0 .. n - 1 : at[p] < at[p + 1]
  BY DEF LastBlocks
<1>5. /\ m \in Nat \ {0} /\ \A j \in 1 .. m - 1 : b.ends[j] \in valid_cuts(g)
      /\ \A j \in 1 .. m : b.ends[j] \in 1 .. Len(g)
      /\ \A i, j \in 1 .. m : i < j => b.ends[i] < b.ends[j]
  BY BlockEnds
<1> HIDE DEF m
<1>6. \A q \in 0 .. n : \A p \in 0 .. n : p < q => at[p] < at[q]
  <2> DEFINE T == {q \in 0 .. n : \A p \in 0 .. n : p < q => at[p] < at[q]}
  <2>1. 0 \in T OBVIOUS
  <2>2. ASSUME NEW k \in 0 .. n - 1, k \in T PROVE k + 1 \in T
    <3>1. k \in 0 .. n /\ k + 1 \in 0 .. n /\ at[k] < at[k + 1] /\ at[k] \in Int /\ at[k + 1] \in Int
      BY <1>4, <1>5
    <3> SUFFICES ASSUME NEW p \in 0 .. n, p < k + 1 PROVE at[p] < at[k + 1]
      BY <3>1
    <3>2. p = k \/ p < k OBVIOUS
    <3>3. p < k => at[p] < at[k] BY <2>2
    <3>4. at[p] \in Int BY <1>4, <1>5
    <3> QED BY <3>1, <3>2, <3>3, <3>4
  <2>3. \A q \in 0 .. n : q \in T
    <3> HIDE DEF T
    <3> QED BY <2>1, <2>2, UpTo
  <2> QED BY <2>3
<1>7. ASSUME NEW p \in 1 .. n - 1 PROVE at[p] \in 1 .. m - 1
  <2>1. 0 \in 0 .. n /\ p \in 0 .. n /\ n \in 0 .. n /\ 0 < p /\ p < n OBVIOUS
  <2>2. at[0] < at[p] /\ at[p] < at[n] BY <1>6, <2>1
  <2>3. at[0] \in 0 .. m /\ at[p] \in 0 .. m BY <1>4, <2>1
  <2> QED BY <1>4, <1>5, <2>2, <2>3
<1> DEFINE F == [p \in 1 .. n - 1 |-> b.ends[at[p]]]
           N == 1 .. n - 1
<1>8. \A p \in N : F[p] = b.ends[at[p]] /\ F[p] \in valid_cuts(g) /\ F[p] \in cuts
  BY <1>3, <1>5, <1>7
<1>9. \A p, q \in N : p # q => F[p] # F[q]
  <2> SUFFICES ASSUME NEW p \in N, NEW q \in N, p < q PROVE F[p] < F[q] /\ F[p] \in Int /\ F[q] \in Int
    <3>1. \A p, q \in N : p # q => p < q \/ q < p OBVIOUS
    <3> HIDE DEF N, F
    <3> QED BY <3>1
  <2>1. p \in 0 .. n /\ q \in 0 .. n OBVIOUS
  <2>2. at[p] < at[q] /\ at[p] \in 1 .. m - 1 /\ at[q] \in 1 .. m - 1 BY <1>6, <1>7, <2>1
  <2>3. at[p] \in 1 .. m /\ at[q] \in 1 .. m BY <1>5, <2>2
  <2>4. b.ends[at[p]] < b.ends[at[q]] /\ b.ends[at[p]] \in 1 .. Len(g) /\ b.ends[at[q]] \in 1 .. Len(g)
    BY <1>5, <2>2, <2>3
  <2> HIDE DEF F
  <2> QED BY <1>8, <2>4
<1>10. cuts \subseteq valid_cuts(g) BY <1>3, <1>5, <1>7
<1>11. F \in Bijection(N, cuts)
  <2>1. F \in [N -> cuts] /\ \A c \in cuts : \E p \in N : F[p] = c BY <1>3, <1>8
  <2> HIDE DEF F, N
  <2>2. F \in Injection(N, cuts) BY <1>9, <2>1, Fun_IsInj
  <2>3. F \in Surjection(N, cuts) BY <2>1 DEF Surjection
  <2> QED BY <2>2, <2>3 DEF Bijection
<1>12. Cardinality(N) = n - 1 /\ IsFiniteSet(N)
  <2>1. n - 1 \in Nat OBVIOUS
  <2> QED BY <2>1, FS_Interval, FS_CountingElements
<1>13. Cardinality(cuts) = n - 1
  <2> HIDE DEF F, N
  <2>1. Cardinality(cuts) = Cardinality(N)
    <3>1. ExistsBijection(N, cuts) BY <1>11 DEF ExistsBijection
    <3> QED BY <1>12, <3>1, FS_Bijection
  <2> QED BY <1>12, <2>1
<1> QED BY <1>10, <1>13

LEMMA CostTiles ==
  ASSUME NEW g, Regular(g), Costed(g), NEW s, NEW n \in Nat \ {0}, NEW t, TermsFor(t, n),
         NEW ps \in CostSplit(g, s, n, t)
  PROVE  Tiled(g, ps) /\ Len(ps) = n
<1> DEFINE b == Blocks(g, s, t)
<1>1. PICK cuts \in balanced_cuts(b, n) : ps = partitions_from_cuts(g, cuts) BY DEF CostSplit
<1>2. Balanced(b, g, t) BY BlocksBalanced
<1> HIDE DEF b
<1>3. cuts \subseteq valid_cuts(g) /\ Cardinality(cuts) = n - 1 BY <1>2, CutsValid
<1>4. cuts \subseteq 1 .. Len(g) - 1 /\ Len(g) \in Nat \ {0} BY <1>3 DEF valid_cuts, Regular
<1>5. Tiled(g, partitions_from_cuts(g, cuts)) /\ Len(partitions_from_cuts(g, cuts)) = Cardinality(cuts) + 1
  BY <1>4, CutsTile
<1> QED BY <1>1, <1>3, <1>5

LEMMA NoTermsFor ==
  ASSUME NEW n, NEW s
  PROVE  TermsFor(NoTerms, n) /\ TermsFor(SlotTerms(s, n), n)
BY DEF TermsFor, NoTerms, SlotTerms

LEMMA CutCount ==
  ASSUME NEW g, Regular(g)
  PROVE  Cardinality(valid_cuts(g)) \in Nat
<1>1. Len(g) - 1 \in Nat BY DEF Regular
<1>2. valid_cuts(g) \subseteq 1 .. Len(g) - 1 BY DEF valid_cuts
<1> QED BY <1>1, <1>2, AscendingLists

LEMMA MemoryTiles ==
  ASSUME NEW g, Regular(g), Costed(g), NEW s, NEW n \in Nat \ {0}, NEW ps \in MemorySplit(g, s, n)
  PROVE  Tiled(g, ps) /\ Len(ps) >= n /\ Len(ps) \in Nat
<1>1. ps \in FittingSplits(g, s, n) BY DEF MemorySplit
<1>2. PICK k \in n .. Cardinality(valid_cuts(g)) + 1 : ps \in CostSplit(g, s, k, SlotTerms(s, k))
  BY <1>1 DEF FittingSplits
<1>3. k \in Nat \ {0} /\ k >= n BY CutCount
<1>4. TermsFor(SlotTerms(s, k), k) BY NoTermsFor
<1> QED BY <1>2, <1>3, <1>4, CostTiles

LEMMA SplitTiles ==
  ASSUME NEW g, Regular(g), Costed(g), NEW s, s.names \in Seq([at : Int, module : STRING]), NEW n \in Nat \ {0},
         NEW t, TermsFor(t, n), NEW ps \in Split(g, s, n, t)
  PROVE  Tiled(g, ps)
<1>1. Len(g) \in Nat \ {0} BY DEF Regular
<1>2. CASE s.kind = "uniform"
  <2>1. ps \in UniformSplit(g, n) BY <1>2 DEF Split
  <2> QED BY <1>1, <2>1, UniformTiles
<1>3. CASE s.kind = "named"
  <2>1. ps \in NamedSplit(g, s.names, n) BY <1>3 DEF Split
  <2> DEFINE names == s.names
  <2>2. names \in Seq([at : Int, module : STRING]) OBVIOUS
  <2> HIDE DEF names
  <2>3. ASSUME ps \in NamedSplit(g, names, n) PROVE Tiled(g, ps)
    BY <1>1, <2>2, <2>3, NamedTile
  <2> QED BY <2>1, <2>3 DEF names
<1>4. CASE s.kind # "uniform" /\ s.kind # "named" /\ s.kind = "memory" /\ s.slot > 0
  <2>1. ps \in MemorySplit(g, s, n) BY <1>4 DEF Split
  <2> QED BY <2>1, MemoryTiles
<1>5. CASE s.kind # "uniform" /\ s.kind # "named" /\ ~(s.kind = "memory" /\ s.slot > 0)
  <2>1. ps \in CostSplit(g, s, n, t) BY <1>5 DEF Split
  <2> QED BY <2>1, CostTiles
<1> QED BY <1>2, <1>3, <1>4, <1>5

Fleet == Seq([cap : Nat, speed : Nat, link : Nat])

LEMMA DeviceTermsFor ==
  ASSUME NEW f \in Fleet, Len(f) # 0, NEW s
  PROVE  TermsFor(device_terms(s, f), Len(f))
<1> DEFINE n == Len(f)
           total == SumFunction(Speeds(f))
           mean == Timed(s, f) /\ ~Heterogeneous(f)
           t == device_terms(s, f)
           sp == CASE mean -> [p \in DOMAIN f |-> total]
                   [] Heterogeneous(f) -> Speeds(f)
                   [] OTHER -> <<>>
           ln == IF Timed(s, f) THEN LinkSpeeds(f) ELSE <<>>
<1>1. n \in Nat \ {0} /\ DOMAIN f = 1 .. n /\ \A p \in 1 .. n : f[p].speed \in Nat /\ f[p].link \in Nat
  <2>1. Len(f) \in Nat /\ DOMAIN f = 1 .. Len(f)
        /\ \A p \in 1 .. Len(f) : f[p] \in [cap : Nat, speed : Nat, link : Nat]
    <3> DEFINE W == [cap : Nat, speed : Nat, link : Nat]
    <3>1. f \in Seq(W) BY DEF Fleet
    <3> HIDE DEF W
    <3>2. Len(f) \in Nat /\ DOMAIN f = 1 .. Len(f) /\ \A p \in 1 .. Len(f) : f[p] \in W BY <3>1
    <3> QED BY <3>2 DEF W
  <2>2. \A p \in 1 .. Len(f) : f[p].speed \in Nat /\ f[p].link \in Nat BY <2>1
  <2> QED BY <2>1, <2>2
<1>2. t.per = (IF mean THEN Len(f) ELSE 1) /\ t.speeds = sp /\ t.links = ln BY DEF device_terms
<1> HIDE DEF t
<1>3. t.per \in Nat BY <1>1, <1>2
<1>4. Speeds(f) \in [1 .. n -> Nat] /\ \A p \in 1 .. n : Speeds(f)[p] = f[p].speed
  BY <1>1 DEF Speeds
<1>5. ASSUME Known(f) PROVE Speeds(f) \in Seq(Nat \ {0}) /\ Len(Speeds(f)) = n /\ total \in Nat \ {0}
  <2>1. \A p \in 1 .. n : Speeds(f)[p] \in Nat \ {0} /\ Speeds(f)[p] > 0
    BY <1>1, <1>4, <1>5 DEF Known
  <2>2. Speeds(f) \in [1 .. n -> Nat \ {0}] BY <1>4, <2>1
  <2>3. Speeds(f) \in Seq(Nat \ {0}) /\ Len(Speeds(f)) = n BY <1>1, <2>2, AsSequence
  <2>4. IsFiniteSet(1 .. n) /\ 1 .. n # {}
    <3>1. n \in Int /\ 1 \in Int /\ 1 \in 1 .. n BY <1>1
    <3> HIDE DEF n
    <3> QED BY <3>1, FS_Interval
  <2> DEFINE S == 1 .. n
             fun == Speeds(f)
  <2>5. IsFiniteSet(S) /\ S # {} /\ fun \in [S -> Nat] /\ \A p \in S : fun[p] > 0
    BY <1>4, <2>1, <2>4
  <2> HIDE DEF S, fun
  <2>6. SumFunction(fun) \in Nat /\ SumFunction(fun) > 0 BY <2>5, SumTyped
  <2> QED BY <2>3, <2>6 DEF fun
<1>6. Timed(s, f) => Known(f) BY DEF Timed
<1>7. Heterogeneous(f) => Known(f) BY DEF Heterogeneous
<1> HIDE DEF total
<1>8. t.speeds \in Seq(Nat \ {0}) /\ (t.speeds = <<>> \/ Len(t.speeds) = n)
  <2>1. CASE mean
    <3>1. t.speeds = [p \in 1 .. n |-> total] /\ total \in Nat \ {0}
      BY <1>1, <1>2, <1>5, <1>6, <2>1
    <3>2. t.speeds \in [1 .. n -> Nat \ {0}] BY <3>1
    <3> QED BY <1>1, <3>2, AsSequence
  <2>2. CASE ~mean /\ Heterogeneous(f) BY <1>2, <1>5, <1>7, <2>2
  <2>3. CASE ~mean /\ ~Heterogeneous(f) BY <1>2, <2>3
  <2> QED BY <2>1, <2>2, <2>3
<1>9. t.links \in Seq(Nat \ {0})
  <2>1. CASE Timed(s, f)
    <3>1. LinkSpeeds(f) \in [1 .. n - 1 -> Nat] /\ n - 1 \in Nat BY <1>1 DEF LinkSpeeds
    <3>2. 0 \notin ToSet(LinkSpeeds(f)) BY <2>1 DEF Timed
    <3>3. \A p \in 1 .. n - 1 : LinkSpeeds(f)[p] # 0 BY <3>1, <3>2 DEF ToSet
    <3>4. LinkSpeeds(f) \in [1 .. n - 1 -> Nat \ {0}] BY <3>1, <3>3
    <3>5. LinkSpeeds(f) \in Seq(Nat \ {0}) BY <3>1, <3>4, AsSequence
    <3> QED BY <1>2, <2>1, <3>5
  <2>2. CASE ~Timed(s, f) BY <1>2, <2>2
  <2> QED BY <2>1, <2>2
<1> QED BY <1>3, <1>8, <1>9 DEF TermsFor, t

LEMMA PlanTiles ==
  ASSUME NEW g, Regular(g), Costed(g), NEW s, s.names \in Seq([at : Int, module : STRING]),
         NEW f \in Fleet, Len(f) # 0, NEW old, Tiled(g, old), NEW ps \in plan(g, s, old, f)
  PROVE  Tiled(g, ps) /\ validate(g, ps)
<1> DEFINE t == IF AcceptsNodes(s) THEN device_terms(s, f) ELSE NoTerms
<1>1. validate(g, ps) BY DEF plan
<1>2. ps = old \/ ps \in Split(g, s, Len(f), t) BY DEF plan
<1>3. TermsFor(t, Len(f)) BY DeviceTermsFor, NoTermsFor
<1>4. Len(f) \in Nat \ {0} BY DEF Fleet
<1> HIDE DEF t
<1> QED BY <1>1, <1>2, <1>3, <1>4, SplitTiles

--------------------
(* A packed model is a chain. *)

LEMMA ChainIsRegular ==
  ASSUME NEW m, IsModel(m)
  PROVE  Regular(Chain(m)) /\ Costed(Chain(m))
<1> DEFINE n == Len(m.fx)
           g == Chain(m)
           preds(i) == IF i > 1 THEN <<i - 1>> ELSE <<>>
<1>1. n \in Nat \ {0} /\ DOMAIN m.fx = 1 .. n
      /\ \A i \in 1 .. n : /\ m.fx[i].flops \in Nat /\ m.fx[i].bytes \in Nat /\ IsFiniteSet(m.fx[i].params)
                           /\ m.fx[i].params \subseteq [id : Nat, size : Nat, trains : BOOLEAN]
  BY DEF IsModel, IsFxNode
<1>2. g = [i \in 1 .. n |-> LayerNode(preds(i), i = 1, m.fx[i])] BY <1>1 DEF Chain
<1> HIDE DEF n
<1>3. DOMAIN g = 1 .. n /\ Len(g) = n BY <1>1, <1>2
<1>4. \A i \in 1 .. n : /\ g[i].preds = preds(i) /\ g[i].takesInput = (i = 1)
                        /\ g[i].flops = m.fx[i].flops /\ g[i].bytes = m.fx[i].bytes /\ g[i].params = m.fx[i].params
  BY <1>2 DEF LayerNode
<1> HIDE DEF g
<1>5. \A i \in 1 .. n : preds(i) \in Seq(1 .. i - 1)
  <2> SUFFICES ASSUME NEW i \in 1 .. n PROVE preds(i) \in Seq(1 .. i - 1)
    OBVIOUS
  <2> DEFINE N == 1 .. i - 1
  <2>1. i > 1 => i - 1 \in N BY <1>1
  <2> HIDE DEF N
  <2>2. preds(i) \in Seq(N) BY <2>1
  <2> QED BY <2>2 DEF N
<1>6. \A i \in 1 .. n : (i = 1) => preds(i) = <<>> OBVIOUS
<1>7. ASSUME NEW i \in 1 .. n - 1 PROVE Successors(g, i) # {}
  <2>1. i + 1 \in 1 .. n /\ i + 1 > 1 /\ (i + 1) - 1 = i BY <1>1
  <2>2. g[i + 1].preds = <<i>> BY <1>4, <2>1, ZenonT(30)
  <2>3. i \in ToSet(g[i + 1].preds) BY <2>2 DEF ToSet
  <2> QED BY <1>3, <2>1, <2>3 DEF Successors
<1> HIDE DEF preds
<1>8. Regular(g)
  <2>1. \A i \in 1 .. n : g[i].preds \in Seq(1 .. i - 1) BY <1>4, <1>5
  <2>2. \A i \in 1 .. n : g[i].takesInput \in BOOLEAN /\ (g[i].takesInput => g[i].preds = <<>>)
    BY <1>4, <1>6
  <2> QED BY <1>1, <1>3, <1>7, <2>1, <2>2 DEF Regular
<1>9. Costed(g) BY <1>1, <1>3, <1>4, SMTT(30) DEF Costed
<1> QED BY <1>8, <1>9 DEF g

--------------------
(* What the output depends on. *)

ArgsOf(m, k) == ToSet(m.fx[k].args)

LEMMA ArgsBefore ==
  ASSUME NEW m, IsModel(m), NEW k \in 1 .. Len(m.fx)
  PROVE  /\ m.fx[k].args \in Seq(1 .. k - 1) /\ DOMAIN m.fx[k].args = 1 .. Len(m.fx[k].args)
         /\ Len(m.fx[k].args) \in Nat
         /\ \A j \in DOMAIN m.fx[k].args : m.fx[k].args[j] \in 1 .. k - 1
         /\ ArgsOf(m, k) \subseteq 1 .. k - 1
<1> DEFINE s == m.fx[k].args
           N == 1 .. k - 1
<1>1. s \in Seq(N) BY DEF IsModel
<1> HIDE DEF s, N
<1>2. DOMAIN s = 1 .. Len(s) /\ Len(s) \in Nat /\ \A j \in DOMAIN s : s[j] \in N BY <1>1
<1>3. ToSet(s) \subseteq N BY <1>2 DEF ToSet
<1> QED BY <1>1, <1>2, <1>3 DEF s, N, ArgsOf

LEMMA LiveFacts ==
  ASSUME NEW m, IsModel(m), m.out # 0
  PROVE  /\ Live(m) \subseteq 1 .. m.out /\ m.out \in Live(m)
         /\ m.out \in 1 .. Len(m.fx)
         /\ \A k \in Live(m) : ArgsOf(m, k) \subseteq Live(m)
         /\ \A k \in Live(m) \ {m.out} : \E j \in Live(m) : k \in ArgsOf(m, j)
<1> DEFINE n == Len(m.fx)
           out == m.out
           Eq(h) == h = [k \in 1 .. n + 1 |->
                          IF k > n THEN {out}
                          ELSE h[k + 1] \cup (IF k \in h[k + 1] THEN ArgsOf(m, k) ELSE {})]
           from == CHOOSE h : Eq(h)
           S == SUBSET (1 .. n)
           add(T, k) == T \cup (IF k \in T THEN ArgsOf(m, k) ELSE {})
           step == [q \in 1 .. n |-> [T \in S |-> add(T, (n + 1) - q)]]
<1>1. n \in Nat \ {0} /\ out \in 1 .. n BY DEF IsModel
<1>2. \A k \in 1 .. n : ArgsOf(m, k) \subseteq 1 .. k - 1 BY ArgsBefore
<1>3. Live(m) = from[1] BY DEF Live, ArgsOf
<1> HIDE DEF n, out
<1>4. step \in [1 .. n -> [S -> S]] /\ \A q \in 1 .. n : \A T \in S : step[q][T] = add(T, (n + 1) - q)
  <2> SUFFICES ASSUME NEW q \in 1 .. n, NEW T \in S PROVE add(T, (n + 1) - q) \in S
    OBVIOUS
  <2>1. (n + 1) - q \in 1 .. n BY <1>1
  <2>2. ArgsOf(m, (n + 1) - q) \subseteq 1 .. n BY <1>1, <1>2, <2>1
  <2> QED BY <2>2
<1>5. {out} \in S BY <1>1
<1> DEFINE start == {out}
<1> HIDE DEF step, S, start
<1>6. PICK f \in Stepwise(n, S, start, step) : TRUE
  <2>1. start \in S /\ n \in Nat BY <1>1, <1>5 DEF start
  <2> QED BY <1>4, <2>1, StepByStep
<1>7. f \in [0 .. n -> S] /\ f[0] = start /\ \A q \in 1 .. n : f[q] = step[q][f[q - 1]]
  BY <1>6 DEF Stepwise
<1>8. \A q \in 1 .. n : f[q] = add(f[q - 1], (n + 1) - q)
  <2> SUFFICES ASSUME NEW q \in 1 .. n PROVE f[q] = add(f[q - 1], (n + 1) - q)
    OBVIOUS
  <2>1. q - 1 \in 0 .. n BY <1>1
  <2>2. f[q - 1] \in S BY <1>7, <2>1
  <2> HIDE DEF add
  <2> QED BY <1>4, <1>7, <2>2
<1> DEFINE h == [k \in 1 .. n + 1 |-> f[(n + 1) - k]]
<1>9. Eq(h)
  <2> SUFFICES ASSUME NEW k \in 1 .. n + 1
               PROVE  f[(n + 1) - k] = IF k > n THEN {out} ELSE h[k + 1] \cup (IF k \in h[k + 1] THEN ArgsOf(m, k) ELSE {})
    OBVIOUS
  <2>1. CASE k > n
    <3>1. (n + 1) - k = 0 BY <1>1, <2>1
    <3> QED BY <1>7, <2>1, <3>1 DEF start
  <2>2. CASE ~(k > n)
    <3>1. /\ (n + 1) - k \in 1 .. n /\ k + 1 \in 1 .. n + 1
          /\ (n + 1) - ((n + 1) - k) = k /\ ((n + 1) - k) - 1 = (n + 1) - (k + 1)
      BY <1>1, <2>2
    <3>2. h[k + 1] = f[(n + 1) - (k + 1)] BY <3>1
    <3>3. f[(n + 1) - k] = add(f[((n + 1) - k) - 1], (n + 1) - ((n + 1) - k))
      <4> HIDE DEF add
      <4> QED BY <1>8, <3>1
    <3>4. f[(n + 1) - k] = add(h[k + 1], k) BY <3>1, <3>2, <3>3
    <3> HIDE DEF h
    <3> QED BY <2>2, <3>4
  <2> QED BY <2>1, <2>2
<1>10. Eq(from)
  <2> HIDE DEF Eq, h
  <2> QED BY <1>9
<1> HIDE DEF from
<1>11. from[n + 1] = {out} /\ \A k \in 1 .. n : from[k] = from[k + 1] \cup (IF k \in from[k + 1] THEN ArgsOf(m, k) ELSE {})
  <2>1. \A k \in 1 .. n + 1 : from[k] = IF k > n THEN {out} ELSE from[k + 1] \cup (IF k \in from[k + 1] THEN ArgsOf(m, k) ELSE {})
    BY <1>10
  <2>2. n + 1 \in 1 .. n + 1 /\ n + 1 > n /\ \A k \in 1 .. n : k \in 1 .. n + 1 /\ ~(k > n)
    BY <1>1
  <2> HIDE DEF Eq
  <2> QED BY <2>1, <2>2
<1> DEFINE Good(T, k) == /\ T \subseteq 1 .. out /\ out \in T
                         /\ \A j \in T : j >= k => ArgsOf(m, j) \subseteq T
                         /\ \A j \in T \ {out} : \E u \in T : j \in ArgsOf(m, u)
<1>12. \A q \in 0 .. n : Good(from[(n + 1) - q], (n + 1) - q)
  <2> DEFINE T == {q \in 0 .. n : Good(from[(n + 1) - q], (n + 1) - q)}
  <2>1. 0 \in T
    <3>1. (n + 1) - 0 = n + 1 BY <1>1
    <3>2. Good({out}, n + 1) BY <1>1
    <3> HIDE DEF Good
    <3>3. 0 \in 0 .. n BY <1>1
    <3> QED BY <1>11, <3>1, <3>2, <3>3
  <2>2. ASSUME NEW q \in 0 .. n - 1, q \in T PROVE q + 1 \in T
    <3> DEFINE k == (n + 1) - (q + 1)
               Old == from[k + 1]
               New == from[k]
    <3>1. k \in 1 .. n /\ k + 1 = (n + 1) - q /\ q + 1 \in 0 .. n BY <1>1
    <3>2. Good(Old, k + 1) BY <2>2, <3>1
    <3>3. New = Old \cup (IF k \in Old THEN ArgsOf(m, k) ELSE {}) BY <1>11, <3>1
    <3> HIDE DEF k, Old, New
    <3>4. ArgsOf(m, k) \subseteq 1 .. k - 1 BY <1>2, <3>1
    <3>5. Old \subseteq 1 .. out /\ out \in Old /\ Old \subseteq New BY <3>2, <3>3
    <3>6. New \subseteq 1 .. out
      <4>1. CASE k \in Old
        <5>1. k \in 1 .. out BY <3>5, <4>1
        <5>2. 1 .. k - 1 \subseteq 1 .. out BY <1>1, <5>1
        <5> QED BY <3>3, <3>4, <3>5, <5>2
      <4>2. CASE k \notin Old BY <3>3, <3>5, <4>2
      <4> QED BY <4>1, <4>2
    <3>7. ASSUME NEW j \in New, j >= k PROVE ArgsOf(m, j) \subseteq New
      <4>1. j \in Int /\ k \in Int BY <1>1, <3>1, <3>6, <3>7
      <4>2. j \in Old
        <5>1. j \notin ArgsOf(m, k) BY <3>1, <3>4, <3>7, <4>1
        <5> QED BY <3>3, <5>1
      <4>3. CASE j = k BY <3>3, <4>2, <4>3
      <4>4. CASE j >= k + 1
        <5>1. ArgsOf(m, j) \subseteq Old BY <3>2, <4>2, <4>4
        <5> QED BY <3>5, <5>1
      <4> QED BY <3>7, <4>1, <4>3, <4>4
    <3>8. ASSUME NEW j \in New \ {out} PROVE \E u \in New : j \in ArgsOf(m, u)
      <4>1. CASE j \in Old BY <3>2, <3>5, <3>8, <4>1
      <4>2. CASE j \notin Old
        <5>1. k \in Old /\ j \in ArgsOf(m, k) BY <3>3, <4>2
        <5> QED BY <3>5, <5>1
      <4> QED BY <4>1, <4>2
    <3>9. Good(New, k) BY <3>5, <3>6, <3>7, <3>8
    <3> HIDE DEF Good
    <3> QED BY <3>1, <3>9 DEF New, k
  <2>3. \A q \in 0 .. n : q \in T
    <3>1. n \in Nat BY <1>1
    <3> HIDE DEF T
    <3> QED BY <2>1, <2>2, <3>1, UpTo
  <2> HIDE DEF Good
  <2> QED BY <2>3
<1>13. Good(from[1], 1)
  <2>1. n \in 0 .. n /\ (n + 1) - n = 1 BY <1>1
  <2> HIDE DEF Good
  <2> QED BY <1>12, <2>1
<1>14. \A j \in from[1] : ArgsOf(m, j) \subseteq from[1]
  <2>1. \A j \in from[1] : j >= 1 BY <1>1, <1>13
  <2> QED BY <1>13, <2>1
<1> QED BY <1>1, <1>3, <1>13, <1>14 DEF out, n

--------------------
(* The arguments a layer keeps. *)

LEMMA ElementsKept ==
  ASSUME NEW N, NEW seq \in Seq(N), NEW places, places \subseteq DOMAIN seq
  PROVE  LET kept == ElementsAt(seq, places)
         IN  /\ kept \in Seq(N) /\ Len(kept) = Cardinality(places) /\ Cardinality(places) \in Nat
             /\ DOMAIN kept = 1 .. Cardinality(places)
             /\ \A n \in DOMAIN kept : \E j \in places : kept[n] = seq[j]
             /\ \A j \in places : \E n \in DOMAIN kept : kept[n] = seq[j]
<1> DEFINE A == Ascending(places)
           c == Cardinality(places)
           kept == ElementsAt(seq, places)
<1>1. Len(seq) \in Nat /\ places \subseteq 1 .. Len(seq) /\ \A j \in places : seq[j] \in N
  OBVIOUS
<1>2. /\ c \in Nat /\ A \in [1 .. c -> places]
      /\ \A i \in places : Rank(places, i) \in 1 .. c /\ A[Rank(places, i)] = i
  BY <1>1, AscendingLists
<1> HIDE DEF A, c
<1>3. kept = [n \in 1 .. c |-> seq[A[n]]] BY <1>2 DEF ElementsAt, A
<1>4. kept \in [1 .. c -> N] BY <1>1, <1>2, <1>3
<1>5. kept \in Seq(N) /\ Len(kept) = c /\ DOMAIN kept = 1 .. c BY <1>2, <1>4, AsSequence
<1>6. \A n \in 1 .. c : A[n] \in places /\ kept[n] = seq[A[n]] BY <1>2, <1>3
<1> HIDE DEF kept
<1>7. \A j \in places : \E n \in 1 .. c : kept[n] = seq[j] BY <1>2, <1>6
<1> QED BY <1>2, <1>5, <1>6, <1>7 DEF kept, c

\* All the elements of a sequence are the sequence.
LEMMA AllKept ==
  ASSUME NEW N, NEW seq \in Seq(N)
  PROVE  ElementsAt(seq, DOMAIN seq) = seq
<1> DEFINE n == Len(seq)
           S == 1 .. n
           A == Ascending(S)
<1>1. n \in Nat /\ DOMAIN seq = S /\ seq = [i \in S |-> seq[i]] OBVIOUS
<1>2. /\ Cardinality(S) = n /\ A \in [1 .. Cardinality(S) -> S]
      /\ \A i \in S : Rank(S, i) \in 1 .. Cardinality(S) /\ A[Rank(S, i)] = i
  <2>1. Cardinality(S) = n BY <1>1, FS_Interval
  <2>2. S \subseteq 1 .. n /\ n \in Nat BY <1>1
  <2> HIDE DEF S, n
  <2> QED BY <2>1, <2>2, AscendingLists
<1>3. \A i \in S : Rank(S, i) = i
  <2> SUFFICES ASSUME NEW i \in S PROVE Rank(S, i) = i
    OBVIOUS
  <2>1. {j \in S : j <= i} = 1 .. i /\ i \in Nat BY <1>1
  <2>2. Cardinality(1 .. i) = i BY <2>1, FS_Interval
  <2> QED BY <2>1, <2>2 DEF Rank
<1>4. DOMAIN A = S /\ \A i \in S : A[i] = i BY <1>2, <1>3
<1> HIDE DEF A, S
<1>5. ElementsAt(seq, S) = [i \in S |-> seq[i]] BY <1>4 DEF ElementsAt, A
<1> QED BY <1>1, <1>5

LEMMA ArgsFacts ==
  ASSUME NEW m, IsModel(m), NEW k \in 1 .. Len(m.fx)
  PROVE  /\ Args(m, k) \in Seq(1 .. k - 1)
         /\ \A a : a \in ToSet(Args(m, k)) <=> a \in ArgsOf(m, k)
         /\ \A i, j \in DOMAIN Args(m, k) : Args(m, k)[i] \in ArgsOf(m, k)
<1> DEFINE seq == m.fx[k].args
           places == {j \in DOMAIN seq : \A i \in 1 .. j - 1 : seq[i] # seq[j]}
           kept == ElementsAt(seq, places)
           N == 1 .. k - 1
<1>1. seq \in Seq(N) /\ DOMAIN seq = 1 .. Len(seq) /\ Len(seq) \in Nat BY ArgsBefore
<1>2. Args(m, k) = kept BY DEF Args
<1>3. places \subseteq DOMAIN seq OBVIOUS
<1>4. ASSUME NEW i \in DOMAIN seq PROVE \E j \in places : seq[j] = seq[i]
  <2> DEFINE T == {j \in DOMAIN seq : seq[j] = seq[i]}
  <2>1. T \subseteq Nat /\ i \in T
    <3> HIDE DEF seq
    <3> QED BY <1>1, <1>4
  <2>2. PICK j \in T : \A l \in T : j <= l
    <3> HIDE DEF T
    <3> QED BY <2>1, LeastOne
  <2>3. j \in DOMAIN seq /\ seq[j] = seq[i] OBVIOUS
  <2>4. ASSUME NEW l \in 1 .. j - 1 PROVE seq[l] # seq[j]
    <3> HIDE DEF seq
    <3>1. l \in DOMAIN seq /\ l < j BY <1>1, <2>3, <2>4
    <3>2. l \in Nat /\ j \in Nat BY <1>1, <2>3, <3>1
    <3> QED BY <2>2, <2>3, <3>1, <3>2
  <2> QED BY <2>3, <2>4
<1> HIDE DEF seq, places, N
<1>5. /\ kept \in Seq(N) /\ DOMAIN kept = 1 .. Cardinality(places)
      /\ \A n \in DOMAIN kept : \E j \in places : kept[n] = seq[j]
      /\ \A j \in places : \E n \in DOMAIN kept : kept[n] = seq[j]
  <2>1. LET kp == ElementsAt(seq, places)
        IN  /\ kp \in Seq(N) /\ Len(kp) = Cardinality(places) /\ Cardinality(places) \in Nat
            /\ DOMAIN kp = 1 .. Cardinality(places)
            /\ \A n \in DOMAIN kp : \E j \in places : kp[n] = seq[j]
            /\ \A j \in places : \E n \in DOMAIN kp : kp[n] = seq[j]
    BY <1>1, <1>3, ElementsKept
  <2> QED BY <2>1
<1> HIDE DEF kept
<1>6. \A a : a \in ToSet(kept) <=> a \in ToSet(seq)
  <2>1. ASSUME NEW a \in ToSet(kept) PROVE a \in ToSet(seq)
    BY <1>3, <1>5 DEF ToSet
  <2>2. ASSUME NEW a \in ToSet(seq) PROVE a \in ToSet(kept)
    <3>1. PICK i \in DOMAIN seq : seq[i] = a BY DEF ToSet
    <3>2. PICK j \in places : seq[j] = a BY <1>4, <3>1
    <3>3. PICK n \in DOMAIN kept : kept[n] = a BY <1>5, <3>2
    <3> QED BY <3>3 DEF ToSet
  <2> QED BY <2>1, <2>2
<1>7. \A i \in DOMAIN kept : kept[i] \in ToSet(kept) BY DEF ToSet
<1> QED BY <1>2, <1>5, <1>6, <1>7 DEF ArgsOf, seq, N

--------------------
(* The layers of a traced model. *)

Shift(m) == IF NeedsInputNode(m) THEN 1 ELSE 0

LEMMA TraceFacts ==
  ASSUME NEW m, IsModel(m), Traceable(m)
  PROVE  LET C == Computed(m)
             A == KeptNodes(m)
             c == Cardinality(C)
         IN  /\ c \in Nat \ {0} /\ A \in [1 .. c -> C] /\ DOMAIN A = 1 .. c /\ Len(A) = c
             /\ \A i \in 1 .. c : Rank(C, A[i]) = i
             /\ \A k \in C : Rank(C, k) \in 1 .. c /\ A[Rank(C, k)] = k
             /\ \A j, k \in C : j < k => Rank(C, j) < Rank(C, k)
             /\ C \subseteq 1 .. Len(m.fx) /\ A[c] = m.out /\ m.out \in C
             /\ \A k \in C : \A a \in ArgsOf(m, k) :
                  a \in 1 .. k - 1 /\ (a \in C \/ (a = 1 /\ 1 \in Placeholders(m)))
             /\ \A k \in C : k \notin Placeholders(m)
             /\ \A k \in C \ {m.out} : \E j \in C : k \in ArgsOf(m, j)
<1> DEFINE C == Computed(m)
           A == KeptNodes(m)
           c == Cardinality(C)
           n == Len(m.fx)
<1>1. /\ Live(m) \subseteq 1 .. m.out /\ m.out \in Live(m) /\ m.out \in 1 .. n
      /\ \A k \in Live(m) : ArgsOf(m, k) \subseteq Live(m)
      /\ \A k \in Live(m) \ {m.out} : \E j \in Live(m) : k \in ArgsOf(m, j)
  BY LiveFacts DEF Traceable
<1>2. /\ Placeholders(m) \cap Live(m) \subseteq {1} /\ m.out \notin Placeholders(m)
  BY DEF Traceable, ModelInput
<1>3. n \in Nat \ {0} BY DEF IsModel
<1>4. C \subseteq 1 .. n /\ m.out \in C /\ C \subseteq Live(m) /\ \A k \in C : k \notin Placeholders(m) /\ k <= m.out
  BY <1>1, <1>2, <1>3 DEF Computed
<1>5. /\ c \in Nat /\ A \in [1 .. c -> C] /\ Len(A) = c
      /\ \A i \in 1 .. c : Rank(C, A[i]) = i
      /\ \A k \in C : Rank(C, k) \in 1 .. c /\ A[Rank(C, k)] = k
  BY <1>3, <1>4, AscendingLists DEF KeptNodes
<1>6. \A j, k \in C : j < k => Rank(C, j) < Rank(C, k) BY <1>3, <1>4, Ranks
<1>7. c # 0 BY <1>4, <1>5
<1> HIDE DEF A, C, c
<1>8. A[c] = m.out
  <2> DEFINE k == A[c]
             o == m.out
  <2>1. c \in 1 .. c BY <1>5, <1>7
  <2>2. k \in C /\ Rank(C, k) = c BY <1>5, <2>1
  <2> HIDE DEF k
  <2>3. Rank(C, o) \in 1 .. c /\ o \in C BY <1>4, <1>5
  <2>4. k <= o /\ k \in 1 .. n /\ o \in 1 .. n BY <1>4, <2>2
  <2> HIDE DEF o
  <2>5. k < o => Rank(C, k) < Rank(C, o) BY <1>6, <2>2, <2>3
  <2>6. ~(k < o) BY <1>5, <2>2, <2>3, <2>5
  <2>7. k = o BY <1>3, <2>4, <2>6
  <2> QED BY <2>7 DEF k, o
<1>9. ASSUME NEW k \in C, NEW a \in ArgsOf(m, k)
      PROVE  a \in 1 .. k - 1 /\ (a \in C \/ (a = 1 /\ 1 \in Placeholders(m)))
  <2>1. a \in 1 .. k - 1 BY <1>4, <1>9, ArgsBefore
  <2>2. a \in Live(m) BY <1>1, <1>4, <1>9
  <2>3. a \notin Placeholders(m) => a \in C BY <2>2 DEF C, Computed
  <2>4. a \in Placeholders(m) => a = 1 BY <1>2, <2>2
  <2> QED BY <2>1, <2>3, <2>4
<1>10. ASSUME NEW k \in C \ {m.out} PROVE \E j \in C : k \in ArgsOf(m, j)
  <2>1. PICK j \in Live(m) : k \in ArgsOf(m, j) BY <1>1, <1>4
  <2>2. j \notin Placeholders(m)
    <3> SUFFICES ASSUME j \in Placeholders(m) PROVE FALSE
      OBVIOUS
    <3>1. j = 1 BY <1>2, <2>1
    <3>2. 1 \in 1 .. Len(m.fx) BY <1>3
    <3>3. ArgsOf(m, 1) \subseteq 1 .. 1 - 1 BY <3>2, ArgsBefore
    <3> QED BY <2>1, <3>1, <3>3
  <2> QED BY <2>1, <2>2 DEF C, Computed
<1> QED BY <1>4, <1>5, <1>6, <1>7, <1>8, <1>9, <1>10 DEF C, A, c

LEMMA NodeOfFacts ==
  ASSUME NEW m, IsModel(m), Traceable(m)
  PROVE  /\ \A a \in Computed(m) : NodeOf(m, a) = Shift(m) + Rank(Computed(m), a)
         /\ \A a \in Placeholders(m) : NodeOf(m, a) = Shift(m)
         /\ Shift(m) \in 0 .. 1
<1>1. \A k \in Computed(m) : k \notin Placeholders(m) BY DEF Computed
<1>2. ASSUME NEW a \in Computed(m) PROVE NodeOf(m, a) = Shift(m) + Rank(Computed(m), a)
  BY <1>1 DEF NodeOf, Shift, Rank
<1>3. ASSUME NEW a \in Placeholders(m) PROVE NodeOf(m, a) = Shift(m)
  BY <1>1 DEF NodeOf, Shift
<1> QED BY <1>2, <1>3 DEF Shift

\* The layers a node's values become.
Nodes(m, s) == [j \in DOMAIN s |-> NodeOf(m, s[j])]

LEMMA NodesMapped ==
  ASSUME NEW m, NEW s, NEW M, s \in Seq(M), NEW K \in Int, \A j \in DOMAIN s : NodeOf(m, s[j]) \in 1 .. K
  PROVE  /\ Nodes(m, s) \in Seq(1 .. K) /\ DOMAIN Nodes(m, s) = DOMAIN s
         /\ \A j \in DOMAIN s : Nodes(m, s)[j] = NodeOf(m, s[j]) /\ Nodes(m, s)[j] \in ToSet(Nodes(m, s))
<1> DEFINE N == 1 .. K
<1>1. Len(s) \in Nat /\ DOMAIN s = 1 .. Len(s) OBVIOUS
<1>2. Nodes(m, s) \in [1 .. Len(s) -> N] /\ \A j \in DOMAIN s : Nodes(m, s)[j] = NodeOf(m, s[j])
  BY <1>1 DEF Nodes
<1> HIDE DEF N
<1>3. Nodes(m, s) \in Seq(N) /\ DOMAIN Nodes(m, s) = DOMAIN s BY <1>1, <1>2, AsSequence
<1>4. \A j \in DOMAIN s : Nodes(m, s)[j] \in ToSet(Nodes(m, s)) BY <1>3 DEF ToSet
<1> QED BY <1>2, <1>3, <1>4 DEF N

LEMMA ArgNodes ==
  ASSUME NEW m, IsModel(m), Traceable(m), NEW k \in Computed(m)
  PROVE  /\ k \in 1 .. Len(m.fx) /\ Rank(Computed(m), k) \in Nat \ {0}
         /\ \A a \in ArgsOf(m, k) :
              /\ a \in 1 .. k - 1
              /\ NodeOf(m, a) \in 0 .. Shift(m) + Rank(Computed(m), k) - 1
              /\ NodeOf(m, a) = 0 => a = 1 /\ ReadsInput(m, k) /\ ~NeedsInputNode(m)
              /\ NodeOf(m, a) = 0 <=> a \in Placeholders(m) /\ ~NeedsInputNode(m)
<1> DEFINE C == Computed(m)
           r == Rank(C, k)
<1>1. /\ C \subseteq 1 .. Len(m.fx) /\ Cardinality(C) \in Nat
      /\ \A j \in C : Rank(C, j) \in 1 .. Cardinality(C)
      /\ \A i, j \in C : i < j => Rank(C, i) < Rank(C, j)
      /\ \A a \in ArgsOf(m, k) : a \in 1 .. k - 1 /\ (a \in C \/ (a = 1 /\ 1 \in Placeholders(m)))
      /\ \A j \in C : j \notin Placeholders(m)
  BY TraceFacts
<1>2. /\ \A a \in C : NodeOf(m, a) = Shift(m) + Rank(C, a)
      /\ \A a \in Placeholders(m) : NodeOf(m, a) = Shift(m)
      /\ Shift(m) \in 0 .. 1
  BY NodeOfFacts
<1>3. r \in Nat \ {0} /\ k \in 1 .. Len(m.fx) /\ Len(m.fx) \in Nat BY <1>1 DEF IsModel
<1>4. \A a \in ArgsOf(m, k) : a = 1 /\ 1 \in Placeholders(m) => ReadsInput(m, k)
  BY <1>1 DEF ReadsInput, ModelInput, ArgsOf, Placeholders, IsModel
<1>5. Shift(m) = 0 <=> ~NeedsInputNode(m) BY DEF Shift
<1> SUFFICES ASSUME NEW a \in ArgsOf(m, k)
             PROVE  /\ a \in 1 .. k - 1 /\ NodeOf(m, a) \in 0 .. Shift(m) + r - 1
                    /\ NodeOf(m, a) = 0 => a = 1 /\ ReadsInput(m, k) /\ ~NeedsInputNode(m)
                    /\ NodeOf(m, a) = 0 <=> a \in Placeholders(m) /\ ~NeedsInputNode(m)
  BY <1>3
<1> HIDE DEF C
<1>6. a \in 1 .. k - 1 BY <1>1
<1>7. CASE a \in C
  <2>1. a < k BY <1>3, <1>6
  <2>2. Rank(C, a) < r /\ Rank(C, a) \in 1 .. Cardinality(C) BY <1>1, <1>7, <2>1 DEF C
  <2>3. NodeOf(m, a) = Shift(m) + Rank(C, a) BY <1>2, <1>7
  <2> HIDE DEF r
  <2>4. NodeOf(m, a) \in 0 .. Shift(m) + r - 1 /\ NodeOf(m, a) # 0
    BY <1>1, <1>2, <1>3, <2>2, <2>3
  <2> QED BY <1>1, <1>6, <1>7, <2>4 DEF r
<1>8. CASE a = 1 /\ 1 \in Placeholders(m)
  <2>1. NodeOf(m, a) = Shift(m) /\ ReadsInput(m, k) BY <1>2, <1>4, <1>8
  <2> HIDE DEF r
  <2>2. NodeOf(m, a) \in 0 .. Shift(m) + r - 1 BY <1>2, <1>3, <2>1
  <2> QED BY <1>5, <1>6, <1>8, <2>1, <2>2 DEF r
<1> QED BY <1>1, <1>7, <1>8

LEMMA PredFacts ==
  ASSUME NEW m, IsModel(m), Traceable(m), NEW k \in Computed(m)
  PROVE  LET preds == Predecessors(m, k)
             alone == ReadsInput(m, k) /\ ~NeedsInputNode(m)
         IN  /\ preds \in Seq(1 .. Shift(m) + Rank(Computed(m), k) - 1)
             /\ alone => preds = <<>> /\ Args(m, k) = <<1>>
             /\ ~alone => \A a \in ArgsOf(m, k) : NodeOf(m, a) # 0 /\ NodeOf(m, a) \in ToSet(preds)
             /\ ~alone => \E s \in {Args(m, k), m.fx[k].args} :
                            /\ preds = Nodes(m, s) /\ s \in Seq(Nat) /\ \A j \in DOMAIN s : s[j] \in ArgsOf(m, k)
<1> DEFINE preds == Predecessors(m, k)
           alone == ReadsInput(m, k) /\ ~NeedsInputNode(m)
           r == Rank(Computed(m), k)
           K == Shift(m) + r - 1
           args == Args(m, k)
           raw == m.fx[k].args
           N == 1 .. k - 1
<1>1. /\ k \in 1 .. Len(m.fx) /\ r \in Nat \ {0}
      /\ \A a \in ArgsOf(m, k) :
           /\ a \in 1 .. k - 1 /\ NodeOf(m, a) \in 0 .. K
           /\ NodeOf(m, a) = 0 => alone
           /\ NodeOf(m, a) = 0 <=> a \in Placeholders(m) /\ ~NeedsInputNode(m)
  BY ArgNodes
<1>2. Shift(m) \in 0 .. 1 /\ Len(m.fx) \in Nat BY DEF Shift, IsModel
<1> HIDE DEF r
<1>3. K \in Int BY <1>1, <1>2
<1> HIDE DEF K
<1>4. /\ args \in Seq(N)
      /\ \A a : a \in ToSet(args) <=> a \in ArgsOf(m, k)
      /\ \A j \in DOMAIN args : args[j] \in ArgsOf(m, k)
  BY <1>1, ArgsFacts
<1>5. raw \in Seq(N) /\ \A j \in DOMAIN raw : raw[j] \in ArgsOf(m, k)
  BY <1>1, ArgsBefore DEF ArgsOf, ToSet
<1>6. N \subseteq Nat OBVIOUS
<1> DEFINE taken == IF IsAddWrapper(m, k) THEN raw ELSE ElementsAt(args, {j \in DOMAIN args : NodeOf(m, args[j]) # 0})
<1>7. preds = Nodes(m, taken) BY DEF Predecessors, Nodes
<1>8. IsAddWrapper(m, k) => \A j \in DOMAIN raw : NodeOf(m, raw[j]) # 0 BY DEF IsAddWrapper
<1> HIDE DEF args, raw, N, preds
<1>9. ASSUME ~alone
      PROVE  /\ taken = args \/ taken = raw
             /\ \A j \in DOMAIN taken : NodeOf(m, taken[j]) \in 1 .. K
             /\ \A a \in ArgsOf(m, k) : NodeOf(m, a) # 0 /\ \E j \in DOMAIN taken : taken[j] = a
  <2>1. \A a \in ArgsOf(m, k) : NodeOf(m, a) # 0 /\ NodeOf(m, a) \in 1 .. K BY <1>1, <1>3, <1>9
  <2>2. CASE IsAddWrapper(m, k)
    <3>1. taken = raw BY <2>2
    <3>2. \A a \in ArgsOf(m, k) : \E j \in DOMAIN raw : raw[j] = a BY DEF ArgsOf, ToSet, raw
    <3> HIDE DEF taken
    <3> QED BY <1>5, <2>1, <3>1, <3>2
  <2>3. CASE ~IsAddWrapper(m, k)
    <3>1. {j \in DOMAIN args : NodeOf(m, args[j]) # 0} = DOMAIN args BY <1>4, <2>1
    <3>2. ElementsAt(args, DOMAIN args) = args BY <1>4, AllKept
    <3>3. taken = args BY <2>3, <3>1, <3>2
    <3>4. \A a \in ArgsOf(m, k) : \E j \in DOMAIN args : args[j] = a BY <1>4 DEF ToSet
    <3> HIDE DEF taken
    <3> QED BY <1>4, <2>1, <3>3, <3>4
  <2> QED BY <2>2, <2>3
<1>10. ASSUME alone PROVE preds = <<>> /\ args = <<1>>
  <2>1. k \in {j \in Computed(m) : ReadsInput(m, j)} BY <1>10
  <2>2. ~(Len(args) > 1) BY <1>10, <2>1 DEF NeedsInputNode, args
  <2>3. 1 \in ArgsOf(m, k) /\ 1 \in Placeholders(m)
    BY <1>10 DEF ReadsInput, ModelInput, ArgsOf, Placeholders, IsModel
  <2>4. PICK j \in DOMAIN args : args[j] = 1 BY <1>4, <2>3 DEF ToSet
  <2>5. Len(args) = 1 /\ args[1] = 1
    <3>1. Len(args) \in Nat /\ DOMAIN args = 1 .. Len(args) BY <1>4
    <3>2. j \in 1 .. Len(args) BY <2>4, <3>1
    <3>3. j = 1 /\ Len(args) = 1 BY <2>2, <3>1, <3>2
    <3> QED BY <2>4, <3>3
  <2>6. args = <<1>> BY <1>4, <2>5
  <2>7. NodeOf(m, 1) = 0 BY <1>1, <1>10, <2>3
  <2>8. ~IsAddWrapper(m, k)
    <3>1. \E i \in DOMAIN raw : raw[i] = 1 BY <2>3 DEF ArgsOf, ToSet, raw
    <3> QED BY <1>8, <2>7, <3>1
  <2>9. {i \in DOMAIN args : NodeOf(m, args[i]) # 0} = {} BY <2>6, <2>7
  <2>10. taken = ElementsAt(args, {}) BY <2>8, <2>9
  <2>11. DOMAIN ElementsAt(args, {}) = 1 .. Cardinality({})
    <3>1. {} \subseteq DOMAIN args OBVIOUS
    <3> DEFINE none == {}
    <3>2. none \subseteq DOMAIN args OBVIOUS
    <3> HIDE DEF none
    <3>3. LET kp == ElementsAt(args, none)
          IN  /\ kp \in Seq(N) /\ Len(kp) = Cardinality(none) /\ Cardinality(none) \in Nat
              /\ DOMAIN kp = 1 .. Cardinality(none)
              /\ \A n \in DOMAIN kp : \E i \in none : kp[n] = args[i]
              /\ \A i \in none : \E n \in DOMAIN kp : kp[n] = args[i]
      BY <1>4, <3>2, ElementsKept
    <3> QED BY <3>3 DEF none
  <2>12. DOMAIN taken = {}
    <3>1. Cardinality({}) = 0 BY FS_EmptySet
    <3> HIDE DEF taken
    <3> QED BY <2>10, <2>11, <3>1
  <2> HIDE DEF taken
  <2>13. Nodes(m, taken) = <<>> BY <2>12 DEF Nodes
  <2> QED BY <1>7, <2>6, <2>13
<1>11. CASE alone
  <2>1. preds \in Seq(1 .. K) BY <1>10, <1>11
  <2> QED BY <1>10, <1>11, <2>1 DEF preds, args, K, r
<1>12. CASE ~alone
  <2>1. /\ taken = args \/ taken = raw
        /\ \A j \in DOMAIN taken : NodeOf(m, taken[j]) \in 1 .. K
        /\ \A a \in ArgsOf(m, k) : NodeOf(m, a) # 0 /\ \E j \in DOMAIN taken : taken[j] = a
    BY <1>9, <1>12
  <2> HIDE DEF taken, alone
  <2>2. taken \in Seq(N) /\ \A j \in DOMAIN taken : taken[j] \in ArgsOf(m, k)
    BY <1>4, <1>5, <2>1
  <2>3. /\ preds \in Seq(1 .. K) /\ DOMAIN preds = DOMAIN taken
        /\ \A j \in DOMAIN taken : preds[j] = NodeOf(m, taken[j]) /\ preds[j] \in ToSet(preds)
    BY <1>3, <1>7, <2>1, <2>2, NodesMapped
  <2>4. \A a \in ArgsOf(m, k) : NodeOf(m, a) # 0 /\ NodeOf(m, a) \in ToSet(preds) BY <2>1, <2>3
  <2>5. taken \in Seq(Nat)
    <3>1. Len(taken) \in Nat /\ DOMAIN taken = 1 .. Len(taken) /\ \A j \in 1 .. Len(taken) : taken[j] \in N
      BY <2>2
    <3>2. taken = [j \in 1 .. Len(taken) |-> taken[j]] BY <2>2, <3>1
    <3>3. taken \in [1 .. Len(taken) -> Nat] BY <1>6, <3>1, <3>2
    <3> QED BY <3>1, <3>3, AsSequence
  <2>6. \E s \in {args, raw} : preds = Nodes(m, s) /\ s \in Seq(Nat) /\ \A j \in DOMAIN s : s[j] \in ArgsOf(m, k)
    BY <1>7, <2>1, <2>2, <2>5
  <2> QED BY <1>12, <2>3, <2>4, <2>6 DEF preds, args, raw, K, r, alone
<1> QED BY <1>11, <1>12

\* Where the layers of a traced graph are.
LEMMA TracedLayers ==
  ASSUME NEW m, IsModel(m), Traceable(m)
  PROVE  LET g == Traced(m)
             C == Computed(m)
             A == KeptNodes(m)
             c == Cardinality(C)
             sh == Shift(m)
         IN  /\ Len(g) = sh + c /\ DOMAIN g = 1 .. sh + c
             /\ \A i \in 1 .. c :
                  g[sh + i] = LayerNode(Predecessors(m, A[i]), ReadsInput(m, A[i]) /\ ~NeedsInputNode(m), m.fx[A[i]])
             /\ sh = 1 => g[1] = LayerNode(<<>>, TRUE, InputNode)
<1> DEFINE A == KeptNodes(m)
           c == Cardinality(Computed(m))
           sh == Shift(m)
           layer(i) == LayerNode(Predecessors(m, A[i]), ReadsInput(m, A[i]) /\ ~NeedsInputNode(m), m.fx[A[i]])
           nodes == [i \in 1 .. c |-> layer(i)]
           first == LayerNode(<<>>, TRUE, InputNode)
           pre == IF NeedsInputNode(m) THEN <<first>> ELSE <<>>
           S == {layer(i) : i \in 1 .. c} \cup {first}
<1>1. c \in Nat \ {0} /\ DOMAIN A = 1 .. c BY TraceFacts
<1>2. Traced(m) = pre \o nodes BY <1>1 DEF Traced
<1>3. \A i \in 1 .. c : layer(i) \in S OBVIOUS
<1>4. first \in S OBVIOUS
<1> HIDE DEF layer, first, S, c
<1>5. nodes \in [1 .. c -> S] /\ \A i \in 1 .. c : nodes[i] = layer(i) BY <1>3
<1> HIDE DEF nodes
<1>6. nodes \in Seq(S) /\ Len(nodes) = c /\ DOMAIN nodes = 1 .. c BY <1>1, <1>5, AsSequence
<1>7. CASE NeedsInputNode(m)
  <2>1. sh = 1 /\ pre = <<first>> BY <1>7 DEF Shift
  <2> DEFINE g == <<first>> \o nodes
  <2>2. g \in Seq(S) /\ Len(g) = c + 1 /\ g[1] = first /\ \A i \in 1 .. c : g[i + 1] = nodes[i]
    BY <1>1, <1>4, <1>6
  <2> HIDE DEF g
  <2>3. Len(g) = sh + c /\ DOMAIN g = 1 .. sh + c BY <1>1, <2>1, <2>2
  <2>4. \A i \in 1 .. c : g[sh + i] = layer(i)
    <3>1. \A i \in 1 .. c : sh + i = i + 1 BY <1>1, <2>1
    <3> HIDE DEF sh
    <3> QED BY <1>5, <2>2, <3>1
  <2>5. Traced(m) = g BY <1>2, <2>1 DEF g
  <2> QED BY <2>2, <2>3, <2>4, <2>5 DEF layer, first, c
<1>8. CASE ~NeedsInputNode(m)
  <2>1. sh = 0 /\ pre = <<>> BY <1>8 DEF Shift
  <2>2. <<>> \o nodes = nodes BY <1>6
  <2>3. Traced(m) = nodes BY <1>2, <2>1, <2>2
  <2>4. \A i \in 1 .. c : sh + i = i BY <1>1, <2>1
  <2>5. sh + c = c BY <1>1, <2>1
  <2>6. \A i \in 1 .. c : nodes[sh + i] = layer(i) BY <1>5, <2>4
  <2> QED BY <1>6, <2>1, <2>3, <2>5, <2>6 DEF layer, c
<1> QED BY <1>7, <1>8

LEMMA TracedIsRegular ==
  ASSUME NEW m, IsModel(m), Traceable(m)
  PROVE  Regular(Traced(m)) /\ Costed(Traced(m))
<1> DEFINE g == Traced(m)
           C == Computed(m)
           A == KeptNodes(m)
           c == Cardinality(C)
           sh == Shift(m)
           alone(k) == ReadsInput(m, k) /\ ~NeedsInputNode(m)
<1>1. /\ Len(g) = sh + c /\ DOMAIN g = 1 .. sh + c
      /\ \A i \in 1 .. c :
           g[sh + i] = LayerNode(Predecessors(m, A[i]), ReadsInput(m, A[i]) /\ ~NeedsInputNode(m), m.fx[A[i]])
      /\ sh = 1 => g[1] = LayerNode(<<>>, TRUE, InputNode)
  BY TracedLayers
<1>2. /\ c \in Nat \ {0} /\ \A i \in 1 .. c : A[i] \in C /\ Rank(C, A[i]) = i
      /\ \A k \in C : Rank(C, k) \in 1 .. c /\ A[Rank(C, k)] = k
      /\ C \subseteq 1 .. Len(m.fx) /\ A[c] = m.out /\ m.out \in C
      /\ \A k \in C \ {m.out} : \E j \in C : k \in ArgsOf(m, j)
  BY TraceFacts
<1>3. sh \in 0 .. 1 /\ (sh = 1 <=> NeedsInputNode(m)) BY DEF Shift
<1>4. ASSUME NEW i \in 1 .. c
      PROVE  /\ g[sh + i].preds \in Seq(1 .. sh + i - 1)
             /\ g[sh + i].takesInput \in BOOLEAN /\ (g[sh + i].takesInput => g[sh + i].preds = <<>>)
             /\ ~alone(A[i]) => \A a \in ArgsOf(m, A[i]) : NodeOf(m, a) \in ToSet(g[sh + i].preds)
             /\ alone(A[i]) => ~NeedsInputNode(m)
             /\ g[sh + i].flops = m.fx[A[i]].flops /\ g[sh + i].bytes = m.fx[A[i]].bytes
             /\ g[sh + i].params = m.fx[A[i]].params
  <2> DEFINE k == A[i]
             preds == Predecessors(m, k)
             node == g[sh + i]
  <2>1. k \in C /\ Rank(C, k) = i BY <1>2
  <2>2. node = LayerNode(preds, ReadsInput(m, k) /\ ~NeedsInputNode(m), m.fx[k]) BY <1>1
  <2>3. node.preds = preds /\ node.takesInput = alone(k)
        /\ node.flops = m.fx[k].flops /\ node.bytes = m.fx[k].bytes /\ node.params = m.fx[k].params
    BY <2>2 DEF LayerNode
  <2>4. /\ preds \in Seq(1 .. sh + Rank(C, k) - 1)
        /\ alone(k) => preds = <<>>
        /\ ~alone(k) => \A a \in ArgsOf(m, k) : NodeOf(m, a) \in ToSet(preds)
    BY <2>1, PredFacts
  <2>5. alone(k) \in BOOLEAN BY DEF ReadsInput
  <2> HIDE DEF k, preds, node, alone
  <2>6. preds \in Seq(1 .. sh + i - 1) BY <2>1, <2>4
  <2>7. alone(k) => ~NeedsInputNode(m) BY DEF alone
  <2> QED BY <2>3, <2>4, <2>5, <2>6, <2>7 DEF k, node
<1>5. \A a \in C : NodeOf(m, a) = sh + Rank(C, a) BY NodeOfFacts
<1>6. ASSUME NEW i \in 1 .. c - 1 PROVE Successors(g, sh + i) # {}
  <2>1. i \in 1 .. c BY <1>2
  <2> DEFINE k == A[i]
  <2>2. k \in C /\ Rank(C, k) = i /\ Rank(C, m.out) = c BY <1>2, <2>1
  <2>3. k # m.out BY <1>2, <2>2
  <2>4. PICK j \in C : k \in ArgsOf(m, j) BY <1>2, <2>2, <2>3
  <2>5. Rank(C, j) \in 1 .. c /\ A[Rank(C, j)] = j BY <1>2
  <2>6. NodeOf(m, k) = sh + i BY <1>5, <2>2
  <2>7. ~alone(j)
    <3> SUFFICES ASSUME alone(j) PROVE FALSE
      OBVIOUS
    <3>1. Args(m, j) = <<1>> /\ j \in 1 .. Len(m.fx) BY <1>2, PredFacts
    <3>2. k \in ToSet(Args(m, j)) BY <2>4, <3>1, ArgsFacts
    <3>3. k = 1 BY <3>1, <3>2 DEF ToSet
    <3>4. 1 \in Placeholders(m) BY DEF ReadsInput, Placeholders, IsModel
    <3> QED BY <2>2, <3>3, <3>4 DEF Computed
  <2> DEFINE r == Rank(C, j)
  <2>8. NodeOf(m, k) \in ToSet(g[sh + r].preds) BY <1>4, <2>4, <2>5, <2>7
  <2>9. sh + r \in DOMAIN g
    <3> HIDE DEF r
    <3>1. r \in 1 .. c BY <2>5 DEF r
    <3> QED BY <1>1, <1>2, <1>3, <3>1
  <2> HIDE DEF r, k, g
  <2> QED BY <2>6, <2>8, <2>9 DEF Successors
<1>7. ASSUME sh = 1 PROVE Successors(g, 1) # {}
  <2>1. PICK u \in C : ReadsInput(m, u)
    <3> DEFINE users == {k \in C : ReadsInput(m, k)}
    <3>1. NeedsInputNode(m) BY <1>3, <1>7
    <3>2. Cardinality(users) > 1 \/ \E u \in users : Len(Args(m, u)) > 1
      BY <3>1 DEF NeedsInputNode
    <3>3. users # {} BY <3>2, FS_EmptySet
    <3> QED BY <3>3
  <2>2. 1 \in ArgsOf(m, u) /\ 1 \in Placeholders(m)
    BY <2>1 DEF ReadsInput, ModelInput, ArgsOf, Placeholders, IsModel
  <2>3. NodeOf(m, 1) = 1 BY <1>7, <2>2, NodeOfFacts
  <2>4. ~alone(u) BY <1>3, <1>7
  <2> DEFINE r == Rank(C, u)
  <2>5. r \in 1 .. c /\ A[r] = u BY <1>2
  <2> HIDE DEF r
  <2>6. NodeOf(m, 1) \in ToSet(g[sh + r].preds) BY <1>4, <2>2, <2>4, <2>5
  <2>7. sh + r \in DOMAIN g BY <1>1, <1>2, <1>3, <2>5
  <2> HIDE DEF g
  <2> QED BY <2>3, <2>6, <2>7 DEF Successors
<1>8. \A j \in 1 .. sh + c : (j = 1 /\ sh = 1) \/ (j - sh \in 1 .. c /\ sh + (j - sh) = j)
  BY <1>2, <1>3
<1> DEFINE input == LayerNode(<<>>, TRUE, InputNode)
<1>9. /\ input.preds = <<>> /\ input.takesInput = TRUE /\ input.flops = 0 /\ input.bytes = 0 /\ input.params = {}
  BY DEF LayerNode, InputNode
<1> HIDE DEF input
<1>10. sh = 1 => g[1] = input BY <1>1 DEF input
<1> HIDE DEF g, alone
<1>11. ASSUME NEW j \in DOMAIN g
       PROVE  /\ g[j].preds \in Seq(1 .. j - 1) /\ g[j].takesInput \in BOOLEAN
              /\ (g[j].takesInput => g[j].preds = <<>>)
  <2>1. CASE j = 1 /\ sh = 1
    <3>1. g[j] = input BY <1>10, <2>1
    <3>2. <<>> \in Seq(1 .. j - 1) OBVIOUS
    <3> QED BY <1>9, <3>1, <3>2
  <2>2. CASE j - sh \in 1 .. c /\ sh + (j - sh) = j
    <3> DEFINE i == j - sh
    <3>1. i \in 1 .. c /\ sh + i = j BY <2>2
    <3> HIDE DEF i, sh, c
    <3>2. /\ g[sh + i].preds \in Seq(1 .. sh + i - 1) /\ g[sh + i].takesInput \in BOOLEAN
          /\ (g[sh + i].takesInput => g[sh + i].preds = <<>>)
      BY <1>4, <3>1
    <3>3. sh + i - 1 = j - 1
      <4>1. sh \in Int /\ i \in Int BY <1>2, <1>3, <3>1
      <4> QED BY <3>1, <4>1
    <3> QED BY <3>1, <3>2, <3>3
  <2> QED BY <1>1, <1>8, <2>1, <2>2
<1>12. ASSUME NEW j \in 1 .. Len(g) - 1 PROVE Successors(g, j) # {}
  <2>1. CASE j = 1 /\ sh = 1 BY <1>7, <2>1
  <2>2. CASE j - sh \in 1 .. c /\ sh + (j - sh) = j
    <3> DEFINE i == j - sh
    <3>1. i \in 1 .. c - 1 /\ sh + i = j BY <1>1, <1>2, <1>3, <2>2
    <3> HIDE DEF i
    <3> QED BY <1>6, <3>1
  <2>3. j \in 1 .. sh + c BY <1>1, <1>2, <1>3
  <2> QED BY <1>8, <2>1, <2>2, <2>3
<1>13. Len(g) \in Nat \ {0} /\ DOMAIN g = 1 .. Len(g) BY <1>1, <1>2, <1>3
<1>14. Regular(g) BY <1>11, <1>12, <1>13 DEF Regular
<1>15. Costed(g)
  <2> SUFFICES ASSUME NEW j \in DOMAIN g
               PROVE  /\ g[j].flops \in Nat /\ g[j].bytes \in Nat /\ IsFiniteSet(g[j].params)
                      /\ g[j].params \subseteq [id : Nat, size : Nat, trains : BOOLEAN]
    BY DEF Costed
  <2>1. CASE j = 1 /\ sh = 1
    <3>1. g[j] = input BY <1>10, <2>1
    <3>2. IsFiniteSet({}) BY FS_EmptySet
    <3>3. g[j].flops = 0 /\ g[j].bytes = 0 /\ g[j].params = {} BY <1>9, <3>1
    <3>4. IsFiniteSet(g[j].params) /\ g[j].params \subseteq [id : Nat, size : Nat, trains : BOOLEAN]
      BY <3>2, <3>3
    <3> QED BY <3>3, <3>4
  <2>2. CASE j - sh \in 1 .. c /\ sh + (j - sh) = j
    <3> DEFINE i == j - sh
               k == A[i]
    <3>1. i \in 1 .. c /\ sh + i = j BY <2>2
    <3> HIDE DEF i
    <3>2. k \in 1 .. Len(m.fx) BY <1>2, <3>1
    <3>3. /\ m.fx[k].flops \in Nat /\ m.fx[k].bytes \in Nat /\ IsFiniteSet(m.fx[k].params)
          /\ m.fx[k].params \subseteq [id : Nat, size : Nat, trains : BOOLEAN]
      BY <3>2 DEF IsModel, IsFxNode
    <3>4. g[j].flops = m.fx[k].flops /\ g[j].bytes = m.fx[k].bytes /\ g[j].params = m.fx[k].params
      BY <1>4, <3>1
    <3> HIDE DEF k
    <3> QED BY <3>3, <3>4
  <2> QED BY <1>1, <1>8, <2>1, <2>2
<1> QED BY <1>14, <1>15 DEF g

\* What TraceKeepsEveryArgument says of a model and its graph.
KeepsArguments(m, g) ==
  LET from == (IF NeedsInputNode(m) THEN <<ModelInput>> ELSE <<>>) \o KeptNodes(m)
  IN /\ from[Len(g)] = m.out
     /\ \A i \in DOMAIN g \ {j \in DOMAIN g : from[j] = ModelInput} :
          LET read == [j \in DOMAIN g[i].preds |-> from[g[i].preds[j]]]
          IN IF g[i].takesInput THEN Args(m, from[i]) = <<ModelInput>> /\ read = <<>>
             ELSE read = Args(m, from[i]) \/ read = m.fx[from[i]].args

LEMMA TracedKeepsArguments ==
  ASSUME NEW m, IsModel(m), Traceable(m)
  PROVE  KeepsArguments(m, Traced(m))
<1> DEFINE g == Traced(m)
           C == Computed(m)
           A == KeptNodes(m)
           c == Cardinality(C)
           sh == Shift(m)
           alone(k) == ReadsInput(m, k) /\ ~NeedsInputNode(m)
           from == (IF NeedsInputNode(m) THEN <<ModelInput>> ELSE <<>>) \o A
<1>1. /\ Len(g) = sh + c /\ DOMAIN g = 1 .. sh + c
      /\ \A i \in 1 .. c :
           g[sh + i] = LayerNode(Predecessors(m, A[i]), ReadsInput(m, A[i]) /\ ~NeedsInputNode(m), m.fx[A[i]])
  BY TracedLayers
<1>2. /\ c \in Nat \ {0} /\ A \in [1 .. c -> C] /\ Len(A) = c
      /\ \A i \in 1 .. c : A[i] \in C /\ Rank(C, A[i]) = i
      /\ \A k \in C : Rank(C, k) \in 1 .. c /\ A[Rank(C, k)] = k
      /\ C \subseteq 1 .. Len(m.fx) /\ A[c] = m.out
      /\ \A k \in C : \A a \in ArgsOf(m, k) : a \in C \/ (a = 1 /\ 1 \in Placeholders(m))
  BY TraceFacts
<1>3. sh \in 0 .. 1 /\ (sh = 1 <=> NeedsInputNode(m)) BY DEF Shift
<1> HIDE DEF c, g
<1>4. A \in Seq(Nat)
  <2>1. C \subseteq Nat BY <1>2
  <2> HIDE DEF A, C
  <2>2. A \in [1 .. c -> Nat] /\ c \in Nat BY <1>2, <2>1
  <2> QED BY <2>2, AsSequence
<1>5. (\A i \in 1 .. c : from[sh + i] = A[i]) /\ (sh = 1 => from[1] = 1)
  <2>1. CASE NeedsInputNode(m)
    <3>1. from = <<1>> \o A /\ sh = 1 BY <1>3, <2>1 DEF ModelInput
    <3> HIDE DEF from, sh, A
    <3>2. from[1] = 1 /\ \A i \in 1 .. c : from[i + 1] = A[i] BY <1>2, <1>4, <3>1
    <3>3. \A i \in 1 .. c : sh + i = i + 1 BY <1>2, <3>1
    <3> QED BY <3>2, <3>3
  <2>2. CASE ~NeedsInputNode(m)
    <3>1. from = <<>> \o A /\ sh = 0 BY <1>3, <2>2 DEF Shift
    <3> HIDE DEF from, sh, A
    <3>2. from = A BY <1>4, <3>1
    <3>3. \A i \in 1 .. c : sh + i = i BY <1>2, <3>1
    <3> QED BY <3>1, <3>2, <3>3
  <2> QED BY <2>1, <2>2
<1> HIDE DEF from
<1>6. from[Len(g)] = m.out
  <2>1. c \in 1 .. c BY <1>2
  <2> QED BY <1>1, <1>2, <1>5, <2>1
<1>7. ASSUME NEW k \in C, ~alone(k), NEW a \in ArgsOf(m, k) PROVE from[NodeOf(m, a)] = a
  <2>1. NodeOf(m, a) # 0 BY <1>7, PredFacts
  <2>2. CASE a \in C
    <3>1. NodeOf(m, a) = sh + Rank(C, a) BY <2>2, NodeOfFacts
    <3> QED BY <1>2, <1>5, <2>2, <3>1
  <2>3. CASE a = 1 /\ 1 \in Placeholders(m)
    <3>1. NodeOf(m, a) = sh BY <2>3, NodeOfFacts
    <3>2. sh = 1 BY <1>3, <2>1, <3>1
    <3> QED BY <1>5, <2>3, <3>1, <3>2
  <2> QED BY <1>2, <2>2, <2>3
<1>8. ASSUME NEW i \in DOMAIN g, from[i] # ModelInput
      PROVE  LET read == [j \in DOMAIN g[i].preds |-> from[g[i].preds[j]]]
             IN IF g[i].takesInput THEN Args(m, from[i]) = <<ModelInput>> /\ read = <<>>
                ELSE read = Args(m, from[i]) \/ read = m.fx[from[i]].args
  <2> DEFINE p == i - sh
             k == A[p]
             preds == Predecessors(m, k)
  <2>1. p \in 1 .. c /\ sh + p = i
    <3>1. ~(i = 1 /\ sh = 1) BY <1>5, <1>8 DEF ModelInput
    <3> HIDE DEF sh
    <3> QED BY <1>1, <1>2, <1>3, <3>1
  <2> HIDE DEF p
  <2>2. k \in C /\ from[i] = k BY <1>2, <1>5, <2>1
  <2>3. g[i] = LayerNode(preds, ReadsInput(m, k) /\ ~NeedsInputNode(m), m.fx[k]) BY <1>1, <2>1
  <2>4. g[i].preds = preds /\ g[i].takesInput = alone(k) BY <2>3 DEF LayerNode
  <2>5. /\ alone(k) => preds = <<>> /\ Args(m, k) = <<1>>
        /\ ~alone(k) => \E s \in {Args(m, k), m.fx[k].args} :
                           /\ preds = Nodes(m, s) /\ s \in Seq(Nat) /\ \A j \in DOMAIN s : s[j] \in ArgsOf(m, k)
    BY <2>2, PredFacts
  <2> HIDE DEF k, preds
  <2>6. CASE alone(k)
    <3>1. g[i].preds = <<>> /\ g[i].takesInput /\ Args(m, from[i]) = <<ModelInput>>
      BY <2>2, <2>4, <2>5, <2>6 DEF ModelInput
    <3>2. [j \in DOMAIN g[i].preds |-> from[g[i].preds[j]]] = <<>> BY <3>1
    <3> QED BY <3>1, <3>2
  <2>7. CASE ~alone(k)
    <3>1. ~g[i].takesInput BY <2>4, <2>7
    <3>2. PICK s \in {Args(m, k), m.fx[k].args} :
                 preds = Nodes(m, s) /\ s \in Seq(Nat) /\ \A j \in DOMAIN s : s[j] \in ArgsOf(m, k)
      BY <2>5, <2>7
    <3>3. DOMAIN preds = DOMAIN s /\ \A j \in DOMAIN s : preds[j] = NodeOf(m, s[j])
      BY <3>2 DEF Nodes
    <3>4. \A j \in DOMAIN s : from[preds[j]] = s[j]
      <4> SUFFICES ASSUME NEW j \in DOMAIN s PROVE from[preds[j]] = s[j]
        OBVIOUS
      <4>1. s[j] \in ArgsOf(m, k) BY <3>2
      <4>2. from[NodeOf(m, s[j])] = s[j] BY <1>7, <2>2, <2>7, <4>1
      <4> QED BY <3>3, <4>2
    <3>5. [j \in DOMAIN g[i].preds |-> from[g[i].preds[j]]] = s
      <4>1. s = [j \in DOMAIN s |-> s[j]] BY <3>2
      <4> QED BY <2>4, <3>3, <3>4, <4>1
    <3> QED BY <2>2, <3>1, <3>2, <3>5
  <2> QED BY <2>6, <2>7
<1> QED BY <1>6, <1>8 DEF KeepsArguments, from, g

--------------------
(* The inductive invariant. *)

CaseInv == \E c \in Cases : model = c[1] /\ splitter = c[2]

GraphInv ==
  /\ reached = "model" => graph = <<>>
  /\ graph # <<>> => /\ Regular(graph) /\ Costed(graph)
                     /\ ~model.packed => Traceable(model) /\ graph = Traced(model)
  /\ reached \in {"traced", "split", "sliced", "running"} => graph # <<>>

PartsInv ==
  /\ parts # <<>> => graph # <<>> /\ Tiled(graph, parts)
  /\ reached \in {"split", "sliced", "running"} => parts # <<>>
  /\ reached \in {"sliced", "running"} => validate(graph, parts)

FleetInv == reached = "running" => fleet \in Fleet /\ Len(fleet) # 0 /\ Len(parts) = Len(fleet)

SlicingInv ==
  /\ reached \in SlicingPhases /\ fallback \in BOOLEAN
  /\ fallback => reached \in {"running", "stopped"}
  /\ CaseInv /\ GraphInv /\ PartsInv /\ FleetInv

LEMMA TiledParts ==
  ASSUME NEW g, Regular(g), NEW ps, Tiled(g, ps)
  PROVE  /\ ps # <<>> /\ Len(ps) \in Nat \ {0} /\ DOMAIN ps = 1 .. Len(ps)
         /\ \A p \in DOMAIN ps : ToSet(ps[p].layers) \subseteq DOMAIN g /\ Len(ps[p].preds) = Len(ps[p].layers)
<1>1. Len(g) \in Nat /\ DOMAIN g = 1 .. Len(g) BY DEF Regular
<1>2. PICK n \in Nat \ {0} : \E ends \in Ends(Len(g), n) : ps = Tiles(g, ends, n) BY DEF Tiled
<1>3. PICK ends \in Ends(Len(g), n) : ps = Tiles(g, ends, n) BY <1>2
<1>4. /\ ends \in [0 .. n -> 0 .. Len(g)]
      /\ DOMAIN ps = 1 .. n /\ Len(ps) = n
      /\ \A p \in 1 .. n :
           /\ ps[p].layers = Span(ends[p - 1], ends[p])
           /\ ends[p - 1] < ends[p]
           /\ ps[p].preds = _intra_predecessors(g, ps[p].layers)
  <2> DEFINE tiles == Tiles(g, ends, n)
  <2>1. /\ ends \in [0 .. n -> 0 .. Len(g)]
        /\ DOMAIN tiles = 1 .. n /\ Len(tiles) = n
        /\ \A p \in 1 .. n :
             /\ tiles[p].layers = Span(ends[p - 1], ends[p])
             /\ ends[p - 1] < ends[p]
             /\ tiles[p].preds = _intra_predecessors(g, tiles[p].layers)
    BY <1>1, TileFacts
  <2>2. ps = tiles BY <1>3
  <2> HIDE DEF tiles
  <2> QED BY <2>1, <2>2, Zenon
<1>5. ps # <<>>
  <2>1. Len(ps) # 0 BY <1>4
  <2>2. Len(<<>>) = 0 OBVIOUS
  <2> QED BY <2>1, <2>2
<1>6. ASSUME NEW p \in 1 .. n
      PROVE  ToSet(ps[p].layers) \subseteq DOMAIN g /\ Len(ps[p].preds) = Len(ps[p].layers)
  <2> DEFINE a == ends[p - 1]
             b == ends[p]
  <2>1. p - 1 \in 0 .. n /\ p \in 0 .. n OBVIOUS
  <2>2. a \in 0 .. Len(g) /\ b \in 0 .. Len(g) /\ a < b BY <1>4, <2>1
  <2>3. ps[p].layers = Span(a, b) /\ ps[p].preds = _intra_predecessors(g, ps[p].layers) BY <1>4
  <2> HIDE DEF a, b
  <2>4. Span(a, b) = [l \in 1 .. b - a |-> a + l] /\ DOMAIN Span(a, b) = 1 .. b - a /\ Len(Span(a, b)) = b - a /\ b - a \in Nat
    BY <1>1, <2>2 DEF Span
  <2>5. DOMAIN _intra_predecessors(g, Span(a, b)) = DOMAIN Span(a, b) BY DEF _intra_predecessors
  <2>6. Len(ps[p].preds) = b - a BY <2>3, <2>4, <2>5
  <2>7. \A l \in 1 .. b - a : Span(a, b)[l] \in 1 .. Len(g) BY <1>1, <2>2, <2>4
  <2>8. ToSet(Span(a, b)) \subseteq 1 .. Len(g) BY <2>4, <2>7 DEF ToSet
  <2> QED BY <1>1, <2>3, <2>4, <2>6, <2>8
<1> QED BY <1>4, <1>5, <1>6

LEMMA SlicingInitially == SlicingInit => SlicingInv
BY DEF SlicingInit, SlicingInv, SlicingPhases, CaseInv, GraphInv, PartsInv, FleetInv

LEMMA CaseFacts ==
  ASSUME CaseInv
  PROVE  IsModel(model) /\ splitter.n \in Nat \ {0} /\ splitter.names \in Seq([at : Int, module : STRING])
BY SlicingAssumption DEF CaseInv

LEMMA TraceKeeps == SlicingInv /\ Trace => SlicingInv'
<1> SUFFICES ASSUME SlicingInv, Trace PROVE SlicingInv'
  OBVIOUS
<1>1. CaseInv /\ CaseInv' /\ IsModel(model) BY CaseFacts DEF SlicingInv, Trace, CaseInv
<1>2. graph = <<>> /\ parts = <<>> /\ parts' = <<>> /\ fallback = FALSE /\ fallback' = FALSE /\ model' = model
  BY DEF SlicingInv, GraphInv, PartsInv, Trace
<1>3. reached' \in {"traced", "rejected"} BY DEF Trace
<1>4. CASE model.packed
  <2>1. graph' = Chain(model) /\ reached' = "traced" BY <1>4 DEF Trace
  <2>2. Regular(graph') /\ Costed(graph') BY <1>1, <2>1, ChainIsRegular
  <2>3. graph' # <<>> BY <2>2 DEF Regular
  <2>4. GraphInv' BY <1>2, <1>4, <2>1, <2>2, <2>3 DEF GraphInv
  <2> QED BY <1>1, <1>2, <2>1, <2>4 DEF SlicingInv, SlicingPhases, PartsInv, FleetInv
<1>5. CASE ~model.packed /\ Traceable(model)
  <2>1. graph' = Traced(model) /\ reached' = "traced" BY <1>5 DEF Trace
  <2>2. Regular(graph') /\ Costed(graph') BY <1>1, <1>5, <2>1, TracedIsRegular
  <2>3. graph' # <<>> BY <2>2 DEF Regular
  <2>4. Traceable(model)' BY <1>2, <1>5
  <2>5. graph' = Traced(model)' BY <1>2, <2>1
  <2>6. GraphInv' BY <1>5, <2>1, <2>2, <2>3, <2>4, <2>5 DEF GraphInv
  <2> QED BY <1>1, <1>2, <2>1, <2>6 DEF SlicingInv, SlicingPhases, PartsInv, FleetInv
<1>6. CASE ~model.packed /\ ~Traceable(model)
  <2>1. graph' = <<>> /\ reached' = "rejected" BY <1>6 DEF Trace
  <2> QED BY <1>1, <1>2, <2>1 DEF SlicingInv, SlicingPhases, GraphInv, PartsInv, FleetInv
<1> QED BY <1>4, <1>5, <1>6

\* The steps after tracing leave the graph as it is.
LEMMA GraphKept ==
  ASSUME SlicingInv, reached # "model", UNCHANGED <<model, splitter, graph>>, reached' # "model",
         reached' \in {"traced", "split", "sliced", "running"} => graph # <<>>
  PROVE  CaseInv' /\ GraphInv'
<1>1. CaseInv' BY DEF SlicingInv, CaseInv
<1>2. ASSUME graph # <<>>, ~model.packed PROVE Traceable(model)' /\ graph' = Traced(model)'
  <2>1. Traceable(model) /\ graph = Traced(model) BY <1>2 DEF SlicingInv, GraphInv
  <2>2. model' = model /\ graph' = graph OBVIOUS
  <2>3. Traceable(model)' BY <2>1, <2>2
  <2>4. graph' = Traced(model)' BY <2>1, <2>2
  <2> QED BY <2>3, <2>4
<1>3. graph # <<>> => Regular(graph) /\ Costed(graph) BY DEF SlicingInv, GraphInv
<1>4. graph' # <<>> => Regular(graph') /\ Costed(graph') BY <1>3
<1>5. reached' \in {"traced", "split", "sliced", "running"} => graph' # <<>> OBVIOUS
<1>6. (graph' # <<>> /\ ~model'.packed) => Traceable(model)' /\ graph' = Traced(model)' BY <1>2
<1>7. GraphInv' BY <1>4, <1>5, <1>6 DEF GraphInv
<1> QED BY <1>1, <1>7

LEMMA SplitKeeps == SlicingInv /\ SplitModel => SlicingInv'
<1> SUFFICES ASSUME SlicingInv, SplitModel PROVE SlicingInv'
  OBVIOUS
<1>1. reached = "traced" /\ UNCHANGED <<model, splitter, graph, fleet, fallback>> /\ fallback = FALSE /\ fallback \in BOOLEAN
  BY DEF SplitModel, SlicingInv
<1>2. graph # <<>> /\ Regular(graph) /\ Costed(graph) /\ CaseInv
  BY <1>1 DEF SlicingInv, GraphInv
<1>3. splitter.n \in Nat \ {0} /\ splitter.names \in Seq([at : Int, module : STRING])
  BY <1>2, CaseFacts
<1> DEFINE splits == Split(graph, splitter, splitter.n, NoTerms)
<1>4. /\ reached' = IF splits = {} THEN "rejected" ELSE "split"
      /\ parts' \in IF splits # {} THEN splits ELSE {parts}
  BY DEF SplitModel
<1>5. reached' \in {"rejected", "split"} BY <1>4
<1>6. CaseInv' /\ GraphInv' BY <1>1, <1>2, <1>5, GraphKept
<1>7. CASE splits = {}
  <2>1. reached' = "rejected" /\ parts' = parts /\ graph' = graph BY <1>1, <1>4, <1>7
  <2>2. PartsInv' BY <2>1 DEF SlicingInv, PartsInv
  <2> QED BY <1>1, <1>6, <2>1, <2>2 DEF SlicingInv, SlicingPhases, FleetInv
<1>8. CASE splits # {}
  <2>1. reached' = "split" /\ parts' \in splits /\ graph' = graph BY <1>1, <1>4, <1>8
  <2>2. TermsFor(NoTerms, splitter.n) BY NoTermsFor
  <2>3. Tiled(graph, parts') BY <1>2, <1>3, <2>1, <2>2, SplitTiles
  <2>4. parts' # <<>> BY <1>2, <2>3, TiledParts
  <2>5. PartsInv' BY <1>2, <2>1, <2>3, <2>4 DEF PartsInv
  <2> QED BY <1>1, <1>6, <2>1, <2>5 DEF SlicingInv, SlicingPhases, FleetInv
<1> QED BY <1>7, <1>8

LEMMA ValidateKeeps == SlicingInv /\ Validate => SlicingInv'
<1> SUFFICES ASSUME SlicingInv, Validate PROVE SlicingInv'
  OBVIOUS
<1>1. reached = "split" /\ UNCHANGED <<model, splitter, graph, parts, fleet, fallback>> /\ fallback = FALSE /\ fallback \in BOOLEAN
  BY DEF Validate, SlicingInv
<1>2. graph # <<>> /\ parts # <<>> /\ Tiled(graph, parts) BY <1>1 DEF SlicingInv, PartsInv
<1>3. reached' \in {"sliced", "rejected"} /\ (reached' = "sliced" => validate(graph, parts))
  BY DEF Validate
<1>4. CaseInv' /\ GraphInv' BY <1>1, <1>2, <1>3, GraphKept
<1>5. PartsInv' BY <1>1, <1>2, <1>3 DEF PartsInv
<1> QED BY <1>1, <1>3, <1>4, <1>5 DEF SlicingInv, SlicingPhases, FleetInv

\* A plan for these workers keeps the slices of a run as they must be.
LEMMA PlansTile ==
  ASSUME SlicingInv, graph # <<>>, Tiled(graph, parts), NEW f \in Fleet, Len(f) # 0,
         NEW ps \in plan(graph, splitter, parts, f)
  PROVE  ps # <<>> /\ Tiled(graph, ps) /\ validate(graph, ps)
<1>1. Regular(graph) /\ Costed(graph) /\ CaseInv BY DEF SlicingInv, GraphInv
<1>2. splitter.names \in Seq([at : Int, module : STRING]) BY <1>1, CaseFacts
<1>3. Tiled(graph, ps) /\ validate(graph, ps) BY <1>1, <1>2, PlanTiles
<1> QED BY <1>1, <1>3, TiledParts

LEMMA PlanKeeps == SlicingInv /\ PlanSlices => SlicingInv'
<1> SUFFICES ASSUME SlicingInv, PlanSlices PROVE SlicingInv'
  OBVIOUS
<1>1. reached = "sliced" /\ UNCHANGED <<model, splitter, graph, fallback>> /\ fallback = FALSE /\ fallback \in BOOLEAN
  BY DEF PlanSlices, SlicingInv
<1>2. graph # <<>> /\ parts # <<>> /\ Tiled(graph, parts) /\ Regular(graph)
  BY <1>1 DEF SlicingInv, PartsInv, GraphInv
<1>3. PICK found \in {f \in Fleets : Len(f) = Len(parts)} :
        \E plans \in {{ps \in plan(graph, splitter, parts, found) : Len(ps) = Len(found)}} :
          /\ fleet' = found
          /\ reached' = IF plans # {} THEN "running" ELSE "rejected"
          /\ parts' \in IF plans # {} THEN plans ELSE {parts}
  BY DEF PlanSlices
<1> DEFINE plans == {ps \in plan(graph, splitter, parts, found) : Len(ps) = Len(found)}
<1>4. /\ fleet' = found
      /\ reached' = IF plans # {} THEN "running" ELSE "rejected"
      /\ parts' \in IF plans # {} THEN plans ELSE {parts}
  BY <1>3
<1>5. found \in Fleet /\ Len(found) # 0 BY <1>2, SlicingAssumption, TiledParts DEF Fleet
<1>6. CaseInv' /\ GraphInv' /\ reached' \in {"running", "rejected"}
  <2>1. reached' \in {"running", "rejected"} BY <1>4
  <2> QED BY <1>1, <1>2, <2>1, GraphKept
<1>7. CASE plans = {}
  <2>1. reached' = "rejected" /\ parts' = parts /\ graph' = graph BY <1>1, <1>4, <1>7
  <2>2. PartsInv' BY <1>2, <2>1 DEF PartsInv
  <2> QED BY <1>1, <1>6, <2>1, <2>2 DEF SlicingInv, SlicingPhases, FleetInv
<1>8. CASE plans # {}
  <2>1. reached' = "running" /\ parts' \in plans /\ graph' = graph BY <1>1, <1>4, <1>8
  <2>2. parts' \in plan(graph, splitter, parts, found) /\ Len(parts') = Len(found) BY <2>1
  <2>3. parts' # <<>> /\ Tiled(graph, parts') /\ validate(graph, parts')
    BY <1>2, <1>5, <2>2, PlansTile
  <2>4. PartsInv' BY <1>2, <2>1, <2>3 DEF PartsInv
  <2>5. FleetInv' BY <1>4, <1>5, <2>2 DEF FleetInv
  <2> QED BY <1>1, <1>6, <2>1, <2>4, <2>5 DEF SlicingInv, SlicingPhases
<1> QED BY <1>7, <1>8

LEMMA Survivors ==
  ASSUME fleet \in Fleet, NEW lost \in (SUBSET DOMAIN fleet) \ {{}}, lost # DOMAIN fleet
  PROVE  Surviving(lost) \in Fleet /\ Len(Surviving(lost)) \in Nat \ {0}
<1> DEFINE live == DOMAIN fleet \ lost
           alive == Ascending(live)
           W == [cap : Nat, speed : Nat, link : Nat]
<1>1. fleet \in Seq(W) /\ Len(fleet) \in Nat /\ DOMAIN fleet = 1 .. Len(fleet) BY DEF Fleet
<1>2. live \subseteq 1 .. Len(fleet) /\ live # {} BY <1>1
<1>3. IsFiniteSet(live) /\ Cardinality(live) \in Nat /\ alive \in [1 .. Cardinality(live) -> live]
  BY <1>1, <1>2, AscendingLists
<1>4. Cardinality(live) # 0 BY <1>2, <1>3, FS_EmptySet
<1>5. Surviving(lost) = [p \in 1 .. Cardinality(live) |-> fleet[alive[p]]] BY <1>3 DEF Surviving
<1> HIDE DEF live, alive, W
<1>6. \A p \in 1 .. Cardinality(live) : fleet[alive[p]] \in W
  <2>1. \A i \in live : fleet[i] \in W BY <1>1, <1>2
  <2>2. \A p \in 1 .. Cardinality(live) : alive[p] \in live BY <1>3
  <2> QED BY <2>1, <2>2
<1>7. Surviving(lost) \in [1 .. Cardinality(live) -> W] BY <1>5, <1>6
<1>8. Surviving(lost) \in Seq(W) /\ Len(Surviving(lost)) = Cardinality(live)
  BY <1>3, <1>7, AsSequence
<1> QED BY <1>3, <1>4, <1>8 DEF W, Fleet

LEMMA RecoverKeeps == SlicingInv /\ Recover => SlicingInv'
<1> SUFFICES ASSUME SlicingInv, Recover PROVE SlicingInv'
  OBVIOUS
<1>1. reached = "running" /\ UNCHANGED <<model, splitter, graph>> /\ fallback \in BOOLEAN
  BY DEF Recover, SlicingInv
<1>2. graph # <<>> /\ parts # <<>> /\ Tiled(graph, parts) /\ Regular(graph) /\ fleet \in Fleet
  BY <1>1 DEF SlicingInv, PartsInv, GraphInv, FleetInv
<1>3. PICK lost \in (SUBSET DOMAIN fleet) \ {{}} :
        IF lost = DOMAIN fleet
        THEN reached' = "stopped" /\ UNCHANGED <<parts, fleet, fallback>>
        ELSE \E alive \in {Surviving(lost)} :
             \E plans \in {{ps \in plan(graph, splitter, parts, alive) : Len(ps) = Len(alive)}} :
               RecoverPlan(alive, plans, _uniform_split(graph, Len(alive)))
  BY DEF Recover
<1> DEFINE alive == Surviving(lost)
           plans == {ps \in plan(graph, splitter, parts, alive) : Len(ps) = Len(alive)}
           even == _uniform_split(graph, Len(alive))
           works == Len(even) = Len(alive) /\ validate(graph, even)
<1>4. CASE lost = DOMAIN fleet
  <2>1. reached' = "stopped" /\ UNCHANGED <<parts, fleet, fallback>> BY <1>3, <1>4
  <2>2. CaseInv' /\ GraphInv' BY <1>1, <1>2, <2>1, GraphKept
  <2>3. PartsInv' BY <1>1, <1>2, <2>1 DEF PartsInv
  <2> QED BY <1>1, <2>1, <2>2, <2>3 DEF SlicingInv, SlicingPhases, FleetInv
<1>5. CASE lost # DOMAIN fleet
  <2>1. RecoverPlan(alive, plans, even) BY <1>3, <1>5
  <2>2. /\ reached' = IF plans # {} \/ works THEN "running" ELSE "stopped"
        /\ parts' \in CASE plans # {} -> plans
                        [] plans = {} /\ works -> {even}
                        [] OTHER -> {parts}
        /\ fleet' = alive
        /\ fallback' = (plans = {} /\ works)
    BY <2>1 DEF RecoverPlan
  <2>3. alive \in Fleet /\ Len(alive) \in Nat \ {0} BY <1>2, <1>5, Survivors
  <2>4. CaseInv' /\ GraphInv' /\ reached' \in {"running", "stopped"}
    <3>1. reached' \in {"running", "stopped"} BY <2>2
    <3> QED BY <1>1, <1>2, <3>1, GraphKept
  <2>5. fallback' \in BOOLEAN /\ (fallback' => reached' \in {"running", "stopped"}) /\ graph' = graph
    BY <1>1, <2>2
  <2>6. PartsInv' /\ FleetInv'
    <3>1. CASE plans # {}
      <4>1. parts' \in plan(graph, splitter, parts, alive) /\ Len(parts') = Len(alive)
        BY <2>2, <3>1
      <4>2. parts' # <<>> /\ Tiled(graph, parts') /\ validate(graph, parts')
        BY <1>2, <2>3, <4>1, PlansTile
      <4> QED BY <1>2, <2>2, <2>3, <2>5, <4>1, <4>2 DEF PartsInv, FleetInv
    <3>2. CASE plans = {} /\ works
      <4>1. parts' = even BY <2>2, <3>2
      <4>2. Tiled(graph, even) BY <1>2, <2>3, EvenSplitTiles DEF Regular
      <4>3. even # <<>> BY <1>2, <4>2, TiledParts
      <4> QED BY <1>2, <2>2, <2>3, <2>5, <3>2, <4>1, <4>2, <4>3 DEF PartsInv, FleetInv
    <3>3. CASE plans = {} /\ ~works
      <4>1. parts' = parts /\ reached' = "stopped" BY <2>2, <3>3
      <4> QED BY <1>2, <2>5, <4>1 DEF PartsInv, FleetInv
    <3> QED BY <3>1, <3>2, <3>3
  <2> QED BY <2>4, <2>5, <2>6 DEF SlicingInv, SlicingPhases
<1> QED BY <1>4, <1>5

LEMMA EndedKeeps == SlicingInv /\ UNCHANGED slicingVars => SlicingInv'
<1> SUFFICES ASSUME SlicingInv, UNCHANGED slicingVars PROVE SlicingInv'
  OBVIOUS
<1>1. UNCHANGED <<model, splitter, graph, parts, fleet, reached, fallback>> BY DEF slicingVars
<1>2. CaseInv' /\ GraphInv'
  <2>1. CASE reached = "model"
    <3>1. graph = <<>> /\ graph' = <<>> /\ reached' = "model"
      BY <1>1, <2>1 DEF SlicingInv, GraphInv
    <3> QED BY <1>1, <3>1 DEF SlicingInv, CaseInv, GraphInv
  <2>2. CASE reached # "model"
    <3>1. reached' \in {"traced", "split", "sliced", "running"} => graph # <<>>
      BY <1>1 DEF SlicingInv, GraphInv
    <3> QED BY <1>1, <2>2, <3>1, GraphKept
  <2> QED BY <2>1, <2>2
<1>3. PartsInv' BY <1>1 DEF SlicingInv, PartsInv
<1>4. FleetInv' BY <1>1 DEF SlicingInv, FleetInv
<1> QED BY <1>1, <1>2, <1>3, <1>4 DEF SlicingInv

THEOREM SlicingInvariant == SlicingSpec => []SlicingInv
<1>1. SlicingInv /\ [SlicingNext]_slicingVars => SlicingInv'
  BY TraceKeeps, SplitKeeps, ValidateKeeps, PlanKeeps, RecoverKeeps, EndedKeeps DEF SlicingNext, Ended
<1> QED BY <1>1, SlicingInitially, PTL DEF SlicingSpec

LEMMA TypesHold == SlicingInv => SlicingTypeOK
<1> SUFFICES ASSUME SlicingInv PROVE SlicingTypeOK
  OBVIOUS
<1>1. reached \in SlicingPhases /\ fallback \in BOOLEAN /\ (fallback => reached \in {"running", "stopped"})
  BY DEF SlicingInv
<1>2. ASSUME NEW i \in DOMAIN graph PROVE ToSet(graph[i].preds) \subseteq 1 .. i - 1
  <2>1. graph # <<>> BY <1>2
  <2>2. Regular(graph) BY <2>1 DEF SlicingInv, GraphInv
  <2>3. i \in 1 .. Len(graph) BY <2>2 DEF Regular
  <2> QED BY <2>2, <2>3, PredTypes
<1>3. ASSUME NEW p \in DOMAIN parts
      PROVE  ToSet(parts[p].layers) \subseteq DOMAIN graph /\ Len(parts[p].preds) = Len(parts[p].layers)
  <2>1. parts # <<>> BY <1>3
  <2>2. Regular(graph) /\ Tiled(graph, parts) BY <2>1 DEF SlicingInv, PartsInv, GraphInv
  <2> QED BY <2>2, TiledParts
<1> QED BY <1>1, <1>2, <1>3 DEF SlicingTypeOK

LEMMA ArgumentsHold == SlicingInv => TraceKeepsEveryArgument
<1> SUFFICES ASSUME SlicingInv, graph # <<>>, ~model.packed
             PROVE  KeepsArguments(model, graph)
  BY DEF TraceKeepsEveryArgument, KeepsArguments
<1>1. Traceable(model) /\ graph = Traced(model) /\ IsModel(model)
  BY CaseFacts DEF SlicingInv, GraphInv
<1> QED BY <1>1, TracedKeepsArguments

LEMMA SlicesHold == SlicingInv => SlicesComputeTheModel
<1> SUFFICES ASSUME SlicingInv PROVE SlicesComputeTheModel
  OBVIOUS
<1>1. ASSUME reached \in {"sliced", "running"} PROVE Computes(graph, parts)
  <2>1. Regular(graph) /\ Tiled(graph, parts) /\ validate(graph, parts)
    BY <1>1 DEF SlicingInv, PartsInv, GraphInv
  <2> QED BY <2>1, ValidateAsks, EdgesAreExact
<1>2. reached = "running" => Len(parts) = Len(fleet) BY DEF SlicingInv, FleetInv
<1> QED BY <1>1, <1>2 DEF SlicesComputeTheModel

LEMMA ValidateHolds == SlicingInv => ValidateIsExact
<1> SUFFICES ASSUME SlicingInv, reached = "split"
             PROVE  /\ validate(graph, parts) <=> Computes(graph, parts)
                    /\ validate(graph, parts)
                         <=> \A p \in 1 .. Len(parts) - 1 : LastOf(parts, p) \in valid_cuts(graph)
  BY DEF ValidateIsExact
<1>1. Regular(graph) /\ Tiled(graph, parts) BY DEF SlicingInv, PartsInv, GraphInv
<1> QED BY <1>1, ValidateAsks, EdgesAreExact, CutsAreEdges

\* From the traced graph to the slices of a run, those of a recovery included,
\* what the workers compute is the model (from_module, slice_model, recover).
THEOREM SlicesAreTheModel == SlicingSpec => []RunsComputeTheModel
<1>1. SlicingInv => RunsComputeTheModel
  BY TypesHold, ArgumentsHold, SlicesHold DEF RunsComputeTheModel
<1> QED BY <1>1, SlicingInvariant, PTL

\* validate() refuses a split exactly when its slices would not compute the
\* model, and exactly when a boundary is no valid cut.
THEOREM ValidateRefusesWhatItMust == SlicingSpec => []ValidateIsExact
  BY ValidateHolds, SlicingInvariant, PTL

--------------------
(* The best way to cut: every way is a walk along the blocks. *)

CutsAlong(b, n, at) == {b.ends[at[p]] : p \in 1 .. n - 1}

FitsAlong(b, n, at) == \A p \in 1 .. n : FitsBlocks(b, p, at[p - 1], at[p])

PricesAlong(b, n, at, most) == \A p \in 1 .. n : PriceOf(b, p, at[p - 1], at[p]) <= most

\* A walk leaves room for the steps before and after.
LEMMA WalkSteps ==
  ASSUME NEW m \in Nat, NEW n \in Nat, NEW at \in Ends(m, n)
  PROVE  \A p \in 0 .. n : at[p] \in p .. m - (n - p)
<1>0. at \in [0 .. n -> 0 .. m] /\ at[0] = 0 /\ at[n] = m /\ \A p \in 1 .. n : at[p - 1] < at[p]
  BY DEF Ends
<1>1. \A p \in 0 .. n : p <= at[p]
  <2> DEFINE T == {p \in 0 .. n : p <= at[p]}
  <2>1. 0 \in T BY <1>0
  <2>2. ASSUME NEW k \in 0 .. n - 1, k \in T PROVE k + 1 \in T
    <3>1. k + 1 \in 1 .. n /\ (k + 1) - 1 = k /\ k \in 0 .. n /\ k + 1 \in 0 .. n OBVIOUS
    <3>2. at[k] < at[k + 1] /\ at[k] \in Int /\ at[k + 1] \in Int /\ k <= at[k]
      <4>1. at[(k + 1) - 1] < at[k + 1] BY <1>0, <3>1
      <4> QED BY <1>0, <2>2, <3>1, <4>1
    <3> QED BY <3>1, <3>2
  <2> QED
    <3> HIDE DEF T
    <3>1. \A p \in 0 .. n : p \in T BY <2>1, <2>2, UpTo
    <3> QED BY <3>1 DEF T
<1>2. \A q \in 0 .. n : at[n - q] <= m - q
  <2> DEFINE T == {q \in 0 .. n : at[n - q] <= m - q}
  <2>1. 0 \in T BY <1>0
  <2>2. ASSUME NEW k \in 0 .. n - 1, k \in T PROVE k + 1 \in T
    <3>1. n - k \in 1 .. n /\ (n - k) - 1 = n - (k + 1) /\ n - k \in 0 .. n /\ n - (k + 1) \in 0 .. n /\ k + 1 \in 0 .. n
      OBVIOUS
    <3>2. at[(n - k) - 1] < at[n - k] BY <1>0, <3>1
    <3>3. at[n - (k + 1)] < at[n - k] /\ at[n - (k + 1)] \in Int /\ at[n - k] \in Int /\ at[n - k] <= m - k
      BY <1>0, <2>2, <3>1, <3>2
    <3> QED BY <3>1, <3>3
  <2> QED
    <3> HIDE DEF T
    <3>1. \A q \in 0 .. n : q \in T BY <2>1, <2>2, UpTo
    <3> QED BY <3>1 DEF T
<1>3. ASSUME NEW p \in 0 .. n PROVE at[p] \in p .. m - (n - p)
  <2>1. n - p \in 0 .. n /\ n - (n - p) = p OBVIOUS
  <2>2. at[n - (n - p)] <= m - (n - p) BY <1>2, <2>1
  <2>3. at[p] <= m - (n - p) /\ p <= at[p] /\ at[p] \in Int BY <1>0, <1>1, <2>1, <2>2
  <2> QED BY <2>3
<1> QED BY <1>3

\* The table holds a way for every walk that fits, and one that takes no more.
LEMMA WalkIsFound ==
  ASSUME NEW g, Regular(g), Costed(g), NEW n \in Nat \ {0}, NEW t, TermsFor(t, n), NEW b, Balanced(b, g, t),
         NEW best, Table(b, n, best), NEW at \in Ends(Len(b.ends), n), FitsAlong(b, n, at)
  PROVE  /\ best[n][Len(b.ends) + 1].ok
         /\ \A most \in Nat : PricesAlong(b, n, at, most) => best[n][Len(b.ends) + 1].max <= most
<1> DEFINE m == Len(b.ends)
           S(p, most) == best[p][at[p] + 1].ok /\ (PricesAlong(b, n, at, most) => best[p][at[p] + 1].max <= most)
<1>1. m \in Nat \ {0} BY BlockEnds
<1>2. at \in [0 .. n -> 0 .. m] /\ at[0] = 0 /\ at[n] = m /\ \A p \in 1 .. n : at[p - 1] < at[p]
  BY DEF Ends
<1>3. \A p \in 0 .. n : at[p] \in p .. m - (n - p)
  <2> HIDE DEF m
  <2> QED BY <1>1, WalkSteps DEF m
<1>4. best[0][1].ok /\ best[0][1].max = 0
  <2>1. m \in Nat BY <1>1
  <2> QED BY <2>1, FirstRow DEF Table
<1> SUFFICES ASSUME NEW most \in Nat PROVE S(n, most)
  BY <1>2
<1> DEFINE T == {p \in 0 .. n : S(p, most)}
<1>5. 0 \in T BY <1>2, <1>4
<1>6. ASSUME NEW k \in 0 .. n - 1, k \in T PROVE k + 1 \in T
  <2> DEFINE p == k + 1
             row == best[k]
             next == best[p]
             i == at[k]
             j == at[p]
  <2>1. p \in 1 .. n /\ p \in 0 .. n /\ p - 1 = k /\ k \in 0 .. n OBVIOUS
  <2>2. row \in CostRows(m) /\ next = NextRow(b, n, row, p) /\ next \in CostRows(m)
    <3>1. best[p] = NextRow(b, n, best[p - 1], p) BY <2>1 DEF Table
    <3> QED BY <2>1, <3>1 DEF Table
  <2>3. RowBest(b, n, p, row, next)
    <3> HIDE DEF p, row, next
    <3> QED BY <2>1, <2>2, NextRowFrom
  <2>4. j \in p .. m - (n - p) /\ i \in p - 1 .. j - 1 /\ i \in 0 .. m /\ j \in 1 .. m
    <3>1. at[p] \in p .. m - (n - p) /\ at[k] \in k .. m - (n - k) /\ at[p - 1] < at[p] /\ at[p] \in 0 .. m
      BY <1>2, <1>3, <2>1
    <3> HIDE DEF p, m
    <3> QED BY <1>1, <2>1, <3>1
  <2>5. row[i + 1].ok /\ (PricesAlong(b, n, at, most) => row[i + 1].max <= most) BY <1>6
  <2>6. FitsBlocks(b, p, i, j)
    <3>1. FitsBlocks(b, p, at[p - 1], at[p]) BY <2>1 DEF FitsAlong
    <3> QED BY <2>1, <3>1
  <2> HIDE DEF p, row, next, i, j, m
  <2>7. next[j + 1].ok /\ (next[j + 1].max <= row[i + 1].max \/ next[j + 1].max <= PriceOf(b, p, i, j))
    BY <2>3, <2>4, <2>5, <2>6 DEF RowBest, m
  <2>8. PriceOf(b, p, i, j) \in Nat
    <3>1. i \in 0 .. Len(b.ends) /\ j \in 1 .. Len(b.ends) BY <2>4 DEF m
    <3> QED BY <2>1, <3>1, PricesTyped
  <2>9. row[i + 1].max \in Nat /\ next[j + 1].max \in Nat
    <3>1. i + 1 \in 1 .. m + 1 /\ j + 1 \in 1 .. m + 1 BY <1>1, <2>4
    <3>2. row[i + 1] \in Cell /\ next[j + 1] \in Cell BY <2>2, <3>1 DEF CostRows
    <3> QED BY <3>2 DEF Cell
  <2>10. PricesAlong(b, n, at, most) => PriceOf(b, p, i, j) <= most
    <3>1. PricesAlong(b, n, at, most) => PriceOf(b, p, at[p - 1], at[p]) <= most
      BY <2>1 DEF PricesAlong
    <3> QED BY <2>1, <3>1 DEF i, j
  <2>11. next[j + 1].ok /\ (PricesAlong(b, n, at, most) => next[j + 1].max <= most)
    BY <2>5, <2>7, <2>8, <2>9, <2>10
  <2> QED BY <2>1, <2>11 DEF p, next, j
<1>7. n \in T
  <2> HIDE DEF T
  <2>1. \A p \in 0 .. n : p \in T BY <1>5, <1>6, UpTo
  <2> QED BY <2>1
<1> QED BY <1>7

\* What is read back from the table is a walk that fits, and takes no more than
\* the table says.
LEMMA FoundIsWalk ==
  ASSUME NEW g, Regular(g), Costed(g), NEW n \in Nat \ {0}, NEW t, TermsFor(t, n), NEW b, Balanced(b, g, t),
         NEW best, Table(b, n, best), NEW cuts \in CutsOf(b, n, best)
  PROVE  \E at \in Ends(Len(b.ends), n) :
           /\ cuts = CutsAlong(b, n, at) /\ FitsAlong(b, n, at)
           /\ PricesAlong(b, n, at, best[n][Len(b.ends) + 1].max)
<1> DEFINE m == Len(b.ends)
<1>1. m \in Nat \ {0} BY BlockEnds
<1>2. PICK at \in LastBlocks(b, n, best) : cuts = {b.ends[at[p]] : p \in 1 .. n - 1}
  BY CutsFound
<1>3. /\ at \in [0 .. n -> 0 .. m] /\ at[n] = m
      /\ \A p \in 0 .. n - 1 : at[p] = best[p + 1][at[p + 1] + 1].from
      /\ \A p \in 0 .. n : best[p][at[p] + 1].ok
      /\ \A p \in 0 .. n - 1 : at[p] < at[p + 1]
  BY DEF LastBlocks
<1>4. at[0] = 0
  <2>1. best[0] = <<[NoWay EXCEPT !.ok = TRUE]>> \o [j \in 1 .. m |-> NoWay] BY DEF Table
  <2>2. \A j \in 1 .. m : ~best[0][j + 1].ok
    <3>1. m \in Nat BY <1>1
    <3> HIDE DEF m
    <3> QED BY <2>1, <3>1, FirstRow
  <2>3. best[0][at[0] + 1].ok /\ at[0] \in 0 .. m BY <1>3
  <2> HIDE DEF m
  <2> QED BY <1>1, <2>2, <2>3
<1>5. ASSUME NEW p \in 1 .. n
      PROVE  /\ at[p - 1] < at[p] /\ at[p - 1] \in 0 .. m /\ at[p] \in 1 .. m
             /\ FitsBlocks(b, p, at[p - 1], at[p])
             /\ best[p - 1][at[p - 1] + 1].max <= best[p][at[p] + 1].max
             /\ PriceOf(b, p, at[p - 1], at[p]) <= best[p][at[p] + 1].max
  <2>1. p - 1 \in 0 .. n - 1 /\ (p - 1) + 1 = p /\ p - 1 \in 0 .. n /\ p \in 0 .. n OBVIOUS
  <2>2. at[p - 1] < at[p] /\ at[p - 1] = best[p][at[p] + 1].from
    <3>1. at[p - 1] < at[(p - 1) + 1] /\ at[p - 1] = best[(p - 1) + 1][at[(p - 1) + 1] + 1].from
      BY <1>3, <2>1
    <3> QED BY <2>1, <3>1
  <2>3. at[p - 1] \in 0 .. m /\ at[p] \in 1 .. m /\ best[p][at[p] + 1].ok
    <3>1. at[p - 1] \in 0 .. m /\ at[p] \in 0 .. m BY <1>3, <2>1
    <3> HIDE DEF m
    <3> QED BY <1>1, <1>3, <2>1, <2>2, <3>1
  <2>4. best[p - 1] \in CostRows(m) /\ best[p] = NextRow(b, n, best[p - 1], p) BY <2>1 DEF Table
  <2>5. RowBest(b, n, p, best[p - 1], best[p]) BY <2>4, NextRowFrom
  <2> DEFINE j == at[p]
  <2>6. j \in 1 .. Len(b.ends) /\ best[p][j + 1].ok BY <2>3
  <2> HIDE DEF j
  <2>7. FitsBlocks(b, p, best[p][j + 1].from, j) /\ best[p - 1][best[p][j + 1].from + 1].max <= best[p][j + 1].max
        /\ PriceOf(b, p, best[p][j + 1].from, j) <= best[p][j + 1].max
    BY <2>5, <2>6 DEF RowBest
  <2> QED BY <2>2, <2>3, <2>7 DEF j
<1>6. \A p \in 0 .. n : best[p][at[p] + 1].max \in Nat
  <2> SUFFICES ASSUME NEW p \in 0 .. n PROVE best[p][at[p] + 1].max \in Nat
    OBVIOUS
  <2>1. best[p] \in CostRows(m) /\ at[p] \in 0 .. m BY <1>3 DEF Table
  <2>2. at[p] + 1 \in 1 .. m + 1
    <3> HIDE DEF m
    <3> QED BY <1>1, <2>1
  <2>3. best[p][at[p] + 1] \in Cell BY <2>1, <2>2 DEF CostRows
  <2> QED BY <2>3 DEF Cell
<1> DEFINE top == best[n][m + 1].max
<1>7. \A q \in 0 .. n : best[n - q][at[n - q] + 1].max <= top
  <2> DEFINE T == {q \in 0 .. n : best[n - q][at[n - q] + 1].max <= top}
  <2>1. 0 \in T
    <3>1. best[n][at[n] + 1].max = top /\ best[n][at[n] + 1].max \in Nat
      <4>1. at[n] = m /\ n \in 0 .. n BY <1>3
      <4> QED BY <1>6, <4>1
    <3>2. n - 0 = n /\ 0 \in 0 .. n OBVIOUS
    <3> HIDE DEF top
    <3>3. best[n][at[n] + 1].max <= top BY <3>1
    <3> QED BY <3>2, <3>3
  <2>2. ASSUME NEW k \in 0 .. n - 1, k \in T PROVE k + 1 \in T
    <3>1. n - k \in 1 .. n /\ (n - k) - 1 = n - (k + 1) /\ n - k \in 0 .. n /\ n - (k + 1) \in 0 .. n /\ k + 1 \in 0 .. n
      OBVIOUS
    <3>2. best[(n - k) - 1][at[(n - k) - 1] + 1].max <= best[n - k][at[n - k] + 1].max
      BY <1>5, <3>1
    <3>3. best[n - k][at[n - k] + 1].max <= top BY <2>2
    <3>4. best[n - k][at[n - k] + 1].max \in Nat /\ best[n - (k + 1)][at[n - (k + 1)] + 1].max \in Nat
      BY <1>6, <3>1
    <3>5. top \in Nat
      <4>1. n \in 0 .. n /\ at[n] = m BY <1>3
      <4> QED BY <1>6, <4>1
    <3> HIDE DEF top
    <3>6. best[n - (k + 1)][at[n - (k + 1)] + 1].max <= best[n - k][at[n - k] + 1].max
      BY <3>1, <3>2
    <3>7. best[n - (k + 1)][at[n - (k + 1)] + 1].max <= top BY <3>3, <3>4, <3>5, <3>6
    <3> QED BY <3>1, <3>7
  <2> HIDE DEF T
  <2>3. \A q \in 0 .. n : q \in T BY <2>1, <2>2, UpTo
  <2> QED BY <2>3 DEF T
<1>8. PricesAlong(b, n, at, top)
  <2> SUFFICES ASSUME NEW p \in 1 .. n PROVE PriceOf(b, p, at[p - 1], at[p]) <= top
    BY DEF PricesAlong
  <2>1. n - p \in 0 .. n /\ n - (n - p) = p /\ p \in 0 .. n OBVIOUS
  <2>2. best[n - (n - p)][at[n - (n - p)] + 1].max <= top BY <1>7, <2>1
  <2>3. best[p][at[p] + 1].max <= top BY <2>1, <2>2
  <2>4. PriceOf(b, p, at[p - 1], at[p]) <= best[p][at[p] + 1].max BY <1>5
  <2>5. PriceOf(b, p, at[p - 1], at[p]) \in Nat BY <1>5, PricesTyped
  <2>6. best[p][at[p] + 1].max \in Nat /\ top \in Nat
    <3>1. n \in 0 .. n /\ at[n] = m BY <1>3
    <3> QED BY <1>6, <2>1, <3>1
  <2> HIDE DEF top
  <2> QED BY <2>3, <2>4, <2>5, <2>6
<1>9. at \in Ends(m, n) BY <1>3, <1>4, <1>5 DEF Ends
<1>10. FitsAlong(b, n, at) BY <1>5 DEF FitsAlong
<1> QED BY <1>2, <1>8, <1>9, <1>10 DEF CutsAlong

\* A list of increasing numbers is the ascending list of its elements.
LEMMA AscendingIs ==
  ASSUME NEW k \in Nat, NEW m \in Nat, NEW F \in [1 .. k -> 1 .. m], \A p, q \in 1 .. k : p < q => F[p] < F[q],
         NEW S, S = {F[p] : p \in 1 .. k}
  PROVE  Cardinality(S) = k /\ Ascending(S) = F
<1> DEFINE N == 1 .. k
           A == Ascending(S)
<1>1. S \subseteq 1 .. m OBVIOUS
<1>2. Cardinality(S) = k
  <2>1. F \in [N -> S] /\ \A c \in S : \E p \in N : F[p] = c OBVIOUS
  <2>2. \A p, q \in N : p # q => F[p] # F[q]
    <3> SUFFICES ASSUME NEW p \in N, NEW q \in N, p # q PROVE F[p] # F[q]
      OBVIOUS
    <3>1. F[p] \in Int /\ F[q] \in Int OBVIOUS
    <3>2. (p < q => F[p] < F[q]) /\ (q < p => F[q] < F[p]) OBVIOUS
    <3>3. p < q \/ q < p OBVIOUS
    <3> QED BY <3>1, <3>2, <3>3
  <2>3. Cardinality(N) = k /\ IsFiniteSet(N) BY FS_Interval, FS_CountingElements
  <2> HIDE DEF N
  <2>4. F \in Injection(N, S) BY <2>1, <2>2, Fun_IsInj
  <2>5. F \in Surjection(N, S) BY <2>1 DEF Surjection
  <2>6. ExistsBijection(N, S) BY <2>4, <2>5 DEF Bijection, ExistsBijection
  <2> QED BY <2>3, <2>6, FS_Bijection
<1>3. /\ A \in [1 .. k -> S]
      /\ \A i \in S : Rank(S, i) \in 1 .. k /\ A[Rank(S, i)] = i
      /\ \A p, q \in 1 .. k : p < q => A[p] < A[q]
  BY <1>1, <1>2, AscendingLists
<1> HIDE DEF A
<1> DEFINE T == {q \in 0 .. k : \A p \in 1 .. q : A[p] = F[p]}
<1>4. 0 \in T OBVIOUS
<1>5. ASSUME NEW q \in 0 .. k - 1, q \in T PROVE q + 1 \in T
  <2> DEFINE z == q + 1
  <2>1. z \in 1 .. k /\ z \in 0 .. k OBVIOUS
  <2>2. \A p \in 1 .. q : p \in 1 .. k /\ p < z /\ A[p] = F[p] BY <1>5
  <2>3. A[z] \in S /\ F[z] \in S BY <1>3, <2>1
  <2>4. A[z] \in Int /\ F[z] \in Int BY <1>1, <2>3
  <2>5. PICK r \in 1 .. k : F[r] = A[z] BY <2>3
  <2>6. PICK w \in 1 .. k : A[w] = F[z] BY <1>3, <2>3
  <2>7. r >= z
    <3> SUFFICES ASSUME r < z PROVE FALSE
      BY <2>1
    <3>1. r \in 1 .. q BY DEF z
    <3>2. A[r] = F[r] /\ A[r] < A[z] BY <1>3, <2>1, <2>2, <3>1
    <3> QED BY <2>4, <2>5, <3>2
  <2>8. w >= z
    <3> SUFFICES ASSUME w < z PROVE FALSE
      BY <2>1
    <3>1. w \in 1 .. q BY DEF z
    <3>2. A[w] = F[w] /\ F[w] < F[z] BY <2>1, <2>2, <3>1
    <3> QED BY <2>4, <2>6, <3>2
  <2>9. F[z] <= A[z]
    <3>1. r = z \/ z < r BY <2>1, <2>7
    <3>2. z < r => F[z] < F[r] BY <2>1
    <3> QED BY <2>4, <2>5, <3>1, <3>2, SMTT(30)
  <2>10. A[z] <= F[z]
    <3>1. w = z \/ z < w BY <2>1, <2>8
    <3>2. z < w => A[z] < A[w] BY <1>3, <2>1
    <3> QED BY <2>4, <2>6, <3>1, <3>2
  <2>11. A[z] = F[z] BY <2>4, <2>9, <2>10
  <2>12. \A p \in 1 .. z : p \in 1 .. q \/ p = z OBVIOUS
  <2> HIDE DEF z
  <2>13. \A p \in 1 .. z : A[p] = F[p] BY <2>2, <2>11, <2>12
  <2>14. z \in T BY <2>1, <2>13
  <2> QED BY <2>14 DEF z
<1>6. k \in T
  <2> HIDE DEF T
  <2>1. \A q \in 0 .. k : q \in T BY <1>4, <1>5, UpTo
  <2> QED BY <2>1
<1>7. A = F
  <2>1. \A p \in 1 .. k : A[p] = F[p] BY <1>6
  <2> QED BY <1>3, <2>1
<1> QED BY <1>2, <1>7 DEF A

\* Cutting after these layers gives the slices that end with them.
LEMMA CutsAreTiles ==
  ASSUME NEW g, Len(g) \in Nat \ {0}, NEW n \in Nat \ {0}, NEW ends \in Ends(Len(g), n),
         NEW cuts, cuts = {ends[p] : p \in 1 .. n - 1}
  PROVE  Cardinality(cuts) = n - 1 /\ partitions_from_cuts(g, cuts) = Tiles(g, ends, n)
<1> DEFINE F == [p \in 1 .. n - 1 |-> ends[p]]
           A == Ascending(cuts)
           bounds == <<0>> \o A \o <<Len(g)>>
<1>1. ends \in [0 .. n -> 0 .. Len(g)] /\ ends[0] = 0 /\ ends[n] = Len(g) /\ Len(g) \in Nat /\ n - 1 \in Nat
  BY DEF Ends
<1>2. \A p, q \in 0 .. n : p < q => ends[p] < ends[q] BY EndsGrow
<1>3. \A p \in 1 .. n - 1 : p \in 0 .. n /\ ends[p] \in 1 .. Len(g)
  <2> SUFFICES ASSUME NEW p \in 1 .. n - 1 PROVE p \in 0 .. n /\ ends[p] \in 1 .. Len(g)
    OBVIOUS
  <2>1. p \in 0 .. n /\ 0 \in 0 .. n /\ 0 < p OBVIOUS
  <2>2. ends[0] < ends[p] /\ ends[p] \in 0 .. Len(g) BY <1>1, <1>2, <2>1
  <2> QED BY <1>1, <2>1, <2>2
<1>4. F \in [1 .. n - 1 -> 1 .. Len(g)] /\ \A p, q \in 1 .. n - 1 : p < q => F[p] < F[q]
  BY <1>2, <1>3
<1>5. cuts = {F[p] : p \in 1 .. n - 1} OBVIOUS
<1>6. Cardinality(cuts) = n - 1 /\ A = F
  <2> HIDE DEF F
  <2> QED BY <1>1, <1>4, <1>5, AscendingIs
<1>7. A \in Seq(Nat) /\ Len(A) = n - 1 /\ \A p \in 1 .. n - 1 : A[p] = ends[p]
  <2>1. F \in [1 .. n - 1 -> Nat] /\ \A p \in 1 .. n - 1 : F[p] = ends[p] BY <1>4
  <2> HIDE DEF F, A
  <2> QED BY <1>1, <1>6, <2>1, AsSequence
<1> HIDE DEF A
<1>8. /\ bounds[1] = 0 /\ bounds[(n - 1) + 2] = Len(g)
      /\ \A p \in 1 .. n - 1 : bounds[p + 1] = A[p]
  <2>1. /\ bounds[1] = 0 /\ bounds[Len(A) + 2] = Len(g)
        /\ \A p \in 1 .. Len(A) : bounds[p + 1] = A[p]
    BY <1>1, <1>7, BoundsOf
  <2> HIDE DEF bounds
  <2> QED BY <1>7, <2>1
<1> HIDE DEF bounds
<1>9. \A p \in 0 .. n : bounds[p + 1] = ends[p]
  <2> SUFFICES ASSUME NEW p \in 0 .. n PROVE bounds[p + 1] = ends[p]
    OBVIOUS
  <2>1. p = 0 \/ p \in 1 .. n - 1 \/ (p = n /\ p + 1 = (n - 1) + 2) OBVIOUS
  <2>2. CASE p = 0 BY <1>1, <1>8, <2>2
  <2>3. CASE p \in 1 .. n - 1 BY <1>7, <1>8, <2>3
  <2>4. CASE p = n /\ p + 1 = (n - 1) + 2 BY <1>1, <1>8, <2>4
  <2> QED BY <2>1, <2>2, <2>3, <2>4
<1>10. partitions_from_cuts(g, cuts) =
         [p \in 1 .. (n - 1) + 1 |-> Partition(g, Interval(bounds[p] + 1, bounds[p + 1]))]
  BY <1>6 DEF partitions_from_cuts, bounds, A
<1>11. (n - 1) + 1 = n OBVIOUS
<1>12. \A p \in 1 .. n : bounds[p] = ends[p - 1] /\ bounds[p + 1] = ends[p]
  <2> SUFFICES ASSUME NEW p \in 1 .. n PROVE bounds[p] = ends[p - 1] /\ bounds[p + 1] = ends[p]
    OBVIOUS
  <2>1. p - 1 \in 0 .. n /\ (p - 1) + 1 = p /\ p \in 0 .. n OBVIOUS
  <2>2. bounds[(p - 1) + 1] = ends[p - 1] BY <1>9, <2>1
  <2> QED BY <1>9, <2>1, <2>2
<1>13. partitions_from_cuts(g, cuts) = Tiles(g, ends, n) BY <1>10, <1>11, <1>12 DEF Tiles
<1> QED BY <1>6, <1>13

\* The slices along a walk.
LEMMA WalkTiles ==
  ASSUME NEW g, Regular(g), NEW n \in Nat \ {0}, NEW t, NEW b, Balanced(b, g, t), NEW at \in Ends(Len(b.ends), n)
  PROVE  LET ps == partitions_from_cuts(g, CutsAlong(b, n, at))
         IN  /\ CutsAlong(b, n, at) \in kSubset(n - 1, valid_cuts(g))
             /\ DOMAIN ps = 1 .. n
             /\ \A p \in 1 .. n : ps[p].layers[1] = FirstOf(b, at[p - 1]) /\ LastOf(ps, p) = b.ends[at[p]]
<1> DEFINE m == Len(b.ends)
           ends == [p \in 0 .. n |-> IF at[p] = 0 THEN 0 ELSE b.ends[at[p]]]
           cuts == CutsAlong(b, n, at)
           ps == partitions_from_cuts(g, cuts)
<1>1. /\ m \in Nat \ {0} /\ \A j \in 1 .. m : b.ends[j] \in 1 .. Len(g)
      /\ \A j \in 1 .. m - 1 : b.ends[j] \in valid_cuts(g)
      /\ b.ends[m] = Len(g)
      /\ \A i, j \in 1 .. m : i < j => b.ends[i] < b.ends[j]
  BY BlockEnds
<1>2. Len(g) \in Nat \ {0} BY DEF Regular
<1>3. at \in [0 .. n -> 0 .. m] /\ at[0] = 0 /\ at[n] = m /\ \A p \in 1 .. n : at[p - 1] < at[p]
  BY DEF Ends
<1>4. \A p \in 0 .. n : at[p] \in p .. m - (n - p)
  <2>1. m \in Nat BY <1>1
  <2> HIDE DEF m
  <2> QED BY <2>1, WalkSteps DEF m
<1> HIDE DEF m
<1>5. \A p \in 1 .. n : at[p] \in 1 .. m /\ ends[p] = b.ends[at[p]]
  <2> SUFFICES ASSUME NEW p \in 1 .. n PROVE at[p] \in 1 .. m /\ ends[p] = b.ends[at[p]]
    OBVIOUS
  <2>1. p \in 0 .. n OBVIOUS
  <2>2. at[p] \in 1 .. m BY <1>1, <1>3, <1>4, <2>1
  <2> QED BY <2>1, <2>2
<1>6. ends \in [0 .. n -> 0 .. Len(g)]
  <2> SUFFICES ASSUME NEW p \in 0 .. n PROVE (IF at[p] = 0 THEN 0 ELSE b.ends[at[p]]) \in 0 .. Len(g)
    OBVIOUS
  <2>1. at[p] = 0 \/ at[p] \in 1 .. m BY <1>1, <1>3
  <2> QED BY <1>1, <1>2, <2>1
<1>7. ends[0] = 0 /\ ends[n] = Len(g) BY <1>1, <1>3, <1>5
<1>8. \A p \in 1 .. n : ends[p - 1] < ends[p]
  <2> SUFFICES ASSUME NEW p \in 1 .. n PROVE ends[p - 1] < ends[p]
    OBVIOUS
  <2>1. p - 1 \in 0 .. n /\ at[p - 1] < at[p] /\ at[p] \in 1 .. m /\ ends[p] = b.ends[at[p]] /\ at[p - 1] \in 0 .. m
    BY <1>3, <1>5
  <2>2. ends[p - 1] = IF at[p - 1] = 0 THEN 0 ELSE b.ends[at[p - 1]] BY <2>1
  <2> HIDE DEF ends
  <2>3. CASE at[p - 1] = 0
    <3>1. b.ends[at[p]] \in 1 .. Len(g) BY <1>1, <2>1
    <3> QED BY <1>2, <2>1, <2>2, <2>3, <3>1
  <2>4. CASE at[p - 1] # 0
    <3>1. at[p - 1] \in 1 .. m BY <1>1, <2>1, <2>4
    <3> QED BY <1>1, <2>1, <2>2, <2>4, <3>1
  <2> QED BY <2>3, <2>4
<1>9. ends \in Ends(Len(g), n)
  <2> HIDE DEF ends
  <2> QED BY <1>6, <1>7, <1>8 DEF Ends
<1>10. cuts = {ends[p] : p \in 1 .. n - 1}
  <2>1. \A p \in 1 .. n - 1 : p \in 1 .. n OBVIOUS
  <2>2. \A p \in 1 .. n - 1 : ends[p] = b.ends[at[p]] BY <1>5, <2>1
  <2> HIDE DEF ends
  <2> QED BY <2>2 DEF CutsAlong
<1>11. cuts \subseteq valid_cuts(g)
  <2>1. ASSUME NEW p \in 1 .. n - 1 PROVE at[p] \in 1 .. m - 1
    <3>1. at[p] \in p .. m - (n - p)
      <4>1. p \in 0 .. n OBVIOUS
      <4> QED BY <1>4, <4>1
    <3> QED BY <1>1, <3>1
  <2> QED BY <1>1, <2>1 DEF CutsAlong
<1> DEFINE first(p) == FirstOf(b, at[p - 1])
<1>12. \A p \in 1 .. n : first(p) = ends[p - 1] + 1
  <2> SUFFICES ASSUME NEW p \in 1 .. n PROVE FirstOf(b, at[p - 1]) = ends[p - 1] + 1
    OBVIOUS
  <2>1. p - 1 \in 0 .. n OBVIOUS
  <2>2. ends[p - 1] = IF at[p - 1] = 0 THEN 0 ELSE b.ends[at[p - 1]] BY <2>1
  <2> QED BY <2>2 DEF FirstOf
<1> HIDE DEF ends, cuts, first
<1>13. Cardinality(cuts) = n - 1 /\ ps = Tiles(g, ends, n) BY <1>2, <1>9, <1>10, CutsAreTiles
<1>14. /\ DOMAIN ps = 1 .. n
       /\ \A p \in 1 .. n : /\ ps[p].layers = Span(ends[p - 1], ends[p]) /\ LastOf(ps, p) = ends[p]
                            /\ ends[p - 1] < ends[p]
  <2>1. Len(g) \in Nat BY <1>2
  <2>2. /\ DOMAIN Tiles(g, ends, n) = 1 .. n
        /\ \A p \in 1 .. n :
             /\ Tiles(g, ends, n)[p].layers = Span(ends[p - 1], ends[p])
             /\ LastOf(Tiles(g, ends, n), p) = ends[p] /\ ends[p - 1] < ends[p]
    BY <1>9, <2>1, TileFacts
  <2> QED BY <1>13, <2>2
<1>15. ASSUME NEW p \in 1 .. n PROVE ps[p].layers[1] = first(p) /\ LastOf(ps, p) = b.ends[at[p]]
  <2>1. ends[p - 1] \in Nat /\ ends[p] \in Nat
    <3>1. p - 1 \in 0 .. n /\ p \in 0 .. n OBVIOUS
    <3> QED BY <1>2, <1>6, <3>1
  <2>2. 1 \in 1 .. ends[p] - ends[p - 1] BY <1>14, <2>1
  <2>3. Span(ends[p - 1], ends[p])[1] = ends[p - 1] + 1 BY <2>2 DEF Span
  <2>4. ps[p].layers[1] = ends[p - 1] + 1 BY <1>14, <2>3
  <2> QED BY <1>5, <1>12, <1>14, <2>4
<1>16. cuts \in kSubset(n - 1, valid_cuts(g)) BY <1>11, <1>13 DEF kSubset
<1> QED BY <1>14, <1>15, <1>16 DEF cuts, first

\* Every choice of valid cuts is a walk.
LEMMA CutsWalk ==
  ASSUME NEW g, Regular(g), NEW n \in Nat \ {0}, NEW t, NEW b, Balanced(b, g, t),
         NEW cuts \in kSubset(n - 1, valid_cuts(g))
  PROVE  \E at \in Ends(Len(b.ends), n) : cuts = CutsAlong(b, n, at)
<1> DEFINE C == valid_cuts(g)
           c == Cardinality(C)
           A == Ascending(cuts)
           m == Len(b.ends)
           at == [p \in 0 .. n |-> IF p = 0 THEN 0 ELSE IF p = n THEN m ELSE Rank(C, A[p])]
<1>1. Len(g) - 1 \in Nat /\ Len(g) \in Nat /\ C \subseteq 1 .. Len(g) - 1
  BY DEF valid_cuts, Regular
<1>2. cuts \subseteq C /\ Cardinality(cuts) = n - 1 BY DEF kSubset
<1>3. cuts \subseteq 1 .. Len(g) - 1 BY <1>1, <1>2
<1>4. /\ A \in [1 .. n - 1 -> cuts]
      /\ \A i \in cuts : Rank(cuts, i) \in 1 .. n - 1 /\ A[Rank(cuts, i)] = i
      /\ \A p, q \in 1 .. n - 1 : p < q => A[p] < A[q]
  BY <1>1, <1>2, <1>3, AscendingLists
<1>5. /\ c \in Nat
      /\ Ascending(C) \in Seq(C) /\ Len(Ascending(C)) = c
      /\ \A i \in C : Rank(C, i) \in 1 .. c /\ Ascending(C)[Rank(C, i)] = i
  BY <1>1, AscendingLists
<1>6. \A i, j \in C : i < j => Rank(C, i) < Rank(C, j) BY <1>1, Ranks
<1>7. m = c + 1 /\ b.ends = Ascending(C) \o <<Len(g)>> BY BlockEnds DEF Balanced
<1>8. \A i \in C : b.ends[Rank(C, i)] = i
  <2> SUFFICES ASSUME NEW i \in C PROVE b.ends[Rank(C, i)] = i
    OBVIOUS
  <2> DEFINE seq == Ascending(C)
             r == Rank(C, i)
             e == b.ends
  <2>0. C \subseteq Nat BY <1>1
  <2>1. seq \in Seq(Nat) /\ Len(seq) = c /\ r \in 1 .. c /\ seq[r] = i /\ e = seq \o <<Len(g)>>
    <3>1. seq \in Seq(C) /\ Len(seq) = c BY <1>5
    <3>2. seq \in Seq(Nat)
      <4>1. seq \in [1 .. c -> C] BY <1>1, AscendingLists
      <4>2. c \in Nat BY <1>5
      <4> HIDE DEF C, seq, c
      <4>3. seq \in [1 .. c -> Nat] BY <2>0, <4>1
      <4> QED BY <4>2, <4>3, AsSequence
    <3> QED BY <1>5, <1>7, <3>1, <3>2
  <2> HIDE DEF seq, r, e
  <2>2. e[r] = seq[r] BY <1>1, <1>5, <2>1
  <2> QED BY <2>1, <2>2 DEF e, r
<1> HIDE DEF A, C, c, m
<1>9. \A p \in 1 .. n - 1 : A[p] \in C /\ A[p] \in cuts /\ Rank(C, A[p]) \in 1 .. c /\ b.ends[Rank(C, A[p])] = A[p]
  BY <1>2, <1>4, <1>5, <1>8
<1>10. at[0] = 0 /\ at[n] = m /\ \A p \in 1 .. n - 1 : at[p] = Rank(C, A[p])
  <2>1. 0 \in 0 .. n /\ n \in 0 .. n /\ n # 0 /\ \A p \in 1 .. n - 1 : p \in 0 .. n /\ p # 0 /\ p # n
    OBVIOUS
  <2> QED BY <2>1
<1>11. \A p \in 0 .. n : at[p] \in 0 .. m
  <2> SUFFICES ASSUME NEW p \in 0 .. n PROVE at[p] \in 0 .. m
    OBVIOUS
  <2>1. p = 0 \/ p = n \/ p \in 1 .. n - 1 OBVIOUS
  <2>2. p \in 1 .. n - 1 => at[p] \in 1 .. c BY <1>9, <1>10
  <2> HIDE DEF at
  <2> QED BY <1>5, <1>7, <1>10, <2>1, <2>2
<1>12. ASSUME NEW p \in 1 .. n PROVE at[p - 1] < at[p]
  <2>1. CASE p = 1 /\ p = n
    <3>1. at[p - 1] = 0 /\ at[p] = m BY <1>10, <2>1
    <3> HIDE DEF at
    <3> QED BY <1>5, <1>7, <3>1
  <2>2. CASE p = 1 /\ p # n
    <3>1. at[p - 1] = 0 /\ p \in 1 .. n - 1 BY <1>10, <2>2
    <3>2. at[p] \in 1 .. c BY <1>9, <1>10, <3>1
    <3> HIDE DEF at
    <3> QED BY <1>5, <3>1, <3>2
  <2>3. CASE p # 1 /\ p = n
    <3>1. p - 1 \in 1 .. n - 1 /\ at[p] = m BY <1>10, <2>3
    <3>2. at[p - 1] \in 1 .. c BY <1>9, <1>10, <3>1
    <3> HIDE DEF at
    <3> QED BY <1>5, <1>7, <3>1, <3>2
  <2>4. CASE p # 1 /\ p # n
    <3>1. p - 1 \in 1 .. n - 1 /\ p \in 1 .. n - 1 /\ p - 1 < p BY <2>4
    <3>2. A[p - 1] < A[p] /\ A[p - 1] \in C /\ A[p] \in C BY <1>4, <1>9, <3>1
    <3>3. Rank(C, A[p - 1]) < Rank(C, A[p]) BY <1>6, <3>2
    <3>4. at[p - 1] = Rank(C, A[p - 1]) /\ at[p] = Rank(C, A[p]) BY <1>10, <3>1
    <3> QED BY <3>3, <3>4
  <2> QED BY <2>1, <2>2, <2>3, <2>4
<1>13. at \in Ends(m, n)
  <2>1. at \in [0 .. n -> 0 .. m]
    <3>1. at = [p \in 0 .. n |-> at[p]] OBVIOUS
    <3> HIDE DEF at
    <3> QED BY <1>11, <3>1
  <2> HIDE DEF at
  <2> QED BY <1>10, <1>12, <2>1 DEF Ends
<1>14. \A p \in 1 .. n - 1 : b.ends[at[p]] = A[p] BY <1>9, <1>10
<1>15. cuts = {A[p] : p \in 1 .. n - 1}
  <2>1. \A i \in cuts : \E p \in 1 .. n - 1 : A[p] = i BY <1>4
  <2>2. \A p \in 1 .. n - 1 : A[p] \in cuts BY <1>9
  <2> QED BY <2>1, <2>2
<1>16. cuts = CutsAlong(b, n, at)
  <2> HIDE DEF at
  <2> QED BY <1>14, <1>15 DEF CutsAlong
<1> QED BY <1>13, <1>16 DEF m

\* One of finitely many numbers is the largest.
LEMMA LargestOf ==
  ASSUME NEW n \in Nat \ {0}, NEW f \in [1 .. n -> Nat], NEW S, S = {f[p] : p \in 1 .. n}
  PROVE  Max(S) \in S /\ \A p \in 1 .. n : f[p] <= Max(S)
<1> DEFINE T == {k \in 0 .. n : k = 0 \/ \E q \in 1 .. k : \A p \in 1 .. k : f[p] <= f[q]}
<1>1. 0 \in T OBVIOUS
<1>2. ASSUME NEW k \in 0 .. n - 1, k \in T PROVE k + 1 \in T
  <2> DEFINE z == k + 1
  <2>1. z \in 1 .. n /\ z \in 0 .. n /\ \A p \in 1 .. z : p \in 1 .. k \/ p = z OBVIOUS
  <2>2. \A p \in 1 .. k : p \in 1 .. z /\ p \in 1 .. n OBVIOUS
  <2>3. f[z] \in Nat /\ z \in 1 .. z BY <2>1
  <2>4. CASE k = 0
    <3>1. \A p \in 1 .. z : f[p] <= f[z] BY <2>1, <2>3, <2>4
    <3> HIDE DEF z
    <3> QED BY <2>1, <2>3, <3>1 DEF z
  <2>5. CASE k # 0
    <3>1. PICK q \in 1 .. k : \A p \in 1 .. k : f[p] <= f[q] BY <1>2, <2>5
    <3>2. f[q] \in Nat /\ q \in 1 .. z /\ \A p \in 1 .. k : f[p] \in Nat BY <2>2
    <3> HIDE DEF z
    <3>3. CASE f[z] <= f[q]
      <4>1. \A p \in 1 .. z : f[p] <= f[q] BY <2>1, <3>1, <3>3
      <4> QED BY <2>1, <3>2, <4>1 DEF z
    <3>4. CASE ~(f[z] <= f[q])
      <4>1. \A p \in 1 .. z : f[p] <= f[z] BY <2>1, <2>3, <3>1, <3>2, <3>4
      <4> QED BY <2>1, <2>3, <4>1 DEF z
    <3> QED BY <3>3, <3>4
  <2> QED BY <2>4, <2>5
<1>3. n \in T
  <2> HIDE DEF T
  <2>1. \A k \in 0 .. n : k \in T BY <1>1, <1>2, UpTo
  <2> QED BY <2>1
<1>4. PICK q \in 1 .. n : \A p \in 1 .. n : f[p] <= f[q] BY <1>3
<1>5. f[q] \in S /\ \A y \in S : f[q] >= y
  <2>1. \A p \in 1 .. n : f[p] \in Nat OBVIOUS
  <2> QED BY <1>4, <2>1
<1>6. Max(S) \in S /\ \A y \in S : Max(S) >= y BY <1>5 DEF Max
<1>7. \A p \in 1 .. n : f[p] \in S /\ f[p] \in Nat OBVIOUS
<1>8. Max(S) \in Nat BY <1>6
<1> QED BY <1>6, <1>7, <1>8

\* What Ways and Slowest say of a graph and a strategy.
WaysFor(g, s, k, t) ==
  LET mem == node_memory(g, MemoryFactor(s))
  IN {ps \in {partitions_from_cuts(g, cuts) : cuts \in kSubset(k - 1, valid_cuts(g))} :
        \A p \in 1 .. k : Fits(mem, t, p, ps[p].layers[1], LastOf(ps, p))}

SlowestOf(g, ps, costs, t) ==
  Max({SliceCost(g, costs, t, p, ps[p].layers[1], LastOf(ps, p)) : p \in DOMAIN ps})

LEMMA WaysAreWalks ==
  ASSUME NEW g, Regular(g), Costed(g), NEW s, NEW n \in Nat \ {0}, NEW t
  PROVE  LET b == Blocks(g, s, t)
         IN  \A ps : ps \in WaysFor(g, s, n, t) <=>
               \E at \in Ends(Len(b.ends), n) :
                 FitsAlong(b, n, at) /\ ps = partitions_from_cuts(g, CutsAlong(b, n, at))
<1> DEFINE b == Blocks(g, s, t)
           W == {partitions_from_cuts(g, cuts) : cuts \in kSubset(n - 1, valid_cuts(g))}
           mem == node_memory(g, MemoryFactor(s))
<1>1. Balanced(b, g, t) /\ b.mem = mem /\ b.terms = t BY BlocksBalanced DEF Blocks
<1> HIDE DEF b, mem
<1>2. ASSUME NEW at \in Ends(Len(b.ends), n), NEW ps, ps = partitions_from_cuts(g, CutsAlong(b, n, at))
      PROVE  ps \in W /\ (FitsAlong(b, n, at) <=> \A p \in 1 .. n : Fits(mem, t, p, ps[p].layers[1], LastOf(ps, p)))
  <2>1. /\ CutsAlong(b, n, at) \in kSubset(n - 1, valid_cuts(g))
        /\ \A p \in 1 .. n : ps[p].layers[1] = FirstOf(b, at[p - 1]) /\ LastOf(ps, p) = b.ends[at[p]]
    BY <1>1, <1>2, WalkTiles
  <2>2. \A p \in 1 .. n : FitsBlocks(b, p, at[p - 1], at[p]) <=> Fits(mem, t, p, ps[p].layers[1], LastOf(ps, p))
    BY <1>1, <2>1 DEF FitsBlocks
  <2> QED BY <1>2, <2>1, <2>2 DEF FitsAlong
<1>3. \A ps \in W : \E at \in Ends(Len(b.ends), n) : ps = partitions_from_cuts(g, CutsAlong(b, n, at))
  <2> SUFFICES ASSUME NEW cuts \in kSubset(n - 1, valid_cuts(g))
               PROVE  \E at \in Ends(Len(b.ends), n) : partitions_from_cuts(g, cuts) = partitions_from_cuts(g, CutsAlong(b, n, at))
    OBVIOUS
  <2>1. PICK at \in Ends(Len(b.ends), n) : cuts = CutsAlong(b, n, at) BY <1>1, CutsWalk
  <2> QED BY <2>1
<1>4. \A ps : ps \in WaysFor(g, s, n, t) <=> ps \in W /\ \A p \in 1 .. n : Fits(mem, t, p, ps[p].layers[1], LastOf(ps, p))
  BY DEF WaysFor, mem
<1> HIDE DEF W
<1>5. ASSUME NEW ps PROVE ps \in WaysFor(g, s, n, t) <=>
                            \E at \in Ends(Len(b.ends), n) :
                              FitsAlong(b, n, at) /\ ps = partitions_from_cuts(g, CutsAlong(b, n, at))
  BY <1>2, <1>3, <1>4
<1> QED BY <1>5 DEF b

LEMMA SlowestAlong ==
  ASSUME NEW g, Regular(g), Costed(g), NEW s, NEW n \in Nat \ {0}, NEW t, TermsFor(t, n),
         NEW at \in Ends(Len(Blocks(g, s, t).ends), n)
  PROVE  LET b == Blocks(g, s, t)
             slowest == SlowestOf(g, partitions_from_cuts(g, CutsAlong(b, n, at)), node_costs(g, s), t)
         IN  /\ slowest \in Nat /\ PricesAlong(b, n, at, slowest)
             /\ \A most \in Nat : PricesAlong(b, n, at, most) => slowest <= most
<1> DEFINE b == Blocks(g, s, t)
           ps == partitions_from_cuts(g, CutsAlong(b, n, at))
           costs == node_costs(g, s)
           f == [p \in 1 .. n |-> PriceOf(b, p, at[p - 1], at[p])]
           S == {f[p] : p \in 1 .. n}
<1>1. Balanced(b, g, t) /\ b.terms = t /\ b.graph = g /\ b.costs = costs
  BY BlocksBalanced DEF Blocks
<1>2. at \in Ends(Len(b.ends), n) OBVIOUS
<1> HIDE DEF b, costs
<1>3. /\ DOMAIN ps = 1 .. n
      /\ \A p \in 1 .. n : ps[p].layers[1] = FirstOf(b, at[p - 1]) /\ LastOf(ps, p) = b.ends[at[p]]
  BY <1>1, <1>2, WalkTiles
<1>4. \A p \in 1 .. n : PriceOf(b, p, at[p - 1], at[p]) = SliceCost(g, costs, t, p, ps[p].layers[1], LastOf(ps, p))
  BY <1>1, <1>3 DEF PriceOf
<1>5. ASSUME NEW p \in 1 .. n PROVE PriceOf(b, p, at[p - 1], at[p]) \in Nat
  <2>1. Len(b.ends) \in Nat BY <1>1, BlockEnds
  <2>2. at[p - 1] \in 0 .. Len(b.ends) /\ at[p] \in 1 .. Len(b.ends)
    <3>1. p - 1 \in 0 .. n /\ p \in 0 .. n OBVIOUS
    <3>2. at[p - 1] \in 0 .. Len(b.ends) /\ at[p] \in 0 .. Len(b.ends) /\ at[p - 1] < at[p]
      BY <1>2, <3>1 DEF Ends
    <3> QED BY <2>1, <3>2
  <2> QED BY <1>1, <2>2, PricesTyped
<1>6. f \in [1 .. n -> Nat] /\ \A p \in 1 .. n : f[p] = PriceOf(b, p, at[p - 1], at[p]) BY <1>5
<1>7. SlowestOf(g, ps, costs, t) = Max(S)
  <2> DEFINE price(p) == SliceCost(g, costs, t, p, ps[p].layers[1], LastOf(ps, p))
  <2>1. DOMAIN ps = 1 .. n /\ \A p \in 1 .. n : price(p) = f[p] BY <1>3, <1>4
  <2>2. SlowestOf(g, ps, costs, t) = Max({price(p) : p \in DOMAIN ps}) BY DEF SlowestOf
  <2> HIDE DEF price, f, ps
  <2>3. {price(p) : p \in DOMAIN ps} = S BY <2>1
  <2> QED BY <2>2, <2>3
<1>8. Max(S) \in S /\ \A p \in 1 .. n : f[p] <= Max(S)
  <2> HIDE DEF f
  <2> QED BY <1>6, LargestOf
<1>9. Max(S) \in Nat /\ PricesAlong(b, n, at, Max(S)) /\ \A most \in Nat : PricesAlong(b, n, at, most) => Max(S) <= most
  <2> HIDE DEF f
  <2>1. PricesAlong(b, n, at, Max(S)) BY <1>6, <1>8 DEF PricesAlong
  <2>2. PICK q \in 1 .. n : Max(S) = f[q] BY <1>8
  <2>3. Max(S) \in Nat BY <1>6, <2>2
  <2>4. \A most \in Nat : PricesAlong(b, n, at, most) => Max(S) <= most
    BY <1>6, <2>2 DEF PricesAlong
  <2> QED BY <2>1, <2>3, <2>4
<1> QED BY <1>7, <1>9 DEF b, costs

\* balanced_cuts() finds the best way, and one whenever there is one.
LEMMA CostsAreBest ==
  ASSUME NEW g, Regular(g), Costed(g), NEW s, NEW n \in Nat \ {0}, NEW t, TermsFor(t, n)
  PROVE  /\ \A ps \in CostSplit(g, s, n, t) :
              /\ ps \in WaysFor(g, s, n, t)
              /\ \A other \in WaysFor(g, s, n, t) :
                   SlowestOf(g, ps, node_costs(g, s), t) <= SlowestOf(g, other, node_costs(g, s), t)
         /\ WaysFor(g, s, n, t) # {} => CostSplit(g, s, n, t) # {}
<1> DEFINE b == Blocks(g, s, t)
           best == BestWays(b, n)
           m == Len(b.ends)
           top == best[n][m + 1].max
           costs == node_costs(g, s)
<1>1. Balanced(b, g, t) BY BlocksBalanced
<1>2. CostSplit(g, s, n, t) = {partitions_from_cuts(g, cuts) : cuts \in CutsOf(b, n, best)}
  BY DEF CostSplit, balanced_cuts
<1>3. \A ps : ps \in WaysFor(g, s, n, t) <=>
                \E at \in Ends(m, n) : FitsAlong(b, n, at) /\ ps = partitions_from_cuts(g, CutsAlong(b, n, at))
  BY WaysAreWalks
<1>4. \A at \in Ends(m, n) :
        LET slowest == SlowestOf(g, partitions_from_cuts(g, CutsAlong(b, n, at)), costs, t)
        IN  /\ slowest \in Nat /\ PricesAlong(b, n, at, slowest)
            /\ \A most \in Nat : PricesAlong(b, n, at, most) => slowest <= most
  BY SlowestAlong
<1> HIDE DEF b, costs
<1>5. Table(b, n, best) BY <1>1, BestWaysTable
<1> HIDE DEF best
<1>6. top \in Nat
  <2>1. m \in Nat \ {0} BY <1>1, BlockEnds
  <2>2. n \in 0 .. n /\ m + 1 \in 1 .. m + 1 BY <2>1
  <2>3. best[n] \in CostRows(m) BY <1>5, <2>2 DEF Table
  <2>4. best[n][m + 1] \in Cell BY <2>2, <2>3 DEF CostRows
  <2> QED BY <2>4 DEF Cell
<1>7. \A at \in Ends(m, n) : FitsAlong(b, n, at) =>
        best[n][m + 1].ok /\ \A most \in Nat : PricesAlong(b, n, at, most) => top <= most
  BY <1>1, <1>5, WalkIsFound
<1>8. \A cuts \in CutsOf(b, n, best) : \E at \in Ends(m, n) :
        cuts = CutsAlong(b, n, at) /\ FitsAlong(b, n, at) /\ PricesAlong(b, n, at, top)
  BY <1>1, <1>5, FoundIsWalk, SMTT(30)
<1>9. best[n][m + 1].ok => CutsOf(b, n, best) # {} BY DEF CutsOf
<1> HIDE DEF m, top
<1>10. ASSUME NEW ps \in CostSplit(g, s, n, t)
       PROVE  /\ ps \in WaysFor(g, s, n, t)
              /\ \A other \in WaysFor(g, s, n, t) : SlowestOf(g, ps, costs, t) <= SlowestOf(g, other, costs, t)
  <2>1. PICK cuts \in CutsOf(b, n, best) : ps = partitions_from_cuts(g, cuts) BY <1>2
  <2>2. PICK at \in Ends(m, n) : cuts = CutsAlong(b, n, at) /\ FitsAlong(b, n, at) /\ PricesAlong(b, n, at, top)
    BY <1>8
  <2>3. ps \in WaysFor(g, s, n, t) BY <1>3, <2>1, <2>2
  <2>4. SlowestOf(g, ps, costs, t) \in Nat /\ SlowestOf(g, ps, costs, t) <= top
    BY <1>4, <1>6, <2>1, <2>2
  <2>5. ASSUME NEW other \in WaysFor(g, s, n, t) PROVE SlowestOf(g, ps, costs, t) <= SlowestOf(g, other, costs, t)
    <3>1. PICK to \in Ends(m, n) : FitsAlong(b, n, to) /\ other = partitions_from_cuts(g, CutsAlong(b, n, to))
      BY <1>3
    <3>2. SlowestOf(g, other, costs, t) \in Nat /\ PricesAlong(b, n, to, SlowestOf(g, other, costs, t))
      BY <1>4, <3>1
    <3>3. top <= SlowestOf(g, other, costs, t) BY <1>7, <3>1, <3>2
    <3> QED BY <1>6, <2>4, <3>2, <3>3
  <2> QED BY <2>3, <2>5
<1>11. ASSUME WaysFor(g, s, n, t) # {} PROVE CostSplit(g, s, n, t) # {}
  <2>1. PICK ps \in WaysFor(g, s, n, t) : TRUE BY <1>11
  <2>2. PICK at \in Ends(m, n) : FitsAlong(b, n, at) BY <1>3
  <2>3. CutsOf(b, n, best) # {} BY <1>7, <1>9, <2>2 DEF m
  <2> QED BY <1>2, <2>3
<1> QED BY <1>10, <1>11 DEF costs

--------------------
(* As many slices as asked for. *)

LEMMA SlicesCount ==
  ASSUME NEW g, Len(g) \in Nat \ {0}, NEW n \in Nat \ {0}, NEW sizes \in [1 .. n -> Nat],
         \A p \in 1 .. n : SizesOf(sizes)[p - 1] < Len(g)
  PROVE  Len(SlicesOfSizes(g, sizes)) = n
<1>1. DOMAIN sizes = 1 .. n /\ n \in Nat OBVIOUS
<1>2. SlicesOfSizes(g, sizes) = Cut(g, n, SizesOf(sizes))
  BY <1>1 DEF SlicesOfSizes, SizesOf, Cut
<1>3. DOMAIN Cut(g, n, SizesOf(sizes)) = {p \in 1 .. n : SizesOf(sizes)[p - 1] < Len(g)}
  BY DEF Cut
<1>4. DOMAIN Cut(g, n, SizesOf(sizes)) = 1 .. n BY <1>3
<1> QED BY <1>1, <1>2, <1>4

LEMMA Below ==
  ASSUME NEW a \in Nat, NEW c \in Nat, NEW k \in Nat, a <= c
  PROVE  a * k \in Nat /\ c * k \in Nat /\ a * k <= c * k
  BY SMT

LEMMA UniformCount ==
  ASSUME NEW g, Len(g) \in Nat \ {0}, NEW n \in Nat \ {0}, NEW ps \in UniformSplit(g, n)
  PROVE  Len(ps) = n
<1> DEFINE size == CeilDiv(Len(g), n)
           sizes == UniformSizes(Len(g), n)
<1>1. ps = SlicesOfSizes(g, sizes) /\ n <= Len(g) BY DEF UniformSplit
<1>2. size \in Nat \ {0} BY DivideUp
<1>3. CASE (Len(g) - 1) \div size + 1 >= n
  <2> DEFINE q == (Len(g) - 1) \div size
  <2>1. sizes = [p \in 1 .. n |-> size] BY <1>3 DEF UniformSizes
  <2>2. Len(g) - 1 = size * q + ((Len(g) - 1) % size) /\ (Len(g) - 1) % size \in Nat /\ q \in Nat
    <3> DEFINE a == Len(g) - 1
    <3>1. a \in Nat OBVIOUS
    <3> HIDE DEF size, a
    <3>2. a = size * (a \div size) + (a % size) /\ a % size \in 0 .. size - 1 /\ a \div size \in Nat
      BY <1>2, <3>1, Divide
    <3>3. a % size \in Nat BY <1>2, <3>2
    <3> QED BY <3>2, <3>3 DEF a
  <2>3. q + 1 >= n BY <1>3
  <2> HIDE DEF size, sizes, q
  <2>4. sizes \in [1 .. n -> Nat] /\ \A p \in 1 .. n : sizes[p] = size BY <1>2, <2>1
  <2>5. \A p \in 0 .. n : SizesOf(sizes)[p] = p * size BY <1>2, <2>4, EqualSizes
  <2>6. ASSUME NEW p \in 1 .. n PROVE SizesOf(sizes)[p - 1] < Len(g)
    <3> DEFINE mine == (p - 1) * size
               all == q * size
    <3>1. p - 1 \in Nat /\ p - 1 <= q /\ p - 1 \in 0 .. n BY <2>2, <2>3
    <3>2. mine \in Nat /\ all \in Nat /\ mine <= all BY <1>2, <2>2, <3>1, Below
    <3>3. size * q = all BY <1>2, <2>2
    <3>4. SizesOf(sizes)[p - 1] = mine BY <2>5, <3>1
    <3>5. Len(g) - 1 = all + ((Len(g) - 1) % size) BY <2>2, <3>3
    <3> HIDE DEF mine, all
    <3> QED BY <2>2, <3>2, <3>4, <3>5
  <2> QED BY <1>1, <2>4, <2>6, SlicesCount
<1>4. CASE ~((Len(g) - 1) \div size + 1 >= n)
  <2> DEFINE each == Len(g) \div n
             r == Len(g) % n
  <2>1. sizes = [p \in 1 .. n |-> each + (IF p <= r THEN 1 ELSE 0)] BY <1>4 DEF UniformSizes
  <2>2. Len(g) = n * each + r /\ r \in 0 .. n - 1 /\ each \in Nat BY Divide
  <2> HIDE DEF sizes, each, r
  <2>3. sizes \in [1 .. n -> Nat] /\ \A p \in 1 .. n : sizes[p] = each + (IF p <= r THEN 1 ELSE 0)
    BY <2>1, <2>2
  <2>4. \A p \in 0 .. n : SizesOf(sizes)[p] = p * each + (IF p <= r THEN p ELSE r)
    <3>1. n \in Nat /\ r \in Nat BY <2>2
    <3> QED BY <2>2, <2>3, <3>1, EvenSizes, ZenonT(30)
  <2>5. each >= 1
    <3>1. each = 0 => n * each = 0 OBVIOUS
    <3> QED BY <1>1, <2>2, <3>1
  <2>6. ASSUME NEW p \in 1 .. n PROVE SizesOf(sizes)[p - 1] < Len(g)
    <3> DEFINE mine == (p - 1) * each
               next == p * each
               all == n * each
    <3>1. p - 1 \in Nat /\ p \in Nat /\ p <= n /\ p - 1 \in 0 .. n /\ n \in Nat OBVIOUS
    <3>2. next \in Nat /\ all \in Nat /\ next <= all BY <2>2, <3>1, Below
    <3>3. next = mine + each /\ mine \in Nat
      <4>1. (p - 1) + 1 = p OBVIOUS
      <4> QED BY <2>2, <3>1, <4>1, NextProduct
    <3>4. SizesOf(sizes)[p - 1] = mine + (IF p - 1 <= r THEN p - 1 ELSE r) BY <2>4, <3>1
    <3>5. Len(g) = all + r BY <2>2
    <3> HIDE DEF mine, next, all
    <3> QED BY <2>2, <2>5, <3>1, <3>2, <3>3, <3>4, <3>5
  <2> QED BY <1>1, <2>3, <2>6, SlicesCount
<1> QED BY <1>3, <1>4

LEMMA IncreasingCount ==
  ASSUME NEW k \in Nat, NEW m \in Nat, NEW F \in [1 .. k -> 1 .. m], \A p, q \in 1 .. k : p < q => F[p] < F[q]
  PROVE  Cardinality(ToSet(F)) = k
<1> DEFINE S == {F[p] : p \in 1 .. k}
<1>1. ToSet(F) = S BY DEF ToSet
<1>2. Cardinality(S) = k BY AscendingIs
<1> HIDE DEF S
<1> QED BY <1>1, <1>2

LEMMA NamedCount ==
  ASSUME NEW g, Len(g) \in Nat \ {0}, NEW names \in Seq([at : Int, module : STRING]), NEW n,
         NEW ps \in NamedSplit(g, names, n)
  PROVE  Len(ps) = n
<1> DEFINE at == [c \in DOMAIN names |-> index_of(g, names[c])]
           k == Len(names)
           m == Len(g)
           ends == [p \in 0 .. k + 1 |-> IF p = 0 THEN 0 ELSE IF p = k + 1 THEN m ELSE at[p]]
<1>1. /\ ps = partitions_from_cuts(g, ToSet(at)) /\ n = k + 1
      /\ \A c \in DOMAIN at : at[c] \in valid_cuts(g)
      /\ \A c \in 2 .. Len(at) : at[c - 1] < at[c]
  <2> HIDE DEF at
  <2>1. NamedSplit(g, names, n) =
          IF /\ n = Len(names) + 1
             /\ \A c \in DOMAIN at : at[c] \in valid_cuts(g)
             /\ \A c \in 2 .. Len(at) : at[c - 1] < at[c]
          THEN {partitions_from_cuts(g, ToSet(at))}
          ELSE {}
    BY DEF NamedSplit, at
  <2> QED BY <2>1
<1>2. k \in Nat /\ DOMAIN at = 1 .. k /\ Len(at) = k OBVIOUS
<1>3. valid_cuts(g) \subseteq 1 .. m - 1 BY DEF valid_cuts
<1>4. at \in [1 .. k -> 1 .. m - 1]
  <2>1. at = [c \in 1 .. k |-> at[c]] BY <1>2
  <2> HIDE DEF at
  <2> QED BY <1>1, <1>2, <1>3, <2>1
<1> HIDE DEF at, k, m
<1>5. /\ ends \in [0 .. k + 1 -> 0 .. m] /\ ends[0] = 0 /\ ends[k + 1] = m
      /\ \A p \in 1 .. k : ends[p] = at[p]
  <2>1. m \in Nat \ {0} BY DEF m
  <2> QED BY <1>2, <1>4, <2>1
<1>6. ASSUME NEW p \in 1 .. k + 1 PROVE ends[p - 1] < ends[p]
  <2>1. m \in Nat \ {0} /\ \A c \in 1 .. k : at[c] \in 1 .. m - 1 BY <1>4 DEF m
  <2>2. CASE p = 1 /\ k = 0 BY <1>5, <2>1, <2>2
  <2>3. CASE p = 1 /\ k # 0
    <3>1. ends[0] = 0 /\ ends[p] = at[1] /\ 1 \in 1 .. k BY <1>2, <1>5, <2>3
    <3> QED BY <2>1, <2>3, <3>1
  <2>4. CASE p # 1 /\ p = k + 1
    <3>1. p - 1 = k /\ k \in 1 .. k BY <1>2, <2>4
    <3>2. ends[p - 1] = at[k] /\ ends[p] = m BY <1>5, <2>4, <3>1
    <3> HIDE DEF ends
    <3> QED BY <2>1, <3>1, <3>2
  <2>5. CASE p # 1 /\ p # k + 1
    <3>1. p \in 2 .. k /\ p - 1 \in 1 .. k /\ p \in 1 .. k BY <1>2, <2>5
    <3>2. ends[p - 1] = at[p - 1] /\ ends[p] = at[p] /\ at[p - 1] < at[p]
      BY <1>1, <1>2, <1>5, <3>1
    <3> HIDE DEF ends
    <3> QED BY <3>2
  <2> QED BY <2>2, <2>3, <2>4, <2>5
<1>7. ends \in Ends(m, k + 1) BY <1>2, <1>5, <1>6 DEF Ends
<1> HIDE DEF ends
<1>8. \A p, q \in 1 .. k : p < q => at[p] < at[q]
  <2>1. m \in Nat /\ k + 1 \in Nat /\ \A p \in 1 .. k : p \in 0 .. k + 1 BY <1>2 DEF m
  <2>2. \A p, q \in 0 .. k + 1 : p < q => ends[p] < ends[q] BY <1>7, <2>1, EndsGrow
  <2> QED BY <1>5, <2>1, <2>2
<1>9. ToSet(at) = {at[p] : p \in 1 .. k} BY <1>2, <1>4 DEF ToSet
<1>10. Cardinality(ToSet(at)) = k
  <2> DEFINE l == m - 1
  <2>1. l \in Nat /\ at \in [1 .. k -> 1 .. l] BY <1>4 DEF m
  <2> HIDE DEF l
  <2> QED BY <1>2, <1>8, <2>1, IncreasingCount
<1>11. ToSet(at) \subseteq 1 .. m - 1 BY <1>4, <1>9
<1>12. Len(partitions_from_cuts(g, ToSet(at))) = Cardinality(ToSet(at)) + 1
  BY <1>11, CutsTile DEF m
<1> QED BY <1>1, <1>10, <1>12

\* A strategy answers with the slices it was asked for; the memory one with no
\* fewer.
LEMMA SplitCounts ==
  ASSUME NEW g, Regular(g), Costed(g), NEW s, s.names \in Seq([at : Int, module : STRING]), NEW n \in Nat \ {0},
         NEW t, TermsFor(t, n), NEW ps \in Split(g, s, n, t)
  PROVE  Len(ps) = n \/ (s.kind = "memory" /\ Len(ps) > n)
<1>1. Len(g) \in Nat \ {0} BY DEF Regular
<1>2. CASE s.kind = "uniform"
  <2>1. ps \in UniformSplit(g, n) BY <1>2 DEF Split
  <2> QED BY <1>1, <2>1, UniformCount
<1>3. CASE s.kind = "named"
  <2>1. ps \in NamedSplit(g, s.names, n) BY <1>3 DEF Split
  <2> DEFINE names == s.names
  <2>2. names \in Seq([at : Int, module : STRING]) OBVIOUS
  <2> HIDE DEF names
  <2>3. ASSUME ps \in NamedSplit(g, names, n) PROVE Len(ps) = n
    BY <1>1, <2>2, <2>3, NamedCount
  <2> QED BY <2>1, <2>3 DEF names
<1>4. CASE s.kind # "uniform" /\ s.kind # "named" /\ s.kind = "memory" /\ s.slot > 0
  <2>1. ps \in MemorySplit(g, s, n) BY <1>4 DEF Split
  <2>2. Len(ps) >= n /\ Len(ps) \in Nat BY <2>1, MemoryTiles
  <2> QED BY <1>4, <2>2
<1>5. CASE s.kind # "uniform" /\ s.kind # "named" /\ ~(s.kind = "memory" /\ s.slot > 0)
  <2>1. ps \in CostSplit(g, s, n, t) BY <1>5 DEF Split
  <2> QED BY <2>1, CostTiles
<1> QED BY <1>2, <1>3, <1>4, <1>5

--------------------
(* What a strategy answers is the best there is. *)

Slots(s) == s.kind = "memory" /\ s.slot > 0

SplitTerms(s, k, t) == IF Slots(s) THEN SlotTerms(s, k) ELSE t

BestAmong(g, s, ps, ways, t) ==
  /\ ps \in ways
  /\ \A other \in ways : SlowestOf(g, ps, node_costs(g, s), t) <= SlowestOf(g, other, node_costs(g, s), t)

LEMMA WayIsFitting ==
  ASSUME NEW g, Regular(g), Costed(g), NEW s, NEW n \in Nat \ {0}, NEW j \in Nat, j >= n,
         WaysFor(g, s, j, SlotTerms(s, j)) # {}
  PROVE  \E ps \in FittingSplits(g, s, n) : Len(ps) = j
<1> DEFINE V == valid_cuts(g)
           t == SlotTerms(s, j)
           W == {partitions_from_cuts(g, cuts) : cuts \in kSubset(j - 1, V)}
<1>1. PICK way : way \in WaysFor(g, s, j, t) OBVIOUS
<1>2. way \in W BY <1>1 DEF WaysFor
<1>3. PICK cuts \in kSubset(j - 1, V) : way = partitions_from_cuts(g, cuts) BY <1>2
<1>4. cuts \subseteq V /\ Cardinality(cuts) = j - 1 BY <1>3 DEF kSubset
<1>5. IsFiniteSet(V) /\ Cardinality(V) \in Nat
  <2>1. Len(g) - 1 \in Nat /\ V \subseteq 1 .. Len(g) - 1 BY DEF valid_cuts, Regular
  <2> HIDE DEF V
  <2> QED BY <2>1, AscendingLists
<1> HIDE DEF V, W, t
<1>6. j - 1 <= Cardinality(V) BY <1>4, <1>5, FS_Subset
<1>7. j \in n .. Cardinality(V) + 1 BY <1>5, <1>6
<1>8. TermsFor(t, j) BY NoTermsFor DEF t
<1>9. CostSplit(g, s, j, t) # {}
  <2>1. j \in Nat \ {0} OBVIOUS
  <2>2. WaysFor(g, s, j, t) # {} BY <1>1
  <2> QED BY <1>8, <2>1, <2>2, CostsAreBest
<1>10. PICK ps : ps \in CostSplit(g, s, j, t) BY <1>9
<1>11. Len(ps) = j BY <1>8, <1>10, CostTiles
<1>12. ps \in FittingSplits(g, s, n) BY <1>7, <1>10 DEF FittingSplits, V, t
<1> QED BY <1>11, <1>12

LEMMA FittingFacts ==
  ASSUME NEW g, Regular(g), Costed(g), NEW s, NEW n \in Nat \ {0}, NEW ps \in FittingSplits(g, s, n)
  PROVE  /\ Len(ps) \in Nat \ {0} /\ Len(ps) >= n
         /\ BestAmong(g, s, ps, WaysFor(g, s, Len(ps), SlotTerms(s, Len(ps))), SlotTerms(s, Len(ps)))
<1>1. PICK k \in n .. Cardinality(valid_cuts(g)) + 1 : ps \in CostSplit(g, s, k, SlotTerms(s, k))
  BY DEF FittingSplits
<1>2. k \in Nat \ {0} /\ k >= n BY CutCount
<1>3. TermsFor(SlotTerms(s, k), k) BY NoTermsFor
<1>4. Len(ps) = k BY <1>1, <1>2, <1>3, CostTiles
<1>5. BestAmong(g, s, ps, WaysFor(g, s, k, SlotTerms(s, k)), SlotTerms(s, k))
  BY <1>1, <1>2, <1>3, CostsAreBest DEF BestAmong
<1> QED BY <1>2, <1>4, <1>5

LEMMA MemoryIsBest ==
  ASSUME NEW g, Regular(g), Costed(g), NEW s, NEW n \in Nat \ {0}
  PROVE  /\ \A ps \in MemorySplit(g, s, n) :
              /\ BestAmong(g, s, ps, WaysFor(g, s, Len(ps), SlotTerms(s, Len(ps))), SlotTerms(s, Len(ps)))
              /\ \A j \in n .. Len(ps) - 1 : WaysFor(g, s, j, SlotTerms(s, j)) = {}
         /\ MemorySplit(g, s, n) = {} => \A j \in Nat : j >= n => WaysFor(g, s, j, SlotTerms(s, j)) = {}
<1> DEFINE F == FittingSplits(g, s, n)
           L == {Len(ps) : ps \in F}
<1>1. \A ps : ps \in MemorySplit(g, s, n) <=> ps \in F /\ \A other \in F : Len(ps) <= Len(other)
  BY DEF MemorySplit
<1>2. \A ps \in F : Len(ps) \in Nat \ {0} /\ Len(ps) >= n BY FittingFacts
<1>3. ASSUME NEW j \in Nat, j >= n, WaysFor(g, s, j, SlotTerms(s, j)) # {}
      PROVE  \E ps \in F : Len(ps) = j
  BY <1>3, WayIsFitting, SMTT(30)
<1> HIDE DEF F
<1>4. ASSUME NEW ps \in MemorySplit(g, s, n)
      PROVE  /\ BestAmong(g, s, ps, WaysFor(g, s, Len(ps), SlotTerms(s, Len(ps))), SlotTerms(s, Len(ps)))
             /\ \A j \in n .. Len(ps) - 1 : WaysFor(g, s, j, SlotTerms(s, j)) = {}
  <2>1. ps \in F /\ \A other \in F : Len(ps) <= Len(other) BY <1>1
  <2>2. BestAmong(g, s, ps, WaysFor(g, s, Len(ps), SlotTerms(s, Len(ps))), SlotTerms(s, Len(ps)))
    BY <2>1, FittingFacts DEF F
  <2>3. ASSUME NEW j \in n .. Len(ps) - 1 PROVE WaysFor(g, s, j, SlotTerms(s, j)) = {}
    <3>1. j \in Nat /\ j >= n /\ Len(ps) \in Nat /\ j < Len(ps) BY <1>2, <2>1
    <3>2. ~(\E other \in F : Len(other) = j) BY <2>1, <3>1
    <3> QED BY <1>3, <3>1, <3>2
  <2> QED BY <2>2, <2>3
<1>5. ASSUME MemorySplit(g, s, n) = {}, NEW j \in Nat, j >= n PROVE WaysFor(g, s, j, SlotTerms(s, j)) = {}
  <2> SUFFICES ASSUME WaysFor(g, s, j, SlotTerms(s, j)) # {} PROVE FALSE
    OBVIOUS
  <2>1. L \subseteq Nat /\ L # {}
    <3>1. PICK one \in F : Len(one) = j BY <1>3, <1>5
    <3> QED BY <1>2, <3>1
  <2> HIDE DEF L
  <2>2. PICK k \in L : \A i \in L : k <= i BY <2>1, LeastOne
  <2>3. PICK ps \in F : Len(ps) = k BY DEF L
  <2>4. \A other \in F : Len(ps) <= Len(other) BY <2>2, <2>3 DEF L
  <2> QED BY <1>1, <1>5, <2>3, <2>4
<1> QED BY <1>4, <1>5

\* Whatever a strategy that balances costs answers, there is nothing better,
\* and it gives up only when there is no way at all.
LEMMA SplitIsBest ==
  ASSUME NEW g, Regular(g), Costed(g), NEW s, AcceptsNodes(s), NEW n \in Nat \ {0}, NEW t, TermsFor(t, n)
  PROVE  /\ \A ps \in Split(g, s, n, t) :
              /\ LET u == SplitTerms(s, Len(ps), t) IN BestAmong(g, s, ps, WaysFor(g, s, Len(ps), u), u)
              /\ Slots(s) => \A j \in n .. Len(ps) - 1 : WaysFor(g, s, j, SlotTerms(s, j)) = {}
         /\ Split(g, s, n, t) = {} =>
              /\ Slots(s) => \A j \in Nat : j >= n => WaysFor(g, s, j, SlotTerms(s, j)) = {}
              /\ ~Slots(s) => WaysFor(g, s, n, t) = {}
<1>1. s.kind # "uniform" /\ s.kind # "named" BY DEF AcceptsNodes
<1>2. CASE Slots(s)
  <2>1. Split(g, s, n, t) = MemorySplit(g, s, n) BY <1>1, <1>2 DEF Slots, Split
  <2>2. \A k : SplitTerms(s, k, t) = SlotTerms(s, k) BY <1>2 DEF SplitTerms
  <2> QED BY <1>2, <2>1, <2>2, MemoryIsBest
<1>3. CASE ~Slots(s)
  <2>1. Split(g, s, n, t) = CostSplit(g, s, n, t) BY <1>1, <1>3 DEF Slots, Split
  <2>2. \A k : SplitTerms(s, k, t) = t BY <1>3 DEF SplitTerms
  <2>3. \A ps \in CostSplit(g, s, n, t) : Len(ps) = n /\ BestAmong(g, s, ps, WaysFor(g, s, n, t), t)
    BY CostTiles, CostsAreBest DEF BestAmong
  <2>4. WaysFor(g, s, n, t) # {} => CostSplit(g, s, n, t) # {} BY CostsAreBest
  <2> QED BY <1>3, <2>1, <2>2, <2>3, <2>4
<1> QED BY <1>2, <1>3

--------------------
(* The partitions are what the strategy answered. *)

StrategyInv ==
  /\ reached \in {"split", "sliced"} => parts \in Split(graph, splitter, splitter.n, NoTerms)
  /\ (reached = "running" /\ ~fallback /\ AcceptsNodes(splitter)) =>
       parts \in Split(graph, splitter, Len(fleet), device_terms(splitter, fleet))
  /\ (reached = "rejected" /\ graph # <<>> /\ parts = <<>>) => Split(graph, splitter, splitter.n, NoTerms) = {}

LEMMA AnswerInitially == SlicingInit => StrategyInv
  BY DEF SlicingInit, StrategyInv

LEMMA TraceAnswers == SlicingInv /\ Trace => StrategyInv'
<1> SUFFICES ASSUME SlicingInv, Trace PROVE StrategyInv'
  OBVIOUS
<1>1. /\ reached' = IF model.packed \/ Traceable(model) THEN "traced" ELSE "rejected"
      /\ graph' = CASE model.packed -> Chain(model)
                    [] ~model.packed /\ Traceable(model) -> Traced(model)
                    [] OTHER -> <<>>
  BY DEF Trace
<1> DEFINE good == model.packed \/ Traceable(model)
<1>2. CASE good
  <2>1. reached' = "traced" BY <1>1, <1>2
  <2> QED BY <2>1 DEF StrategyInv
<1>3. CASE ~good
  <2>1. reached' = "rejected" /\ graph' = <<>> BY <1>1, <1>3
  <2> QED BY <2>1 DEF StrategyInv
<1> QED BY <1>2, <1>3

LEMMA SplitAnswers == SlicingInv /\ SplitModel => StrategyInv'
<1> SUFFICES ASSUME SlicingInv, SplitModel PROVE StrategyInv'
  OBVIOUS
<1> DEFINE splits == Split(graph, splitter, splitter.n, NoTerms)
<1>1. /\ reached' = IF splits = {} THEN "rejected" ELSE "split"
      /\ parts' \in IF splits # {} THEN splits ELSE {parts}
      /\ UNCHANGED <<model, splitter, graph, fleet, fallback>>
  BY DEF SplitModel
<1>2. splits' = splits BY <1>1
<1> HIDE DEF splits
<1>3. CASE splits = {}
  <2>1. reached' = "rejected" /\ splits' = {} BY <1>1, <1>2, <1>3
  <2> QED BY <2>1 DEF StrategyInv, splits
<1>4. CASE splits # {}
  <2>1. reached' = "split" /\ parts' \in splits' BY <1>1, <1>2, <1>4
  <2> QED BY <2>1 DEF StrategyInv, splits
<1> QED BY <1>3, <1>4

LEMMA ValidateAnswers == SlicingInv /\ StrategyInv /\ Validate => StrategyInv'
<1> SUFFICES ASSUME SlicingInv, StrategyInv, Validate PROVE StrategyInv'
  OBVIOUS
<1> DEFINE splits == Split(graph, splitter, splitter.n, NoTerms)
<1>1. reached = "split" /\ UNCHANGED <<model, splitter, graph, parts, fleet, fallback>> /\ reached' \in {"sliced", "rejected"}
  BY DEF Validate
<1>2. parts # <<>> /\ parts \in splits BY <1>1 DEF SlicingInv, PartsInv, StrategyInv
<1>3. splits' = splits BY <1>1
<1> HIDE DEF splits
<1>4. parts' # <<>> /\ parts' \in splits' /\ reached' # "running" BY <1>1, <1>2, <1>3
<1> QED BY <1>4 DEF StrategyInv, splits

LEMMA PlanOf ==
  ASSUME NEW g, NEW s, AcceptsNodes(s), NEW old, NEW f, NEW ps \in plan(g, s, old, f)
  PROVE  ps \in Split(g, s, Len(f), device_terms(s, f))
BY DEF plan

LEMMA PlanAnswers == SlicingInv /\ PlanSlices => StrategyInv'
<1> SUFFICES ASSUME SlicingInv, PlanSlices PROVE StrategyInv'
  OBVIOUS
<1>1. PICK found \in {f \in Fleets : Len(f) = Len(parts)} :
        \E plans \in {{ps \in plan(graph, splitter, parts, found) : Len(ps) = Len(found)}} :
          /\ fleet' = found
          /\ reached' = IF plans # {} THEN "running" ELSE "rejected"
          /\ parts' \in IF plans # {} THEN plans ELSE {parts}
  BY DEF PlanSlices
<1> DEFINE plans == {ps \in plan(graph, splitter, parts, found) : Len(ps) = Len(found)}
<1>2. /\ fleet' = found
      /\ reached' = IF plans # {} THEN "running" ELSE "rejected"
      /\ parts' \in IF plans # {} THEN plans ELSE {parts}
  BY <1>1
<1>3. reached = "sliced" /\ splitter' = splitter /\ graph' = graph /\ parts # <<>>
  BY DEF PlanSlices, SlicingInv, PartsInv
<1>4. CASE plans = {}
  <2>1. reached' = "rejected" /\ parts' # <<>> BY <1>2, <1>3, <1>4
  <2> QED BY <2>1 DEF StrategyInv
<1>5. CASE plans # {}
  <2>1. reached' = "running" /\ parts' \in plan(graph, splitter, parts, found) BY <1>2, <1>5
  <2>2. AcceptsNodes(splitter) => parts' \in Split(graph, splitter, Len(found), device_terms(splitter, found))
    BY <2>1, PlanOf
  <2>3. AcceptsNodes(splitter') => parts' \in Split(graph', splitter', Len(fleet'), device_terms(splitter', fleet'))
    BY <1>2, <1>3, <2>2
  <2> QED BY <2>1, <2>3 DEF StrategyInv
<1> QED BY <1>4, <1>5

LEMMA RecoverAnswers == SlicingInv /\ Recover => StrategyInv'
<1> SUFFICES ASSUME SlicingInv, Recover PROVE StrategyInv'
  OBVIOUS
<1>1. PICK lost \in (SUBSET DOMAIN fleet) \ {{}} :
        IF lost = DOMAIN fleet
        THEN reached' = "stopped" /\ UNCHANGED <<parts, fleet, fallback>>
        ELSE \E alive \in {Surviving(lost)} :
             \E plans \in {{ps \in plan(graph, splitter, parts, alive) : Len(ps) = Len(alive)}} :
               RecoverPlan(alive, plans, _uniform_split(graph, Len(alive)))
  BY DEF Recover
<1> DEFINE alive == Surviving(lost)
           plans == {ps \in plan(graph, splitter, parts, alive) : Len(ps) = Len(alive)}
           even == _uniform_split(graph, Len(alive))
           works == Len(even) = Len(alive) /\ validate(graph, even)
<1>2. splitter' = splitter /\ graph' = graph BY DEF Recover
<1>3. CASE lost = DOMAIN fleet
  <2>1. reached' = "stopped" BY <1>1, <1>3
  <2> QED BY <2>1 DEF StrategyInv
<1>4. CASE lost # DOMAIN fleet
  <2>1. RecoverPlan(alive, plans, even) BY <1>1, <1>4
  <2>2. /\ reached' = IF plans # {} \/ works THEN "running" ELSE "stopped"
        /\ plans # {} => parts' \in plans
        /\ fleet' = alive
        /\ fallback' = (plans = {} /\ works)
    BY <2>1 DEF RecoverPlan
  <2>3. reached' \in {"running", "stopped"} BY <2>2
  <2>4. ASSUME reached' = "running", ~fallback', AcceptsNodes(splitter')
        PROVE  parts' \in Split(graph', splitter', Len(fleet'), device_terms(splitter', fleet'))
    <3>1. plans # {} BY <2>2, <2>4
    <3>2. parts' \in plan(graph, splitter, parts, alive) BY <2>2, <3>1
    <3>3. AcceptsNodes(splitter) BY <1>2, <2>4
    <3>4. parts' \in Split(graph, splitter, Len(alive), device_terms(splitter, alive))
      BY <3>2, <3>3, PlanOf
    <3> QED BY <1>2, <2>2, <3>4
  <2> QED BY <2>3, <2>4 DEF StrategyInv
<1> QED BY <1>3, <1>4

LEMMA EndedAnswers == StrategyInv /\ UNCHANGED slicingVars => StrategyInv'
<1> SUFFICES ASSUME StrategyInv, UNCHANGED slicingVars PROVE StrategyInv'
  OBVIOUS
<1> DEFINE asked == Split(graph, splitter, splitter.n, NoTerms)
           planned == Split(graph, splitter, Len(fleet), device_terms(splitter, fleet))
<1>1. UNCHANGED <<splitter, graph, parts, fleet, reached, fallback>> BY DEF slicingVars
<1>2. asked' = asked /\ planned' = planned /\ AcceptsNodes(splitter') = AcceptsNodes(splitter)
  BY <1>1
<1>3. StrategyInv <=>
        /\ reached \in {"split", "sliced"} => parts \in asked
        /\ (reached = "running" /\ ~fallback /\ AcceptsNodes(splitter)) => parts \in planned
        /\ (reached = "rejected" /\ graph # <<>> /\ parts = <<>>) => asked = {}
  BY DEF StrategyInv
<1>4. StrategyInv' <=>
        /\ reached' \in {"split", "sliced"} => parts' \in asked'
        /\ (reached' = "running" /\ ~fallback' /\ AcceptsNodes(splitter')) => parts' \in planned'
        /\ (reached' = "rejected" /\ graph' # <<>> /\ parts' = <<>>) => asked' = {}
  BY DEF StrategyInv
<1> HIDE DEF asked, planned
<1> QED BY <1>1, <1>2, <1>3, <1>4

THEOREM StrategyInvariant == SlicingSpec => [](SlicingInv /\ StrategyInv)
<1>1. SlicingInv /\ StrategyInv /\ [SlicingNext]_slicingVars => StrategyInv'
  BY TraceAnswers, SplitAnswers, ValidateAnswers, PlanAnswers, RecoverAnswers, EndedAnswers DEF SlicingNext, Ended
<1> QED BY <1>1, SlicingInvariant, AnswerInitially, PTL DEF SlicingSpec

LEMMA CountsHold == SlicingInv /\ StrategyInv => AsManyAsAsked
<1> SUFFICES ASSUME SlicingInv, StrategyInv, reached \in {"split", "sliced"}
             PROVE  Len(parts) = splitter.n \/ (splitter.kind = "memory" /\ Len(parts) > splitter.n)
  BY DEF AsManyAsAsked
<1>1. Regular(graph) /\ Costed(graph) /\ parts \in Split(graph, splitter, splitter.n, NoTerms)
  BY DEF SlicingInv, GraphInv, StrategyInv
<1>2. splitter.n \in Nat \ {0} /\ splitter.names \in Seq([at : Int, module : STRING])
  BY CaseFacts DEF SlicingInv
<1>3. TermsFor(NoTerms, splitter.n) BY NoTermsFor
<1> QED BY <1>1, <1>2, <1>3, SplitCounts

LEMMA BestHolds == SlicingInv /\ StrategyInv => BalancedIsBest
<1> DEFINE costs == node_costs(graph, splitter)
           u == TermsInForce
<1> SUFFICES ASSUME SlicingInv, StrategyInv, AcceptsNodes(splitter), ~fallback, reached \in {"split", "sliced", "running"}
             PROVE  /\ parts \in Ways(Len(parts), u)
                    /\ \A ps \in Ways(Len(parts), u) : Slowest(parts, costs, u) <= Slowest(ps, costs, u)
  BY DEF BalancedIsBest
<1>1. Regular(graph) /\ Costed(graph) BY DEF SlicingInv, GraphInv
<1>2. splitter.n \in Nat \ {0} BY CaseFacts DEF SlicingInv
<1>3. Ways(Len(parts), u) = WaysFor(graph, splitter, Len(parts), u) BY DEF Ways, WaysFor
<1>4. \A ps : Slowest(ps, costs, u) = SlowestOf(graph, ps, costs, u) BY DEF Slowest, SlowestOf
<1>5. CASE reached = "running"
  <2> DEFINE n == Len(fleet)
             t == device_terms(splitter, fleet)
  <2>1. parts \in Split(graph, splitter, n, t) BY <1>5 DEF StrategyInv
  <2>2. fleet \in Fleet /\ Len(fleet) # 0 /\ n \in Nat \ {0}
    BY <1>5 DEF SlicingInv, FleetInv, Fleet
  <2>3. TermsFor(t, n) BY <2>2, DeviceTermsFor
  <2>4. u = SplitTerms(splitter, Len(parts), t) BY <1>5 DEF TermsInForce, SplitTerms, Slots
  <2> HIDE DEF u, t, n
  <2>5. BestAmong(graph, splitter, parts, WaysFor(graph, splitter, Len(parts), u), u)
    BY <1>1, <2>1, <2>2, <2>3, <2>4, SplitIsBest
  <2> QED BY <1>3, <1>4, <2>5 DEF BestAmong
<1>6. CASE reached # "running"
  <2>1. parts \in Split(graph, splitter, splitter.n, NoTerms) BY <1>6 DEF StrategyInv
  <2>2. TermsFor(NoTerms, splitter.n) BY NoTermsFor
  <2>3. u = SplitTerms(splitter, Len(parts), NoTerms)
    BY <1>6 DEF TermsInForce, SplitTerms, Slots
  <2> HIDE DEF u
  <2>4. BestAmong(graph, splitter, parts, WaysFor(graph, splitter, Len(parts), u), u)
    BY <1>1, <1>2, <2>1, <2>2, <2>3, SplitIsBest
  <2> QED BY <1>3, <1>4, <2>4 DEF BestAmong
<1> QED BY <1>5, <1>6

LEMMA MissesHold == SlicingInv /\ StrategyInv => NoWayIsMissed
<1> DEFINE slots == splitter.kind = "memory" /\ splitter.slot > 0
           terms(k) == IF slots THEN SlotTerms(splitter, k) ELSE NoTerms
           tried == IF slots THEN splitter.n .. Len(graph) ELSE {splitter.n}
<1> SUFFICES ASSUME SlicingInv, StrategyInv, AcceptsNodes(splitter)
             PROVE  /\ (reached = "rejected" /\ graph # <<>> /\ parts = <<>>) => \A k \in tried : Ways(k, terms(k)) = {}
                    /\ (reached = "split" /\ slots) => \A k \in splitter.n .. Len(parts) - 1 : Ways(k, terms(k)) = {}
  BY DEF NoWayIsMissed
<1>1. splitter.n \in Nat \ {0} BY CaseFacts DEF SlicingInv
<1>2. TermsFor(NoTerms, splitter.n) BY NoTermsFor
<1>3. \A k : Ways(k, terms(k)) = WaysFor(graph, splitter, k, terms(k)) BY DEF Ways, WaysFor
<1>4. slots <=> Slots(splitter) BY DEF Slots
<1>5. ASSUME reached = "rejected", graph # <<>>, parts = <<>>, NEW k \in tried PROVE Ways(k, terms(k)) = {}
  <2>1. Regular(graph) /\ Costed(graph) /\ Split(graph, splitter, splitter.n, NoTerms) = {}
    BY <1>5 DEF SlicingInv, GraphInv, StrategyInv
  <2>2. /\ Slots(splitter) => \A j \in Nat : j >= splitter.n => WaysFor(graph, splitter, j, SlotTerms(splitter, j)) = {}
        /\ ~Slots(splitter) => WaysFor(graph, splitter, splitter.n, NoTerms) = {}
    BY <1>1, <1>2, <2>1, SplitIsBest
  <2>3. CASE slots
    <3>1. k \in Nat /\ k >= splitter.n /\ terms(k) = SlotTerms(splitter, k) BY <1>1, <2>3
    <3> HIDE DEF terms, slots
    <3> QED BY <1>3, <1>4, <2>2, <2>3, <3>1
  <2>4. CASE ~slots
    <3>1. k = splitter.n /\ terms(k) = NoTerms BY <2>4
    <3> HIDE DEF terms, slots
    <3> QED BY <1>3, <1>4, <2>2, <2>4, <3>1
  <2> QED BY <2>3, <2>4
<1>6. ASSUME reached = "split", slots, NEW k \in splitter.n .. Len(parts) - 1 PROVE Ways(k, terms(k)) = {}
  <2>1. Regular(graph) /\ Costed(graph) /\ parts \in Split(graph, splitter, splitter.n, NoTerms)
    BY <1>6 DEF SlicingInv, GraphInv, StrategyInv
  <2>2. Slots(splitter) => \A j \in splitter.n .. Len(parts) - 1 : WaysFor(graph, splitter, j, SlotTerms(splitter, j)) = {}
    BY <1>1, <1>2, <2>1, SplitIsBest
  <2>3. terms(k) = SlotTerms(splitter, k) BY <1>6
  <2> HIDE DEF terms, slots
  <2> QED BY <1>3, <1>4, <1>6, <2>2, <2>3
<1> QED BY <1>5, <1>6

\* A strategy gives as many slices as it was asked for, the best there are for
\* the terms in force, and gives up only when there are none.
THEOREM NoBetterSlices == SlicingSpec => []StrategiesDoTheirBest
<1>1. SlicingInv /\ StrategyInv => StrategiesDoTheirBest
  BY CountsHold, BestHolds, MissesHold DEF StrategiesDoTheirBest
<1> QED BY <1>1, StrategyInvariant, PTL

--------------------
(* The inductive invariant. *)

Ids == [proc : Nat, number : Nat]
Run == [mode : {"train", "eval"}, version : Nat]

Call ==
  [proc : Nat \ {0}, number : Nat, kind : {"train", "evaluate"}, of : Nat \X Nat, step : Nat,
   at : {"queued", "started", "forward", "backward", "replied", "error"}, pool : Nat,
   stage : Nat, ran : Seq(Run), noise : Nat]

Slice == [mode : {"train", "eval"}, x : Ids, version : Nat, grads : Seq(Ids)]

Sums == [call : Ids, sum : [Stage -> Seq(Ids)], noise : Nat]

Weights == [base : Nat, on : Seq(Nat \X Nat)]

Client ==
  [at : {"idle", "train", "evaluate", "wait_train", "wait_evaluate"}, node : Nat, pid : Nat,
   batch : Nat, steps : Nat, number : Nat, weights : Weights, moments : Nat,
   used : SUBSET (Nat \X Nat \X Nat \X Nat)]

Message ==
  [at : {"waiting", "handled", "failed", "train", "evaluate"}, weights : Weights, moments : Nat]

ClientTypes ==
  /\ IsSetting(set)
  /\ round \in 1 .. set.rounds /\ phase \in {"train", "evaluate", "done"}
  /\ messages \in [Node -> Message]
  /\ client \in [Proc -> Client]
  /\ serving \in [up : BOOLEAN, starts : Nat]

ServerTypes ==
  /\ calls \in SUBSET Call
  /\ lock \in Ids
  /\ slices \in [Stage -> Slice]
  /\ steps \in Nat
  /\ trained \in Seq(Sums)
  /\ left \in SUBSET Ids

(* A call is known by its number, which its client has given before. *)
Numbered ==
  /\ \A c \in calls : c.proc \in Proc /\ c.number <= client[c.proc].number
  /\ \A c, d \in calls : Id(c) = Id(d) => c = d

(* A batch that runs holds the lock. *)
OnBatch(c) == c.at \in {"forward", "backward"}

Locked ==
  /\ \A c \in calls : OnBatch(c) <=> Holds(c)
  /\ lock # None => \E c \in calls : Holds(c)

(* All slices step at once, so they have one version, and what a batch     *)
(* has run had that version. *)
OneVersion ==
  /\ \A i, j \in Stage : slices[i].version = slices[j].version
  /\ \A c \in calls : Holds(c) =>
       \A k \in DOMAIN c.ran : \A i \in Stage : c.ran[k].version = slices[i].version

ModeOf(c) == IF c.kind = "train" THEN "train" ELSE "eval"

(* What the slices hold while the batch of a call runs. *)
Progress(c) ==
  /\ c.kind = "train" => \A i \in Stage : slices[i].mode = "train"
  /\ c.at = "forward" =>
       /\ c.stage \in 1 .. ServerSlices + 1
       /\ c.kind = "train" => \A i \in Stage : i < c.stage => slices[i].x = Id(c)
  /\ c.at = "backward" =>
       /\ c.kind = "train" /\ c.stage \in 0 .. ServerSlices
       /\ \A i \in Stage : slices[i].x = Id(c)

BatchRuns == \A c \in calls : OnBatch(c) => Progress(c)

(* A training batch counts before its step is done. *)
Counted ==
  /\ Len(trained) <= steps
  /\ \A n \in DOMAIN trained : trained[n].noise <= steps
  /\ \A c \in calls : (OnBatch(c) /\ c.kind = "train") =>
       Len(trained) < steps /\ \A n \in DOMAIN trained : trained[n].noise < steps

ServerInv ==
  /\ Numbered /\ Locked /\ OneVersion /\ BatchRuns /\ Counted
  /\ \A c \in calls : c.at \in {"queued", "started"} => c.ran = <<>>
  /\ \A c \in calls : \A k \in DOMAIN c.ran : c.ran[k].mode = ModeOf(c)
  /\ BatchesSeeOneModel
  /\ \A m, n \in DOMAIN trained : trained[m].noise = trained[n].noise => m = n

(* A client that is not idle is on a message of this phase that no other   *)
(* process handles, and has trained what it has done of it. *)
Busy(p) == client[p].at # "idle"
Doing(c) == IF c.at \in {"train", "wait_train"} THEN "train" ELSE "evaluate"

OnMessage(c) ==
  /\ Doing(c) = phase /\ c.node \in Node /\ c.pid = c.node
  /\ c.batch \in 1 .. set.batches + 1
  /\ c.at \in {"wait_train", "wait_evaluate"} => c.batch <= set.batches
  /\ IF phase = "train"
     THEN /\ c.weights = [base |-> round - 1, on |-> [b \in 1 .. c.batch - 1 |-> <<c.node, b>>]]
          /\ c.moments = c.batch - 1
     ELSE c.weights = [base |-> round, on |-> <<>>] /\ c.moments = 0

(* What a message says when it is answered. *)
ResultOf(m, n) ==
  m.at \in {"train", "evaluate"} =>
    IF m.at = "train"
    THEN /\ m.weights = [base |-> round - 1, on |-> [b \in 1 .. set.batches |-> <<n, b>>]]
         /\ m.moments = set.batches
    ELSE m.weights = [base |-> round, on |-> <<>>] /\ m.moments = 0

ClientInv ==
  /\ \A p \in Proc : Busy(p) => OnMessage(client[p]) /\ messages[client[p].node].at = "handled"
  /\ \A p, q \in Proc : (Busy(p) /\ Busy(q) /\ client[p].node = client[q].node) => p = q
  /\ phase = "done" => \A n \in Node : messages[n].at \notin {"waiting", "handled"}
  /\ \A n \in Node : ResultOf(messages[n], n)

(* A client waits for the call it sent last. *)
Asked == \A c \in calls : Waits(c) => client[c.proc].at = Waiting[c.kind]

(* The numbers of a client's batches. *)
Fresh(c) ==
  /\ \A u \in c.used : u[1] <= c.steps
  /\ \A u, v \in c.used : u[1] = v[1] => u = v

NoiseInv == \A p \in Proc : Fresh(client[p])

IndInv == ClientTypes /\ ServerTypes /\ ServerInv /\ ClientInv /\ NoiseInv /\ Asked

(* The settings stay, but for the count of their faults. *)
SettingKept ==
  /\ IsSetting(set)' /\ Proc' = Proc /\ Node' = Node
  /\ set'.rounds = set.rounds /\ set'.batches = set.batches

--------------------
(* What the constants and the settings are. *)

LEMMA Constants ==
  /\ ServerSlices \in Nat \ {0}
  /\ Stage = 1 .. ServerSlices
  /\ None \in Ids
  /\ \A c \in Call : Id(c) \in Ids /\ Id(c) # None
BY SplitAssumption DEF Stage, None, Ids, Id, Call

\* A fault that happens leaves the settings as they are, but for its count.
LEMMA SettingStays ==
  ASSUME IsSetting(set), NEW kind \in {"slow", "raise", "lose", "stop"},
         set' = set \/ Fault(kind)
  PROVE  SettingKept
<1>1. CASE set' = set BY <1>1 DEF IsSetting, Proc, Node, SettingKept
<1>2. CASE Fault(kind)
  <2> DEFINE f == [set.faults EXCEPT ![kind] = @ - 1]
  <2>1. f \in [slow : Nat, raise : Nat, lose : Nat, stop : Nat] BY <1>2 DEF IsSetting, Fault
  <2>2. set' = [procs |-> set.procs, nodes |-> set.nodes, rounds |-> set.rounds, batches |-> set.batches,
                hook |-> set.hook, activation |-> set.activation, faults |-> f]
    BY <1>2 DEF IsSetting, Fault
  <2> HIDE DEF f
  <2> QED BY <2>1, <2>2 DEF IsSetting, Proc, Node, SettingKept
<1> QED BY <1>1, <1>2

--------------------
(* The server. *)

\* What is appended comes after what was there.
LEMMA AppendShape ==
  ASSUME NEW S, NEW s \in Seq(S), NEW e \in S
  PROVE  /\ DOMAIN Append(s, e) = DOMAIN s \union {Len(s) + 1}
         /\ \A i \in DOMAIN s : Append(s, e)[i] = s[i]
         /\ Append(s, e)[Len(s) + 1] = e
         /\ Append(s, e) \in Seq(S)
<1>1. Len(s) \in Nat /\ DOMAIN s = 1 .. Len(s) OBVIOUS
<1>2. /\ Len(Append(s, e)) = Len(s) + 1
      /\ \A i \in 1 .. Len(s) : Append(s, e)[i] = s[i]
      /\ Append(s, e)[Len(s) + 1] = e
      /\ Append(s, e) \in Seq(S)
  BY AppendProperties
<1>3. DOMAIN Append(s, e) = 1 .. (Len(s) + 1) BY <1>2
<1> QED BY <1>1, <1>2, <1>3

LEMMA ServerInit ==
  ASSUME Init
  PROVE  IndInv
<1>1. IsSetting(set) BY SplitAssumption DEF Init
<1>2. ClientTypes
  <2>1. [base |-> 0, on |-> <<>>] \in Weights BY DEF Weights
  <2> QED BY <1>1, <2>1 DEF Init, ClientTypes, IsSetting, Is, Message, Client
<1>3. ServerTypes BY Constants DEF Init, ServerTypes, Slice, Ids
<1>4. ServerInv
  BY Constants DEF Init, ServerInv, Numbered, Locked, OneVersion, BatchRuns, Counted,
     BatchesSeeOneModel
<1>5. ClientInv BY DEF Init, ClientInv, Busy, Is, ResultOf
<1>6. NoiseInv BY DEF Init, NoiseInv, Fresh
<1>7. Asked BY DEF Init, Asked
<1> QED BY <1>2, <1>3, <1>4, <1>5, <1>6, <1>7 DEF IndInv

LEMMA Steps ==
  ASSUME ServerTypes
  PROVE  /\ Len(trained) \in Nat /\ DOMAIN trained = 1 .. Len(trained)
         /\ \A n \in DOMAIN trained : trained[n] \in Sums /\ trained[n].noise \in Nat
<1>1. Len(trained) \in Nat /\ DOMAIN trained = 1 .. Len(trained) BY DEF ServerTypes
<1>2. \A n \in DOMAIN trained : trained[n] \in Sums BY <1>1 DEF ServerTypes
<1> QED BY <1>1, <1>2 DEF Sums

\* Calls that are not on a batch may leave the server.
LEMMA CallsLeave ==
  ASSUME ServerTypes, ServerInv, UNCHANGED server, calls' \subseteq calls,
         \A c \in calls \ calls' : ~OnBatch(c),
         client \in [Proc -> Client], client' \in [Proc -> Client], Proc' = Proc,
         \A p \in Proc : client'[p].number >= client[p].number
  PROVE  ServerTypes' /\ ServerInv'
<1>1. ServerTypes' BY DEF ServerTypes, server, Stage
<1>2. \A c \in calls : c.proc \in Proc /\ c.number <= client'[c.proc].number
  <2> SUFFICES ASSUME NEW c \in calls
               PROVE  c.proc \in Proc /\ c.number <= client'[c.proc].number
    OBVIOUS
  <2>1. c.proc \in Proc /\ c.number <= client[c.proc].number /\ c.number \in Nat
    BY DEF ServerInv, ServerTypes, Numbered, Call
  <2>2. client[c.proc].number \in Nat /\ client'[c.proc].number \in Nat BY <2>1 DEF Client
  <2> QED BY <2>1, <2>2
<1>22. Numbered' BY <1>2 DEF ServerInv, Numbered, Id
<1>3. Locked' BY DEF ServerInv, Locked, server, OnBatch, Holds, Id
<1>4. OneVersion' /\ BatchRuns' /\ Counted'
  BY DEF ServerInv, server, OneVersion, BatchRuns, Counted, OnBatch, Holds, Progress, Id, Stage
<1>5. BatchesSeeOneModel' BY DEF ServerInv, server, BatchesSeeOneModel, Stage
<1> QED BY <1>1, <1>22, <1>3, <1>4, <1>5 DEF ServerInv, server, ModeOf

\* A call that goes on keeps its number.
LEMMA CallGoesOn ==
  ASSUME ServerTypes, Numbered, NEW c \in calls, NEW new \in Call, Id(new) = Id(c),
         Update(c, new), UNCHANGED client, Proc' = Proc
  PROVE  /\ calls' \in SUBSET Call
         /\ Numbered'
         /\ \A d \in calls' : d # new => d \in calls /\ Id(d) # Id(new)
         /\ new \in calls'
<1>1. calls' = (calls \ {c}) \union {new} BY DEF Update
<1>2. new.proc = c.proc /\ new.number = c.number BY DEF ServerTypes, Call, Id
<1>3. \A d \in calls' : d # new => d \in calls /\ Id(d) # Id(new) BY <1>1 DEF Numbered
<1>4. Numbered' BY <1>1, <1>2, <1>3 DEF Numbered, Id
<1> QED BY <1>1, <1>3, <1>4 DEF ServerTypes

\* A new call waits at the server.
LEMMA SendInv ==
  ASSUME ClientTypes, ServerTypes, ServerInv, NEW p \in Proc, NEW c \in Call,
         c.proc = p, c.number = client[p].number + 1, c.at = "queued", c.ran = <<>>,
         calls' = calls \union {c}, UNCHANGED server, Proc' = Proc, client' \in [Proc -> Client],
         client'[p].number = client[p].number + 1,
         \A q \in Proc \ {p} : client'[q] = client[q]
  PROVE  ServerTypes' /\ ServerInv'
<1>1. ServerTypes' BY DEF ServerTypes, server, Stage
<1>2. \A q \in Proc : client[q].number \in Nat BY DEF ClientTypes, Client
<1>3. \A d \in calls : Id(d) # Id(c) /\ d.proc \in Proc /\ d.number <= client'[d.proc].number
  <2> SUFFICES ASSUME NEW d \in calls
               PROVE  Id(d) # Id(c) /\ d.proc \in Proc /\ d.number <= client'[d.proc].number
    OBVIOUS
  <2>1. d.proc \in Proc /\ d.number <= client[d.proc].number /\ d.number \in Nat
    BY DEF ServerInv, ServerTypes, Numbered, Call
  <2>2. client[d.proc].number \in Nat /\ client[p].number \in Nat BY <1>2, <2>1
  <2>3. CASE d.proc = p BY <2>1, <2>2, <2>3 DEF Id
  <2>4. CASE d.proc # p BY <2>1, <2>4 DEF Id
  <2> QED BY <2>3, <2>4
<1>4. Numbered'
  <2>1. \A d \in calls' : d.proc \in Proc /\ d.number <= client'[d.proc].number BY <1>2, <1>3
  <2> QED BY <1>3, <2>1 DEF ServerInv, Numbered, Id
<1>5. lock # Id(c) BY <1>3, Constants DEF ServerInv, Locked, Holds
<1>6. ~OnBatch(c) BY DEF OnBatch
<1>7. Locked' BY <1>5, <1>6 DEF ServerInv, Locked, server, OnBatch, Holds, Id
<1>8. OneVersion' /\ BatchRuns' /\ Counted'
  BY <1>5, <1>6 DEF ServerInv, server, OneVersion, BatchRuns, Counted, OnBatch, Holds, Progress, Id, Stage
<1>9. BatchesSeeOneModel' BY DEF ServerInv, server, BatchesSeeOneModel, Stage
<1> QED BY <1>1, <1>4, <1>7, <1>8, <1>9 DEF ServerInv, server, ModeOf

LEMMA StartInv ==
  ASSUME ClientTypes, ServerTypes, ServerInv, NEW c \in calls, Start(c)
  PROVE  ServerTypes' /\ ServerInv'
<1>1. Proc' = Proc /\ UNCHANGED client /\ UNCHANGED server /\ c.at = "queued"
  BY DEF Start, Quiet, Proc
<1>2. CASE calls' = calls \ {c}
  <2>1. \A q \in Proc : client[q].number \in Nat BY DEF ClientTypes, Client
  <2> QED BY <1>1, <1>2, <2>1, CallsLeave DEF ClientTypes, OnBatch
<1>3. CASE Update(c, [c EXCEPT !.at = "started"])
  <2> DEFINE new == [c EXCEPT !.at = "started"]
  <2>1. new \in Call /\ Id(new) = Id(c) /\ new.ran = c.ran /\ new.kind = c.kind /\ new.at = "started"
    BY DEF ServerTypes, Call, Id
  <2> HIDE DEF new
  <2>2. /\ calls' \in SUBSET Call /\ Numbered'
        /\ \A d \in calls' : d # new => d \in calls /\ Id(d) # Id(new)
        /\ new \in calls' /\ calls' = (calls \ {c}) \union {new}
    BY <1>1, <1>3, <2>1, CallGoesOn DEF new, ServerInv, Update
  <2>3. ServerTypes' BY <1>1, <2>2 DEF ServerTypes, server, Stage
  <2>4. ~OnBatch(c) /\ ~OnBatch(new) /\ ~Holds(c) BY <1>1, <2>1 DEF OnBatch, ServerInv, Locked
  <2>5. Locked' BY <1>1, <2>1, <2>2, <2>4 DEF ServerInv, Locked, server, OnBatch, Holds, Id
  <2>6. OneVersion' /\ BatchRuns' /\ Counted'
    BY <1>1, <2>1, <2>2, <2>4
       DEF ServerInv, server, OneVersion, BatchRuns, Counted, OnBatch, Holds, Progress, Id, Stage
  <2>7. BatchesSeeOneModel' BY <1>1, <2>1, <2>2 DEF ServerInv, server, BatchesSeeOneModel, Stage
  <2> QED BY <1>1, <2>1, <2>2, <2>3, <2>5, <2>6, <2>7 DEF ServerInv, server, ModeOf
<1> QED BY <1>2, <1>3 DEF Start

LEMMA AcquireInv ==
  ASSUME ClientTypes, ServerTypes, ServerInv, NEW c \in calls, Acquire(c)
  PROVE  ServerTypes' /\ ServerInv'
<1> DEFINE new == [c EXCEPT !.at = "forward", !.stage = 1]
<1>1. /\ new \in Call /\ Id(new) = Id(c) /\ new.ran = <<>> /\ new.kind = c.kind
      /\ new.at = "forward" /\ new.stage = 1
  BY DEF Acquire, ServerTypes, ServerInv, Call, Id
<1> HIDE DEF new
<1>2. /\ Proc' = Proc /\ UNCHANGED client /\ trained' = trained /\ left' = left /\ c.at = "started" /\ lock = None
      /\ lock' = Id(c)
      /\ steps' = IF c.kind = "train" THEN steps + 1 ELSE steps
      /\ slices' = IF c.kind = "train" THEN [i \in Stage |-> [slices[i] EXCEPT !.mode = "train"]] ELSE slices
      /\ Update(c, new)
  BY DEF Acquire, Quiet, Proc, Free, new
<1>3. /\ calls' \in SUBSET Call /\ Numbered'
      /\ \A d \in calls' : d # new => d \in calls /\ Id(d) # Id(new)
      /\ new \in calls' /\ calls' = (calls \ {c}) \union {new}
  BY <1>1, <1>2, CallGoesOn DEF ServerInv, Update
<1>4. /\ slices' \in [Stage -> Slice]
      /\ \A i \in Stage : slices'[i].grads = slices[i].grads /\ slices'[i].version = slices[i].version
                          /\ (c.kind = "train" => slices'[i].mode = "train")
  BY <1>2 DEF ServerTypes, Slice
<1>5. ServerTypes' BY <1>1, <1>2, <1>3, <1>4, Constants DEF ServerTypes, Stage
<1>6. \A d \in calls' : d # new => ~OnBatch(d) /\ lock' # Id(d)
  BY <1>1, <1>2, <1>3, Constants DEF ServerInv, ServerTypes, Locked, Holds
<1>7. lock' = Id(new) /\ lock' # None /\ OnBatch(new) BY <1>1, <1>2, Constants DEF OnBatch
<1>8. Locked' BY <1>3, <1>6, <1>7 DEF Locked, OnBatch, Holds, Id
<1>9. OneVersion' BY <1>1, <1>3, <1>4, <1>6 DEF ServerInv, OneVersion, Holds, Id, Stage
<1>10. BatchRuns'
  <2>2. Progress(new)' BY <1>1, <1>4, Constants DEF Progress, Stage, Id
  <2> QED BY <1>3, <1>6, <2>2 DEF BatchRuns, OnBatch
<1>12. Counted'
  <2>1. Len(trained) \in Nat /\ \A n \in DOMAIN trained : trained[n].noise \in Nat BY Steps
  <2> QED BY <1>1, <1>2, <1>3, <1>6, <2>1 DEF ServerTypes, ServerInv, Counted, OnBatch
<1>13. BatchesSeeOneModel' BY <1>1, <1>2, <1>3 DEF ServerInv, BatchesSeeOneModel, Stage
<1> QED BY <1>1, <1>2, <1>3, <1>5, <1>8, <1>9, <1>10, <1>12, <1>13 DEF ServerInv, ModeOf

LEMMA ForwardInv ==
  ASSUME ClientTypes, ServerTypes, ServerInv, NEW c \in calls, Forward(c)
  PROVE  ServerTypes' /\ ServerInv'
<1> DEFINE i == c.stage
           mode == IF c.kind = "train" THEN slices[i].mode ELSE "eval"
           run == [mode |-> mode, version |-> slices[i].version]
           new == [c EXCEPT !.stage = i + 1, !.ran = Append(@, run)]
<1>1. /\ Proc' = Proc /\ UNCHANGED client /\ UNCHANGED <<lock, steps, trained, left>>
      /\ c.at = "forward" /\ i \in Stage /\ Update(c, new)
      /\ slices' = [slices EXCEPT ![i].mode = mode, ![i].x = IF c.kind = "train" THEN Id(c) ELSE @]
  BY DEF Forward, Quiet, Proc
<1>2. c \in Call /\ slices[i] \in Slice /\ i \in Nat BY <1>1 DEF ServerTypes, Stage
<1>3. run \in Run /\ mode \in {"train", "eval"} BY <1>2 DEF Run, Slice
<1>4. lock = Id(c) /\ lock # None /\ Progress(c) /\ OnBatch(c)
  BY <1>1, <1>2, Constants DEF ServerInv, Locked, Holds, BatchRuns, OnBatch
<1>5. mode = ModeOf(c) BY <1>1, <1>4 DEF Progress, ModeOf
<1>6. /\ slices' \in [Stage -> Slice]
      /\ \A j \in Stage : /\ slices'[j].grads = slices[j].grads /\ slices'[j].version = slices[j].version
                          /\ j # i => slices'[j] = slices[j]
      /\ slices'[i].mode = mode
      /\ c.kind = "train" => slices'[i].x = Id(c)
  BY <1>1, <1>2, <1>3, Constants DEF ServerTypes, Slice
<1>7. /\ c.ran \in Seq(Run)
      /\ Append(c.ran, run) \in Seq(Run)
      /\ DOMAIN Append(c.ran, run) = DOMAIN c.ran \union {Len(c.ran) + 1}
      /\ \A k \in DOMAIN c.ran : Append(c.ran, run)[k] = c.ran[k]
      /\ Append(c.ran, run)[Len(c.ran) + 1] = run
  BY <1>2, <1>3, AppendShape DEF Call
<1>9. /\ run.version = slices[i].version /\ run.mode = ModeOf(c) BY <1>5
<1> HIDE DEF run, mode
<1>8. /\ new \in Call /\ Id(new) = Id(c) /\ new.kind = c.kind /\ new.at = "forward" /\ new.stage = i + 1
      /\ new.ran = Append(c.ran, run)
  <2>1. i + 1 \in Nat BY <1>2
  <2> QED BY <1>1, <1>2, <1>7, <2>1 DEF Call, Id
<1> HIDE DEF new
<1>10. /\ calls' \in SUBSET Call /\ Numbered'
       /\ \A d \in calls' : d # new => d \in calls /\ Id(d) # Id(new)
       /\ new \in calls' /\ calls' = (calls \ {c}) \union {new}
  BY <1>1, <1>8, CallGoesOn DEF ServerInv, Update
<1>11. ServerTypes' BY <1>1, <1>6, <1>10 DEF ServerTypes, Stage
<1>12. \A d \in calls' : d # new => ~OnBatch(d) /\ lock' # Id(d)
  BY <1>1, <1>4, <1>8, <1>10 DEF ServerInv, Locked, Holds
<1>13. Locked' BY <1>1, <1>4, <1>8, <1>10, <1>12 DEF Locked, OnBatch, Holds, Id
<1>14. \A k \in DOMAIN new.ran : /\ new.ran[k].mode = ModeOf(new)
                                 /\ \A j \in Stage : new.ran[k].version = slices[j].version
  <2>1. \A k \in DOMAIN c.ran : /\ c.ran[k].mode = ModeOf(c)
                                /\ \A j \in Stage : c.ran[k].version = slices[j].version
    BY <1>4 DEF ServerInv, OneVersion, Holds
  <2>2. \A j \in Stage : run.version = slices[j].version BY <1>1, <1>9 DEF ServerInv, OneVersion
  <2> QED BY <1>7, <1>8, <1>9, <2>1, <2>2 DEF ModeOf
<1>15. OneVersion'
  <2>1. \A j \in Stage : slices'[j].version = slices[j].version BY <1>6
  <2>2. \A d \in calls' : lock' = Id(d) => d = new BY <1>12
  <2>3. \A j, k \in Stage : slices'[j].version = slices'[k].version
    BY <2>1 DEF ServerInv, OneVersion
  <2>4. \A k \in DOMAIN new.ran : \A j \in Stage : new.ran[k].version = slices'[j].version
    BY <1>14, <2>1
  <2> QED BY <2>2, <2>3, <2>4 DEF OneVersion, Holds, Id, Stage
<1>16. BatchRuns'
  <2>1. i \in Nat /\ i \in 1 .. ServerSlices BY <1>1, <1>2 DEF Stage
  <2>2. \A j \in Stage : j < i + 1 => j = i \/ j < i BY <2>1 DEF Stage
  <2>3. (c.kind = "train") => \A j \in Stage : j < i + 1 => slices'[j].x = Id(new)
    BY <1>1, <1>4, <1>6, <1>8, <2>2 DEF Progress
  <2>4. (c.kind = "train") => \A j \in Stage : slices'[j].mode = "train"
    <3> SUFFICES ASSUME c.kind = "train", NEW j \in Stage
                 PROVE  slices'[j].mode = "train"
      OBVIOUS
    <3>1. CASE j = i BY <1>5, <1>6, <3>1 DEF ModeOf
    <3>2. CASE j # i BY <1>4, <1>6, <3>2 DEF Progress
    <3> QED BY <3>1, <3>2
  <2>6. i + 1 \in 1 .. ServerSlices + 1 BY <2>1, Constants
  <2>7. ASSUME NEW d, d = new
        PROVE  Progress(d)'
    <3>1. \A j \in Stage : (d.kind = "train" /\ j < d.stage) => slices'[j].x = Id(d)
      BY <1>8, <2>3, <2>7
    <3>2. d.kind = "train" => \A j \in Stage : slices'[j].mode = "train" BY <1>8, <2>4, <2>7
    <3>3. d.at = "forward" /\ d.stage \in 1 .. ServerSlices + 1 BY <1>8, <2>6, <2>7
    <3> QED BY <3>1, <3>2, <3>3 DEF Progress, Stage, Id
  <2>8. \A d \in calls' : OnBatch(d) => d = new BY <1>12
  <2> QED BY <2>7, <2>8 DEF BatchRuns, OnBatch
<1>18. Counted' BY <1>1, <1>4, <1>8, <1>10, <1>12 DEF ServerInv, Counted, OnBatch
<1>19. BatchesSeeOneModel'
  <2>1. \A k, l \in DOMAIN new.ran : new.ran[k].version = new.ran[l].version BY <1>1, <1>14
  <2> QED BY <1>10, <2>1 DEF ServerInv, BatchesSeeOneModel
<1>21. \A d \in calls' : d.at \in {"queued", "started"} => d.ran = <<>>
  BY <1>8, <1>10 DEF ServerInv
<1>22. \A d \in calls' : \A k \in DOMAIN d.ran : d.ran[k].mode = ModeOf(d)
  BY <1>10, <1>14 DEF ServerInv
<1>23. (\A m, n \in DOMAIN trained : trained[m].noise = trained[n].noise => m = n)'
  BY <1>1 DEF ServerInv
<1>24. (\A d \in calls : \A k \in DOMAIN d.ran : d.ran[k].mode = ModeOf(d))' BY <1>22 DEF ModeOf
<1> QED
  BY <1>1, <1>10, <1>11, <1>13, <1>15, <1>16, <1>18, <1>19, <1>21, <1>23, <1>24 DEF ServerInv

\* A gradient more.
LEMMA AddedShape ==
  ASSUME ServerTypes, NEW c \in Call, c.stage \in Stage
  PROVE  /\ Added(c) \in [Stage -> Slice]
         /\ Added(c)[c.stage].grads = Append(slices[c.stage].grads, slices[c.stage].x)
         /\ \A j \in Stage : j # c.stage => Added(c)[j] = slices[j]
         /\ \A j \in Stage : /\ Added(c)[j].mode = slices[j].mode /\ Added(c)[j].x = slices[j].x
                             /\ Added(c)[j].version = slices[j].version
<1> DEFINE i == c.stage
           more == Append(slices[i].grads, slices[i].x)
           s == [slices[i] EXCEPT !.grads = more]
<1>1. slices[i] \in Slice /\ slices \in [Stage -> Slice] BY DEF ServerTypes
<1>2. more \in Seq(Ids) BY <1>1 DEF Slice
<1> HIDE DEF more
<1>3. /\ s \in Slice /\ s.grads = more /\ s.mode = slices[i].mode /\ s.x = slices[i].x
      /\ s.version = slices[i].version
  BY <1>1, <1>2 DEF Slice
<1>4. Added(c) = [slices EXCEPT ![i] = s] BY <1>1 DEF Added, more, Slice
<1> HIDE DEF s
<1> QED BY <1>1, <1>3, <1>4 DEF more

LEMMA HandlerRaisesInv ==
  ASSUME ClientTypes, ServerTypes, ServerInv, NEW c \in calls, HandlerRaises(c)
  PROVE  ServerTypes' /\ ServerInv'
<1> DEFINE new == [c EXCEPT !.at = "error"]
<1>1. /\ new \in Call /\ Id(new) = Id(c) /\ new.ran = c.ran /\ new.kind = c.kind /\ new.at = "error"
  BY DEF ServerTypes, Call, Id
<1> HIDE DEF new
<1>2. /\ c.at \in {"forward", "backward"} /\ Update(c, new) /\ lock' = None
      /\ UNCHANGED <<client, steps, trained>>
  BY DEF HandlerRaises, strategy, Released, new
<1>3. Proc' = Proc BY SettingStays DEF HandlerRaises, ClientTypes, SettingKept
<1>4. lock = Id(c) /\ Progress(c) /\ OnBatch(c)
  BY <1>2 DEF ServerInv, Locked, Holds, BatchRuns, OnBatch
<1>5. /\ calls' \in SUBSET Call /\ Numbered'
      /\ \A d \in calls' : d # new => d \in calls /\ Id(d) # Id(new)
      /\ new \in calls'
  BY <1>1, <1>2, <1>3, CallGoesOn DEF ServerInv
<1>11. left' \in SUBSET Ids BY Constants DEF HandlerRaises, ServerTypes
<1>10. /\ slices' \in [Stage -> Slice]
       /\ \A i \in Stage : slices'[i].version = slices[i].version
  <2>1. CASE slices' = slices BY <2>1 DEF ServerTypes
  <2>2. CASE c.at = "backward" /\ c.stage >= 1 /\ slices' = Added(c)
    <3>1. c.stage \in Stage /\ c \in Call BY <1>4, <2>2, Constants DEF Progress, ServerTypes
    <3> QED BY <2>2, <3>1, AddedShape
  <2> QED BY <2>1, <2>2 DEF HandlerRaises
<1>6. ServerTypes' BY <1>2, <1>5, <1>10, <1>11, Constants DEF ServerTypes, Stage
<1>7. \A d \in calls' : ~OnBatch(d) /\ lock' # Id(d)
  <2>1. \A d \in calls' : d # new => ~OnBatch(d)
    BY <1>1, <1>4, <1>5 DEF ServerInv, Locked, Holds
  <2>2. \A d \in calls' : lock' # Id(d) BY <1>2, <1>5, Constants
  <2> QED BY <1>1, <2>1, <2>2 DEF OnBatch
<1>8. Locked' BY <1>2, <1>7 DEF Locked, OnBatch, Holds, Id
<1>12. \A i, j \in Stage : slices'[i].version = slices'[j].version
  BY <1>10 DEF ServerInv, OneVersion
<1>9. OneVersion' /\ BatchRuns' /\ Counted'
  BY <1>2, <1>7, <1>12 DEF ServerInv, OneVersion, BatchRuns, Counted, OnBatch, Holds, Id, Stage
<1>13. BatchesSeeOneModel' BY <1>1, <1>2, <1>5 DEF ServerInv, BatchesSeeOneModel, Stage
<1> QED BY <1>1, <1>2, <1>5, <1>6, <1>8, <1>9, <1>13 DEF ServerInv, ModeOf

LEMMA CriterionInv ==
  ASSUME ClientTypes, ServerTypes, ServerInv, NEW c \in calls, Criterion(c)
  PROVE  ServerTypes' /\ ServerInv'
<1>1. /\ c \in Call /\ Proc' = Proc /\ UNCHANGED client /\ c.at = "forward" /\ c.stage > ServerSlices
      /\ UNCHANGED <<slices, steps, trained, left>>
  BY DEF Criterion, Quiet, Proc, ServerTypes
<1>2. lock = Id(c) /\ lock # None /\ Progress(c) /\ OnBatch(c)
  BY <1>1, Constants DEF ServerInv, Locked, Holds, BatchRuns, OnBatch
<1>3. c.stage = ServerSlices + 1 BY <1>1, <1>2, Constants DEF Progress
<1>4. CASE c.kind = "train"
  <2> DEFINE new == [c EXCEPT !.at = "backward", !.stage = ServerSlices]
  <2>1. /\ new \in Call /\ Id(new) = Id(c) /\ new.ran = c.ran /\ new.kind = c.kind
        /\ new.at = "backward" /\ new.stage = ServerSlices
    BY <1>1, Constants DEF Call, Id
  <2> HIDE DEF new
  <2>2. Update(c, new) /\ lock' = lock BY <1>4 DEF Criterion, new
  <2>3. /\ calls' \in SUBSET Call /\ Numbered'
        /\ \A d \in calls' : d # new => d \in calls /\ Id(d) # Id(new)
        /\ new \in calls'
    BY <1>1, <2>1, <2>2, CallGoesOn DEF ServerInv
  <2>4. ServerTypes' BY <1>1, <2>2, <2>3 DEF ServerTypes, Stage
  <2>5. \A d \in calls' : d # new => ~OnBatch(d) /\ lock' # Id(d)
    BY <1>2, <2>1, <2>2, <2>3 DEF ServerInv, Locked, Holds
  <2>6. OnBatch(new) /\ lock' = Id(new) BY <1>2, <2>1, <2>2 DEF OnBatch
  <2>7. Locked' BY <2>3, <2>5, <2>6 DEF Locked, OnBatch, Holds, Id
  <2>8. OneVersion'
    BY <1>1, <1>2, <2>1, <2>3, <2>5, <2>6 DEF ServerInv, OneVersion, Holds, Id, Stage
  <2>9. BatchRuns'
    <3>1. \A i \in Stage : i \in Nat /\ i <= ServerSlices /\ i < c.stage BY <1>3, Constants
    <3>2. \A i \in Stage : slices'[i].mode = "train" /\ slices'[i].x = Id(new)
      BY <1>1, <1>2, <1>3, <1>4, <2>1, <3>1 DEF Progress
    <3>3. Progress(new)' BY <1>4, <2>1, <3>1, <3>2, Constants DEF Progress, Id
    <3> QED BY <2>5, <3>3 DEF BatchRuns, OnBatch
  <2>10. Counted' BY <1>1, <1>2, <1>4, <2>2, <2>3, <2>5 DEF ServerInv, Counted, OnBatch
  <2>11. BatchesSeeOneModel' BY <1>1, <2>1, <2>3 DEF ServerInv, BatchesSeeOneModel, Stage
  <2> QED BY <1>1, <2>1, <2>3, <2>4, <2>7, <2>8, <2>9, <2>10, <2>11 DEF ServerInv, ModeOf
<1>5. CASE c.kind # "train"
  <2> DEFINE new == [c EXCEPT !.at = "replied"]
  <2>1. /\ new \in Call /\ Id(new) = Id(c) /\ new.ran = c.ran /\ new.kind = c.kind
        /\ new.at = "replied"
    BY <1>1 DEF Call, Id
  <2> HIDE DEF new
  <2>2. Update(c, new) /\ lock' = None BY <1>5 DEF Criterion, new, Released
  <2>3. /\ calls' \in SUBSET Call /\ Numbered'
        /\ \A d \in calls' : d # new => d \in calls /\ Id(d) # Id(new)
        /\ new \in calls'
    BY <1>1, <2>1, <2>2, CallGoesOn DEF ServerInv
  <2>4. ServerTypes' BY <1>1, <2>2, <2>3, Constants DEF ServerTypes, Stage
  <2>5. \A d \in calls' : ~OnBatch(d) /\ lock' # Id(d)
    <3>1. \A d \in calls' : d # new => ~OnBatch(d)
      BY <1>2, <2>1, <2>3 DEF ServerInv, Locked, Holds
    <3>2. \A d \in calls' : lock' # Id(d) BY <2>2, <2>3, Constants
    <3> QED BY <2>1, <3>1, <3>2 DEF OnBatch
  <2>6. Locked' BY <2>2, <2>5 DEF Locked, OnBatch, Holds, Id
  <2>7. OneVersion' /\ BatchRuns' /\ Counted'
    BY <1>1, <2>5 DEF ServerInv, OneVersion, BatchRuns, Counted, OnBatch, Holds, Id, Stage
  <2>9. BatchesSeeOneModel' BY <1>1, <2>1, <2>3 DEF ServerInv, BatchesSeeOneModel, Stage
  <2> QED BY <1>1, <2>1, <2>3, <2>4, <2>6, <2>7, <2>9 DEF ServerInv, ModeOf
<1> QED BY <1>4, <1>5

LEMMA BackwardInv ==
  ASSUME ClientTypes, ServerTypes, ServerInv, NEW c \in calls, Backward(c)
  PROVE  ServerTypes' /\ ServerInv'
<1> DEFINE i == c.stage
           new == [c EXCEPT !.stage = @ - 1]
<1>1. /\ c \in Call /\ Proc' = Proc /\ UNCHANGED client /\ c.at = "backward" /\ i >= 1
      /\ UNCHANGED <<lock, steps, trained, left>> /\ Update(c, new) /\ slices' = Added(c)
  BY DEF Backward, Quiet, Proc, ServerTypes
<1>2. lock = Id(c) /\ lock # None /\ Progress(c) /\ OnBatch(c)
  BY <1>1, Constants DEF ServerInv, Locked, Holds, BatchRuns, OnBatch
<1>3. /\ c.kind = "train" /\ i \in Stage /\ i \in Nat
      /\ \A j \in Stage : slices[j].mode = "train" /\ slices[j].x = Id(c)
  BY <1>1, <1>2, Constants DEF Progress
<1>4. /\ new \in Call /\ Id(new) = Id(c) /\ new.ran = c.ran /\ new.kind = c.kind
      /\ new.at = "backward" /\ new.stage = i - 1
  <2>1. i - 1 \in Nat /\ c \in Call /\ c.at = "backward" BY <1>1, <1>3
  <2> QED BY <2>1 DEF Call, Id
<1> HIDE DEF new
<1>8. slices' \in [Stage -> Slice] BY <1>1, <1>3, AddedShape
<1>9. \A j \in Stage : slices'[j].mode = "train" /\ slices'[j].x = Id(c) /\ slices'[j].version = slices[j].version
  BY <1>1, <1>3, AddedShape
<1>11. /\ calls' \in SUBSET Call /\ Numbered'
       /\ \A d \in calls' : d # new => d \in calls /\ Id(d) # Id(new)
       /\ new \in calls'
  BY <1>1, <1>4, CallGoesOn DEF ServerInv
<1>12. ServerTypes' BY <1>1, <1>8, <1>11 DEF ServerTypes, Stage
<1>13. \A d \in calls' : d # new => ~OnBatch(d) /\ lock' # Id(d)
  BY <1>1, <1>2, <1>4, <1>11 DEF ServerInv, Locked, Holds
<1>14. OnBatch(new) /\ lock' = Id(new) BY <1>1, <1>2, <1>4 DEF OnBatch
<1>15. Locked' BY <1>11, <1>13, <1>14 DEF Locked, OnBatch, Holds, Id
<1>16. OneVersion'
  <2>1. \A j, k \in Stage : slices'[j].version = slices'[k].version
    BY <1>9 DEF ServerInv, OneVersion
  <2>2. \A k \in DOMAIN new.ran : \A j \in Stage : new.ran[k].version = slices'[j].version
    BY <1>2, <1>4, <1>9 DEF ServerInv, OneVersion, Holds
  <2>3. \A d \in calls' : lock' = Id(d) => d = new BY <1>13
  <2> QED BY <2>1, <2>2, <2>3 DEF OneVersion, Holds, Id, Stage
<1>17. BatchRuns'
  <2>1. i - 1 \in 0 .. ServerSlices BY <1>1, <1>3, Constants
  <2>2. ASSUME NEW d, d = new
        PROVE  Progress(d)'
    <3>1. d.kind = "train" /\ d.at = "backward" /\ d.stage = i - 1 /\ Id(d) = Id(c)
      BY <1>3, <1>4, <2>2
    <3> QED BY <1>9, <2>1, <3>1 DEF Progress, Stage, Id
  <2>3. \A d \in calls' : OnBatch(d) => d = new BY <1>13
  <2> QED BY <2>2, <2>3 DEF BatchRuns, OnBatch
<1>19. Counted' BY <1>1, <1>2, <1>3, <1>11, <1>13 DEF ServerInv, Counted, OnBatch
<1>20. BatchesSeeOneModel' BY <1>1, <1>4, <1>11 DEF ServerInv, BatchesSeeOneModel, Stage
<1> QED BY <1>1, <1>4, <1>11, <1>12, <1>15, <1>16, <1>17, <1>19, <1>20 DEF ServerInv, ModeOf

LEMMA OptimizeInv ==
  ASSUME ClientTypes, ServerTypes, ServerInv, NEW c \in calls, Optimize(c)
  PROVE  ServerTypes' /\ ServerInv'
<1> DEFINE new == [c EXCEPT !.at = "replied", !.noise = steps]
           step == [call |-> Id(c), sum |-> [i \in Stage |-> slices[i].grads], noise |-> steps]
<1>1. /\ c \in Call /\ Proc' = Proc /\ UNCHANGED client /\ UNCHANGED <<steps, left>>
      /\ c.at = "backward" /\ c.stage = 0 /\ lock' = None
      /\ slices' = [i \in Stage |-> Stepped(slices[i])]
      /\ trained' = Append(trained, step)
      /\ Update(c, new)
  BY DEF Optimize, Quiet, Proc, ServerTypes, Released
<1>2. lock = Id(c) /\ lock # None /\ Progress(c) /\ OnBatch(c)
  BY <1>1, Constants DEF ServerInv, Locked, Holds, BatchRuns, OnBatch
<1>3. /\ c.kind = "train"
      /\ steps \in Nat /\ Len(trained) < steps /\ \A n \in DOMAIN trained : trained[n].noise < steps
  <2>1. c.kind = "train" BY <1>1, <1>2, Constants DEF Progress
  <2> QED BY <1>2, <2>1 DEF ServerTypes, ServerInv, Counted
<1>4. /\ new \in Call /\ Id(new) = Id(c) /\ new.ran = c.ran /\ new.kind = c.kind /\ new.at = "replied"
  BY <1>1, <1>3 DEF Call, Id
<1>5. step \in Sums /\ step.noise = steps BY <1>1, <1>3, Constants DEF ServerTypes, Sums, Slice
<1> HIDE DEF new, step
<1>6. /\ slices' \in [Stage -> Slice]
      /\ \A i \in Stage : slices'[i].grads = <<>> /\ slices'[i].version = slices[i].version + 1
  <2>2. \A i \in Stage : slices[i] \in Slice BY DEF ServerTypes
  <2>3. ASSUME NEW s \in Slice
        PROVE  /\ Stepped(s) \in Slice
               /\ Stepped(s).grads = <<>> /\ Stepped(s).version = s.version + 1
    <3>1. <<>> \in Seq(Ids) /\ s.version + 1 \in Nat BY DEF Slice
    <3> QED BY <3>1 DEF Stepped, Slice
  <2> QED BY <1>1, <2>2, <2>3
<1>7. /\ trained' \in Seq(Sums)
      /\ DOMAIN trained' = DOMAIN trained \union {Len(trained) + 1}
      /\ \A n \in DOMAIN trained : trained'[n] = trained[n]
      /\ trained'[Len(trained) + 1] = step
      /\ Len(trained') = Len(trained) + 1
  BY <1>1, <1>5, AppendShape, AppendProperties DEF ServerTypes
<1>8. /\ calls' \in SUBSET Call /\ Numbered'
      /\ \A d \in calls' : d # new => d \in calls /\ Id(d) # Id(new)
      /\ new \in calls'
  BY <1>1, <1>4, CallGoesOn DEF ServerInv
<1>9. ServerTypes' BY <1>1, <1>3, <1>6, <1>7, <1>8, Constants DEF ServerTypes, Stage
<1>10. \A d \in calls' : ~OnBatch(d) /\ lock' # Id(d)
  <2>1. \A d \in calls' : d # new => ~OnBatch(d)
    BY <1>2, <1>4, <1>8 DEF ServerInv, Locked, Holds
  <2>2. \A d \in calls' : lock' # Id(d) BY <1>1, <1>8, Constants
  <2> QED BY <1>4, <2>1, <2>2 DEF OnBatch
<1>11. Locked' BY <1>1, <1>10 DEF Locked, OnBatch, Holds, Id
<1>12. OneVersion'
  <2>1. \A i, j \in Stage : slices'[i].version = slices'[j].version
    BY <1>6 DEF ServerInv, OneVersion
  <2> QED BY <1>10, <2>1 DEF OneVersion, Holds, Id, Stage
<1>13. BatchRuns' BY <1>6, <1>10 DEF BatchRuns, OnBatch, Stage
<1>14. Counted'
  <2>1. Len(trained) \in Nat /\ \A n \in DOMAIN trained : trained[n].noise \in Nat BY Steps
  <2>2. Len(trained') <= steps' BY <1>1, <1>3, <1>7, <2>1
  <2>3. \A n \in DOMAIN trained' : trained'[n].noise <= steps' BY <1>1, <1>3, <1>5, <1>7, <2>1
  <2> QED BY <1>10, <2>2, <2>3 DEF Counted, OnBatch
<1>16. BatchesSeeOneModel' BY <1>4, <1>8 DEF ServerInv, BatchesSeeOneModel
<1>17. (\A m, n \in DOMAIN trained : trained[m].noise = trained[n].noise => m = n)'
  <2>1. \A n \in DOMAIN trained : trained[n].noise \in Nat /\ trained[n].noise < steps
    BY <1>3, Steps
  <2>2. \A n \in DOMAIN trained : trained'[n].noise # trained'[Len(trained) + 1].noise
    BY <1>3, <1>5, <1>7, <2>1
  <2> QED BY <1>7, <2>2 DEF ServerInv
<1> QED BY <1>4, <1>8, <1>9, <1>11, <1>12, <1>13, <1>14, <1>16, <1>17 DEF ServerInv, ModeOf

--------------------
(* The gradients. *)

(* A call whose backward has raised, or that has stepped. *)
Over(id) == id \in left \/ \E n \in DOMAIN trained : trained[n].call = id

(* A call that may still go back through slices, and how far it has. *)
ToRun(c) == c.at \in {"queued", "started", "forward", "backward"}
HasPassed(c, i) == c.at = "backward" /\ i > c.stage

OverInv ==
  /\ \A id \in Ids : Over(id) => id.proc \in Proc /\ id.number <= client[id.proc].number
  /\ \A c \in calls : ToRun(c) => ~Over(Id(c))

(* What is in .grad is left of a batch that raised, or is, last, of the    *)
(* batch that runs; nothing is there twice, or was taken by a step. *)
GradsOf(i) ==
  LET grads == slices[i].grads
  IN /\ \A k \in DOMAIN grads :
          grads[k] \in left \/ \E c \in calls : HasPassed(c, i) /\ grads[k] = Id(c)
     /\ \A c \in calls : HasPassed(c, i) =>
          /\ grads # <<>> /\ grads[Len(grads)] = Id(c)
          /\ \A k \in 1 .. Len(grads) - 1 : grads[k] \in left
     /\ \A k, l \in DOMAIN grads : grads[k] = grads[l] => k = l
     /\ \A n \in DOMAIN trained : \A k \in DOMAIN grads, l \in DOMAIN trained[n].sum[i] :
          grads[k] # trained[n].sum[i][l]

GradInv == OverInv /\ OneBatchPerStep /\ \A i \in Stage : GradsOf(i)

\* What a step has taken is of a call that is over.
LEMMA TakenIsOver ==
  ASSUME ServerTypes, OneBatchPerStep, NEW n \in DOMAIN trained, NEW i \in Stage,
         NEW k \in DOMAIN trained[n].sum[i]
  PROVE  Over(trained[n].sum[i][k])
<1> DEFINE sum == trained[n].sum[i]
<1>1. sum \in Seq(Ids) BY Steps DEF Sums
<1>2. /\ sum[Len(sum)] = trained[n].call
      /\ \A l \in 1 .. Len(sum) - 1 : sum[l] \in left
  BY DEF OneBatchPerStep, Last
<1>3. k \in 1 .. Len(sum) /\ Len(sum) \in Nat BY <1>1
<1>4. k = Len(sum) \/ k \in 1 .. Len(sum) - 1 BY <1>3
<1> HIDE DEF sum
<1> QED BY <1>2, <1>4 DEF Over, sum

\* A step that adds no gradient, drops none and finishes no batch.
LEMMA GradKept ==
  ASSUME GradInv, UNCHANGED <<trained, left>>, Proc' = Proc,
         \A i \in Stage : slices'[i].grads = slices[i].grads,
         \A p \in Proc : client[p].number \in Nat /\ client'[p].number \in Nat
                         /\ client'[p].number >= client[p].number,
         \A d \in calls' : ToRun(d) => ~Over(Id(d)),
         \A i \in Stage : \A c \in calls : HasPassed(c, i) => \E d \in calls' : HasPassed(d, i) /\ Id(d) = Id(c),
         \A i \in Stage : \A d \in calls' : HasPassed(d, i) => \E c \in calls : HasPassed(c, i) /\ Id(d) = Id(c)
  PROVE  GradInv'
<1>1. \A id : Over(id)' = Over(id) BY DEF Over
<1>2. OverInv'
  <2>1. ASSUME NEW id \in Ids, Over(id)
        PROVE  id.proc \in Proc /\ id.number <= client'[id.proc].number
    <3>1. id.proc \in Proc /\ id.number <= client[id.proc].number /\ id.number \in Nat
      BY <2>1 DEF GradInv, OverInv, Ids
    <3> QED BY <3>1
  <2> QED BY <1>1, <2>1 DEF OverInv, ToRun, Id
<1>3. OneBatchPerStep' BY DEF GradInv, OneBatchPerStep, Stage
<1>4. ASSUME NEW i \in Stage
      PROVE  GradsOf(i)'
  <2> DEFINE grads == slices[i].grads
  <2>1. GradsOf(i) /\ slices'[i].grads = grads BY DEF GradInv
  <2>2. \A k \in DOMAIN grads : grads[k] \in left \/ \E d \in calls' : HasPassed(d, i) /\ grads[k] = Id(d)
    BY <2>1 DEF GradsOf
  <2>3. \A d \in calls' : HasPassed(d, i) =>
          /\ grads # <<>> /\ grads[Len(grads)] = Id(d)
          /\ \A k \in 1 .. Len(grads) - 1 : grads[k] \in left
    BY <2>1 DEF GradsOf
  <2>4. /\ \A k, l \in DOMAIN grads : grads[k] = grads[l] => k = l
        /\ \A n \in DOMAIN trained : \A k \in DOMAIN grads, l \in DOMAIN trained[n].sum[i] :
             grads[k] # trained[n].sum[i][l]
    BY <2>1 DEF GradsOf
  <2> HIDE DEF grads
  <2>5. GradsOf(i)' <=>
          /\ \A k \in DOMAIN grads : grads[k] \in left \/ \E d \in calls' : HasPassed(d, i) /\ grads[k] = Id(d)
          /\ \A d \in calls' : HasPassed(d, i) =>
               /\ grads # <<>> /\ grads[Len(grads)] = Id(d)
               /\ \A k \in 1 .. Len(grads) - 1 : grads[k] \in left
          /\ \A k, l \in DOMAIN grads : grads[k] = grads[l] => k = l
          /\ \A n \in DOMAIN trained : \A k \in DOMAIN grads, l \in DOMAIN trained[n].sum[i] :
               grads[k] # trained[n].sum[i][l]
    BY <2>1 DEF GradsOf, HasPassed, Id
  <2> QED BY <2>2, <2>3, <2>4, <2>5
<1> QED BY <1>2, <1>3, <1>4 DEF GradInv, Stage

\* A step that leaves the server as it is: calls leave, or a new one comes.
LEMMA GradQuiet ==
  ASSUME ServerTypes, GradInv, UNCHANGED server, Proc' = Proc,
         \A p \in Proc : client[p].number \in Nat /\ client'[p].number \in Nat
                         /\ client'[p].number >= client[p].number,
         \A c \in calls \ calls' : ~OnBatch(c),
         \A d \in calls' \ calls : /\ d \in Call /\ d.at \in {"queued", "started"}
                                  /\ \/ d.number > client[d.proc].number
                                     \/ \E c \in calls : ToRun(c) /\ Id(c) = Id(d)
  PROVE  GradInv'
<1>1. ASSUME NEW d \in calls', ToRun(d)
      PROVE  ~Over(Id(d))
  <2>1. CASE d \in calls \/ \E c \in calls : ToRun(c) /\ Id(c) = Id(d)
    BY <1>1, <2>1 DEF GradInv, OverInv
  <2>2. CASE d \in Call /\ d.number > client[d.proc].number
    <3>1. Id(d) \in Ids /\ Id(d).proc = d.proc /\ Id(d).number = d.number /\ d.number \in Nat
      BY <2>2 DEF Call, Ids, Id
    <3>2. Over(Id(d)) => d.proc \in Proc /\ d.number <= client[d.proc].number
      BY <3>1 DEF GradInv, OverInv
    <3> QED BY <2>2, <3>1, <3>2
  <2> QED BY <2>1, <2>2
<1>2. ASSUME NEW i \in Stage
      PROVE  /\ \A c \in calls : HasPassed(c, i) => \E d \in calls' : HasPassed(d, i) /\ Id(d) = Id(c)
             /\ \A d \in calls' : HasPassed(d, i) => \E c \in calls : HasPassed(c, i) /\ Id(d) = Id(c)
  BY DEF HasPassed, OnBatch
<1>3. UNCHANGED <<trained, left, slices>> BY DEF server
<1> QED BY <1>1, <1>2, <1>3, GradKept

\* A step of a handler that moves its call on, to no slice further back.
LEMMA GradMoves ==
  ASSUME IndInv, GradInv, NEW c \in calls, NEW new \in Call, Update(c, new), Id(new) = Id(c),
         UNCHANGED <<trained, left, client>>, Proc' = Proc,
         \A i \in Stage : slices'[i].grads = slices[i].grads,
         ToRun(new) => ToRun(c),
         \A i \in Stage : ~HasPassed(c, i) /\ ~HasPassed(new, i)
  PROVE  GradInv'
<1>1. calls' = (calls \ {c}) \union {new} BY DEF Update
<1>2. \A d \in calls' : ToRun(d) => ~Over(Id(d)) BY <1>1 DEF GradInv, OverInv
<1>3. ASSUME NEW i \in Stage
      PROVE  /\ \A e \in calls : HasPassed(e, i) => \E d \in calls' : HasPassed(d, i) /\ Id(d) = Id(e)
             /\ \A d \in calls' : HasPassed(d, i) => \E e \in calls : HasPassed(e, i) /\ Id(d) = Id(e)
  BY <1>1, ZenonT(30)
<1>4. \A p \in Proc : client[p].number \in Nat /\ client'[p].number \in Nat
                       /\ client'[p].number >= client[p].number
  BY DEF IndInv, ClientTypes, Client
<1> QED BY <1>2, <1>3, <1>4, GradKept

\* A backward adds the running batch's gradient behind what is left in .grad.
LEMMA OneMoreGrad ==
  ASSUME IndInv, GradInv, NEW c \in calls, c.at = "backward", c.stage >= 1,
         NEW grads, grads = Append(slices[c.stage].grads, Id(c))
  PROVE  /\ c \in Call /\ c.stage \in Stage /\ slices[c.stage].x = Id(c)
         /\ Added(c)[c.stage].grads = grads
         /\ \A j \in Stage : j # c.stage => Added(c)[j].grads = slices[j].grads
         /\ \A d \in calls : d.at = "backward" => d = c
         /\ ~Over(Id(c))
         /\ \A k \in DOMAIN grads : grads[k] \in left \/ grads[k] = Id(c)
         /\ grads # <<>> /\ grads[Len(grads)] = Id(c)
         /\ \A k \in 1 .. Len(grads) - 1 : grads[k] \in left
         /\ \A k, l \in DOMAIN grads : grads[k] = grads[l] => k = l
         /\ \A n \in DOMAIN trained : \A k \in DOMAIN grads, l \in DOMAIN trained[n].sum[c.stage] :
              grads[k] # trained[n].sum[c.stage][l]
<1> DEFINE i == c.stage
           old == slices[i].grads
<1> USE DEF IndInv
<1>1. c \in Call /\ lock = Id(c) /\ Progress(c) /\ Id(c) \in Ids
  BY Constants DEF ServerTypes, ServerInv, Locked, Holds, BatchRuns, OnBatch
<1>2. i \in Stage /\ slices[i].x = Id(c) BY <1>1, Constants DEF Progress
<1>3. \A d \in calls : d.at = "backward" => d = c
  BY <1>1 DEF ServerInv, Locked, Numbered, OnBatch, Holds
<1>4. /\ old \in Seq(Ids) /\ Len(old) \in Nat /\ DOMAIN old = 1 .. Len(old)
      /\ DOMAIN grads = DOMAIN old \union {Len(old) + 1} /\ Len(grads) = Len(old) + 1
      /\ \A k \in DOMAIN old : grads[k] = old[k]
      /\ grads[Len(old) + 1] = Id(c) /\ grads \in Seq(Ids)
  <2>1. old \in Seq(Ids) BY <1>2 DEF ServerTypes, Slice
  <2> QED BY <1>1, <2>1, AppendShape, AppendProperties
<1>5. ~Over(Id(c)) /\ Id(c) \notin left BY DEF GradInv, OverInv, ToRun, Over
<1>6. \A k \in DOMAIN old : old[k] \in left /\ old[k] # Id(c)
  <2>1. \A d \in calls : ~HasPassed(d, i) BY <1>2, <1>3, Constants DEF HasPassed
  <2> QED BY <1>2, <1>5, <2>1 DEF GradInv, GradsOf
<1>7. /\ Added(c)[i].grads = grads
      /\ \A j \in Stage : j # i => Added(c)[j].grads = slices[j].grads
  BY <1>1, <1>2, AddedShape
<1>8. GradsOf(i) BY <1>2 DEF GradInv
<1>9. \A k, l \in DOMAIN old : old[k] = old[l] => k = l BY <1>8 DEF GradsOf
<1>10. \A n \in DOMAIN trained : \A k \in DOMAIN old, l \in DOMAIN trained[n].sum[i] :
         old[k] # trained[n].sum[i][l]
  BY <1>8 DEF GradsOf
<1>11. \A n \in DOMAIN trained : \A l \in DOMAIN trained[n].sum[i] : Id(c) # trained[n].sum[i][l]
  BY <1>2, <1>5, TakenIsOver DEF GradInv
<1> HIDE DEF old
<1>12. \A k \in DOMAIN grads : grads[k] \in left \/ grads[k] = Id(c) BY <1>4, <1>6
<1>13. grads # <<>> /\ grads[Len(grads)] = Id(c) /\ \A k \in 1 .. Len(grads) - 1 : grads[k] \in left
  BY <1>4, <1>6
<1>14. \A k, l \in DOMAIN grads : grads[k] = grads[l] => k = l BY <1>4, <1>6, <1>9
<1>15. \A n \in DOMAIN trained : \A k \in DOMAIN grads, l \in DOMAIN trained[n].sum[i] :
         grads[k] # trained[n].sum[i][l]
  BY <1>4, <1>10, <1>11
<1> QED BY <1>1, <1>2, <1>3, <1>5, <1>7, <1>12, <1>13, <1>14, <1>15

\* The gradient of one more slice: it is the running batch's, and comes last.
LEMMA GradBackward ==
  ASSUME IndInv, GradInv, NEW c \in calls, Backward(c)
  PROVE  GradInv'
<1> DEFINE i == c.stage
           new == [c EXCEPT !.stage = @ - 1]
           grads == Append(slices[i].grads, Id(c))
<1> USE DEF IndInv
<1>1. /\ Proc' = Proc /\ UNCHANGED client /\ c.at = "backward" /\ i >= 1
      /\ UNCHANGED <<lock, steps, trained, left>> /\ Update(c, new) /\ slices' = Added(c)
  BY DEF Backward, Quiet, Proc
<1> HIDE DEF grads
<1>2. /\ c \in Call /\ i \in Stage /\ i \in Nat
      /\ \A d \in calls : d.at = "backward" => d = c
      /\ ~Over(Id(c))
      /\ \A k \in DOMAIN grads : grads[k] \in left \/ grads[k] = Id(c)
      /\ grads # <<>> /\ grads[Len(grads)] = Id(c)
      /\ \A k \in 1 .. Len(grads) - 1 : grads[k] \in left
      /\ \A k, l \in DOMAIN grads : grads[k] = grads[l] => k = l
      /\ \A n \in DOMAIN trained : \A k \in DOMAIN grads, l \in DOMAIN trained[n].sum[i] :
           grads[k] # trained[n].sum[i][l]
  <2>1. grads = Append(slices[c.stage].grads, Id(c)) BY DEF grads
  <2>2. c.at = "backward" /\ c.stage >= 1 BY <1>1
  <2>3. c \in Call /\ c.stage \in Stage BY <2>1, <2>2, OneMoreGrad
  <2>4. i \in Nat BY <2>3, Constants
  <2>6. (\A d \in calls : d.at = "backward" => d = c) /\ ~Over(Id(c)) BY <2>1, <2>2, OneMoreGrad
  <2>5. /\ \A k \in DOMAIN grads : grads[k] \in left \/ grads[k] = Id(c)
        /\ grads # <<>> /\ grads[Len(grads)] = Id(c)
        /\ \A k \in 1 .. Len(grads) - 1 : grads[k] \in left
    BY <2>2, ZenonT(30), OneMoreGrad DEF grads
  <2>7. /\ \A k, l \in DOMAIN grads : grads[k] = grads[l] => k = l
        /\ \A n \in DOMAIN trained : \A k \in DOMAIN grads, l \in DOMAIN trained[n].sum[i] :
             grads[k] # trained[n].sum[i][l]
    BY <2>2, OneMoreGrad DEF grads
  <2> QED BY <2>3, <2>4, <2>5, <2>6, <2>7
<1>4. /\ new \in Call /\ Id(new) = Id(c) /\ new.at = "backward" /\ new.stage = i - 1
  <2>1. i - 1 \in Nat /\ c \in Call /\ c.at = "backward" BY <1>1, <1>2
  <2> QED BY <2>1 DEF Call, Id
<1> HIDE DEF new
<1>5. calls' = (calls \ {c}) \union {new} BY <1>1 DEF Update
<1>6. \A j \in Stage : \A d \in calls' : HasPassed(d, j) <=> d = new /\ j > i - 1
  BY <1>2, <1>4, <1>5 DEF HasPassed
<1>7. \A j \in Stage : \A d \in calls : HasPassed(d, j) <=> d = c /\ j > i
  BY <1>1, <1>2 DEF HasPassed
<1>8. /\ slices'[i].grads = grads
      /\ \A j \in Stage : j # i => slices'[j].grads = slices[j].grads
  BY <1>1, OneMoreGrad DEF grads
<1>12. OverInv' BY <1>1, <1>2, <1>4, <1>5 DEF GradInv, OverInv, ToRun, Over, Id
<1>13. OneBatchPerStep' BY <1>1 DEF GradInv, OneBatchPerStep, Stage
<1>14. GradsOf(i)'
  <2>1. new \in calls' /\ HasPassed(new, i) /\ Id(new) = Id(c) BY <1>2, <1>4, <1>5 DEF HasPassed
  <2>2. \A d \in calls' : HasPassed(d, i) => Id(d) = Id(c) BY <1>2, <1>4, <1>6
  <2> QED BY <1>1, <1>2, <1>8, <2>1, <2>2 DEF GradsOf, HasPassed, Id
<1>15. ASSUME NEW j \in Stage, j # i
       PROVE  GradsOf(j)'
  <2> DEFINE g == slices[j].grads
  <2>1. j > i - 1 <=> j > i BY <1>2, <1>15, Constants
  <2>2. GradsOf(j) /\ slices'[j].grads = g BY <1>8, <1>15 DEF GradInv
  <2>3. \A k \in DOMAIN g : g[k] \in left \/ \E d \in calls' : HasPassed(d, j) /\ g[k] = Id(d)
    BY <1>4, <1>5, <1>6, <1>7, <2>1, <2>2 DEF GradsOf
  <2>4. \A d \in calls' : HasPassed(d, j) =>
          /\ g # <<>> /\ g[Len(g)] = Id(d)
          /\ \A k \in 1 .. Len(g) - 1 : g[k] \in left
    BY <1>4, <1>6, <1>7, <2>1, <2>2 DEF GradsOf
  <2>5. /\ \A k, l \in DOMAIN g : g[k] = g[l] => k = l
        /\ \A n \in DOMAIN trained : \A k \in DOMAIN g, l \in DOMAIN trained[n].sum[j] :
             g[k] # trained[n].sum[j][l]
    BY <2>2 DEF GradsOf
  <2> HIDE DEF g
  <2> QED BY <1>1, <2>2, <2>3, <2>4, <2>5 DEF GradsOf, HasPassed, Id
<1> QED BY <1>12, <1>13, <1>14, <1>15 DEF GradInv, Stage

\* A handler that raises: half way through a backward, the slice it raised
\* in has some of the gradient or none.
LEMMA GradRaises ==
  ASSUME IndInv, GradInv, NEW c \in calls, HandlerRaises(c)
  PROVE  GradInv'
<1> DEFINE new == [c EXCEPT !.at = "error"]
<1> USE DEF IndInv
<1>1. /\ new \in Call /\ Id(new) = Id(c) /\ new.at = "error" /\ Id(c) \in Ids
  BY Constants DEF ServerTypes, Call, Id
<1>2. Update(c, new) /\ UNCHANGED <<client, trained>> /\ Proc' = Proc
  BY SettingStays DEF HandlerRaises, ClientTypes, SettingKept
<1> HIDE DEF new
<1>3. CASE c.at = "forward" /\ UNCHANGED <<slices, left>>
  BY <1>1, <1>2, <1>3, GradMoves DEF ToRun, HasPassed
<1>4. CASE /\ c.at = "backward" /\ c.stage >= 1 /\ left' = left \union {Id(c)}
           /\ slices' = slices \/ slices' = Added(c)
  <2> DEFINE i == c.stage
             grads == Append(slices[i].grads, Id(c))
  <2>1. i \in Stage /\ (\A d \in calls : d.at = "backward" => d = c) /\ ~Over(Id(c))
    BY <1>4, OneMoreGrad
  <2>2. calls' = (calls \ {c}) \union {new} /\ \A d \in calls' : d # new => d \in calls /\ Id(d) # Id(c)
    BY <1>1, <1>2 DEF Update, ServerInv, Numbered
  <2>3. \A id : Over(id)' <=> Over(id) \/ id = Id(c) BY <1>2, <1>4 DEF Over
  <2>4. OverInv'
    <3>1. Id(c).proc \in Proc /\ Id(c).number <= client[Id(c).proc].number
      BY DEF ServerInv, Numbered, Id
    <3>2. \A d \in calls' : ToRun(d) => d # new BY <1>1 DEF ToRun
    <3> QED BY <1>2, <2>2, <2>3, <3>1, <3>2 DEF GradInv, OverInv, ToRun, Id
  <2>5. OneBatchPerStep'
    <3>1. \A n \in DOMAIN trained : trained[n].call # Id(c) BY <2>1 DEF Over
    <3> QED BY <1>2, <1>4, <3>1 DEF GradInv, OneBatchPerStep, Stage
  <2>6. \A j \in Stage : \A d \in calls' : ~HasPassed(d, j)' BY <1>1, <2>1, <2>2 DEF HasPassed
  <2>7. ASSUME NEW j \in Stage, NEW g, slices'[j].grads = g,
               \A k \in DOMAIN g : g[k] \in left \/ g[k] = Id(c),
               \A k, l \in DOMAIN g : g[k] = g[l] => k = l,
               \A n \in DOMAIN trained : \A k \in DOMAIN g, l \in DOMAIN trained[n].sum[j] :
                 g[k] # trained[n].sum[j][l]
        PROVE  GradsOf(j)'
    <3>1. \A k \in DOMAIN g : g[k] \in left' BY <1>4, <2>7
    <3> QED BY <1>2, <2>6, <2>7, <3>1 DEF GradsOf, HasPassed
  <2>8. ASSUME NEW j \in Stage, slices'[j].grads = slices[j].grads
        PROVE  GradsOf(j)'
    <3> DEFINE g == slices[j].grads
    <3>1. GradsOf(j) BY DEF GradInv
    <3>2. \A k \in DOMAIN g : g[k] \in left \/ g[k] = Id(c) BY <2>1, <3>1 DEF GradsOf, HasPassed
    <3>3. /\ \A k, l \in DOMAIN g : g[k] = g[l] => k = l
          /\ \A n \in DOMAIN trained : \A k \in DOMAIN g, l \in DOMAIN trained[n].sum[j] :
               g[k] # trained[n].sum[j][l]
      BY <3>1 DEF GradsOf
    <3> HIDE DEF g
    <3>4. slices'[j].grads = g BY <2>8 DEF g
    <3> QED BY <2>7, <3>2, <3>3, <3>4
  <2> HIDE DEF grads
  <2>9. CASE slices' = Added(c)
    <3>1. /\ slices'[i].grads = grads
          /\ \A j \in Stage : j # i => slices'[j].grads = slices[j].grads
      BY <1>4, <2>9, OneMoreGrad DEF grads
    <3>2. \A k \in DOMAIN grads : grads[k] \in left \/ grads[k] = Id(c)
      BY <1>4, OneMoreGrad DEF grads
    <3>3. \A k, l \in DOMAIN grads : grads[k] = grads[l] => k = l BY <1>4, OneMoreGrad DEF grads
    <3>4. \A n \in DOMAIN trained : \A k \in DOMAIN grads, l \in DOMAIN trained[n].sum[i] :
            grads[k] # trained[n].sum[i][l]
      BY <1>4, OneMoreGrad DEF grads
    <3>5. GradsOf(i)' BY <2>1, <2>7, <3>1, <3>2, <3>3, <3>4
    <3> QED BY <2>4, <2>5, <2>8, <3>1, <3>5 DEF GradInv, Stage
  <2>10. CASE slices' = slices BY <2>4, <2>5, <2>8, <2>10 DEF GradInv, Stage
  <2> QED BY <1>4, <2>9, <2>10
<1> QED BY <1>3, <1>4 DEF HandlerRaises

\* The step takes what is in .grad: the batch's gradient, and what was left.
LEMMA GradOptimize ==
  ASSUME IndInv, GradInv, NEW c \in calls, Optimize(c)
  PROVE  GradInv'
<1> DEFINE new == [c EXCEPT !.at = "replied", !.noise = steps]
           step == [call |-> Id(c), sum |-> [i \in Stage |-> slices[i].grads], noise |-> steps]
           N == Len(trained) + 1
<1> USE DEF IndInv
<1>1. /\ Proc' = Proc /\ UNCHANGED <<client, left>> /\ c.at = "backward" /\ c.stage = 0
      /\ slices' = [i \in Stage |-> Stepped(slices[i])] /\ trained' = Append(trained, step)
      /\ Update(c, new)
  BY DEF Optimize, Quiet, Proc
<1>2. /\ c \in Call /\ Id(new) = Id(c) /\ new.at = "replied" /\ Id(c) \in Ids
  BY Constants DEF ServerTypes, Call, Id
<1>3. /\ step \in Sums /\ step.call = Id(c) /\ \A i \in Stage : step.sum[i] = slices[i].grads
  BY <1>2, Constants DEF ServerTypes, Sums, Slice
<1> HIDE DEF new, step
<1>4. /\ DOMAIN trained' = DOMAIN trained \union {N}
      /\ \A n \in DOMAIN trained : trained'[n] = trained[n]
      /\ trained'[N] = step
  BY <1>1, <1>3, AppendShape DEF ServerTypes
<1> HIDE DEF N
<1>5. calls' = (calls \ {c}) \union {new} /\ \A d \in calls' : d # new => d \in calls /\ Id(d) # Id(c)
  BY <1>1, <1>2 DEF Update, ServerInv, Numbered
<1>6. ~Over(Id(c)) /\ Id(c) \notin left BY <1>1 DEF GradInv, OverInv, ToRun, Over
<1>7. \A id : Over(id)' <=> Over(id) \/ id = Id(c) BY <1>1, <1>3, <1>4 DEF Over
<1>8. OverInv'
  <2>1. Id(c).proc \in Proc /\ Id(c).number <= client[Id(c).proc].number
    BY DEF ServerInv, Numbered, Id
  <2>2. \A d \in calls' : ToRun(d) => d # new BY <1>2 DEF ToRun
  <2> QED BY <1>1, <1>5, <1>7, <2>1, <2>2 DEF GradInv, OverInv, ToRun, Id
<1>9. ASSUME NEW i \in Stage
      PROVE  /\ slices[i].grads # <<>> /\ slices[i].grads[Len(slices[i].grads)] = Id(c)
             /\ \A k \in 1 .. Len(slices[i].grads) - 1 : slices[i].grads[k] \in left
             /\ \A k, l \in DOMAIN slices[i].grads : slices[i].grads[k] = slices[i].grads[l] => k = l
             /\ \A n \in DOMAIN trained : \A k \in DOMAIN slices[i].grads, l \in DOMAIN trained[n].sum[i] :
                  slices[i].grads[k] # trained[n].sum[i][l]
  <2>1. GradsOf(i) /\ HasPassed(c, i) BY <1>1, Constants DEF GradInv, HasPassed
  <2> QED BY <2>1 DEF GradsOf
<1>10. ASSUME NEW n \in DOMAIN trained', NEW i \in Stage, NEW sum, sum = trained'[n].sum[i]
       PROVE  /\ sum # <<>> /\ sum[Len(sum)] = trained'[n].call /\ trained'[n].call \notin left
              /\ \A k \in 1 .. Len(sum) - 1 : sum[k] \in left
  <2>1. CASE n \in DOMAIN trained BY <1>4, <1>10, <2>1 DEF GradInv, OneBatchPerStep, Last
  <2>2. CASE n = N
    <3>1. sum = slices[i].grads /\ trained'[n].call = Id(c) BY <1>3, <1>4, <1>10, <2>2
    <3> QED BY <1>6, <1>9, <3>1
  <2> QED BY <1>4, <2>1, <2>2
<1>11. ASSUME NEW m \in DOMAIN trained', NEW n \in DOMAIN trained', NEW i \in Stage,
              NEW k \in DOMAIN trained'[n].sum[i], NEW l \in DOMAIN trained'[m].sum[i],
              trained'[n].sum[i][k] = trained'[m].sum[i][l]
       PROVE  m = n /\ k = l
  <2>1. CASE m \in DOMAIN trained /\ n \in DOMAIN trained
    BY <1>4, <1>11, <2>1 DEF GradInv, OneBatchPerStep
  <2>2. CASE m = N /\ n = N BY <1>3, <1>4, <1>9, <1>11, <2>2
  <2>3. CASE m = N /\ n \in DOMAIN trained BY <1>3, <1>4, <1>9, <1>11, <2>3
  <2>4. CASE m \in DOMAIN trained /\ n = N BY <1>3, <1>4, <1>9, <1>11, <2>4
  <2> QED BY <1>4, <2>1, <2>2, <2>3, <2>4
<1>12. OneBatchPerStep'
  <2>1. \A n \in DOMAIN trained', i \in Stage :
          LET sum == trained'[n].sum[i]
          IN /\ sum # <<>> /\ Last(sum) = trained'[n].call /\ trained'[n].call \notin left
             /\ \A k \in 1 .. Len(sum) - 1 : sum[k] \in left
    BY <1>10 DEF Last
  <2>2. \A n, m \in DOMAIN trained', i \in Stage :
          \A k \in DOMAIN trained'[n].sum[i], l \in DOMAIN trained'[m].sum[i] :
            trained'[n].sum[i][k] = trained'[m].sum[i][l] => m = n /\ k = l
    BY <1>11
  <2>3. left' = left BY <1>1
  <2> QED BY <2>1, <2>2, <2>3 DEF OneBatchPerStep, Stage
<1>13. ASSUME NEW i \in Stage
       PROVE  GradsOf(i)'
  <2>1. slices'[i].grads = <<>> BY <1>1, Constants DEF ServerTypes, Slice, Stepped
  <2>2. \A d \in calls' : ~HasPassed(d, i)'
    <3>1. \A d \in calls : d.at = "backward" => d = c
      BY <1>1 DEF ServerInv, Locked, Numbered, OnBatch, Holds
    <3> QED BY <1>2, <1>5, <3>1 DEF HasPassed
  <2> QED BY <2>1, <2>2 DEF GradsOf, HasPassed
<1> QED BY <1>8, <1>12, <1>13 DEF GradInv, Stage

\* A call that gets a thread, or was cancelled before.
LEMMA GradStart ==
  ASSUME IndInv, GradInv, NEW c \in calls, Start(c), Proc' = Proc
  PROVE  GradInv'
<1> DEFINE new == [c EXCEPT !.at = "started"]
<1> USE DEF IndInv
<1>1. UNCHANGED server /\ UNCHANGED client /\ c.at = "queued" /\ c \in Call
  BY DEF Start, Quiet, ServerTypes
<1>2. new \in Call /\ Id(new) = Id(c) /\ new.at = "started" BY <1>1 DEF Call, Id
<1>3. calls' = calls \ {c} \/ calls' = (calls \ {c}) \union {new} BY DEF Start, Update
<1> HIDE DEF new
<1>4. \A p \in Proc : client[p].number \in Nat BY DEF ClientTypes, Client
<1>5. \A d \in calls \ calls' : ~OnBatch(d) BY <1>1, <1>3 DEF OnBatch
<1>6. \A d \in calls' \ calls : /\ d \in Call /\ d.at \in {"queued", "started"}
                             /\ \E e \in calls : ToRun(e) /\ Id(e) = Id(d)
  BY <1>1, <1>2, <1>3 DEF ToRun
<1> QED BY <1>1, <1>4, <1>5, <1>6, GradQuiet

\* The handler on its way to the backward.
LEMMA GradAhead ==
  ASSUME IndInv, GradInv, NEW c \in calls, Acquire(c) \/ Forward(c) \/ Criterion(c), Proc' = Proc
  PROVE  GradInv'
<1> USE DEF IndInv
<1>1. /\ c \in Call /\ c.at \in {"started", "forward"} /\ ToRun(c) /\ UNCHANGED <<trained, left, client>>
      /\ \A i \in Stage : slices[i] \in Slice /\ ~HasPassed(c, i)
  BY DEF Acquire, Forward, Criterion, Quiet, ServerTypes, ToRun, HasPassed
<1>2. ASSUME NEW new \in Call, Update(c, new), Id(new) = Id(c),
             \A i \in Stage : slices'[i].grads = slices[i].grads,
             \A i \in Stage : ~HasPassed(new, i)
      PROVE  GradInv'
  BY <1>1, <1>2, GradMoves
<1>3. CASE Acquire(c)
  <2> DEFINE new == [c EXCEPT !.at = "forward", !.stage = 1]
  <2>1. new \in Call /\ Id(new) = Id(c) /\ new.at = "forward" BY <1>1 DEF Call, Id
  <2>2. Update(c, new) BY <1>3 DEF Acquire
  <2>3. \A i \in Stage : slices'[i].grads = slices[i].grads BY <1>1, <1>3 DEF Acquire, Slice
  <2> HIDE DEF new
  <2> QED BY <1>2, <2>1, <2>2, <2>3 DEF HasPassed
<1>4. CASE Forward(c)
  <2> DEFINE i == c.stage
             mode == IF c.kind = "train" THEN slices[i].mode ELSE "eval"
             run == [mode |-> mode, version |-> slices[i].version]
             ran == Append(c.ran, run)
             new == [c EXCEPT !.stage = i + 1, !.ran = ran]
  <2>1. i \in Stage /\ Update(c, new) BY <1>1, <1>4 DEF Forward, Call
  <2>2. run \in Run BY <1>1, <2>1 DEF Run, Slice
  <2>3. ran \in Seq(Run) /\ i + 1 \in Nat BY <1>1, <2>1, <2>2, Constants DEF Call
  <2> HIDE DEF ran
  <2>4. new \in Call /\ Id(new) = Id(c) /\ new.at = c.at BY <1>1, <2>3 DEF Call, Id
  <2>5. \A j \in Stage : slices'[j].grads = slices[j].grads
    BY <1>1, <1>4 DEF Forward, Slice, ServerTypes
  <2>6. c.at = "forward" BY <1>4 DEF Forward
  <2> HIDE DEF new
  <2> QED BY <1>2, <2>1, <2>4, <2>5, <2>6 DEF HasPassed
<1>5. CASE Criterion(c)
  <2>1. UNCHANGED slices /\ ServerSlices \in Nat BY <1>5, Constants DEF Criterion
  <2>2. CASE Update(c, [c EXCEPT !.at = "backward", !.stage = ServerSlices])
    <3> DEFINE new == [c EXCEPT !.at = "backward", !.stage = ServerSlices]
    <3>1. new \in Call /\ Id(new) = Id(c) /\ new.stage = ServerSlices BY <1>1, <2>1 DEF Call, Id
    <3>2. \A i \in Stage : ~(i > ServerSlices) BY Constants
    <3>3. Update(c, new) BY <2>2
    <3> HIDE DEF new
    <3> QED BY <1>2, <2>1, <3>1, <3>2, <3>3 DEF HasPassed
  <2>3. CASE Update(c, [c EXCEPT !.at = "replied"])
    <3> DEFINE new == [c EXCEPT !.at = "replied"]
    <3>1. new \in Call /\ Id(new) = Id(c) /\ new.at = "replied" BY <1>1 DEF Call, Id
    <3>2. Update(c, new) BY <2>3
    <3> HIDE DEF new
    <3> QED BY <1>2, <2>1, <3>1, <3>2 DEF HasPassed
  <2> QED BY <1>5, <2>2, <2>3 DEF Criterion
<1> QED BY <1>3, <1>4, <1>5

\* A new call has a number no step knows.
LEMMA GradSend ==
  ASSUME IndInv, GradInv, NEW p \in Proc, Send(p)
  PROVE  GradInv'
<1> DEFINE c == client[p]
           step == IF c.at = "train" THEN NextStep(c) ELSE 0
           sent == [c EXCEPT !.steps = IF c.at = "train" THEN step ELSE @]
           call == [proc |-> p, number |-> c.number + 1, kind |-> c.at, of |-> <<c.pid, c.batch>>,
                    step |-> step, at |-> "queued", pool |-> serving.starts, stage |-> 0,
                    ran |-> <<>>, noise |-> 0]
<1> USE DEF IndInv
<1>1. /\ client \in [Proc -> Client] /\ c \in Client /\ c.at \in {"train", "evaluate"} /\ Proc' = Proc
      /\ p \in Nat \ {0} /\ serving.starts \in Nat /\ UNCHANGED server
  BY DEF ClientTypes, Send, Proc, IsSetting
<1>2. c.number \in Nat /\ c.number + 1 \in Nat /\ c.pid \in Nat /\ c.batch \in Nat /\ step \in Nat
  BY <1>1 DEF Client, NextStep
<1> HIDE DEF step
<1>3. call \in Call /\ call.at = "queued" /\ call.proc = p /\ call.number = c.number + 1
  BY <1>1, <1>2 DEF Call
<1>4. /\ \/ UNCHANGED calls /\ client' = [client EXCEPT ![p] = [sent EXCEPT !.at = "idle", !.node = 0]]
         \/ /\ client' = [client EXCEPT ![p] = [sent EXCEPT
                 !.at = Waiting[c.at], !.number = c.number + 1,
                 !.used = IF c.at = "train" THEN @ \cup {<<step, c.pid, c.batch, round>>} ELSE @]]
            /\ calls' = calls \union {call}
  BY DEF Send, step
<1>5. client'[p].number \in {c.number, c.number + 1} /\ \A q \in Proc : q # p => client'[q] = client[q]
  <2> DEFINE failed == [sent EXCEPT !.at = "idle", !.node = 0]
             used == IF c.at = "train" THEN c.used \cup {<<step, c.pid, c.batch, round>>} ELSE c.used
             waits == [sent EXCEPT !.at = Waiting[c.at], !.number = c.number + 1, !.used = used]
  <2>1. sent.number = c.number /\ sent.used = c.used /\ DOMAIN sent = DOMAIN c
    BY <1>1 DEF Client
  <2>2. failed.number = c.number /\ waits.number = c.number + 1 BY <1>1, <2>1 DEF Client
  <2>3. client' = [client EXCEPT ![p] = failed] \/ client' = [client EXCEPT ![p] = waits]
    BY <1>4, <2>1
  <2> HIDE DEF failed, waits
  <2> QED BY <1>1, <2>2, <2>3
<1> HIDE DEF call, sent
<1>6. \A q \in Proc : client[q].number \in Nat /\ client'[q].number \in Nat /\ client'[q].number >= client[q].number
  BY <1>1, <1>2, <1>5 DEF Client
<1>7. calls \subseteq calls' /\ \A d \in calls' \ calls : d = call BY <1>4
<1>8. \A d \in calls' \ calls : d \in Call /\ d.at \in {"queued", "started"} /\ d.number > client[d.proc].number
  BY <1>2, <1>3, <1>7
<1> QED BY <1>1, <1>6, <1>7, <1>8, GradQuiet

--------------------
(* The clients. *)

LEMMA EmptyMessage == \A state \in {"waiting", "handled", "failed"} : Is(state) \in Message /\ Is(state).at = state
<1>1. [base |-> 0, on |-> <<>>] \in Weights BY DEF Weights
<1> QED BY <1>1 DEF Is, Message

\* Nothing of this happens to the clients.
LEMMA ClientsStay ==
  ASSUME ClientTypes, ClientInv, NoiseInv, UNCHANGED <<strategy, client>>, SettingKept, serving' \in [up : BOOLEAN, starts : Nat]
  PROVE  ClientTypes' /\ ClientInv' /\ NoiseInv'
<1>1. ClientTypes' BY DEF ClientTypes, strategy, SettingKept
<1>2. ClientInv' BY DEF ClientInv, strategy, SettingKept, Busy, OnMessage, ResultOf
<1>3. NoiseInv' BY DEF NoiseInv, SettingKept, Fresh
<1> QED BY <1>1, <1>2, <1>3

\* A client and its message go on together.
LEMMA ClientGoesOn ==
  ASSUME ClientTypes, ClientInv, NoiseInv, SettingKept, UNCHANGED <<round, phase, serving>>, phase # "done",
         NEW p \in Proc, NEW new \in Client, client' = [client EXCEPT ![p] = new],
         NEW n \in Node, NEW m \in Message, messages' = [messages EXCEPT ![n] = m],
         \A q \in Proc : (Busy(q) /\ client[q].node = n) => q = p,
         new.at # "idle" => OnMessage(new) /\ new.node = n /\ m.at = "handled",
         ResultOf(m, n), Fresh(new), new.number >= client[p].number
  PROVE  /\ ClientTypes' /\ ClientInv' /\ NoiseInv'
         /\ \A q \in Proc : client'[q].number >= client[q].number
<1>1. client' \in [Proc -> Client] /\ messages' \in [Node -> Message] BY DEF ClientTypes
<1>2. /\ client'[p] = new /\ \A q \in Proc : q # p => client'[q] = client[q]
      /\ messages'[n] = m /\ \A k \in Node : k # n => messages'[k] = messages[k]
  BY DEF ClientTypes
<1>3. ClientTypes' BY <1>1 DEF ClientTypes, SettingKept
<1>4. \A c : OnMessage(c) => OnMessage(c)' BY DEF OnMessage, SettingKept
<1>5. \A k, a : ResultOf(a, k) => ResultOf(a, k)' BY DEF ResultOf, SettingKept
<1>6. \A q \in Proc : client'[q].at # "idle" =>
        /\ \A c : c = client'[q] => OnMessage(c)'
        /\ messages'[client'[q].node].at = "handled"
  <2> SUFFICES ASSUME NEW q \in Proc, client'[q].at # "idle"
               PROVE  /\ \A c : c = client'[q] => OnMessage(c)'
                      /\ messages'[client'[q].node].at = "handled"
    OBVIOUS
  <2>1. CASE q = p BY <1>2, <1>4, <2>1
  <2>2. CASE q # p
    <3>1. client'[q] = client[q] /\ Busy(q) BY <1>2, <2>2 DEF Busy
    <3>2. OnMessage(client[q]) /\ messages[client[q].node].at = "handled" /\ client[q].node # n
      BY <2>2, <3>1 DEF ClientInv
    <3>3. client[q].node \in Node BY <3>2 DEF OnMessage
    <3> QED BY <1>2, <1>4, <3>1, <3>2, <3>3
  <2> QED BY <2>1, <2>2
<1>7. \A q, r \in Proc : (client'[q].at # "idle" /\ client'[r].at # "idle" /\ client'[q].node = client'[r].node) => q = r
  BY <1>2 DEF ClientInv, Busy
<1>8. \A k \in Node : \A a : a = messages'[k] => ResultOf(a, k)' BY <1>2, <1>5 DEF ClientInv
<1>9. ClientInv'
  <2>1. (\A q \in Proc : Busy(q) => OnMessage(client[q]) /\ messages[client[q].node].at = "handled")'
    BY <1>6 DEF Busy, SettingKept, OnMessage
  <2>2. (\A k \in Node : ResultOf(messages[k], k))' BY <1>8 DEF SettingKept, ResultOf
  <2> QED BY <1>7, <2>1, <2>2 DEF ClientInv, Busy, SettingKept
<1>10. NoiseInv' BY <1>2 DEF NoiseInv, Fresh, SettingKept
<1>11. \A q \in Proc : client'[q].number >= client[q].number BY <1>2 DEF ClientTypes, Client
<1> QED BY <1>3, <1>9, <1>10, <1>11

\* A process is through with its message.
LEMMA FinishInv ==
  ASSUME ClientTypes, ClientInv, NoiseInv, SettingKept, UNCHANGED <<round, phase, serving>>,
         NEW p \in Proc, Busy(p), NEW result \in Message, ResultOf(result, client[p].node),
         Finish(p, result)
  PROVE  /\ ClientTypes' /\ ClientInv' /\ NoiseInv'
         /\ \A q \in Proc : client'[q].number >= client[q].number
<1> DEFINE c == client[p]
           idle == [c EXCEPT !.at = "idle", !.node = 0]
<1>1. /\ c \in Client /\ OnMessage(c) /\ Fresh(c) BY DEF ClientInv, ClientTypes, NoiseInv
<1>2. c.node \in Node /\ phase # "done" BY <1>1 DEF OnMessage, Doing
<1>3. \A q \in Proc : (Busy(q) /\ client[q].node = c.node) => q = p BY DEF ClientInv
<1>4. messages' = [messages EXCEPT ![c.node] = result] BY DEF Finish
<1>5. client' = [client EXCEPT ![p] = idle] BY DEF Finish, ClientTypes
<1>6. idle \in Client /\ idle.at = "idle" /\ idle.number = c.number /\ idle.used = c.used /\ idle.steps = c.steps
  BY <1>1 DEF Client
<1>7. idle.number >= client[p].number BY <1>1, <1>6 DEF Client
<1> HIDE DEF idle
<1>8. Fresh(idle) BY <1>1, <1>6 DEF Fresh
<1> QED BY <1>2, <1>3, <1>4, <1>5, <1>6, <1>7, <1>8, ClientGoesOn

LEMMA RaisedInv ==
  ASSUME ClientTypes, ClientInv, NoiseInv, SettingKept, UNCHANGED <<round, phase, serving>>,
         NEW p \in Proc, Busy(p), Raised(p)
  PROVE  /\ ClientTypes' /\ ClientInv' /\ NoiseInv'
         /\ \A q \in Proc : client'[q].number >= client[q].number
<1>1. Is("failed") \in Message /\ ResultOf(Is("failed"), client[p].node)
  BY EmptyMessage DEF ResultOf
<1> QED BY <1>1, FinishInv DEF Raised

LEMMA AnswerInv ==
  ASSUME ClientTypes, ClientInv, NoiseInv, NEW p \in Proc, Answer(p)
  PROVE  /\ ClientTypes' /\ ClientInv' /\ NoiseInv'
         /\ \A q \in Proc : client'[q].number >= client[q].number
<1> DEFINE c == client[p]
           result == [weights |-> c.weights, moments |-> c.moments, at |-> c.at]
<1>1. c.at \in {"train", "evaluate"} /\ c.batch > set.batches /\ Finish(p, result) BY DEF Answer
<1>2. SettingKept /\ UNCHANGED <<round, phase, serving>>
  BY DEF Answer, SettingKept, ClientTypes, Proc, Node, IsSetting
<1>3. c \in Client /\ Busy(p) /\ OnMessage(c) BY <1>1 DEF ClientTypes, ClientInv, Busy
<1>4. result \in Message BY <1>1, <1>3 DEF Client, Message
<1>5. c.batch - 1 = set.batches
  <2>1. c.batch \in 1 .. set.batches + 1 /\ c.batch > set.batches BY <1>1, <1>3 DEF OnMessage
  <2>2. set.batches \in Nat BY DEF ClientTypes, IsSetting
  <2> QED BY <2>1, <2>2
<1>6. ResultOf(result, c.node) BY <1>1, <1>3, <1>5 DEF OnMessage, ResultOf, Doing
<1> HIDE DEF result
<1> QED BY <1>1, <1>2, <1>3, <1>4, <1>6, FinishInv

LEMMA EndPhaseInv ==
  ASSUME ClientTypes, ClientInv, NoiseInv, EndPhase
  PROVE  /\ ClientTypes' /\ ClientInv' /\ NoiseInv'
         /\ \A q \in Proc : client'[q].number >= client[q].number
<1>1. /\ phase # "done" /\ \A n \in Node : messages[n].at \notin {"waiting", "handled"}
      /\ UNCHANGED <<set, client, serving>>
  BY DEF EndPhase
<1>2. SettingKept BY <1>1 DEF SettingKept, ClientTypes, Proc, Node, IsSetting
<1>3. \A p \in Proc : ~Busy(p) BY <1>1 DEF ClientInv, OnMessage
<1>4. messages' \in [Node -> Message] /\ \A n \in Node : messages'[n] = IF phase' = "done" THEN messages[n] ELSE Is("waiting")
  BY EmptyMessage DEF EndPhase, ClientTypes
<1>5. /\ round' \in 1 .. set.rounds /\ phase' \in {"train", "evaluate", "done"}
      /\ phase' = "done" => round' = round
  BY DEF EndPhase, ClientTypes, IsSetting
<1>6. ClientTypes' BY <1>1, <1>2, <1>4, <1>5 DEF ClientTypes, SettingKept
<1>7. \A n \in Node : \A a : a = messages'[n] => ResultOf(a, n)'
  BY <1>1, <1>4, <1>5, EmptyMessage DEF ClientInv, ResultOf
<1>8. (\A n \in Node : ResultOf(messages[n], n))' BY <1>2, <1>7 DEF SettingKept, ResultOf
<1>9. (phase = "done" => \A n \in Node : messages[n].at \notin {"waiting", "handled"})'
  BY <1>1, <1>2, <1>4 DEF SettingKept
<1>10. ClientInv' BY <1>1, <1>2, <1>3, <1>8, <1>9 DEF ClientInv, Busy, SettingKept
<1>11. NoiseInv' BY <1>1, <1>2 DEF NoiseInv, Fresh, SettingKept
<1> QED BY <1>1, <1>6, <1>10, <1>11 DEF ClientTypes, Client

LEMMA HandleInv ==
  ASSUME ClientTypes, ClientInv, NoiseInv, NEW p \in Proc, NEW n \in Node, Handle(p, n)
  PROVE  /\ ClientTypes' /\ ClientInv' /\ NoiseInv'
         /\ \A q \in Proc : client'[q].number >= client[q].number
<1> DEFINE c == client[p]
           base == IF phase = "train" THEN round - 1 ELSE round
           new == [load_state_dict(c, base) EXCEPT !.at = phase, !.node = n, !.pid = n, !.batch = 1]
<1>1. /\ ~Busy(p) /\ messages[n].at = "waiting" /\ messages' = [messages EXCEPT ![n] = Is("handled")]
      /\ client' = [client EXCEPT ![p] = new] /\ UNCHANGED <<round, phase, serving, set>>
  BY DEF Handle, Busy, DataOf, ClientTypes
<1>2. SettingKept BY <1>1 DEF SettingKept, ClientTypes, Proc, Node, IsSetting
<1>3. phase \in {"train", "evaluate"} BY <1>1 DEF ClientInv, ClientTypes
<1>4. base \in Nat /\ n \in Nat /\ n # 0 /\ c \in Client BY DEF ClientTypes, IsSetting, Node
<1>5. [base |-> base, on |-> <<>>] \in Weights BY <1>4 DEF Weights
<1>6. /\ new \in Client /\ new.at = phase /\ new.node = n /\ new.pid = n /\ new.batch = 1
      /\ new.weights = [base |-> base, on |-> <<>>] /\ new.moments = 0
      /\ new.number = c.number /\ new.used = c.used /\ new.steps = c.steps
  BY <1>3, <1>4, <1>5 DEF Client, load_state_dict
<1> HIDE DEF new
<1>7. [b \in 1 .. 0 |-> <<n, b>>] = <<>> OBVIOUS
<1>8. OnMessage(new)
  <2>1. 1 \in 1 .. set.batches + 1 BY DEF ClientTypes, IsSetting
  <2>2. 1 - 1 = 0 OBVIOUS
  <2> QED BY <1>3, <1>6, <1>7, <2>1, <2>2 DEF OnMessage, Doing
<1>9. Fresh(new) /\ new.number >= client[p].number BY <1>4, <1>6 DEF NoiseInv, Fresh, Client
<1>10. \A q \in Proc : ~(Busy(q) /\ client[q].node = n) BY <1>1 DEF ClientInv
<1>11. Is("handled") \in Message /\ Is("handled").at = "handled" /\ ResultOf(Is("handled"), n)
  BY EmptyMessage DEF ResultOf
<1> QED BY <1>1, <1>2, <1>3, <1>6, <1>8, <1>9, <1>10, <1>11, ClientGoesOn

LEMMA SendStep ==
  ASSUME ClientTypes, ServerTypes, ServerInv, ClientInv, NoiseInv, NEW p \in Proc, Send(p)
  PROVE  ClientTypes' /\ ServerTypes' /\ ServerInv' /\ ClientInv' /\ NoiseInv'
<1> DEFINE c == client[p]
           step == IF c.at = "train" THEN NextStep(c) ELSE 0
           sent == [c EXCEPT !.steps = IF c.at = "train" THEN step ELSE @]
<1>1. /\ c.at \in {"train", "evaluate"} /\ c.batch <= set.batches
      /\ UNCHANGED <<set, round, phase, server, serving>>
  BY DEF Send
<1>2. SettingKept BY <1>1 DEF SettingKept, ClientTypes, Proc, Node, IsSetting
<1>3. c \in Client /\ Busy(p) /\ OnMessage(c) /\ Fresh(c) /\ messages[c.node].at = "handled"
  BY <1>1 DEF ClientTypes, ClientInv, NoiseInv, Busy
<1>4. c.node \in Node /\ phase # "done" BY <1>3 DEF OnMessage, Doing
<1>5. \A q \in Proc : (Busy(q) /\ client[q].node = c.node) => q = p BY <1>3 DEF ClientInv
<1>6. step \in Nat /\ (c.at = "train" => step = c.steps + 1) /\ c.steps \in Nat /\ c.number \in Nat
  BY <1>3 DEF Client, NextStep
<1>7. /\ sent \in Client /\ sent.steps >= c.steps /\ sent.used = c.used
      /\ (c.at = "train" => sent.steps = step) /\ sent.number = c.number /\ sent.at = c.at
  BY <1>3, <1>6 DEF Client
<1> HIDE DEF step
<1>8. CASE /\ messages' = [messages EXCEPT ![c.node] = Is("failed")]
           /\ client' = [client EXCEPT ![p] = [sent EXCEPT !.at = "idle", !.node = 0]]
           /\ UNCHANGED calls
  <2> DEFINE idle == [sent EXCEPT !.at = "idle", !.node = 0]
  <2> HIDE DEF sent
  <2>1. /\ idle \in Client /\ idle.at = "idle" /\ idle.used = c.used /\ idle.steps >= c.steps
        /\ idle.number = c.number
    BY <1>7 DEF Client
  <2> HIDE DEF idle
  <2>2. Fresh(idle)
    <3>1. \A u \in c.used : u[1] \in Nat /\ u[1] <= c.steps BY <1>3 DEF Client, Fresh
    <3> QED BY <1>3, <1>6, <2>1, <3>1 DEF Fresh, Client
  <2>3. Is("failed") \in Message /\ ResultOf(Is("failed"), c.node) BY EmptyMessage DEF ResultOf
  <2>4. client' = [client EXCEPT ![p] = idle] BY <1>8 DEF idle
  <2>5. idle.number >= client[p].number BY <1>6, <2>1
  <2>6. /\ ClientTypes' /\ ClientInv' /\ NoiseInv'
        /\ \A q \in Proc : client'[q].number >= client[q].number
    BY <1>1, <1>2, <1>4, <1>5, <1>8, <2>1, <2>2, <2>3, <2>4, <2>5, ClientGoesOn
  <2> QED BY <1>1, <1>2, <1>8, <2>6, CallsLeave DEF ClientTypes, SettingKept
<1>9. CASE /\ client' = [client EXCEPT ![p] = [sent EXCEPT
                !.at = Waiting[c.at], !.number = c.number + 1,
                !.used = IF c.at = "train" THEN @ \cup {<<step, c.pid, c.batch, round>>} ELSE @]]
           /\ calls' = calls \cup
                {[proc |-> p, number |-> c.number + 1, kind |-> c.at, of |-> <<c.pid, c.batch>>,
                  step |-> step, at |-> "queued", pool |-> serving.starts, stage |-> 0,
                  ran |-> <<>>, noise |-> 0]}
           /\ UNCHANGED messages
  <2> DEFINE used == IF c.at = "train" THEN c.used \cup {<<step, c.pid, c.batch, round>>} ELSE c.used
             waits == [c EXCEPT !.steps = sent.steps, !.at = Waiting[c.at], !.number = c.number + 1, !.used = used]
             call == [proc |-> p, number |-> c.number + 1, kind |-> c.at, of |-> <<c.pid, c.batch>>,
                      step |-> step, at |-> "queued", pool |-> serving.starts, stage |-> 0,
                      ran |-> <<>>, noise |-> 0]
  <2>1. client' = [client EXCEPT ![p] = waits] BY <1>3, <1>9 DEF Client
  <2>2. used \in SUBSET (Nat \X Nat \X Nat \X Nat)
    <3>1. c.used \in SUBSET (Nat \X Nat \X Nat \X Nat) /\ c.pid \in Nat /\ c.batch \in Nat /\ round \in Nat
      BY <1>3 DEF Client, ClientTypes, IsSetting
    <3> QED BY <1>6, <3>1
  <2>3. /\ Waiting[c.at] \in {"wait_train", "wait_evaluate"}
        /\ Doing(c) = "train" <=> Waiting[c.at] = "wait_train"
        /\ Doing(c) \in {"train", "evaluate"}
    BY <1>1 DEF Waiting, Doing
  <2> HIDE DEF used, sent
  <2>4. /\ waits \in Client /\ waits.at = Waiting[c.at] /\ waits.number = c.number + 1 /\ waits.used = used
        /\ waits.steps = sent.steps /\ waits.node = c.node /\ waits.pid = c.pid /\ waits.batch = c.batch
        /\ waits.weights = c.weights /\ waits.moments = c.moments
    <3>1. sent.steps \in Nat /\ c.number + 1 \in Nat BY <1>6, <1>7 DEF Client
    <3> QED BY <1>3, <2>2, <2>3, <3>1 DEF Client
  <2> HIDE DEF waits
  <2>5. OnMessage(waits) /\ waits.node = c.node
    <3>1. Doing(waits) = Doing(c) BY <2>3, <2>4 DEF Doing
    <3> QED BY <1>1, <1>3, <2>3, <2>4, <3>1 DEF OnMessage
  <2>6. Fresh(waits)
    <3>1. \A u \in c.used : u[1] \in Nat /\ u[1] <= c.steps BY <1>3 DEF Client, Fresh
    <3>2. \A u, v \in c.used : u[1] = v[1] => u = v BY <1>3 DEF Fresh
    <3>3. sent.steps \in Nat BY <1>7 DEF Client
    <3>4. CASE c.at = "train"
      <4>1. used = c.used \union {<<step, c.pid, c.batch, round>>} BY <3>4 DEF used
      <4> QED BY <1>6, <1>7, <2>4, <3>1, <3>2, <3>4, <4>1 DEF Fresh
    <3>5. CASE c.at # "train"
      <4>1. used = c.used BY <3>5 DEF used
      <4> QED BY <1>6, <1>7, <2>4, <3>1, <3>2, <3>3, <4>1 DEF Fresh
    <3> QED BY <3>4, <3>5
  <2>7. /\ messages[c.node] \in Message /\ ResultOf(messages[c.node], c.node)
        /\ messages' = [messages EXCEPT ![c.node] = messages[c.node]]
    BY <1>4, <1>9 DEF ClientInv, ClientTypes
  <2>8. waits.number >= client[p].number BY <1>6, <2>4
  <2>9. ClientTypes' /\ ClientInv' /\ NoiseInv'
    BY <1>1, <1>2, <1>3, <1>4, <1>5, <2>1, <2>4, <2>5, <2>6, <2>7, <2>8, ClientGoesOn
  <2>10. /\ call \in Call /\ call.proc = p /\ call.number = client[p].number + 1 /\ call.at = "queued"
         /\ call.ran = <<>>
    <3>0. p \in Nat \ {0} BY DEF ClientTypes, Proc, IsSetting
    <3>1. c.pid \in Nat /\ c.batch \in Nat /\ serving.starts \in Nat /\ p \in Nat \ {0} /\ c.number + 1 \in Nat
      BY <1>3, <1>6, <3>0 DEF Client, ClientTypes
    <3>2. <<>> \in Seq(Run) /\ <<c.pid, c.batch>> \in Nat \X Nat BY <3>1
    <3> QED BY <1>1, <1>6, <3>1, <3>2 DEF Call
  <2>11. calls' = calls \union {call} BY <1>9
  <2> HIDE DEF call
  <2>12. client'[p].number = client[p].number + 1 /\ \A q \in Proc \ {p} : client'[q] = client[q]
    BY <2>1, <2>4 DEF ClientTypes
  <2>13. ServerTypes' /\ ServerInv'
    BY <1>1, <1>2, <2>9, <2>10, <2>11, <2>12, SendInv DEF ClientTypes, SettingKept
  <2> QED BY <2>9, <2>13
<1> QED BY <1>8, <1>9 DEF Send, step, sent

\* One batch more of the same data.
LEMMA OneMore ==
  ASSUME NEW n \in Nat, NEW k \in Nat
  PROVE  /\ [b \in 1 .. n |-> <<k, b>>] \in Seq(Nat \X Nat)
         /\ Append([b \in 1 .. n |-> <<k, b>>], <<k, n + 1>>) = [b \in 1 .. n + 1 |-> <<k, b>>]
<1> DEFINE s == [b \in 1 .. n |-> <<k, b>>]
           t == [b \in 1 .. n + 1 |-> <<k, b>>]
<1>1. s \in Seq(Nat \X Nat) /\ t \in Seq(Nat \X Nat) /\ <<k, n + 1>> \in Nat \X Nat OBVIOUS
<1>2. Len(s) = n /\ Len(t) = n + 1 OBVIOUS
<1>3. /\ Append(s, <<k, n + 1>>) \in Seq(Nat \X Nat)
      /\ Len(Append(s, <<k, n + 1>>)) = n + 1
      /\ \A i \in 1 .. n : Append(s, <<k, n + 1>>)[i] = s[i]
      /\ Append(s, <<k, n + 1>>)[n + 1] = <<k, n + 1>>
  BY <1>1, <1>2, AppendProperties
<1>4. \A i \in 1 .. n + 1 : Append(s, <<k, n + 1>>)[i] = t[i]
  <2> SUFFICES ASSUME NEW i \in 1 .. n + 1
               PROVE  Append(s, <<k, n + 1>>)[i] = t[i]
    OBVIOUS
  <2>1. CASE i = n + 1 BY <1>3, <2>1
  <2>2. CASE i # n + 1
    <3>1. i \in 1 .. n BY <2>2
    <3> QED BY <1>3, <3>1
  <2> QED BY <2>1, <2>2
<1> HIDE DEF t
<1>5. Append(s, <<k, n + 1>>) = t BY <1>1, <1>2, <1>3, <1>4, SeqEqual, SMTT(30)
<1> QED BY <1>1, <1>5 DEF t

LEMMA ReceiveInv ==
  ASSUME ClientTypes, ServerTypes, ServerInv, ClientInv, NoiseInv, Asked, NEW d \in calls, Receive(d)
  PROVE  /\ ClientTypes' /\ ClientInv' /\ NoiseInv' /\ SettingKept
         /\ \A q \in Proc : client'[q].number >= client[q].number
<1> DEFINE p == d.proc
           c == client[p]
           done == <<c.pid, c.batch>>
           weights == IF d.kind = "train" THEN [c.weights EXCEPT !.on = Append(@, done)] ELSE c.weights
           moments == IF d.kind = "train" THEN c.moments + 1 ELSE c.moments
           new == [c EXCEPT !.batch = @ + 1, !.at = d.kind, !.weights = weights, !.moments = moments]
<1>1. d \in Call /\ p \in Proc /\ d.kind \in {"train", "evaluate"}
  BY DEF ServerTypes, ServerInv, Numbered, Call
<1>2. /\ c.number = d.number /\ c.at \in {"wait_train", "wait_evaluate"} /\ c.at = Waiting[d.kind]
      /\ UNCHANGED <<set, round, phase, messages, serving>>
  BY DEF Receive, Waits, strategy, Asked
<1>3. SettingKept BY <1>2 DEF SettingKept, ClientTypes, Proc, Node, IsSetting
<1>4. c \in Client /\ Busy(p) /\ OnMessage(c) /\ Fresh(c) /\ messages[c.node].at = "handled"
  BY <1>1, <1>2 DEF ClientTypes, ClientInv, NoiseInv, Busy
<1>5. /\ c.node \in Node /\ c.node \in Nat /\ c.pid = c.node /\ phase # "done" /\ Doing(c) = phase
      /\ c.batch \in Nat \ {0} /\ c.batch <= set.batches
  <2>1. c.node \in Nat /\ c.batch \in Nat BY <1>4 DEF Client
  <2>2. /\ c.node \in Node /\ c.pid = c.node /\ Doing(c) = phase /\ c.batch \in 1 .. set.batches + 1
        /\ c.batch <= set.batches
    BY <1>2, <1>4 DEF OnMessage
  <2>3. set.batches \in Nat BY DEF ClientTypes, IsSetting
  <2> QED BY <2>1, <2>2, <2>3 DEF Doing
<1>6. d.kind = phase BY <1>1, <1>2, <1>5 DEF Doing, Waiting
<1>7. client' = [client EXCEPT ![p] = new]
  <2>1. CASE d.kind = "train" BY <1>1, <2>1 DEF Receive, ClientTypes
  <2>2. CASE d.kind # "train"
    <3>1. new = [c EXCEPT !.batch = @ + 1, !.at = d.kind] BY <1>4, <2>2 DEF Client
    <3> QED BY <1>1, <2>2, <3>1 DEF Receive, ClientTypes
  <2> QED BY <2>1, <2>2
<1>8. /\ weights \in Weights /\ moments \in Nat
      /\ IF phase = "train"
         THEN /\ weights = [base |-> round - 1, on |-> [b \in 1 .. c.batch |-> <<c.node, b>>]]
              /\ moments = c.batch
         ELSE weights = [base |-> round, on |-> <<>>] /\ moments = 0
  <2>1. CASE phase = "train"
    <3> DEFINE before == [b \in 1 .. c.batch - 1 |-> <<c.node, b>>]
    <3>1. c.weights = [base |-> round - 1, on |-> before] /\ c.moments = c.batch - 1
      BY <1>4, <2>1 DEF OnMessage
    <3>2. /\ before \in Seq(Nat \X Nat)
          /\ Append(before, <<c.node, c.batch>>) = [b \in 1 .. c.batch |-> <<c.node, b>>]
      <4>1. c.batch - 1 \in Nat /\ c.batch - 1 + 1 = c.batch BY <1>5
      <4> QED BY <1>5, <4>1, OneMore, ZenonT(30)
    <3>3. [b \in 1 .. c.batch |-> <<c.node, b>>] \in Seq(Nat \X Nat) BY <1>5, OneMore, SMTT(30)
    <3> DEFINE after == [b \in 1 .. c.batch |-> <<c.node, b>>]
    <3>4. after \in Seq(Nat \X Nat) /\ Append(before, done) = after
      BY <1>5, <3>2, <3>3, ZenonT(30)
    <3> HIDE DEF before, after
    <3>5. weights = [base |-> round - 1, on |-> after]
      <4>1. [c.weights EXCEPT !.on = Append(@, done)] = [base |-> round - 1, on |-> Append(before, done)]
        BY <3>1
      <4> QED BY <1>6, <2>1, <3>4, <4>1
    <3>6. round - 1 \in Nat /\ moments = c.batch
      BY <1>5, <1>6, <2>1, <3>1 DEF ClientTypes, IsSetting
    <3>7. weights \in Weights BY <3>4, <3>5, <3>6 DEF Weights
    <3>8. weights = [base |-> round - 1, on |-> [b \in 1 .. c.batch |-> <<c.node, b>>]]
      BY <3>5 DEF after
    <3>9. moments \in Nat BY <1>5, <3>6
    <3> HIDE DEF weights, moments
    <3> QED BY <2>1, <3>6, <3>7, <3>8, <3>9
  <2>2. CASE phase # "train" BY <1>4, <1>6, <2>2 DEF OnMessage, Client
  <2> QED BY <2>1, <2>2
<1> HIDE DEF weights, moments
<1>9. /\ new \in Client /\ new.at = phase /\ new.node = c.node /\ new.pid = c.pid /\ new.batch = c.batch + 1
      /\ new.weights = weights /\ new.moments = moments /\ new.number = c.number /\ new.used = c.used
      /\ new.steps = c.steps
  <2>1. c.batch + 1 \in Nat BY <1>5
  <2> QED BY <1>1, <1>4, <1>6, <1>8, <2>1 DEF Client
<1> HIDE DEF new
<1>10. OnMessage(new)
  <2>1. new.batch - 1 = c.batch /\ new.batch \in 1 .. set.batches + 1
    BY <1>5, <1>9 DEF ClientTypes, IsSetting
  <2>2. phase \in {"train", "evaluate"} BY <1>5 DEF ClientTypes
  <2> QED BY <1>5, <1>8, <1>9, <2>1, <2>2 DEF OnMessage, Doing
<1>11. Fresh(new) /\ new.number >= client[p].number BY <1>4, <1>9 DEF Fresh, Client
<1>12. \A q \in Proc : (Busy(q) /\ client[q].node = c.node) => q = p BY <1>1, <1>4 DEF ClientInv
<1>13. /\ messages[c.node] \in Message /\ ResultOf(messages[c.node], c.node)
       /\ messages' = [messages EXCEPT ![c.node] = messages[c.node]]
  BY <1>2, <1>5 DEF ClientInv, ClientTypes
<1> QED BY <1>1, <1>2, <1>3, <1>4, <1>5, <1>7, <1>9, <1>10, <1>11, <1>12, <1>13, ClientGoesOn

\* Nobody asks for anything, and the calls there are keep their kinds.
LEMMA AskedStays ==
  ASSUME Asked, ServerInv,
         \A d \in calls' : \E c \in calls : d.proc = c.proc /\ d.number = c.number /\ d.kind = c.kind,
         \A p \in Proc : client'[p] = client[p] \/ client'[p].at \notin {"wait_train", "wait_evaluate"}
  PROVE  Asked'
<1> SUFFICES ASSUME NEW d \in calls',
                    client'[d.proc].number = d.number, client'[d.proc].at \in {"wait_train", "wait_evaluate"}
             PROVE  client'[d.proc].at = Waiting[d.kind]
  BY DEF Asked, Waits, Waiting
<1>1. PICK c \in calls : d.proc = c.proc /\ d.number = c.number /\ d.kind = c.kind OBVIOUS
<1>2. c.proc \in Proc BY DEF ServerInv, Numbered
<1>3. client'[d.proc] = client[d.proc] BY <1>1, <1>2
<1> QED BY <1>1, <1>3 DEF Asked, Waits

\* The process of a send waits for the call it sends.
LEMMA SendAsked ==
  ASSUME IndInv, NEW p \in Proc, Send(p)
  PROVE  Asked'
<1> DEFINE c == client[p]
<1>1. c \in Client /\ c.at \in {"train", "evaluate"} /\ c.number \in Nat /\ client \in [Proc -> Client]
  BY DEF IndInv, ClientTypes, Client, Send
<1>2. \A q \in Proc : q # p => client'[q] = client[q] BY <1>1 DEF Send
<1>3. CASE UNCHANGED calls /\ client'[p].at = "idle" BY <1>2, <1>3, AskedStays DEF IndInv
<1>4. CASE /\ client'[p].number = c.number + 1 /\ client'[p].at = Waiting[c.at]
           /\ \E d : calls' = calls \union {d} /\ d.proc = p /\ d.number = c.number + 1 /\ d.kind = c.at
  <2>1. PICK d : calls' = calls \union {d} /\ d.proc = p /\ d.number = c.number + 1 /\ d.kind = c.at
    BY <1>4
  <2> SUFFICES ASSUME NEW e \in calls',
                      client'[e.proc].number = e.number, client'[e.proc].at \in {"wait_train", "wait_evaluate"}
               PROVE  client'[e.proc].at = Waiting[e.kind]
    BY DEF Asked, Waits, Waiting
  <2>2. CASE e = d BY <1>4, <2>1, <2>2
  <2>3. CASE e # d
    <3>1. e \in calls BY <2>1, <2>3
    <3>2. e.proc \in Proc /\ e.number <= client[e.proc].number /\ e.number \in Nat
      BY <3>1 DEF IndInv, ServerTypes, ServerInv, Numbered, Call
    <3>3. e.proc # p BY <1>1, <1>4, <3>2
    <3> QED BY <1>2, <3>1, <3>2, <3>3 DEF IndInv, Asked, Waits
  <2> QED BY <2>2, <2>3
<1> DEFINE step == IF c.at = "train" THEN NextStep(c) ELSE 0
           sent == [c EXCEPT !.steps = IF c.at = "train" THEN step ELSE @]
<1>5. CASE /\ client' = [client EXCEPT ![p] = [sent EXCEPT !.at = "idle", !.node = 0]]
           /\ UNCHANGED calls
  <2>1. client'[p].at = "idle" BY <1>1, <1>5 DEF Client
  <2> QED BY <1>3, <1>5, <2>1
<1>6. CASE /\ client' = [client EXCEPT ![p] = [sent EXCEPT
                !.at = Waiting[c.at], !.number = c.number + 1,
                !.used = IF c.at = "train" THEN @ \cup {<<step, c.pid, c.batch, round>>} ELSE @]]
           /\ calls' = calls \cup
                {[proc |-> p, number |-> c.number + 1, kind |-> c.at, of |-> <<c.pid, c.batch>>,
                  step |-> step, at |-> "queued", pool |-> serving.starts, stage |-> 0,
                  ran |-> <<>>, noise |-> 0]}
  <2>1. client'[p].number = c.number + 1 /\ client'[p].at = Waiting[c.at]
    BY <1>1, <1>6 DEF Client
  <2>2. \E d : calls' = calls \union {d} /\ d.proc = p /\ d.number = c.number + 1 /\ d.kind = c.at
    <3> DEFINE call == [proc |-> p, number |-> c.number + 1, kind |-> c.at, of |-> <<c.pid, c.batch>>,
                        step |-> step, at |-> "queued", pool |-> serving.starts, stage |-> 0,
                        ran |-> <<>>, noise |-> 0]
    <3>1. call.proc = p /\ call.number = c.number + 1 /\ call.kind = c.at OBVIOUS
    <3>2. calls' = calls \union {call} BY <1>6
    <3> HIDE DEF call
    <3> QED BY <3>1, <3>2
  <2> QED BY <1>4, <2>1, <2>2
<1> QED BY <1>5, <1>6 DEF Send, step, sent

\* What a handler does to its call.
LEMMA HandlerKeepsCalls ==
  ASSUME ServerTypes, NEW c \in calls,
         Start(c) \/ Acquire(c) \/ Forward(c) \/ Criterion(c) \/ Backward(c) \/ Optimize(c) \/ HandlerRaises(c)
  PROVE  \A d \in calls' : \E e \in calls : d.proc = e.proc /\ d.number = e.number /\ d.kind = e.kind
<1>1. c \in Call BY DEF ServerTypes
<1>2. CASE calls' = calls \ {c} BY <1>2
<1>3. ASSUME NEW new, Update(c, new), new.proc = c.proc, new.number = c.number, new.kind = c.kind
      PROVE  \A d \in calls' : \E e \in calls : d.proc = e.proc /\ d.number = e.number /\ d.kind = e.kind
  BY <1>3 DEF Update
<1>4. CASE Start(c) BY <1>1, <1>2, <1>3, <1>4 DEF Start, Call
<1>5. CASE Acquire(c) BY <1>1, <1>3, <1>5 DEF Acquire, Call
<1>6. CASE Forward(c) BY <1>1, <1>3, <1>6 DEF Forward, Call
<1>7. CASE Criterion(c) BY <1>1, <1>3, <1>7 DEF Criterion, Call
<1>8. CASE Backward(c) BY <1>1, <1>3, <1>8 DEF Backward, Call
<1>9. CASE Optimize(c) BY <1>1, <1>3, <1>9 DEF Optimize, Call
<1>10. CASE HandlerRaises(c) BY <1>1, <1>3, <1>10 DEF HandlerRaises, Call
<1> QED BY <1>4, <1>5, <1>6, <1>7, <1>8, <1>9, <1>10

\* A handler's step.
LEMMA HandlerStep ==
  ASSUME IndInv, GradInv, NEW c \in calls,
         Start(c) \/ Acquire(c) \/ Forward(c) \/ Criterion(c) \/ Backward(c) \/ Optimize(c) \/ HandlerRaises(c)
  PROVE  IndInv' /\ GradInv'
<1> USE DEF IndInv
<1>1. UNCHANGED <<strategy, client, serving>>
  BY DEF Start, Acquire, Forward, Criterion, Backward, Optimize, HandlerRaises, Quiet, strategy
<1>2. SettingKept
  <2>1. CASE set' = set BY <2>1, SettingStays DEF ClientTypes
  <2>2. CASE HandlerRaises(c) BY <2>2, SettingStays DEF HandlerRaises, ClientTypes
  <2> QED BY <2>1, <2>2 DEF Start, Acquire, Forward, Criterion, Backward, Optimize, Quiet
<1>3. ClientTypes' /\ ClientInv' /\ NoiseInv' BY <1>1, <1>2, ClientsStay DEF ClientTypes
<1>4. ServerTypes' /\ ServerInv'
  BY StartInv, AcquireInv, ForwardInv, CriterionInv, BackwardInv, OptimizeInv, HandlerRaisesInv
<1>5. Asked' BY <1>1, HandlerKeepsCalls, AskedStays
<1>6. Proc' = Proc BY <1>2 DEF SettingKept
<1>7. GradInv' BY <1>6, GradStart, GradAhead, GradBackward, GradOptimize, GradRaises
<1> QED BY <1>3, <1>4, <1>5, <1>7

\* A step after which some calls are gone and some client is done waiting.
LEMMA LeaveStep ==
  ASSUME IndInv, GradInv, UNCHANGED server, calls' \subseteq calls, \A c \in calls \ calls' : ~OnBatch(c),
         ClientTypes', ClientInv', NoiseInv', SettingKept,
         \A q \in Proc : client'[q].number >= client[q].number,
         \A q \in Proc : client'[q] = client[q] \/ client'[q].at \notin {"wait_train", "wait_evaluate"}
  PROVE  IndInv' /\ GradInv'
<1>1. client' \in [Proc -> Client] /\ Proc' = Proc BY DEF ClientTypes, SettingKept
<1>2. ServerTypes' /\ ServerInv' BY <1>1, CallsLeave DEF IndInv, ClientTypes
<1>3. Asked' BY AskedStays DEF IndInv
<1>4. \A q \in Proc : client[q].number \in Nat /\ client'[q].number \in Nat
  BY <1>1 DEF IndInv, ClientTypes, Client
<1>5. GradInv' BY <1>1, <1>4, GradQuiet DEF IndInv
<1> QED BY <1>2, <1>3, <1>5 DEF IndInv

LEMMA RaisedAt ==
  ASSUME ClientTypes, NEW p \in Proc, NEW result, Finish(p, result)
  PROVE  \A q \in Proc : client'[q] = client[q] \/ client'[q].at \notin {"wait_train", "wait_evaluate"}
<1>1. client[p] \in Client /\ client' = [client EXCEPT ![p] = [client[p] EXCEPT !.at = "idle", !.node = 0]]
  BY DEF ClientTypes, Finish
<1>2. [client[p] EXCEPT !.at = "idle", !.node = 0].at = "idle" BY <1>1 DEF Client
<1> QED BY <1>1, <1>2 DEF ClientTypes

LEMMA IndInvInit == Init => IndInv /\ GradInv
<1> SUFFICES ASSUME Init
             PROVE  IndInv /\ GradInv
  OBVIOUS
<1>1. calls = {} /\ left = {} /\ trained = <<>> /\ \A i \in Stage : slices[i].grads = <<>>
  BY DEF Init
<1>2. GradInv BY <1>1 DEF GradInv, OverInv, Over, OneBatchPerStep, GradsOf
<1> QED BY <1>2, ServerInit

\* Every action keeps the invariant.
LEMMA IndInvNext == IndInv /\ GradInv /\ [Next]_vars => IndInv' /\ GradInv'
<1> SUFFICES ASSUME IndInv, GradInv, [Next]_vars
             PROVE  IndInv' /\ GradInv'
  OBVIOUS
<1> USE DEF IndInv
<1>1. ASSUME UNCHANGED set
      PROVE  SettingKept
  BY <1>1, SettingStays DEF ClientTypes
<1>2. \A q \in Proc : client[q].number \in Nat BY DEF ClientTypes, Client
<1>3. CASE UNCHANGED vars
  <2>1. SettingKept /\ UNCHANGED <<strategy, client, server, calls, serving>>
    BY <1>1, <1>3 DEF vars
  <2>2. ClientTypes' /\ ClientInv' /\ NoiseInv' BY <2>1, ClientsStay DEF ClientTypes
  <2> QED BY <1>2, <2>1, <2>2, LeaveStep
<1>4. CASE EndPhase
  <2>1. ClientTypes' /\ ClientInv' /\ NoiseInv' /\ UNCHANGED <<client, calls, server>> /\ SettingKept
    BY <1>1, <1>4, EndPhaseInv DEF EndPhase
  <2> QED BY <1>2, <2>1, LeaveStep
<1>5. CASE Stop \/ Restart
  <2>1. UNCHANGED <<strategy, client, calls, server>> /\ serving' \in [up : BOOLEAN, starts : Nat]
    <3>1. serving \in [up : BOOLEAN, starts : Nat] BY DEF ClientTypes
    <3>2. CASE Stop BY <3>1, <3>2 DEF Stop
    <3>3. CASE Restart
      <4>1. serving.starts + 1 \in Nat BY <3>1
      <4> QED BY <3>3, <4>1 DEF Restart
    <3> QED BY <1>5, <3>2, <3>3
  <2>2. SettingKept BY <1>1, <1>5, SettingStays DEF Stop, Restart, ClientTypes
  <2>3. ClientTypes' /\ ClientInv' /\ NoiseInv' BY <2>1, <2>2, ClientsStay
  <2> QED BY <1>2, <2>1, <2>2, <2>3, LeaveStep
<1>6. ASSUME NEW p \in Proc, NEW n \in Node, Handle(p, n)
      PROVE  IndInv' /\ GradInv'
  <2>1. UNCHANGED <<set, calls, server>> BY <1>6 DEF Handle
  <2>2. client' = [client EXCEPT ![p] = client'[p]] /\ client'[p].at \notin {"wait_train", "wait_evaluate"}
    <3> DEFINE base == IF phase = "train" THEN round - 1 ELSE round
               new == [load_state_dict(client[p], base) EXCEPT
                        !.at = phase, !.node = n, !.pid = DataOf(client[p], n), !.batch = 1]
    <3>1. client' = [client EXCEPT ![p] = new] BY <1>6 DEF Handle, ClientTypes
    <3>2. client[p] \in Client /\ phase \in {"train", "evaluate", "done"} BY DEF ClientTypes
    <3>3. new.at = phase BY <3>2 DEF Client, load_state_dict
    <3> HIDE DEF new
    <3> QED BY <3>1, <3>2, <3>3 DEF ClientTypes
  <2>3. \A q \in Proc : client'[q] = client[q] \/ client'[q].at \notin {"wait_train", "wait_evaluate"}
    BY <2>2 DEF ClientTypes
  <2> QED BY <1>1, <1>6, <2>1, <2>3, HandleInv, LeaveStep
<1>7. ASSUME NEW p \in Proc, Send(p)
      PROVE  IndInv' /\ GradInv'
  BY <1>7, SendStep, SendAsked, GradSend
<1>8. ASSUME NEW p \in Proc, Answer(p)
      PROVE  IndInv' /\ GradInv'
  <2>1. UNCHANGED <<set, calls, server>> BY <1>8 DEF Answer
  <2>2. \A q \in Proc : client'[q] = client[q] \/ client'[q].at \notin {"wait_train", "wait_evaluate"}
    BY <1>8, RaisedAt DEF Answer
  <2> QED BY <1>1, <1>8, <2>1, <2>2, AnswerInv, LeaveStep
<1>9. ASSUME NEW p \in Proc, Timeout(p) \/ CancelledByStop(p)
      PROVE  IndInv' /\ GradInv'
  <2>1. /\ client[p].at \in {"wait_train", "wait_evaluate"} /\ Raised(p)
        /\ UNCHANGED <<round, phase, calls, server, serving>>
    BY <1>9 DEF Timeout, CancelledByStop, GiveUp
  <2>2. SettingKept
    <3>1. CASE UNCHANGED set BY <1>1, <3>1
    <3>2. CASE Fault("slow") BY <3>2, SettingStays DEF ClientTypes
    <3> QED BY <1>9, <3>1, <3>2 DEF Timeout, CancelledByStop, Deadline
  <2>3. /\ ClientTypes' /\ ClientInv' /\ NoiseInv'
        /\ \A q \in Proc : client'[q].number >= client[q].number
    BY <2>1, <2>2, RaisedInv DEF Busy
  <2>4. \A q \in Proc : client'[q] = client[q] \/ client'[q].at \notin {"wait_train", "wait_evaluate"}
    BY <2>1, RaisedAt DEF Raised
  <2> QED BY <2>1, <2>2, <2>3, <2>4, LeaveStep
<1>10. ASSUME NEW c \in calls, Handler(c) \/ HandlerRaises(c), ~Forget(c)
       PROVE  IndInv' /\ GradInv'
  BY <1>10, HandlerStep DEF Handler
<1>11. ASSUME NEW c \in calls, Forget(c) \/ LoseReply(c)
       PROVE  IndInv' /\ GradInv'
  <2>1. /\ calls' = calls \ {c} /\ ~OnBatch(c) /\ UNCHANGED <<strategy, client, server, serving>>
    BY <1>11 DEF Forget, LoseReply, Quiet, OnBatch
  <2>2. SettingKept BY <1>1, <1>11, SettingStays DEF Forget, LoseReply, Quiet, ClientTypes
  <2>3. ClientTypes' /\ ClientInv' /\ NoiseInv' BY <2>1, <2>2, ClientsStay DEF ClientTypes
  <2> QED BY <1>2, <2>1, <2>2, <2>3, LeaveStep
<1>12. ASSUME NEW c \in calls, Receive(c)
       PROVE  IndInv' /\ GradInv'
  <2>1. calls' = calls \ {c} /\ ~OnBatch(c) /\ UNCHANGED server /\ c.proc \in Proc
    BY <1>12 DEF Receive, OnBatch, ServerInv, Numbered
  <2>2. /\ ClientTypes' /\ ClientInv' /\ NoiseInv' /\ SettingKept
        /\ \A q \in Proc : client'[q].number >= client[q].number
    BY <1>12, ReceiveInv
  <2>3. \A q \in Proc : client'[q] = client[q] \/ client'[q].at \notin {"wait_train", "wait_evaluate"}
    <3> DEFINE p == c.proc
               next == [client[p] EXCEPT !.batch = @ + 1, !.at = c.kind]
               new == IF c.kind = "train"
                      THEN [next EXCEPT !.weights.on = Append(@, <<client[p].pid, client[p].batch>>), !.moments = @ + 1]
                      ELSE next
    <3>1. client' = [client EXCEPT ![p] = new] BY <1>12 DEF Receive
    <3>2. client[p] \in Client /\ c.kind \in {"train", "evaluate"}
      BY <2>1 DEF ClientTypes, ServerTypes, Call
    <3>3. new.at = c.kind BY <3>2 DEF Client
    <3> HIDE DEF new
    <3> QED BY <3>1, <3>2, <3>3 DEF ClientTypes
  <2> QED BY <2>1, <2>2, <2>3, LeaveStep
<1>13. ASSUME NEW c \in calls, Fails(c)
       PROVE  IndInv' /\ GradInv'
  <2>1. /\ calls' = calls \ {c} /\ ~OnBatch(c) /\ UNCHANGED <<set, round, phase, server, serving>> /\ c.proc \in Proc
        /\ Raised(c.proc) /\ Busy(c.proc)
    BY <1>13 DEF Fails, OnBatch, ServerInv, Numbered, Waits, Busy
  <2>2. /\ ClientTypes' /\ ClientInv' /\ NoiseInv' /\ SettingKept
        /\ \A q \in Proc : client'[q].number >= client[q].number
    BY <1>1, <2>1, RaisedInv
  <2>3. \A q \in Proc : client'[q] = client[q] \/ client'[q].at \notin {"wait_train", "wait_evaluate"}
    BY <2>1, RaisedAt DEF Raised
  <2> QED BY <2>1, <2>2, <2>3, LeaveStep
<1> QED
  BY <1>3, <1>4, <1>5, <1>6, <1>7, <1>8, <1>9, <1>10, <1>11, <1>12, <1>13 DEF Next, ClientStep, Delivery

\* What the invariant says of the properties.
LEMMA IndInvProperties == IndInv /\ GradInv => BatchesRunAlone /\ ClientsStayApart
<1> SUFFICES ASSUME IndInv, GradInv
             PROVE  BatchesRunAlone /\ ClientsStayApart
  OBVIOUS
<1> USE DEF IndInv
<1>1. TrainsInTrainMode BY DEF ServerInv, TrainsInTrainMode, ModeOf
<1>2. BatchesRunAlone BY <1>1 DEF ServerInv, GradInv, BatchesRunAlone
<1>3. TypeOK
  <2>1. lock # None => \E c \in calls : Holds(c) /\ c.at \in {"forward", "backward"}
    BY DEF ServerInv, Locked, OnBatch
  <2>2. DOMAIN messages = Node /\ DOMAIN client = Proc /\ DOMAIN slices = Stage
    BY DEF ClientTypes, ServerTypes
  <2>3. steps \in Nat /\ Len(trained) <= steps BY DEF ServerTypes, ServerInv, Counted
  <2>4. set.procs \in Nat /\ set.nodes \in Nat /\ set.batches \in Nat
    BY DEF ClientTypes, IsSetting
  <2> QED BY <2>1, <2>2, <2>3, <2>4 DEF TypeOK, ClientTypes, ServerInv, Numbered
<1>4. ResultsAreTheRounds BY DEF ClientInv, ResultsAreTheRounds, ResultOf
<1>5. NoiseIsFresh BY DEF NoiseInv, Fresh, ServerInv, NoiseIsFresh
<1> QED BY <1>2, <1>3, <1>4, <1>5 DEF ClientsStayApart

--------------------
(* In every reachable state a batch on the server runs with one model and  *)
(* in its own mode, and a step takes the gradient of that batch in every   *)
(* slice, once; what else it takes is what batches whose backward raised   *)
(* half way left since the step before, and no other step takes that.      *)
(* This is whatever fails, is late or is stopped, and for any number of    *)
(* clients, slices and threads (SplitServer's lock and handlers). *)
THEOREM BatchesAlone == Spec => []BatchesRunAlone
<1> QED BY IndInvInit, IndInvNext, IndInvProperties, PTL DEF Spec

(* In every reachable state what a node answers in a round was made of the *)
(* round's arrays on its own data, each batch once and in order, no client *)
(* draws the same noise for two batches it trains on, nor the server for   *)
(* two gradients (split_client_app, SplitClient). *)
THEOREM ClientsApart == Spec => []ClientsStayApart
<1> QED BY IndInvInit, IndInvNext, IndInvProperties, PTL DEF Spec
===============================================================================
