--------------------------- MODULE TiedSync_proofs ---------------------------
(***************************************************************************)
(* Proofs about module TiedSync, for any chain, any tied groups and any    *)
(* number of micro-batches, batches and rounds.                            *)
(***************************************************************************)
EXTENDS TiedSync, FiniteSetTheorems, SequenceTheorems, WellFoundedInduction, TLAPS

--------------------
(* The inductive invariant. *)

Sum == SUBSET (Nat \X Nat)
Entry == [from : Slice, own : Sum]

ThreadState ==
  [at : {"idle", "backward", "send", "wait", "push", "reply"},
   gen : 0 .. MaxRounds, cfg : 0 .. MaxRounds, id : Nat,
   todo : SUBSET (Group \X Slice), own : Sum, val : [Group -> Nat \X Nat]]
CallState ==
  [at : {"none", "sent", "checked", "done"}, kind : {"none", "grad", "update"},
   group : Nat, to : Slice, token : 0 .. MaxRounds, key : Batch, own : Sum, val : Nat \X Nat]

Types ==
  /\ round \in Round /\ next \in 0 .. NumSlices /\ init \in {"reset", "tie"}
  /\ failed \in BOOLEAN /\ cut \in BOOLEAN
  /\ token \in [Slice -> 0 .. MaxRounds]
  /\ fwd \in [Round -> [Slice -> Nat]]
  /\ begun \in [Round -> [Slice -> Nat]]
  /\ bwd \in [Round -> [Slice -> Nat]]
  /\ thread \in [Slice -> ThreadState]
  /\ sum \in [Slice -> Sum]
  /\ grads \in [Slice -> [Group -> [Batch -> Seq(Entry)]]]
  /\ value \in [Slice -> [Group -> Nat \X Nat]]
  /\ call \in [Slice -> CallState]
  /\ stepped \in [Group -> [by : Nat \X Nat, parts : Seq(Entry)]]

\* Workers are initialised in their order, all of a round before its first batch.
Tokens ==
  /\ next = NumSlices => init = "reset"
  /\ \A w \in Slice : token[w] = IF w < next THEN round
                                 ELSE IF w = next /\ init = "tie" THEN 0 ELSE round - 1
  /\ \A r \in Round : r > round \/ (r = round /\ next < NumSlices) => fwd[r][0] = 0

\* Activations go up the chain, gradients down, and a batch is fed when the
\* last one is back.
Chain ==
  \A r \in Round :
    /\ \A v, w \in Slice : v < w => fwd[r][w] <= fwd[r][v] /\ begun[r][v] <= bwd[r][w]
    /\ \A w \in Slice : bwd[r][w] <= begun[r][w] /\ begun[r][w] <= fwd[r][w]
    /\ fwd[r][0] <= NumBatches * NumMicro
    /\ fwd[r][0] # 0 => Key(fwd[r][0] - 1) <= Key(bwd[r][0])

\* The task a thread is on is the next to reply; one that was lost with its
\* connection was the last of a batch.
Tasks ==
  /\ \A w \in Slice : thread[w].at # "idle" =>
       /\ thread[w].gen \in Round /\ thread[w].id < begun[thread[w].gen][w]
       /\ thread[w].at \in {"send", "wait", "push"} => IsLastMicro(thread[w].id)
       /\ thread[w].gen = token[w] =>
            begun[token[w]][w] = bwd[token[w]][w] + 1 /\ thread[w].id = bwd[token[w]][w]
  /\ \A w \in Slice : token[w] # 0 /\ (thread[w].at = "idle" \/ thread[w].gen # token[w]) =>
       \/ begun[token[w]][w] = bwd[token[w]][w]
       \/ begun[token[w]][w] = bwd[token[w]][w] + 1 /\ IsLastMicro(bwd[token[w]][w])

\* What a thread has left to call, and the call it is in.
CallsOf(t, c, w) ==
  /\ t.at = "send" => t.todo \subseteq ToSend(w)
  /\ t.at = "wait" => t.todo \subseteq ToCollect(w)
  /\ t.at = "push" => t.todo \subseteq ToPush(w)
  /\ c.at # "none" =>
       /\ \/ t.at = "send" /\ c.kind = "grad"
          \/ t.at = "push" /\ c.kind = "update"
       /\ <<c.group, c.to>> \in t.todo
       /\ c.key = Key(t.id) /\ c.own = t.own /\ c.val = t.val[c.group]
Calls == \A w \in Slice : CallsOf(thread[w], call[w], w)

\* As long as no worker was initialised in the middle of a task, its task and
\* the calls it serves are of its round.
OfThisRound ==
  ~cut => \A w \in Slice :
    /\ thread[w].at # "idle" => thread[w].gen = token[w]
    /\ thread[w].at \in {"send", "wait", "push"} => thread[w].cfg = token[w]
    /\ call[w].at # "none" => call[w].token = token[w]
    /\ call[w].at = "checked" => token[call[w].to] = call[w].token

\* The gradient of each slice: the micro-batches of its batch so far.
Partial(r, n) == {<<r, i>> : i \in {j \in 0 .. n - 1 : Key(j) = Key(n)}}

SumOf(w) ==
  /\ token[w] = 0 => sum[w] = {}
  /\ token[w] # 0 =>
       /\ (thread[w].at = "idle" /\ begun[token[w]][w] = bwd[token[w]][w]) \/ thread[w].at = "backward"
            => sum[w] = Partial(token[w], bwd[token[w]][w])
       /\ thread[w].at \in {"send", "wait"} =>
            /\ sum[w] = Micros(<<token[w], Key(bwd[token[w]][w])>>)
            /\ thread[w].own = sum[w]
       /\ thread[w].at \in {"push", "reply"} => sum[w] = Partial(token[w], bwd[token[w]][w] + 1)
Sums == ~cut => \A w \in Slice : SumOf(w)

Owned(w) == {g \in Synced(w) : Owner(g) = w}

\* The copies of a group are at a step its owner is at or beginning, and all
\* at the new one before the owner replies.
ValueOf(w) ==
  token[w] # 0 => \A g \in Synced(w) :
    /\ value[w][g][1] = token[w]
    /\ Key(bwd[token[w]][Owner(g)]) <= value[w][g][2]
    /\ value[w][g][2] <= Key(begun[token[w]][Owner(g)])

Told(w, g, v) ==
  <<g, v>> \notin thread[w].todo \/ (call[w].at = "done" /\ call[w].group = g /\ call[w].to = v)

ValuesFrom(w) ==
  \A g \in Owned(w) :
    /\ thread[w].at \in {"backward", "send", "wait"} => value[w][g] = <<token[w], Key(bwd[token[w]][w])>>
    /\ thread[w].at = "push" =>
         /\ value[w][g] = <<token[w], Key(bwd[token[w]][w]) + 1>>
         /\ thread[w].val[g] = value[w][g]
         /\ \A v \in Replicas(g) : Told(w, g, v) => value[v][g] = value[w][g]
    /\ thread[w].at = "reply" =>
         \A v \in Groups[g] : value[v][g] = <<token[w], Key(begun[token[w]][w])>>

Values == ~cut => \A w \in Slice : ValueOf(w) /\ ValuesFrom(w)

\* Replica w has begun batch b, and is past the call that gives the owner its
\* gradient, or lost.
Given(w, g, b, r) ==
  \/ b < Key(bwd[r][w])
  \/ /\ b = Key(bwd[r][w]) /\ begun[r][w] = bwd[r][w] + 1 /\ IsLastMicro(bwd[r][w])
     /\ ~(thread[w].gen = r /\ thread[w].at = "backward")
     /\ ~(/\ thread[w].gen = r /\ thread[w].at = "send" /\ <<g, Owner(g)>> \in thread[w].todo
          /\ ~(call[w].at = "done" /\ call[w].group = g))

Givers(g, b, r) == {v \in Replicas(g) : Given(v, g, b, r)}

\* The owner surely has the gradient of replica w, unless it has used it.
SurelyGiven(w, g, b, r) ==
  \/ b < Key(bwd[r][w])
  \/ /\ thread[w].gen = r /\ b = Key(thread[w].id) /\ IsLastMicro(thread[w].id)
     /\ \/ thread[w].at \in {"wait", "push", "reply"}
        \/ /\ thread[w].at = "send"
           /\ <<g, Owner(g)>> \notin thread[w].todo \/ (call[w].at = "done" /\ call[w].group = g)

Collected(w, g, b, r) ==
  \/ b < Key(bwd[r][w])
  \/ /\ b = Key(bwd[r][w]) /\ begun[r][w] = bwd[r][w] + 1 /\ IsLastMicro(bwd[r][w])
     /\ thread[w].at \notin {"backward", "send"}
     /\ ~(thread[w].at = "wait" /\ <<g, w>> \in thread[w].todo)

\* The owner's entries for a group and a step: of replicas that gave theirs, each
\* once and whole; and of all that surely did.
Entries(w, g, b) ==
  /\ \A i \in DOMAIN grads[w][g][b] :
       /\ grads[w][g][b][i].from \in Givers(g, b, token[w])
       /\ grads[w][g][b][i].own = Micros(<<token[w], b>>)
  /\ \A i, j \in DOMAIN grads[w][g][b] :
       grads[w][g][b][i].from = grads[w][g][b][j].from => i = j

Gathered(w, g, b) ==
  \A v \in Replicas(g) :
    SurelyGiven(v, g, b, token[w]) /\ ~Collected(w, g, b, token[w]) =>
      \E i \in DOMAIN grads[w][g][b] : grads[w][g][b][i].from = v

GradsOf(w) ==
  /\ token[w] = 0 => grads[w] = NoGrads
  /\ token[w] # 0 => \A g \in Owned(w), b \in Batch : Entries(w, g, b) /\ Gathered(w, g, b)

Gradients == ~cut => \A w \in Slice : GradsOf(w)

Order == Types /\ Tokens /\ Chain /\ Tasks /\ Calls /\ OfThisRound
IInv == Order /\ Sums /\ Values /\ Gradients /\ SumOfEveryUse

--------------------
(* Micro-batches and batches. *)

LEMMA Micro == NumMicro \in Nat \ {0}
BY TiedAssumption

LEMMA DivMod ==
  ASSUME NEW i \in Nat
  PROVE  /\ Key(i) \in Nat /\ i % NumMicro \in 0 .. NumMicro - 1
         /\ i = NumMicro * Key(i) + (i % NumMicro)
BY Micro DEF Key

LEMMA KeyMono ==
  ASSUME NEW i \in Nat, NEW j \in Nat, i <= j
  PROVE  Key(i) <= Key(j)
<1>1. /\ NumMicro \in Nat /\ i % NumMicro \in Nat /\ j % NumMicro \in Nat /\ j % NumMicro < NumMicro
      /\ Key(i) \in Nat /\ Key(j) \in Nat
      /\ i = NumMicro * Key(i) + (i % NumMicro) /\ j = NumMicro * Key(j) + (j % NumMicro)
  <2>1. /\ Key(i) \in Nat /\ i % NumMicro \in 0 .. NumMicro - 1
        /\ i = NumMicro * Key(i) + (i % NumMicro)
    BY DivMod
  <2>2. /\ Key(j) \in Nat /\ j % NumMicro \in 0 .. NumMicro - 1
        /\ j = NumMicro * Key(j) + (j % NumMicro)
    BY DivMod
  <2> QED BY <2>1, <2>2, Micro
<1>3. ASSUME NEW M \in Nat, NEW a \in Nat, NEW b \in Nat, a < b PROVE M * a + M <= M * b
  BY <1>3
<1>4. ASSUME Key(j) < Key(i) PROVE FALSE
  <2>1. NumMicro * Key(j) + NumMicro <= NumMicro * Key(i) BY <1>1, <1>3, <1>4
  <2> QED BY <1>1, <2>1
<1> QED BY <1>1, <1>4

LEMMA KeyNext ==
  ASSUME NEW i \in Nat
  PROVE  Key(i + 1) = IF IsLastMicro(i) THEN Key(i) + 1 ELSE Key(i)
<1>1. /\ NumMicro \in Nat \ {0} /\ i % NumMicro \in 0 .. NumMicro - 1 /\ Key(i) \in Nat
      /\ i = NumMicro * Key(i) + (i % NumMicro)
  BY Micro, DivMod
<1>2. ASSUME NEW k \in Nat, NEW m \in 0 .. NumMicro - 1, i + 1 = NumMicro * k + m
      PROVE  Key(i + 1) = k
  BY Micro, <1>2 DEF Key
<1>3. CASE IsLastMicro(i) BY <1>1, <1>2, <1>3 DEF IsLastMicro
<1>4. CASE ~IsLastMicro(i) BY <1>1, <1>2, <1>4 DEF IsLastMicro
<1> QED BY <1>3, <1>4

LEMMA KeyBound ==
  ASSUME NEW i \in Nat, NEW n \in Nat
  PROVE  (i < n * NumMicro <=> Key(i) < n) /\ Key(n * NumMicro) = n
BY Micro DEF Key

LEMMA KeyZero == Key(0) = 0
BY Micro DEF Key

LEMMA MicrosByKey ==
  ASSUME NEW r \in Nat, NEW n \in Nat
  PROVE  Micros(<<r, n>>) = {<<r, i>> : i \in {j \in Nat : Key(j) = n}}
<1>1. ASSUME NEW m \in 0 .. NumMicro - 1
      PROVE  n * NumMicro + m \in Nat /\ Key(n * NumMicro + m) = n
  BY Micro DEF Key
<1>2. ASSUME NEW j \in Nat, Key(j) = n
      PROVE  \E m \in 0 .. NumMicro - 1 : j = n * NumMicro + m
  <2>1. j % NumMicro \in 0 .. NumMicro - 1 /\ j = NumMicro * n + (j % NumMicro) BY <1>2, DivMod
  <2>2. NumMicro * n = n * NumMicro BY Micro
  <2> QED BY <2>1, <2>2
<1>3. Micros(<<r, n>>) = {<<r, n * NumMicro + m>> : m \in 0 .. NumMicro - 1} BY DEF Micros
<1> QED BY <1>1, <1>2, <1>3

LEMMA PartialNext ==
  ASSUME NEW r \in Nat, NEW n \in Nat
  PROVE  /\ Partial(r, 0) = {}
         /\ ~IsLastMicro(n) => Partial(r, n + 1) = Partial(r, n) \cup {<<r, n>>}
         /\ IsLastMicro(n) => /\ Partial(r, n) \cup {<<r, n>>} = Micros(<<r, Key(n)>>)
                              /\ Partial(r, n + 1) = {}
<1>1. Partial(r, 0) = {} BY DEF Partial
<1>2. \A x, y \in Nat : x <= y => Key(x) <= Key(y) BY KeyMono
<1>3. \A x \in Nat : Key(x) \in Nat BY DivMod
<1>4. ASSUME ~IsLastMicro(n) PROVE Partial(r, n + 1) = Partial(r, n) \cup {<<r, n>>}
  <2>1. Key(n + 1) = Key(n) BY <1>4, KeyNext
  <2>2. \A j : j \in 0 .. (n + 1) - 1 <=> j \in 0 .. n - 1 \/ j = n OBVIOUS
  <2> QED BY <2>1, <2>2 DEF Partial
<1>5. ASSUME IsLastMicro(n) PROVE Partial(r, n) \cup {<<r, n>>} = Micros(<<r, Key(n)>>)
  <2>1. Key(n + 1) = Key(n) + 1 BY <1>5, KeyNext
  <2>2. ASSUME NEW j \in Nat, Key(j) = Key(n) PROVE j \in 0 .. n - 1 \/ j = n
    <3>1. ~(n + 1 <= j) BY <1>2, <1>3, <2>1, <2>2
    <3> QED BY <3>1
  <2>3. {j \in Nat : Key(j) = Key(n)} = {j \in 0 .. n - 1 : Key(j) = Key(n)} \cup {n} BY <2>2
  <2>4. Micros(<<r, Key(n)>>) = {<<r, i>> : i \in {j \in Nat : Key(j) = Key(n)}}
    BY <1>3, MicrosByKey
  <2> QED BY <2>3, <2>4 DEF Partial
<1>6. ASSUME IsLastMicro(n) PROVE Partial(r, n + 1) = {}
  <2>1. Key(n + 1) = Key(n) + 1 BY <1>6, KeyNext
  <2>2. \A j \in 0 .. (n + 1) - 1 : j \in Nat /\ j <= n OBVIOUS
  <2>3. \A j \in 0 .. (n + 1) - 1 : Key(j) # Key(n + 1) BY <1>2, <1>3, <2>1, <2>2
  <2> QED BY <2>3 DEF Partial
<1> QED BY <1>1, <1>4, <1>5, <1>6

--------------------
(* Groups. *)

LEMMA Least ==
  ASSUME NEW S \in SUBSET Nat, S # {}
  PROVE  \E m \in S : \A x \in S : m <= x
<1>1. PICK m \in S : \A x \in S : ~(<<x, m>> \in OpToRel(<, Nat))
  BY NatLessThanWellFounded, WFMin
<1>2. ASSUME NEW x \in S PROVE m <= x
  <2>1. x \in Nat /\ m \in Nat OBVIOUS
  <2>2. x < m => <<x, m>> \in OpToRel(<, Nat) BY <2>1 DEF OpToRel
  <2>3. ~(x < m) BY <1>1, <2>2
  <2> QED BY <2>1, <2>3
<1> QED BY <1>2

LEMMA Sizes ==
  /\ NumSlices \in Nat /\ NumSlices >= 2 /\ 0 \in Slice /\ LastSlice \in Slice
  /\ \A w \in Slice : w \in Nat /\ w < NumSlices /\ w <= LastSlice
  /\ MaxRounds \in Nat /\ \A r \in Round : r \in Nat /\ 1 <= r /\ r <= MaxRounds
BY TiedAssumption DEF Slice, LastSlice, Round

LEMMA GroupFacts ==
  ASSUME NEW g \in Group
  PROVE  /\ g \in Nat /\ Groups[g] \subseteq Slice /\ Owner(g) \in Groups[g]
         /\ \A v \in Groups[g] : Owner(g) <= v
         /\ \A v \in Replicas(g) : v \in Groups[g] /\ v \in Slice /\ Owner(g) < v
         /\ Groups[g] = Replicas(g) \cup {Owner(g)} /\ Owner(g) \notin Replicas(g)
<1>1. g \in Nat /\ Groups[g] \in SUBSET Slice /\ Groups[g] # {}
  BY TiedAssumption DEF Group, Slice
<1>2. Groups[g] \in SUBSET Nat BY <1>1, Sizes
<1>3. \E m \in Groups[g] : \A x \in Groups[g] : m <= x BY <1>1, <1>2, Least
<1>4. Owner(g) \in Groups[g] /\ \A v \in Groups[g] : Owner(g) <= v BY <1>3 DEF Owner, Min
<1> QED BY <1>1, <1>2, <1>4 DEF Replicas

LEMMA PairFacts ==
  ASSUME NEW w \in Slice
  PROVE  /\ Synced(w) \subseteq Group /\ Owned(w) \subseteq Synced(w)
         /\ \A g \in Synced(w) : w \in Groups[g]
         /\ \A p \in ToSend(w) : /\ p = <<p[1], p[2]>> /\ p[1] \in Synced(w)
                                 /\ p[2] = Owner(p[1]) /\ p[2] # w
         /\ \A p \in ToCollect(w) : p = <<p[1], w>> /\ p[1] \in Owned(w)
         /\ \A p \in ToPush(w) : p = <<p[1], p[2]>> /\ p[1] \in Owned(w) /\ p[2] \in Replicas(p[1])
         /\ \A g \in Synced(w) : Owner(g) # w => <<g, Owner(g)>> \in ToSend(w)
         /\ \A g \in Owned(w) : <<g, w>> \in ToCollect(w)
         /\ \A g \in Owned(w) : \A v \in Replicas(g) : <<g, v>> \in ToPush(w)
BY DEF Synced, Owned, ToSend, ToCollect, ToPush

LEMMA PairTypes ==
  ASSUME NEW w \in Slice
  PROVE  /\ ToSend(w) \subseteq Group \X Slice /\ ToCollect(w) \subseteq Group \X Slice
         /\ ToPush(w) \subseteq Group \X Slice
<1>1. \A p \in ToSend(w) : p \in Group \X Slice BY PairFacts, GroupFacts
<1>2. \A p \in ToCollect(w) : p \in Group \X Slice BY PairFacts, GroupFacts
<1>3. \A p \in ToPush(w) : p \in Group \X Slice BY PairFacts, GroupFacts
<1> QED BY <1>1, <1>2, <1>3

\* A group that is synced is synced at all its slices.
LEMMA SyncedEverywhere ==
  ASSUME NEW w \in Slice, NEW g \in Synced(w), NEW v \in Groups[g]
  PROVE  v \in Slice /\ g \in Synced(v) /\ (v = Owner(g) => g \in Owned(v))
BY GroupFacts, PairFacts DEF Synced, Owned

LEMMA EarliestIn ==
  ASSUME NEW todo \in SUBSET (Group \X Slice), todo # {}
  PROVE  Earliest(todo) \in todo
<1> DEFINE firsts == {p[1] : p \in todo}
<1>1. firsts \in SUBSET Nat /\ firsts # {} BY GroupFacts
<1>2. PICK g \in firsts : \A x \in firsts : g <= x
  <2> HIDE DEF firsts
  <2> QED BY <1>1, Least
<1> DEFINE seconds == {p[2] : p \in {q \in todo : q[1] = g}}
<1>3. seconds \in SUBSET Nat /\ seconds # {} BY Sizes
<1>4. PICK v \in seconds : \A x \in seconds : v <= x
  <2> HIDE DEF seconds
  <2> QED BY <1>3, Least
<1>5. PICK p \in todo : p[1] = g /\ p[2] = v OBVIOUS
<1>6. ASSUME NEW q \in todo PROVE p[1] < q[1] \/ (p[1] = q[1] /\ p[2] <= q[2])
  <2>1. g <= q[1] /\ g \in Nat /\ q[1] \in Nat BY <1>1, <1>2
  <2>2. q[1] = g => v <= q[2] BY <1>4
  <2> QED BY <1>5, <2>1, <2>2
<1> QED BY <1>5, <1>6 DEF Earliest

\* Gradients that come from each replica once are as many as the replicas.
LEMMA OneOfEach ==
  ASSUME NEW g \in Group, NEW s \in Seq(Entry),
         \A i \in DOMAIN s : s[i].from \in Replicas(g),
         \A i, j \in DOMAIN s : s[i].from = s[j].from => i = j,
         \A v \in Replicas(g) : \E i \in DOMAIN s : s[i].from = v
  PROVE  /\ Len(s) = Cardinality(Replicas(g))
         /\ Cardinality(Groups[g]) = Cardinality(Replicas(g)) + 1 /\ Cardinality(Replicas(g)) \in Nat
<1>1. IsFiniteSet(Groups[g]) /\ Owner(g) \in Groups[g]
  <2>1. IsFiniteSet(Slice) /\ Groups[g] \subseteq Slice
    <3>1. NumSlices - 1 \in Int BY Sizes
    <3>2. IsFiniteSet(0 .. NumSlices - 1) BY <3>1, FS_Interval
    <3> QED BY <3>2, GroupFacts DEF Slice
  <2> QED BY <2>1, FS_Subset, GroupFacts
<1>2. IsFiniteSet(Replicas(g)) /\ Cardinality(Replicas(g)) = Cardinality(Groups[g]) - 1
  BY <1>1, FS_RemoveElement DEF Replicas
<1>3. Cardinality(Groups[g]) \in Nat /\ Cardinality(Replicas(g)) \in Nat
  BY <1>1, <1>2, FS_CardinalityType
<1>4. Len(s) \in Nat /\ DOMAIN s = 1 .. Len(s) /\ IsFiniteSet(1 .. Len(s)) /\ Cardinality(1 .. Len(s)) = Len(s)
  <2>1. Len(s) \in Nat /\ DOMAIN s = 1 .. Len(s) OBVIOUS
  <2>2. IsFiniteSet(1 .. Len(s)) /\ Cardinality(1 .. Len(s)) = IF 1 > Len(s) THEN 0 ELSE Len(s) - 1 + 1
    BY <2>1, FS_Interval
  <2> QED BY <2>1, <2>2
<1>5. ~(Cardinality(Replicas(g)) < Len(s))
  <2> SUFFICES ASSUME Cardinality(Replicas(g)) < Len(s) PROVE FALSE
    OBVIOUS
  <2> DEFINE I == 1 .. Len(s)
             from == [i \in I |-> s[i].from]
  <2>1. from \in [I -> Replicas(g)] /\ IsFiniteSet(I) /\ Cardinality(Replicas(g)) < Cardinality(I)
    BY <1>4
  <2>2. PICK i, j \in I : i # j /\ from[i] = from[j]
    <3> HIDE DEF from, I
    <3> QED BY ONLY <1>2, <2>1, FS_PigeonHole
  <2> QED BY <1>4, <2>2
<1>6. ~(Len(s) < Cardinality(Replicas(g)))
  <2> SUFFICES ASSUME Len(s) < Cardinality(Replicas(g)) PROVE FALSE
    OBVIOUS
  <2> DEFINE I == 1 .. Len(s)
             place == [v \in Replicas(g) |-> CHOOSE i \in DOMAIN s : s[i].from = v]
  <2>1. \A v \in Replicas(g) : place[v] \in 1 .. Len(s) /\ s[place[v]].from = v BY <1>4
  <2>2. place \in [Replicas(g) -> I] /\ IsFiniteSet(I) /\ Cardinality(I) < Cardinality(Replicas(g))
    BY <1>4, <2>1
  <2>3. PICK v, w \in Replicas(g) : v # w /\ place[v] = place[w]
    <3> HIDE DEF place, I
    <3> QED BY ONLY <1>2, <2>2, FS_PigeonHole
  <2> QED BY <2>1, <2>3
<1> QED BY <1>2, <1>3, <1>4, <1>5, <1>6

--------------------
(* Types. *)

LEMMA IdleIsThread == NoValue \in [Group -> Nat \X Nat] /\ Idle \in ThreadState
<1>1. NoValue \in [Group -> Nat \X Nat] BY DEF NoValue
<1>2. 0 \in 0 .. MaxRounds /\ {} \in SUBSET (Group \X Slice) /\ {} \in Sum BY Sizes DEF Sum
<1> QED BY <1>1, <1>2 DEF Idle, ThreadState

LEMMA CallIsNone == NoCall \in CallState
<1>1. 0 \in 0 .. MaxRounds /\ 0 \in Slice /\ 0 \in Batch /\ {} \in Sum /\ <<0, 0>> \in Nat \X Nat
  BY Sizes, TiedAssumption DEF Sum, Batch
<1> QED BY <1>1 DEF NoCall, CallState

LEMMA ThreadEdits ==
  ASSUME NEW t \in ThreadState
  PROVE  /\ \A a \in {"idle", "backward", "send", "wait", "push", "reply"} : [t EXCEPT !.at = a] \in ThreadState
         /\ \A d \in SUBSET (Group \X Slice) : [t EXCEPT !.todo = d] \in ThreadState
         /\ t.at \in {"idle", "backward", "send", "wait", "push", "reply"}
         /\ t.gen \in 0 .. MaxRounds /\ t.cfg \in 0 .. MaxRounds /\ t.id \in Nat
         /\ t.todo \in SUBSET (Group \X Slice) /\ t.own \in Sum /\ t.val \in [Group -> Nat \X Nat]
BY DEF ThreadState

LEMMA CallEdits ==
  ASSUME NEW c \in CallState
  PROVE  /\ \A a \in {"none", "sent", "checked", "done"} : [c EXCEPT !.at = a] \in CallState
         /\ c.at \in {"none", "sent", "checked", "done"} /\ c.kind \in {"none", "grad", "update"}
         /\ c.group \in Nat /\ c.to \in Slice /\ c.token \in 0 .. MaxRounds /\ c.key \in Batch
         /\ c.own \in Sum /\ c.val \in Nat \X Nat
BY DEF CallState

\* What a worker was sent for a group and a step is replaced.
LEMMA Change ==
  ASSUME NEW A, NEW B, NEW C, NEW D, NEW f \in [A -> [B -> [C -> D]]],
         NEW a \in A, NEW b \in B, NEW c \in C, NEW d \in D
  PROVE  /\ [f EXCEPT ![a][b][c] = d] \in [A -> [B -> [C -> D]]]
         /\ \A x \in A : \A y \in B : \A z \in C :
              [f EXCEPT ![a][b][c] = d][x][y][z] = IF x = a /\ y = b /\ z = c THEN d ELSE f[x][y][z]
OBVIOUS

--------------------
(* What the invariant says of a thread on a task, and of the chain. *)

LEMMA ThreadTypes ==
  ASSUME Types, NEW w \in Slice
  PROVE  /\ thread[w].at \in {"idle", "backward", "send", "wait", "push", "reply"}
         /\ thread[w].gen \in 0 .. MaxRounds /\ thread[w].cfg \in 0 .. MaxRounds
         /\ thread[w].id \in Nat /\ thread[w].todo \in SUBSET (Group \X Slice)
         /\ thread[w].own \in Sum /\ thread[w].val \in [Group -> Nat \X Nat]
         /\ call[w].at \in {"none", "sent", "checked", "done"}
         /\ call[w].to \in Slice /\ call[w].key \in Batch /\ call[w].own \in Sum
         /\ call[w].val \in Nat \X Nat /\ call[w].token \in 0 .. MaxRounds
         /\ token[w] \in 0 .. MaxRounds
<1>1. thread[w] \in ThreadState /\ call[w] \in CallState /\ token[w] \in 0 .. MaxRounds
  BY DEF Types
<1>2. /\ thread[w].at \in {"idle", "backward", "send", "wait", "push", "reply"}
      /\ thread[w].gen \in 0 .. MaxRounds /\ thread[w].cfg \in 0 .. MaxRounds
      /\ thread[w].id \in Nat /\ thread[w].todo \in SUBSET (Group \X Slice)
      /\ thread[w].own \in Sum /\ thread[w].val \in [Group -> Nat \X Nat]
  BY <1>1, ThreadEdits
<1>3. /\ call[w].at \in {"none", "sent", "checked", "done"}
      /\ call[w].to \in Slice /\ call[w].key \in Batch /\ call[w].own \in Sum
      /\ call[w].val \in Nat \X Nat /\ call[w].token \in 0 .. MaxRounds
  BY <1>1, CallEdits
<1> QED BY <1>1, <1>2, <1>3

LEMMA ChainTypes ==
  ASSUME Types, NEW r \in Round, NEW w \in Slice
  PROVE  fwd[r][w] \in Nat /\ begun[r][w] \in Nat /\ bwd[r][w] \in Nat
BY DEF Types

LEMMA TokenIsRound ==
  ASSUME Types, NEW w \in Slice
  PROVE  (token[w] # 0 <=> token[w] \in Round) /\ token[w] \in Nat
<1>1. token[w] \in 0 .. MaxRounds BY DEF Types
<1> QED BY <1>1, Sizes DEF Round

\* Nothing of a round has begun before all its workers are initialised.
LEMMA NothingYet ==
  ASSUME Types, Tokens, Chain, Tasks, next < NumSlices
  PROVE  /\ round \in Round
         /\ \A w \in Slice : /\ fwd[round][w] = 0 /\ begun[round][w] = 0 /\ bwd[round][w] = 0
                             /\ thread[w].at # "idle" => thread[w].gen # round
<1>1. round \in Round /\ round \in Nat BY Sizes DEF Types
<1>2. fwd[round][0] = 0 BY <1>1 DEF Tokens
<1>3. ASSUME NEW w \in Slice PROVE fwd[round][w] = 0 /\ begun[round][w] = 0 /\ bwd[round][w] = 0
  <2>1. fwd[round][w] <= fwd[round][0] BY <1>1, <1>2, Sizes, ChainTypes DEF Chain
  <2> QED BY <1>1, <1>2, <2>1, ChainTypes DEF Chain
<1>4. ASSUME NEW w \in Slice, thread[w].at # "idle" PROVE thread[w].gen # round
  BY <1>3, <1>4, ThreadTypes DEF Tasks
<1> QED BY <1>1, <1>3, <1>4

\* A thread on a task of its worker's round: the workers after it are of that
\* round too.
LEMMA OnTask ==
  ASSUME Types, Tokens, Chain, Tasks, NEW o \in Slice, thread[o].at # "idle",
         thread[o].gen = token[o]
  PROVE  /\ token[o] \in Round /\ thread[o].id = bwd[token[o]][o]
         /\ bwd[token[o]][o] \in Nat /\ begun[token[o]][o] = bwd[token[o]][o] + 1
         /\ \A w \in Slice : o <= w => token[w] = token[o]
         /\ o < next => next = NumSlices
<1>1. token[o] \in Round /\ thread[o].id = bwd[token[o]][o] /\ begun[token[o]][o] = bwd[token[o]][o] + 1
  BY DEF Tasks
<1>2. bwd[token[o]][o] \in Nat BY <1>1, ChainTypes
<1>3. next \in Nat /\ next <= NumSlices /\ round \in Nat BY Sizes DEF Types
<1>4. ASSUME o < next PROVE next = NumSlices
  <2>1. token[o] = round BY <1>4 DEF Tokens
  <2>2. ~(next < NumSlices) BY <2>1, NothingYet
  <2> QED BY <1>3, <2>2, Sizes
<1>5. ASSUME NEW w \in Slice, o <= w PROVE token[w] = token[o]
  <2>1. o \in Nat /\ w \in Nat /\ w < NumSlices /\ NumSlices \in Nat /\ token[o] # 0
    BY <1>1, Sizes
  <2>2. CASE o < next BY <1>4, <2>1, <2>2 DEF Tokens
  <2>3. CASE ~(o < next) BY <1>3, <1>5, <2>1, <2>3 DEF Tokens
  <2> QED BY <2>2, <2>3
<1> QED BY <1>1, <1>2, <1>4, <1>5

\* A batch is fed when the one before it is back at every slice.
LEMMA FedBatches ==
  ASSUME Types, Chain, NEW r \in Round, NEW n \in Nat, n < fwd[r][0], NEW w \in Slice
  PROVE  Key(n) <= Key(bwd[r][w]) /\ n < NumBatches * NumMicro
<1>1. fwd[r][0] \in Nat /\ bwd[r][0] \in Nat /\ bwd[r][w] \in Nat /\ begun[r][0] \in Nat
  BY ChainTypes, Sizes
<1>2. n <= fwd[r][0] - 1 /\ fwd[r][0] - 1 \in Nat /\ fwd[r][0] # 0 BY <1>1
<1>3. Key(n) <= Key(fwd[r][0] - 1) BY <1>2, KeyMono
<1>4. Key(fwd[r][0] - 1) <= Key(bwd[r][0]) BY <1>2 DEF Chain
<1>5. bwd[r][0] <= bwd[r][w] BY <1>1, Sizes DEF Chain
<1>6. Key(bwd[r][0]) <= Key(bwd[r][w]) BY <1>1, <1>5, KeyMono
<1>7. /\ Key(n) \in Nat /\ Key(fwd[r][0] - 1) \in Nat /\ Key(bwd[r][0]) \in Nat
      /\ Key(bwd[r][w]) \in Nat
  BY <1>1, <1>2, DivMod
<1>8. Key(n) <= Key(bwd[r][w]) BY <1>3, <1>4, <1>6, <1>7
<1>9. n < NumBatches * NumMicro
  <2>1. fwd[r][0] <= NumBatches * NumMicro /\ NumBatches * NumMicro \in Nat
    BY TiedAssumption DEF Chain
  <2> QED BY <1>1, <2>1
<1> QED BY <1>8, <1>9

LEMMA IdInBatch ==
  ASSUME Types, Chain, Tasks, NEW w \in Slice, thread[w].at # "idle"
  PROVE  Key(thread[w].id) \in Batch
<1>1. /\ thread[w].gen \in Round /\ thread[w].id < begun[thread[w].gen][w] /\ thread[w].id \in Nat
  BY ThreadTypes DEF Tasks
<1> DEFINE r == thread[w].gen
<1>2. begun[r][w] <= fwd[r][w] /\ fwd[r][w] <= fwd[r][0] BY <1>1, Sizes, ChainTypes DEF Chain
<1>3. /\ begun[r][w] \in Nat /\ fwd[r][w] \in Nat /\ fwd[r][0] \in Nat
  BY <1>1, Sizes, ChainTypes
<1>4. thread[w].id < fwd[r][0] BY <1>1, <1>2, <1>3
<1>5. thread[w].id < NumBatches * NumMicro BY <1>1, <1>4, FedBatches
<1>6. NumBatches \in Nat /\ Key(thread[w].id) \in Nat BY <1>1, DivMod, TiedAssumption
<1>7. Key(thread[w].id) < NumBatches BY <1>1, <1>5, <1>6, KeyBound
<1> QED BY <1>6, <1>7 DEF Batch

\* A backward pass begins when the one before it has been replied to: what was
\* lost was the last of its batch, and the next batch waits for it.
Arrived(w) == IF w = LastSlice THEN ForwardArrived(w) ELSE BackwardArrived(w)

LEMMA InTurn ==
  ASSUME Types, Tokens, Chain, Tasks, NEW w \in Slice, thread[w].at = "idle", Arrived(w)
  PROVE  /\ token[w] \in Round /\ begun[token[w]][w] = bwd[token[w]][w]
         /\ \A v \in Slice : w < v => begun[token[w]][w] < bwd[token[w]][v]
         /\ w = LastSlice => fwd[token[w]][w] < fwd[token[w]][w - 1] /\ w # 0 /\ w - 1 \in Slice
         /\ w # LastSlice => begun[token[w]][w] < fwd[token[w]][w]
<1> DEFINE r == token[w]
<1>1. r \in Round /\ w \in Nat /\ w <= LastSlice /\ LastSlice \in Nat /\ LastSlice # 0
  <2>1. r # 0 BY DEF Arrived, ForwardArrived, BackwardArrived
  <2>2. r \in 0 .. MaxRounds BY ThreadTypes
  <2> QED BY <2>1, <2>2, Sizes DEF Round, LastSlice
<1>2. \A v \in Slice : /\ fwd[r][v] \in Nat /\ begun[r][v] \in Nat /\ bwd[r][v] \in Nat
                       /\ bwd[r][v] <= begun[r][v] /\ begun[r][v] <= fwd[r][v] /\ fwd[r][v] <= fwd[r][0]
  BY <1>1, ChainTypes, Sizes DEF Chain
<1>3. CASE w = LastSlice
  <2>1. fwd[r][w] < fwd[r][w - 1] /\ w # 0 /\ w - 1 \in Slice
    BY <1>1, <1>3, Sizes DEF Arrived, ForwardArrived, Slice, LastSlice
  <2>2. begun[r][w] < fwd[r][0]
    <3>1. begun[r][w] <= fwd[r][w] /\ fwd[r][w - 1] <= fwd[r][0] /\ fwd[r][w - 1] \in Nat
      BY <1>2, <2>1
    <3> QED BY <1>2, <2>1, <3>1, Sizes
  <2> QED
    <3>1. begun[r][w] = bwd[r][w]
      <4> SUFFICES ASSUME begun[r][w] # bwd[r][w] PROVE FALSE
        OBVIOUS
      <4>1. begun[r][w] = bwd[r][w] + 1 /\ IsLastMicro(bwd[r][w]) BY <1>1 DEF Tasks, Round
      <4>2. Key(begun[r][w]) = Key(bwd[r][w]) + 1 BY <1>2, <4>1, KeyNext
      <4>3. Key(begun[r][w]) <= Key(bwd[r][w]) BY <1>1, <1>2, <2>2, FedBatches
      <4> QED BY <1>2, <4>2, <4>3, DivMod
    <3>2. \A v \in Slice : ~(w < v) BY <1>1, <1>3, Sizes
    <3> QED BY <1>1, <1>3, <2>1, <3>1, <3>2
<1>4. CASE w # LastSlice
  <2>1. begun[r][w] < bwd[r][w + 1] /\ w + 1 \in Slice
    BY <1>1, <1>4, Sizes DEF Arrived, BackwardArrived, Slice, LastSlice
  <2>2. begun[r][w] < fwd[r][w] /\ fwd[r][w] <= fwd[r][0]
    <3>1. fwd[r][w + 1] <= fwd[r][w] BY <1>1, <2>1 DEF Chain
    <3> QED BY <1>2, <2>1, <3>1
  <2>3. ASSUME NEW v \in Slice, w < v PROVE begun[r][w] < bwd[r][v]
    <3>1. v = w + 1 \/ w + 1 < v
      <4>1. v \in Nat BY Sizes
      <4> QED BY <1>1, <2>3, <4>1
    <3>2. w + 1 < v => begun[r][w + 1] <= bwd[r][v] BY <1>1, <2>1 DEF Chain
    <3> QED BY <1>2, <2>1, <3>1, <3>2
  <2>4. begun[r][w] = bwd[r][w]
    <3> SUFFICES ASSUME begun[r][w] # bwd[r][w] PROVE FALSE
      OBVIOUS
    <3>1. begun[r][w] = bwd[r][w] + 1 /\ IsLastMicro(bwd[r][w]) BY <1>1 DEF Tasks, Round
    <3>2. Key(begun[r][w]) = Key(bwd[r][w]) + 1 BY <1>2, <3>1, KeyNext
    <3>3. begun[r][w] < fwd[r][0] BY <1>2, <2>2, Sizes
    <3>4. Key(begun[r][w]) <= Key(bwd[r][w]) BY <1>1, <1>2, <3>3, FedBatches
    <3> QED BY <1>2, <3>2, <3>4, DivMod
  <2> QED BY <1>1, <1>4, <2>2, <2>3, <2>4
<1> QED BY <1>3, <1>4

LEMMA Fed0 ==
  ASSUME Types, Tokens, Chain, NEW w \in Slice, w # LastSlice, ForwardArrived(w)
  PROVE  /\ token[w] \in Round
         /\ w = 0 => /\ token[w] = round /\ next = NumSlices
                     /\ fwd[token[w]][w] < NumBatches * NumMicro
                     /\ Key(fwd[token[w]][w]) <= Key(bwd[token[w]][w])
         /\ w # 0 => w - 1 \in Slice /\ fwd[token[w]][w] < fwd[token[w]][w - 1]
<1>1. token[w] \in Round /\ w \in Nat /\ token[w] \in Nat
  <2>1. token[w] # 0 /\ token[w] \in 0 .. MaxRounds BY DEF ForwardArrived, Types
  <2> QED BY <2>1, Sizes DEF Round
<1>2. CASE w # 0 BY <1>1, <1>2, Sizes DEF ForwardArrived, Slice
<1>3. CASE w = 0
  <2>1. /\ token[0] = round /\ next = NumSlices /\ ~Over /\ fwd[round][0] < Fed
    BY <1>3 DEF ForwardArrived
  <2>2. /\ round \in Round /\ fwd[round][0] \in Nat /\ begun[round][0] \in Nat /\ bwd[round][0] \in Nat
    BY <1>1, <1>3, <2>1, Sizes, ChainTypes
  <2>3. /\ NumBatches * NumMicro \in Nat /\ NumBatches \in Nat /\ NumMicro \in Nat
        /\ Key(bwd[round][0]) \in Nat /\ Key(fwd[round][0]) \in Nat
    <3>1. Key(bwd[round][0]) \in Nat /\ Key(fwd[round][0]) \in Nat BY <2>2, DivMod
    <3> QED BY <3>1, TiedAssumption
  <2>4. bwd[round][0] < NumBatches * NumMicro BY <2>1, <2>2, <2>3, Sizes DEF Over, Chain
  <2>5. Key(bwd[round][0]) < NumBatches BY <2>2, <2>3, <2>4, KeyBound
  <2>6. fwd[round][0] < (Key(bwd[round][0]) + 1) * NumMicro BY <2>1 DEF Fed, Key
  <2>7. Key(fwd[round][0]) < Key(bwd[round][0]) + 1
    <3>1. Key(bwd[round][0]) + 1 \in Nat BY <2>3
    <3> QED BY <2>2, <2>6, <3>1, KeyBound
  <2>8. Key(fwd[round][0]) < NumBatches BY <2>3, <2>5, <2>7
  <2>9. fwd[round][0] < NumBatches * NumMicro BY <2>2, <2>3, <2>8, KeyBound
  <2> QED BY <1>1, <1>3, <2>1, <2>3, <2>7, <2>9
<1> QED BY <1>2, <1>3

LEMMA Idling ==
  ASSUME Types, NEW w \in Slice
  PROVE  [thread EXCEPT ![w] = Idle] \in [Slice -> ThreadState]
BY IdleIsThread DEF Types

LEMMA NewGrads == NoGrads \in [Group -> [Batch -> Seq(Entry)]]
<1>1. <<>> \in Seq(Entry) OBVIOUS
<1> QED BY <1>1 DEF NoGrads

LEMMA InitTypes == Init => Types
<1> SUFFICES ASSUME Init PROVE Types
  OBVIOUS
<1>1. round \in Round /\ next \in 0 .. NumSlices /\ init \in {"reset", "tie"}
  BY Sizes, TiedAssumption DEF Init, Round
<1>2. failed \in BOOLEAN /\ cut \in BOOLEAN /\ token \in [Slice -> 0 .. MaxRounds]
  <2>1. 0 \in 0 .. MaxRounds BY Sizes
  <2> QED BY <2>1 DEF Init
<1>3. fwd \in [Round -> [Slice -> Nat]] /\ begun \in [Round -> [Slice -> Nat]] /\ bwd \in [Round -> [Slice -> Nat]]
  BY DEF Init
<1>4. thread \in [Slice -> ThreadState] /\ call \in [Slice -> CallState]
  BY IdleIsThread, CallIsNone DEF Init
<1>5. sum \in [Slice -> Sum] /\ value \in [Slice -> [Group -> Nat \X Nat]]
  BY IdleIsThread DEF Init, Sum
<1>6. grads \in [Slice -> [Group -> [Batch -> Seq(Entry)]]] BY NewGrads DEF Init
<1>7. stepped \in [Group -> [by : Nat \X Nat, parts : Seq(Entry)]]
  <2>1. <<>> \in Seq(Entry) /\ <<0, 0>> \in Nat \X Nat OBVIOUS
  <2> QED BY <2>1 DEF Init
<1> QED BY <1>1, <1>2, <1>3, <1>4, <1>5, <1>6, <1>7 DEF Types

LEMMA CallTypes ==
  ASSUME Types, Chain, Tasks, NEW w \in Slice, NEW kind \in {"grad", "update"},
         NEW pair \in Group \X Slice, thread[w].at # "idle", Call(w, kind, pair, thread[w])
  PROVE  call' \in [Slice -> CallState]
<1>1. /\ pair[1] \in Group /\ pair[2] \in Slice /\ pair[1] \in Nat BY GroupFacts
<1>2. Key(thread[w].id) \in Batch BY IdInBatch
<1>3. thread[w].val[pair[1]] \in Nat \X Nat /\ thread[w].own \in Sum /\ token[w] \in 0 .. MaxRounds
  BY <1>1, ThreadTypes
<1>4. [at |-> "sent", kind |-> kind, group |-> pair[1], to |-> pair[2], token |-> token[w],
       key |-> Key(thread[w].id), own |-> thread[w].own, val |-> thread[w].val[pair[1]]] \in CallState
  BY <1>1, <1>2, <1>3 DEF CallState
<1> QED BY <1>4 DEF Types, Call

LEMMA TodoTypes ==
  ASSUME Types, NEW w \in Slice, NEW todo \in SUBSET (Group \X Slice),
         NEW a \in {"idle", "backward", "send", "wait", "push", "reply"}
  PROVE  /\ [thread EXCEPT ![w].todo = todo] \in [Slice -> ThreadState]
         /\ [thread EXCEPT ![w].at = a] \in [Slice -> ThreadState]
         /\ [thread EXCEPT ![w].at = a, ![w].todo = todo] \in [Slice -> ThreadState]
<1>1. thread \in [Slice -> ThreadState] /\ thread[w] \in ThreadState BY DEF Types
<1>2. /\ [thread[w] EXCEPT !.todo = todo] \in ThreadState /\ [thread[w] EXCEPT !.at = a] \in ThreadState
      /\ [thread[w] EXCEPT !.at = a, !.todo = todo] \in ThreadState
  BY <1>1 DEF ThreadState
<1> QED BY <1>1, <1>2

LEMMA CallAt ==
  ASSUME Types, NEW w \in Slice, NEW a \in {"none", "sent", "checked", "done"}
  PROVE  /\ [call EXCEPT ![w].at = a] \in [Slice -> CallState]
         /\ [call EXCEPT ![w] = NoCall] \in [Slice -> CallState]
<1>1. call \in [Slice -> CallState] /\ call[w] \in CallState BY DEF Types
<1>2. [call[w] EXCEPT !.at = a] \in CallState BY <1>1 DEF CallState
<1> QED BY <1>1, <1>2, CallIsNone

LEMMA CounterTypes ==
  ASSUME NEW f \in [Round -> [Slice -> Nat]], NEW r \in Round, NEW w \in Slice
  PROVE  [f EXCEPT ![r][w] = @ + 1] \in [Round -> [Slice -> Nat]]
OBVIOUS

LEMMA TypesKept ==
  ASSUME Types, Tokens, Chain, Tasks, Calls, [Next]_vars
  PROVE  Types'
<1> USE DEF coordinator, chain, history
<1>1. ASSUME NEW w \in Slice, Reset(w) PROVE Types'
  <2>1. token' \in [Slice -> 0 .. MaxRounds]
    <3>1. 0 \in 0 .. MaxRounds BY Sizes
    <3> QED BY <1>1, <3>1 DEF Types, Reset
  <2>2. grads' \in [Slice -> [Group -> [Batch -> Seq(Entry)]]]
    BY <1>1, NewGrads DEF Types, Reset
  <2>3. sum' \in [Slice -> Sum] /\ value' \in [Slice -> [Group -> Nat \X Nat]]
    <3>1. {} \in Sum BY DEF Sum
    <3> QED BY <1>1, <3>1, IdleIsThread DEF Types, Reset
  <2>4. cut' \in BOOLEAN BY <1>1 DEF Types, Reset, Busy
  <2> QED BY <1>1, <2>1, <2>2, <2>3, <2>4 DEF Types, Reset
<1>2. ASSUME NEW w \in Slice, ConfigureTied(w) PROVE Types'
  <2>1. token' \in [Slice -> 0 .. MaxRounds] /\ round \in Nat
    <3>1. round \in 0 .. MaxRounds BY Sizes DEF Types
    <3> QED BY <1>2, <3>1 DEF Types, ConfigureTied
  <2>2. value' \in [Slice -> [Group -> Nat \X Nat]] BY <1>2, <2>1 DEF Types, ConfigureTied
  <2>3. next' \in 0 .. NumSlices BY <1>2, Sizes DEF Types, ConfigureTied
  <2> QED BY <1>2, <2>1, <2>2, <2>3 DEF Types, ConfigureTied
<1>3. CASE NewRound
  <2>1. round' \in Round /\ next' \in 0 .. NumSlices BY <1>3, Sizes DEF Types, NewRound, Round
  <2> QED BY <1>3, <2>1 DEF Types, NewRound
<1>4. ASSUME NEW w \in Slice, Forward(w) PROVE Types'
  <2>1. token[w] \in Round BY <1>4, Fed0 DEF Forward
  <2>2. fwd' \in [Round -> [Slice -> Nat]] BY <1>4, <2>1, CounterTypes DEF Types, Forward
  <2> QED BY <1>4, <2>2 DEF Types, Forward
<1>5. ASSUME NEW w \in Slice, BeginBackward(w) PROVE Types'
  <2>1. token[w] \in Round /\ begun[token[w]][w] \in Nat
    BY <1>5, InTurn, ChainTypes DEF BeginBackward, Arrived
  <2>2. fwd' \in [Round -> [Slice -> Nat]] /\ begun' \in [Round -> [Slice -> Nat]]
    BY <1>5, <2>1, CounterTypes DEF Types, BeginBackward
  <2>3. [Idle EXCEPT !.at = "backward", !.gen = token[w], !.id = begun[token[w]][w]] \in ThreadState
    <3>1. ASSUME NEW gen \in 0 .. MaxRounds, NEW id \in Nat
          PROVE  [Idle EXCEPT !.at = "backward", !.gen = gen, !.id = id] \in ThreadState
      BY IdleIsThread DEF ThreadState
    <3>2. token[w] \in 0 .. MaxRounds BY ThreadTypes
    <3> QED BY <2>1, <3>1, <3>2, Zenon
  <2>4. thread' \in [Slice -> ThreadState] BY <1>5, <2>3 DEF Types, BeginBackward
  <2> QED BY <1>5, <2>2, <2>4 DEF Types, BeginBackward
<1>6. ASSUME NEW w \in Slice, EndBackward(w) PROVE Types'
  <2>1. sum' \in [Slice -> Sum]
    <3>1. thread[w].gen \in Nat /\ thread[w].id \in Nat BY ThreadTypes, Sizes
    <3>2. sum[w] \cup {<<thread[w].gen, thread[w].id>>} \in Sum BY <3>1 DEF Types, Sum
    <3> QED BY <1>6, <3>2 DEF Types, EndBackward
  <2>2. thread' \in [Slice -> ThreadState]
    <3>1. thread[w] \in ThreadState /\ sum'[w] \in Sum /\ value[w] \in [Group -> Nat \X Nat]
          /\ token[w] \in 0 .. MaxRounds /\ {} \in Sum
      BY <2>1 DEF Types, Sum
    <3>2. (IF token[w] = 0 THEN {} ELSE ToSend(w)) \in SUBSET (Group \X Slice) BY PairTypes
    <3>3. ASSUME NEW todo \in SUBSET (Group \X Slice), NEW own \in Sum
          PROVE  [thread[w] EXCEPT !.at = "send", !.cfg = token[w], !.todo = todo, !.own = own,
                                   !.val = value[w]] \in ThreadState
      BY <3>1 DEF ThreadState
    <3>4. [thread[w] EXCEPT !.at = "reply"] \in ThreadState BY <3>1, ThreadEdits
    <3> DEFINE todo == IF token[w] = 0 THEN {} ELSE ToSend(w)
               own == IF thread[w].gen = token[w] THEN sum'[w] ELSE {}
               t == IF ~IsLastMicro(thread[w].id) THEN [thread[w] EXCEPT !.at = "reply"]
                    ELSE [thread[w] EXCEPT !.at = "send", !.cfg = token[w], !.todo = todo, !.own = own,
                                           !.val = value[w]]
    <3>5. thread' = [thread EXCEPT ![w] = t] BY <1>6 DEF EndBackward
    <3>6. own \in Sum /\ todo \in SUBSET (Group \X Slice) BY <3>1, <3>2
    <3>7. t \in ThreadState
      <4> HIDE DEF own, todo
      <4>1. CASE ~IsLastMicro(thread[w].id) BY <3>4, <4>1
      <4>2. CASE IsLastMicro(thread[w].id) BY <3>3, <3>6, <4>2, Zenon
      <4> QED BY <4>1, <4>2
    <3> HIDE DEF t
    <3> QED BY <3>5, <3>7 DEF Types
  <2> QED BY <1>6, <2>1, <2>2 DEF Types, EndBackward
<1>7. ASSUME NEW w \in Slice, SendGrad(w) PROVE Types'
  <2>1. Earliest(thread[w].todo) \in Group \X Slice
    BY <1>7, EarliestIn, ThreadTypes DEF SendGrad
  <2>2. call' \in [Slice -> CallState] BY <1>7, <2>1, CallTypes DEF SendGrad
  <2> QED BY <1>7, <2>2 DEF Types, SendGrad
<1>8. ASSUME NEW w \in Slice, SendUpdate(w) PROVE Types'
  <2>1. Earliest(thread[w].todo) \in Group \X Slice
    BY <1>8, EarliestIn, ThreadTypes DEF SendUpdate
  <2>2. call' \in [Slice -> CallState] BY <1>8, <2>1, CallTypes DEF SendUpdate
  <2> QED BY <1>8, <2>2 DEF Types, SendUpdate
<1>9. ASSUME NEW w \in Slice, StartWaiting(w) PROVE Types'
  <2>1. (IF thread[w].cfg = 0 THEN {} ELSE ToCollect(w)) \in SUBSET (Group \X Slice)
    BY PairTypes
  <2>2. thread' \in [Slice -> ThreadState] BY <1>9, <2>1, TodoTypes DEF StartWaiting
  <2> QED BY <1>9, <2>2 DEF Types, StartWaiting
<1>10. ASSUME NEW w \in Slice, CollectGrads(w) PROVE Types'
  <2> DEFINE pair == Earliest(thread[w].todo)
             g == pair[1]
             k == Key(thread[w].id)
             parts == Append(Sent(w, g), [from |-> w, own |-> thread[w].own])
  <2>1. pair \in Group \X Slice /\ g \in Group
    BY <1>10, EarliestIn, ThreadTypes DEF CollectGrads
  <2>2. k \in Batch /\ k \in Nat BY <1>10, IdInBatch, ThreadTypes, DivMod DEF CollectGrads
  <2>3. thread[w].cfg \in Nat /\ thread[w].own \in Sum BY ThreadTypes, Sizes
  <2>4. Sent(w, g) \in Seq(Entry) /\ [from |-> w, own |-> thread[w].own] \in Entry
    <3>1. Sent(w, g) = grads[w][g][k] BY DEF Sent
    <3>2. grads[w][g][k] \in Seq(Entry)
      <4> HIDE DEF k, g
      <4> QED BY <2>1, <2>2 DEF Types
    <3> QED BY <2>3, <3>1, <3>2 DEF Entry
  <2>5. parts \in Seq(Entry) BY <2>4
  <2>6. stepped' = [stepped EXCEPT ![g] = [by |-> <<thread[w].cfg, k>>, parts |-> parts]]
    BY <1>10 DEF CollectGrads
  <2>7. stepped' \in [Group -> [by : Nat \X Nat, parts : Seq(Entry)]]
    <3> HIDE DEF parts, k, g
    <3> QED BY <2>1, <2>2, <2>3, <2>5, <2>6 DEF Types
  <2>8. grads' = [grads EXCEPT ![w][g][k] = <<>>] BY <1>10 DEF CollectGrads
  <2>9. grads' \in [Slice -> [Group -> [Batch -> Seq(Entry)]]]
    <3>1. <<>> \in Seq(Entry) OBVIOUS
    <3> HIDE DEF k, g
    <3> QED BY <2>1, <2>2, <2>8, <3>1 DEF Types
  <2>10. thread' \in [Slice -> ThreadState]
    <3>1. thread[w].todo \ {pair} \in SUBSET (Group \X Slice) BY ThreadTypes
    <3>2. thread' = [thread EXCEPT ![w].todo = thread[w].todo \ {pair}]
      BY <1>10 DEF CollectGrads
    <3> QED BY <3>1, <3>2, TodoTypes
  <2> QED BY <1>10, <2>7, <2>9, <2>10 DEF Types, CollectGrads
<1>11. ASSUME NEW w \in Slice, WaitTimesOut(w) PROVE Types'
  BY <1>11, Idling DEF Types, WaitTimesOut
<1>12. ASSUME NEW w \in Slice, Optimize(w) PROVE Types'
  <2> DEFINE new == [g \in Group |->
                   IF \E p \in ToCollect(w) : p[1] = g
                   THEN <<value[w][g][1], value[w][g][2] + 1>> ELSE value[w][g]]
  <2>1. new \in [Group -> Nat \X Nat] BY DEF Types
  <2>2. CASE token[w] = 0 BY <1>12, <2>2, Idling DEF Types, Optimize
  <2>3. CASE token[w] # 0
    <3>1. value' \in [Slice -> [Group -> Nat \X Nat]]
      <4>1. value' = IF thread[w].cfg = token[w] THEN [value EXCEPT ![w] = new] ELSE value
        BY <1>12, <2>3 DEF Optimize
      <4> HIDE DEF new
      <4> QED BY <2>1, <4>1 DEF Types
    <3>2. sum' \in [Slice -> Sum] BY <1>12, <2>3 DEF Types, Optimize, Sum
    <3>3. thread' \in [Slice -> ThreadState]
      <4> DEFINE val == IF thread[w].cfg = token[w] THEN new ELSE thread[w].val
                 todo == IF thread[w].cfg = 0 THEN {} ELSE ToPush(w)
      <4>1. val \in [Group -> Nat \X Nat] /\ todo \in SUBSET (Group \X Slice)
        <5> HIDE DEF new
        <5> QED BY <2>1, ThreadTypes, PairTypes
      <4>2. thread' = [thread EXCEPT ![w] = [thread[w] EXCEPT !.at = "push", !.val = val, !.todo = todo]]
        BY <1>12, <2>3 DEF Optimize
      <4> HIDE DEF val, todo
      <4>3. [thread[w] EXCEPT !.at = "push", !.val = val, !.todo = todo] \in ThreadState
        <5>1. thread[w] \in ThreadState BY DEF Types
        <5> QED BY <4>1, <5>1 DEF ThreadState
      <4> QED BY <4>2, <4>3 DEF Types
    <3> QED BY <1>12, <2>3, <3>1, <3>2, <3>3 DEF Types, Optimize
  <2> QED BY <2>2, <2>3
<1>13. ASSUME NEW w \in Slice, StartReply(w) PROVE Types'
  <2>1. thread' \in [Slice -> ThreadState] BY <1>13, TodoTypes, ThreadTypes DEF StartReply
  <2> QED BY <1>13, <2>1 DEF Types, StartReply
<1>14. ASSUME NEW w \in Slice, SendBackward(w) PROVE Types'
  <2>1. thread[w].gen \in Round BY <1>14 DEF SendBackward, Tasks
  <2>2. bwd' \in [Round -> [Slice -> Nat]] BY <1>14, <2>1, CounterTypes DEF SendBackward, Types
  <2> QED BY <1>14, <2>2, Idling DEF Types, SendBackward
<1>15. ASSUME NEW w \in Slice, CheckToken(w) PROVE Types'
  <2>1. call' \in [Slice -> CallState] BY <1>15, CallAt DEF CheckToken
  <2> QED BY <1>15, <2>1 DEF Types, CheckToken
<1>16. ASSUME NEW w \in Slice, tied_grad(w) PROVE Types'
  <2>1. <<call[w].group, call[w].to>> \in Group \X Slice /\ call[w].key \in Batch /\ call[w].own \in Sum
    <3>1. call[w].at # "none" BY <1>16, Zenon DEF tied_grad
    <3>2. <<call[w].group, call[w].to>> \in thread[w].todo BY <3>1 DEF Calls, CallsOf
    <3> QED BY <3>2, ThreadTypes
  <2>2. call[w].group \in Group /\ call[w].to \in Slice BY <2>1
  <2>3. [from |-> w, own |-> call[w].own] \in Entry BY <2>1 DEF Entry
  <2>4. grads' \in [Slice -> [Group -> [Batch -> Seq(Entry)]]]
    <3> DEFINE to == call[w].to
               group == call[w].group
               key == call[w].key
               entry == [from |-> w, own |-> call[w].own]
               sent == Append(grads[to][group][key], entry)
    <3>1. grads' = [grads EXCEPT ![to][group][key] = sent] BY <1>16, Zenon DEF tied_grad
    <3>2. to \in Slice /\ group \in Group /\ key \in Batch /\ entry \in Entry
      BY <2>1, <2>2, <2>3
    <3> HIDE DEF to, group, key, entry
    <3>3. grads[to][group][key] \in Seq(Entry) BY <3>2 DEF Types
    <3>4. sent \in Seq(Entry) BY <3>2, <3>3
    <3> HIDE DEF sent
    <3>5. grads \in [Slice -> [Group -> [Batch -> Seq(Entry)]]] BY DEF Types
    <3> QED BY ONLY <3>1, <3>2, <3>4, <3>5, Change
  <2>5. /\ call' = [call EXCEPT ![w].at = "done"]
        /\ UNCHANGED <<coordinator, token, chain, thread, sum, value, history>>
    BY <1>16, Zenon DEF tied_grad
  <2>6. call' \in [Slice -> CallState] BY <2>5, CallAt
  <2> QED BY <2>4, <2>5, <2>6 DEF Types
<1>17. ASSUME NEW w \in Slice, tied_update(w) PROVE Types'
  <2>1. <<call[w].group, call[w].to>> \in Group \X Slice /\ call[w].val \in Nat \X Nat
    BY <1>17, ThreadTypes DEF tied_update, Calls, CallsOf
  <2>2. call[w].group \in Group /\ call[w].to \in Slice BY <2>1
  <2>3. value' \in [Slice -> [Group -> Nat \X Nat]] BY <1>17, <2>1, <2>2 DEF Types, tied_update
  <2>4. call' \in [Slice -> CallState] BY <1>17, CallAt DEF tied_update
  <2> QED BY <1>17, <2>3, <2>4 DEF Types, tied_update
<1>18. ASSUME NEW w \in Slice, CallReturns(w) PROVE Types'
  <2>1. call' \in [Slice -> CallState] BY <1>18, CallAt DEF CallReturns
  <2>2. thread' \in [Slice -> ThreadState]
    <3>1. thread[w].todo \ {<<call[w].group, call[w].to>>} \in SUBSET (Group \X Slice)
      BY ThreadTypes
    <3>2. thread' = [thread EXCEPT ![w].todo = thread[w].todo \ {<<call[w].group, call[w].to>>}]
      BY <1>18 DEF CallReturns
    <3> QED BY <3>1, <3>2, TodoTypes
  <2> QED BY <1>18, <2>1, <2>2 DEF Types, CallReturns
<1>19. ASSUME NEW w \in Slice, CallFails(w) PROVE Types'
  <2>1. call' \in [Slice -> CallState] BY <1>19, CallAt DEF CallFails
  <2> QED BY <1>19, <2>1, Idling DEF Types, CallFails
<1>20. CASE UNCHANGED vars BY <1>20 DEF Types, vars
<1> QED
  BY <1>1, <1>2, <1>3, <1>4, <1>5, <1>6, <1>7, <1>8, <1>9, <1>10, <1>11, <1>12, <1>13, <1>14,
     <1>15, <1>16, <1>17, <1>18, <1>19, <1>20 DEF Next, Initialise, Thread, Handler, Ended

--------------------
(* Rounds, the chain and the tasks. *)

\* The steps that change neither tokens nor the chain's counters.
Aside(w) ==
  \/ EndBackward(w) \/ SendGrad(w) \/ StartWaiting(w) \/ CollectGrads(w) \/ Optimize(w)
  \/ SendUpdate(w) \/ StartReply(w) \/ CallReturns(w) \/ Handler(w) \/ WaitTimesOut(w) \/ CallFails(w)

LEMMA AsideUnchanged ==
  ASSUME NEW w \in Slice, Aside(w)
  PROVE  UNCHANGED <<round, next, init, token, chain, cut>>
<1> USE DEF coordinator, chain, history
<1>1. CASE Handler(w)
  <2>1. ASSUME tied_grad(w) PROVE UNCHANGED <<round, next, init, token, chain, cut>>
    BY <2>1, Zenon DEF tied_grad
  <2> QED BY <1>1, <2>1 DEF Handler, CheckToken, tied_update
<1>2. CASE Optimize(w) BY <1>2 DEF Optimize
<1>3. CASE EndBackward(w) \/ CollectGrads(w) BY <1>3 DEF EndBackward, CollectGrads
<1>4. CASE SendGrad(w) \/ StartWaiting(w) \/ SendUpdate(w) \/ StartReply(w) \/ CallReturns(w)
  BY <1>4 DEF SendGrad, StartWaiting, SendUpdate, StartReply, CallReturns
<1>5. CASE WaitTimesOut(w) \/ CallFails(w) BY <1>5 DEF WaitTimesOut, CallFails
<1> QED BY <1>1, <1>2, <1>3, <1>4, <1>5 DEF Aside

LEMMA Cases ==
  ASSUME [Next]_vars
  PROVE  \/ \E w \in Slice : \/ Reset(w) \/ ConfigureTied(w) \/ Forward(w) \/ BeginBackward(w)
                             \/ SendBackward(w) \/ Aside(w)
         \/ NewRound \/ UNCHANGED vars
BY DEF Next, Initialise, Thread, Aside, Ended

LEMMA InitOrder == Init => Tokens /\ Chain /\ Tasks /\ Calls
<1> SUFFICES ASSUME Init PROVE Tokens /\ Chain /\ Tasks /\ Calls
  OBVIOUS
<1>1. Tokens
  <2>1. \A w \in Slice : token[w] = 0 /\ w \in Nat BY Sizes DEF Init
  <2>2. \A r \in Round : fwd[r][0] = 0 BY Sizes DEF Init
  <2> QED BY <2>1, <2>2 DEF Init, Tokens
<1>2. Chain
  <2>1. \A r \in Round : \A w \in Slice : fwd[r][w] = 0 /\ begun[r][w] = 0 /\ bwd[r][w] = 0
    BY DEF Init
  <2>2. 0 <= NumBatches * NumMicro /\ 0 \in Slice BY Sizes, TiedAssumption
  <2> QED BY <2>1, <2>2 DEF Chain
<1>3. Tasks /\ Calls
  <2>1. \A w \in Slice : thread[w].at = "idle" /\ token[w] = 0 /\ call[w].at = "none"
    BY DEF Init, Idle, NoCall
  <2> QED BY <2>1 DEF Tasks, Calls, CallsOf
<1> QED BY <1>1, <1>2, <1>3

LEMMA TokensKept ==
  ASSUME Types, Tokens, Chain, Tasks, [Next]_vars
  PROVE  Tokens'
<1> USE DEF coordinator, chain, history
<1>1. /\ round \in Nat /\ next \in Nat /\ next <= NumSlices /\ NumSlices \in Nat
      /\ \A v \in Slice : v \in Nat /\ v < NumSlices
      /\ \A r \in Round : r \in Nat
  BY Sizes DEF Types
<1>2. ASSUME NEW w \in Slice, Reset(w) PROVE Tokens'
  <2>1. /\ next = w /\ init = "reset" /\ init' = "tie" /\ next' = next /\ round' = round /\ fwd' = fwd
        /\ token'[w] = 0 /\ \A v \in Slice : v # w => token'[v] = token[v]
    BY <1>2 DEF Reset, Types
  <2> QED BY <1>1, <2>1 DEF Tokens
<1>3. ASSUME NEW w \in Slice, ConfigureTied(w) PROVE Tokens'
  <2>1. /\ next = w /\ init = "tie" /\ init' = "reset" /\ next' = next + 1 /\ round' = round /\ fwd' = fwd
        /\ token'[w] = round /\ \A v \in Slice : v # w => token'[v] = token[v]
    BY <1>3 DEF ConfigureTied, Types
  <2>2. ASSUME NEW v \in Slice PROVE token'[v] = IF v < next' THEN round ELSE round - 1
    <3>1. v \in Nat /\ w \in Nat BY <1>1
    <3>2. CASE v = w BY <2>1, <3>1, <3>2
    <3>3. CASE v # w
      <4>1. token'[v] = IF v < w THEN round ELSE round - 1 BY <2>1, <3>3 DEF Tokens
      <4>2. v < w <=> v < next' BY <2>1, <3>1, <3>3
      <4> QED BY <4>1, <4>2
    <3> QED BY <3>2, <3>3
  <2>3. next < NumSlices BY <1>1, <2>1
  <2> QED BY <1>1, <2>1, <2>2, <2>3 DEF Tokens
<1>4. CASE NewRound
  <2>1. /\ next = NumSlices /\ init = "reset" /\ init' = init /\ next' = 0 /\ round' = round + 1
        /\ fwd' = fwd /\ token' = token
    BY <1>4 DEF NewRound, Tokens
  <2>2. \A v \in Slice : token[v] = round BY <1>1, <2>1 DEF Tokens
  <2> QED BY <1>1, <2>1, <2>2 DEF Tokens
<1>5. ASSUME NEW w \in Slice, Forward(w) PROVE Tokens'
  <2>1. /\ token[w] \in Round /\ fwd' = [fwd EXCEPT ![token[w]][w] = @ + 1]
        /\ w = 0 => token[w] = round /\ next = NumSlices
    BY <1>5, Fed0 DEF Forward
  <2>2. UNCHANGED <<round, next, init, token>> BY <1>5 DEF Forward
  <2>3. \A r \in Round : r # token[w] \/ w # 0 => fwd'[r][0] = fwd[r][0]
    BY <2>1, Sizes DEF Types
  <2>4. \A r \in Round : r > round \/ (r = round /\ next < NumSlices) => fwd'[r][0] = 0
    <3>1. ASSUME NEW r \in Round, r > round \/ (r = round /\ next < NumSlices) PROVE fwd'[r][0] = 0
      BY <1>1, <2>1, <2>3, <3>1 DEF Tokens
    <3> QED BY <3>1
  <2> QED BY <2>2, <2>4 DEF Tokens
<1>6. ASSUME NEW w \in Slice, BeginBackward(w) PROVE Tokens'
  <2>1. UNCHANGED <<round, next, init, token>> BY <1>6 DEF BeginBackward
  <2>2. \A r \in Round : fwd'[r][0] = fwd[r][0]
    <3>1. LastSlice # 0 /\ LastSlice \in Slice /\ 0 \in Slice BY Sizes DEF LastSlice
    <3>2. w = LastSlice => token[w] \in Round BY <1>6, InTurn DEF BeginBackward, Arrived
    <3> QED BY <1>6, <3>1, <3>2 DEF BeginBackward, Types
  <2> QED BY <2>1, <2>2 DEF Tokens
<1>7. ASSUME NEW w \in Slice, SendBackward(w) \/ Aside(w) PROVE Tokens'
  <2>1. UNCHANGED <<round, next, init, token, fwd>> BY <1>7, AsideUnchanged DEF SendBackward
  <2> QED BY <2>1 DEF Tokens
<1>8. CASE UNCHANGED vars BY <1>8 DEF Tokens, vars
<1> QED BY <1>2, <1>3, <1>4, <1>5, <1>6, <1>7, <1>8, Cases

LEMMA ChainKept ==
  ASSUME Types, Tokens, Chain, Tasks, [Next]_vars
  PROVE  Chain'
<1> USE DEF coordinator, chain, history
<1>1. /\ \A v \in Slice : v \in Nat /\ v <= LastSlice
      /\ LastSlice \in Slice /\ LastSlice # 0 /\ 0 \in Slice
  BY Sizes DEF LastSlice
<1>2. \A r \in Round : \A v \in Slice : fwd[r][v] \in Nat /\ begun[r][v] \in Nat /\ bwd[r][v] \in Nat
  BY ChainTypes
<1>3. ASSUME NEW w \in Slice, Forward(w) PROVE Chain'
  <2> DEFINE s == token[w]
  <2>1. /\ s \in Round /\ begun' = begun /\ bwd' = bwd
        /\ w = 0 => fwd[s][w] < NumBatches * NumMicro /\ Key(fwd[s][w]) <= Key(bwd[s][w])
        /\ w # 0 => w - 1 \in Slice /\ fwd[s][w] < fwd[s][w - 1]
    BY <1>3, Fed0 DEF Forward
  <2>2. /\ fwd'[s][w] = fwd[s][w] + 1
        /\ \A r \in Round : \A v \in Slice : r # s \/ v # w => fwd'[r][v] = fwd[r][v]
    BY <1>3, <2>1 DEF Forward, Types
  <2> HIDE DEF s
  <2>3. ASSUME NEW r \in Round, NEW v \in Slice, NEW u \in Slice, v < u PROVE fwd'[r][u] <= fwd'[r][v]
    <3>1. fwd[r][u] <= fwd[r][v] BY <2>3 DEF Chain
    <3>2. r = s /\ u = w => fwd[r][u] < fwd[r][v]
      <4> SUFFICES ASSUME r = s, u = w PROVE fwd[r][u] < fwd[r][v]
        OBVIOUS
      <4>1. w # 0 /\ w - 1 \in Slice /\ (v = w - 1 \/ v < w - 1) BY <1>1, <2>1, <2>3
      <4>2. v < w - 1 => fwd[r][w - 1] <= fwd[r][v] BY <4>1 DEF Chain
      <4> QED BY <1>2, <2>1, <4>1, <4>2
    <3>3. v # u BY <1>1, <2>3
    <3> QED BY <1>2, <2>2, <3>1, <3>2, <3>3
  <2>4. ASSUME NEW r \in Round, NEW v \in Slice PROVE begun[r][v] <= fwd'[r][v]
    <3>1. begun[r][v] <= fwd[r][v] BY DEF Chain
    <3> QED BY <1>2, <2>2, <3>1
  <2>5. ASSUME NEW r \in Round
        PROVE  /\ fwd'[r][0] <= NumBatches * NumMicro
               /\ fwd'[r][0] # 0 => Key(fwd'[r][0] - 1) <= Key(bwd[r][0])
    <3>1. CASE r = s /\ w = 0
      <4>1. NumBatches * NumMicro \in Nat /\ fwd'[r][0] - 1 = fwd[s][w]
        BY <1>2, <2>2, <2>1, <3>1, TiedAssumption
      <4> QED BY <1>2, <2>1, <2>2, <3>1, <4>1
    <3>2. CASE ~(r = s /\ w = 0) BY <1>1, <2>2, <3>2 DEF Chain
    <3> QED BY <3>1, <3>2
  <2> QED BY <2>1, <2>3, <2>4, <2>5 DEF Chain
<1>4. ASSUME NEW w \in Slice, BeginBackward(w) PROVE Chain'
  <2> DEFINE s == token[w]
  <2>1. /\ s \in Round
        /\ \A v \in Slice : w < v => begun[s][w] < bwd[s][v]
        /\ w = LastSlice => fwd[s][w] < fwd[s][w - 1] /\ w - 1 \in Slice
        /\ w # LastSlice => begun[s][w] < fwd[s][w]
    BY <1>4, InTurn DEF BeginBackward, Arrived
  <2>2. /\ begun'[s][w] = begun[s][w] + 1 /\ bwd' = bwd
        /\ \A r \in Round : \A v \in Slice : r # s \/ v # w => begun'[r][v] = begun[r][v]
        /\ \A r \in Round : \A v \in Slice :
             fwd'[r][v] = IF w = LastSlice /\ r = s /\ v = w THEN fwd[r][v] + 1 ELSE fwd[r][v]
    BY <1>4, <2>1 DEF BeginBackward, Types
  <2> HIDE DEF s
  <2>3. ASSUME NEW r \in Round, NEW v \in Slice, NEW u \in Slice, v < u
        PROVE  fwd'[r][u] <= fwd'[r][v] /\ begun'[r][v] <= bwd[r][u]
    <3>1. fwd[r][u] <= fwd[r][v] /\ begun[r][v] <= bwd[r][u] BY <2>3 DEF Chain
    <3>2. r = s /\ u = w /\ w = LastSlice => fwd[r][u] < fwd[r][v]
      <4> SUFFICES ASSUME r = s, u = w, w = LastSlice PROVE fwd[r][u] < fwd[r][v]
        OBVIOUS
      <4>1. v = w - 1 \/ v < w - 1 BY <1>1, <2>1, <2>3
      <4>2. v < w - 1 => fwd[r][w - 1] <= fwd[r][v] BY <2>1, <4>1 DEF Chain
      <4> QED BY <1>2, <2>1, <4>1, <4>2
    <3>3. v # u /\ v # LastSlice BY <1>1, <2>3
    <3>4. fwd'[r][u] <= fwd'[r][v] BY <1>2, <2>2, <3>1, <3>2, <3>3
    <3>5. begun'[r][v] <= bwd[r][u] BY <1>2, <2>1, <2>2, <2>3, <3>1
    <3> QED BY <3>4, <3>5
  <2>4. ASSUME NEW r \in Round, NEW v \in Slice PROVE bwd[r][v] <= begun'[r][v] /\ begun'[r][v] <= fwd'[r][v]
    <3>1. bwd[r][v] <= begun[r][v] /\ begun[r][v] <= fwd[r][v] BY DEF Chain
    <3> QED BY <1>2, <2>1, <2>2, <3>1
  <2>5. \A r \in Round : fwd'[r][0] = fwd[r][0] BY <1>1, <2>2
  <2>6. ASSUME NEW r \in Round
        PROVE  /\ fwd'[r][0] <= NumBatches * NumMicro
               /\ fwd'[r][0] # 0 => Key(fwd'[r][0] - 1) <= Key(bwd[r][0])
    BY <2>5 DEF Chain
  <2> QED BY <2>2, <2>3, <2>4, <2>6 DEF Chain
<1>5. ASSUME NEW w \in Slice, SendBackward(w) PROVE Chain'
  <2> DEFINE s == token[w]
  <2>1. CASE thread[w].gen # s
    <3>1. UNCHANGED chain BY <1>5, <2>1 DEF SendBackward
    <3> QED BY <3>1 DEF Chain
  <2>2. CASE thread[w].gen = s
    <3>1. s \in Round /\ begun[s][w] = bwd[s][w] + 1 BY <1>5, <2>2, OnTask DEF SendBackward
    <3>2. /\ bwd'[s][w] = bwd[s][w] + 1 /\ begun' = begun /\ fwd' = fwd
          /\ \A r \in Round : \A v \in Slice : r # s \/ v # w => bwd'[r][v] = bwd[r][v]
      BY <1>5, <2>2, <3>1 DEF SendBackward, Types
    <3> HIDE DEF s
    <3>3. ASSUME NEW r \in Round, NEW v \in Slice
          PROVE  bwd[r][v] <= bwd'[r][v] /\ bwd'[r][v] <= begun[r][v] /\ bwd'[r][v] \in Nat
      <4>1. bwd[r][v] <= begun[r][v] BY DEF Chain
      <4> QED BY <1>2, <3>1, <3>2, <4>1
    <3>4. ASSUME NEW r \in Round, NEW v \in Slice, NEW u \in Slice, v < u
          PROVE  fwd[r][u] <= fwd[r][v] /\ begun[r][v] <= bwd'[r][u]
      <4>1. fwd[r][u] <= fwd[r][v] /\ begun[r][v] <= bwd[r][u] BY <3>4 DEF Chain
      <4>2. bwd[r][u] <= bwd'[r][u] /\ bwd'[r][u] \in Nat BY <3>3
      <4> QED BY <1>2, <4>1, <4>2
    <3>5. ASSUME NEW r \in Round, fwd[r][0] # 0 PROVE Key(fwd[r][0] - 1) <= Key(bwd'[r][0])
      <4>1. Key(fwd[r][0] - 1) <= Key(bwd[r][0]) BY <3>5 DEF Chain
      <4>2. bwd[r][0] \in Nat /\ bwd'[r][0] \in Nat /\ bwd[r][0] <= bwd'[r][0] /\ fwd[r][0] - 1 \in Nat
        BY <1>1, <1>2, <3>3, <3>5
      <4>3. Key(bwd[r][0]) <= Key(bwd'[r][0]) BY <4>2, KeyMono
      <4>4. Key(fwd[r][0] - 1) \in Nat /\ Key(bwd[r][0]) \in Nat /\ Key(bwd'[r][0]) \in Nat
        BY <4>2, DivMod
      <4> QED BY <4>1, <4>3, <4>4
    <3> QED BY <3>2, <3>3, <3>4, <3>5 DEF Chain
  <2> QED BY <2>1, <2>2
<1>6. ASSUME NEW w \in Slice, Reset(w) \/ ConfigureTied(w) \/ Aside(w) PROVE Chain'
  <2>1. UNCHANGED chain BY <1>6, AsideUnchanged DEF Reset, ConfigureTied
  <2> QED BY <2>1 DEF Chain
<1>7. CASE NewRound \/ UNCHANGED vars
  <2>1. UNCHANGED chain BY <1>7 DEF NewRound, vars
  <2> QED BY <2>1 DEF Chain
<1> QED BY <1>3, <1>4, <1>5, <1>6, <1>7, Cases

\* A thread that goes on with its task, or drops the last of a batch.
GoesOn(w) ==
  /\ \A v \in Slice : v # w => thread'[v] = thread[v]
  /\ thread'[w].gen = thread[w].gen /\ thread'[w].id = thread[w].id
  /\ thread[w].at # "idle" /\ thread'[w].at # "idle"
  /\ thread'[w].at \in {"send", "wait", "push"} =>
       /\ IsLastMicro(thread[w].id)
       /\ \/ thread'[w].cfg = token[w]
          \/ thread'[w].cfg = thread[w].cfg /\ thread[w].at \in {"send", "wait", "push"}

Drops(w) ==
  /\ \A v \in Slice : v # w => thread'[v] = thread[v]
  /\ thread'[w] = Idle /\ thread[w].at # "idle" /\ IsLastMicro(thread[w].id)

LEMMA AsideGoesOn ==
  ASSUME Types, Tasks, Calls, NEW w \in Slice, Aside(w)
  PROVE  thread' = thread \/ GoesOn(w) \/ Drops(w)
<1> USE DEF coordinator, chain, history
<1>1. thread \in [Slice -> ThreadState] /\ thread[w] \in ThreadState BY DEF Types
<1>2. thread[w].at \in {"send", "wait", "push"} => IsLastMicro(thread[w].id) BY DEF Tasks
<1>3. call[w].at # "none" => thread[w].at \in {"send", "push"} BY DEF Calls, CallsOf
<1>4. CASE Handler(w)
  <2>1. ASSUME tied_grad(w) PROVE thread' = thread
    BY <2>1, Zenon DEF tied_grad
  <2> QED BY <1>4, <2>1 DEF Handler, CheckToken, tied_update
<1>5. CASE SendGrad(w) \/ SendUpdate(w) BY <1>5 DEF SendGrad, SendUpdate
<1>6. CASE EndBackward(w)
  <2> DEFINE t == IF ~IsLastMicro(thread[w].id) THEN [thread[w] EXCEPT !.at = "reply"]
                  ELSE [thread[w] EXCEPT !.at = "send", !.cfg = token[w],
                             !.todo = IF token[w] = 0 THEN {} ELSE ToSend(w),
                             !.own = IF thread[w].gen = token[w] THEN sum'[w] ELSE {},
                             !.val = value[w]]
  <2>1. thread' = [thread EXCEPT ![w] = t] /\ thread[w].at = "backward" BY <1>6 DEF EndBackward
  <2>2. /\ t.gen = thread[w].gen /\ t.id = thread[w].id
        /\ t.at = IF ~IsLastMicro(thread[w].id) THEN "reply" ELSE "send"
        /\ t.at = "send" => t.cfg = token[w]
    BY <1>1 DEF ThreadState
  <2> HIDE DEF t
  <2> QED BY <1>1, <2>1, <2>2 DEF GoesOn
<1>7. CASE StartWaiting(w)
  <2>1. /\ thread[w].at = "send"
        /\ \A v \in Slice : v # w => thread'[v] = thread[v]
        /\ thread'[w].gen = thread[w].gen /\ thread'[w].id = thread[w].id /\ thread'[w].at = "wait"
        /\ thread'[w].cfg = thread[w].cfg
    BY <1>1, <1>7 DEF StartWaiting, ThreadState
  <2> QED BY <1>2, <2>1 DEF GoesOn
<1>8. CASE CollectGrads(w)
  <2>1. thread[w].at = "wait" /\ \E d : thread' = [thread EXCEPT ![w].todo = d]
    BY <1>8 DEF CollectGrads
  <2> QED BY <1>1, <1>2, <2>1 DEF GoesOn, ThreadState
<1>9. CASE Optimize(w)
  <2>1. thread[w].at = "wait" BY <1>9 DEF Optimize
  <2>2. CASE token[w] = 0
    <3>1. thread' = [thread EXCEPT ![w] = Idle] BY <1>9, <2>2 DEF Optimize
    <3> QED BY <1>1, <1>2, <2>1, <3>1 DEF Drops
  <2>3. CASE token[w] # 0
    <3> DEFINE new == [g \in Group |->
                   IF \E p \in ToCollect(w) : p[1] = g
                   THEN <<value[w][g][1], value[w][g][2] + 1>> ELSE value[w][g]]
               val == IF thread[w].cfg = token[w] THEN new ELSE thread[w].val
               todo == IF thread[w].cfg = 0 THEN {} ELSE ToPush(w)
    <3>1. thread' = [thread EXCEPT ![w] = [thread[w] EXCEPT !.at = "push", !.val = val, !.todo = todo]]
      BY <1>9, <2>3 DEF Optimize
    <3> HIDE DEF val, todo
    <3> QED BY <1>1, <1>2, <2>1, <3>1 DEF GoesOn, ThreadState
  <2> QED BY <2>2, <2>3
<1>10. CASE StartReply(w)
  <2>1. thread[w].at = "push" /\ thread' = [thread EXCEPT ![w].at = "reply"]
    BY <1>10 DEF StartReply
  <2> QED BY <1>1, <2>1 DEF GoesOn, ThreadState
<1>11. CASE CallReturns(w)
  <2>1. /\ thread[w].at \in {"send", "push"}
        /\ \E d : thread' = [thread EXCEPT ![w].todo = d]
    BY <1>3, <1>11 DEF CallReturns
  <2> QED BY <1>1, <1>2, <2>1 DEF GoesOn, ThreadState
<1>12. CASE WaitTimesOut(w) \/ CallFails(w)
  <2>1. thread[w].at \in {"send", "wait", "push"} /\ thread' = [thread EXCEPT ![w] = Idle]
    BY <1>3, <1>12 DEF WaitTimesOut, CallFails
  <2> QED BY <1>1, <1>2, <2>1 DEF Drops
<1> QED BY <1>4, <1>5, <1>6, <1>7, <1>8, <1>9, <1>10, <1>11, <1>12 DEF Aside

LEMMA TasksKept ==
  ASSUME Types, Tokens, Chain, Tasks, Calls, [Next]_vars
  PROVE  Tasks'
<1> USE DEF coordinator, chain, history
<1>1. \A r \in Round : \A v \in Slice : begun[r][v] \in Nat /\ bwd[r][v] \in Nat BY ChainTypes
<1>2. thread \in [Slice -> ThreadState] /\ token \in [Slice -> 0 .. MaxRounds] BY DEF Types
<1>3. ASSUME NEW w \in Slice, Reset(w) PROVE Tasks'
  <2>1. /\ UNCHANGED <<thread, begun, bwd>> /\ token'[w] = 0
        /\ \A v \in Slice : v # w => token'[v] = token[v]
    BY <1>2, <1>3 DEF Reset
  <2>2. \A v \in Slice : thread[v].at # "idle" => thread[v].gen # 0 BY Sizes DEF Tasks
  <2> QED BY <2>1, <2>2 DEF Tasks
<1>4. ASSUME NEW w \in Slice, ConfigureTied(w) PROVE Tasks'
  <2>1. /\ UNCHANGED <<thread, begun, bwd>> /\ token'[w] = round
        /\ \A v \in Slice : v # w => token'[v] = token[v]
    BY <1>2, <1>4 DEF ConfigureTied
  <2>2. next < NumSlices BY <1>4, Sizes DEF ConfigureTied
  <2>3. begun[round][w] = 0 /\ bwd[round][w] = 0 /\ (thread[w].at # "idle" => thread[w].gen # round)
    BY <2>2, NothingYet
  <2> QED BY <2>1, <2>3 DEF Tasks
<1>5. ASSUME NEW w \in Slice, BeginBackward(w) PROVE Tasks'
  <2> DEFINE s == token[w]
  <2>1. s \in Round /\ begun[s][w] = bwd[s][w] BY <1>5, InTurn DEF BeginBackward, Arrived
  <2>2. /\ thread' = [thread EXCEPT ![w] = [Idle EXCEPT !.at = "backward", !.gen = s, !.id = begun[s][w]]]
        /\ begun' = [begun EXCEPT ![s][w] = @ + 1] /\ UNCHANGED <<bwd, token>>
    BY <1>5 DEF BeginBackward
  <2>3. /\ thread'[w].at = "backward" /\ thread'[w].gen = s /\ thread'[w].id = begun[s][w]
        /\ \A v \in Slice : v # w => thread'[v] = thread[v]
    BY <1>2, <2>2 DEF Idle
  <2>4. /\ begun'[s][w] = begun[s][w] + 1
        /\ \A r \in Round : \A v \in Slice : r # s \/ v # w => begun'[r][v] = begun[r][v]
    BY <2>1, <2>2 DEF Types
  <2> HIDE DEF s
  <2>5. ASSUME NEW v \in Slice, v # w PROVE \A r \in Round : begun'[r][v] = begun[r][v]
    BY <2>4, <2>5
  <2>6. ASSUME NEW v \in Slice, v # w, thread[v].at # "idle"
        PROVE  thread[v].gen \in Round /\ begun'[thread[v].gen][v] = begun[thread[v].gen][v]
    BY <2>5, <2>6 DEF Tasks
  <2>7. \A v \in Slice : token[v] # 0 => token[v] \in Round BY <1>2, Sizes DEF Round
  <2>8. ASSUME NEW v \in Slice, v # w, token[v] # 0 PROVE begun'[token[v]][v] = begun[token[v]][v]
    BY <2>5, <2>7, <2>8
  <2>9. \A v \in Slice : thread'[v].at # "idle" =>
          /\ thread'[v].gen \in Round /\ thread'[v].id < begun'[thread'[v].gen][v]
          /\ thread'[v].at \in {"send", "wait", "push"} => IsLastMicro(thread'[v].id)
          /\ thread'[v].gen = token[v] =>
               begun'[token[v]][v] = bwd[token[v]][v] + 1 /\ thread'[v].id = bwd[token[v]][v]
    <3>1. ASSUME NEW v \in Slice, thread'[v].at # "idle"
          PROVE  /\ thread'[v].gen \in Round /\ thread'[v].id < begun'[thread'[v].gen][v]
                 /\ thread'[v].at \in {"send", "wait", "push"} => IsLastMicro(thread'[v].id)
                 /\ thread'[v].gen = token[v] =>
                      begun'[token[v]][v] = bwd[token[v]][v] + 1 /\ thread'[v].id = bwd[token[v]][v]
      <4>1. CASE v = w BY <1>1, <2>1, <2>3, <2>4, <4>1 DEF s
      <4>2. CASE v # w BY <2>3, <2>6, <3>1, <4>2 DEF Tasks
      <4> QED BY <4>1, <4>2
    <3> QED BY <3>1
  <2>10. \A v \in Slice : token[v] # 0 /\ (thread'[v].at = "idle" \/ thread'[v].gen # token[v]) =>
          \/ begun'[token[v]][v] = bwd[token[v]][v]
          \/ begun'[token[v]][v] = bwd[token[v]][v] + 1 /\ IsLastMicro(bwd[token[v]][v])
    BY <2>3, <2>8 DEF Tasks, s
  <2> QED BY <2>2, <2>9, <2>10 DEF Tasks
<1>6. ASSUME NEW w \in Slice, SendBackward(w) PROVE Tasks'
  <2>1. /\ thread'[w].at = "idle" /\ \A v \in Slice : v # w => thread'[v] = thread[v]
        /\ begun' = begun /\ token' = token /\ thread[w].at = "reply"
        /\ bwd' = IF thread[w].gen = token[w] THEN [bwd EXCEPT ![thread[w].gen][w] = @ + 1] ELSE bwd
    BY <1>2, <1>6 DEF SendBackward, Idle
  <2>2. /\ \A r \in Round : \A v \in Slice : v # w => bwd'[r][v] = bwd[r][v]
        /\ thread[w].gen = token[w] => bwd'[token[w]][w] = begun[token[w]][w]
        /\ thread[w].gen # token[w] => bwd' = bwd
    BY <1>1, <2>1 DEF Types, Tasks
  <2>3. \A v \in Slice : token[v] # 0 => token[v] \in Round BY <1>2, Sizes DEF Round
  <2> QED BY <2>1, <2>2, <2>3 DEF Tasks
<1>7. ASSUME NEW w \in Slice, Aside(w) PROVE Tasks'
  <2>1. UNCHANGED <<token, begun, bwd>> BY <1>7, AsideUnchanged
  <2>2. thread' = thread \/ GoesOn(w) \/ Drops(w) BY <1>7, AsideGoesOn
  <2>3. CASE thread' = thread BY <2>1, <2>3 DEF Tasks
  <2>4. CASE GoesOn(w)
    <3>1. /\ thread'[w].gen = thread[w].gen /\ thread'[w].id = thread[w].id /\ thread[w].at # "idle"
          /\ thread'[w].at \in {"send", "wait", "push"} => IsLastMicro(thread[w].id)
          /\ \A v \in Slice : v # w => thread'[v] = thread[v]
      BY <2>4 DEF GoesOn
    <3>2. thread[w].gen = token[w] =>
            begun[token[w]][w] = bwd[token[w]][w] + 1 /\ thread[w].id = bwd[token[w]][w]
      BY <3>1 DEF Tasks
    <3>3. thread[w].gen # token[w] /\ token[w] # 0 =>
            \/ begun[token[w]][w] = bwd[token[w]][w]
            \/ begun[token[w]][w] = bwd[token[w]][w] + 1 /\ IsLastMicro(bwd[token[w]][w])
      BY DEF Tasks
    <3>4. thread[w].gen \in Round /\ thread[w].id < begun[thread[w].gen][w] BY <3>1 DEF Tasks
    <3>5. thread'[w].at # "idle" BY <2>4 DEF GoesOn
    <3> QED BY <2>1, <3>1, <3>2, <3>3, <3>4, <3>5 DEF Tasks
  <2>5. CASE Drops(w) BY <2>1, <2>5 DEF Tasks, Drops, Idle
  <2> QED BY <2>2, <2>3, <2>4, <2>5
<1>8. ASSUME NEW w \in Slice, Forward(w) PROVE Tasks'
  BY <1>8 DEF Forward, Tasks
<1>9. CASE NewRound \/ UNCHANGED vars BY <1>9 DEF NewRound, Tasks, vars
<1> QED BY <1>3, <1>4, <1>5, <1>6, <1>7, <1>8, <1>9, Cases

LEMMA CallFacts ==
  ASSUME Types, NEW w \in Slice, NEW kind, thread[w].todo # {},
         Call(w, kind, Earliest(thread[w].todo), thread[w])
  PROVE  /\ call'[w].at = "sent" /\ call'[w].kind = kind /\ call'[w].token = token[w]
         /\ <<call'[w].group, call'[w].to>> \in thread[w].todo
         /\ call'[w].key = Key(thread[w].id) /\ call'[w].own = thread[w].own
         /\ call'[w].val = thread[w].val[call'[w].group]
         /\ \A v \in Slice : v # w => call'[v] = call[v]
<1> DEFINE pair == Earliest(thread[w].todo)
<1>1. pair \in thread[w].todo /\ thread[w].todo \in SUBSET (Group \X Slice)
  BY EarliestIn, ThreadTypes
<1>2. <<pair[1], pair[2]>> \in thread[w].todo BY <1>1
<1>3. call' = [call EXCEPT ![w] =
                [at |-> "sent", kind |-> kind, group |-> pair[1], to |-> pair[2], token |-> token[w],
                 key |-> Key(thread[w].id), own |-> thread[w].own, val |-> thread[w].val[pair[1]]]]
  BY DEF Call
<1> HIDE DEF pair
<1> QED BY <1>2, <1>3 DEF Types

LEMMA CallsKept ==
  ASSUME Types, Calls, [Next]_vars
  PROVE  Calls'
<1> USE DEF coordinator, chain, history
<1>1. \A v \in Slice : CallsOf(thread[v], call[v], v) BY DEF Calls
<1>2. thread \in [Slice -> ThreadState] /\ call \in [Slice -> CallState] BY DEF Types
<1>3. ASSUME NEW w \in Slice, \A v \in Slice : v # w => thread'[v] = thread[v] /\ call'[v] = call[v],
             CallsOf(thread'[w], call'[w], w)
      PROVE  Calls'
  <2>1. ASSUME NEW v \in Slice PROVE CallsOf(thread'[v], call'[v], v)
    BY <1>1, <1>3
  <2> QED BY <2>1 DEF Calls
<1>4. ASSUME UNCHANGED <<thread, call>> PROVE Calls'
  BY <1>4 DEF Calls
<1> USE DEF CallsOf
<1>5. ASSUME NEW w \in Slice, Reset(w) \/ ConfigureTied(w) \/ Forward(w) PROVE Calls'
  BY <1>4, <1>5 DEF Reset, ConfigureTied, Forward
<1>6. ASSUME NEW w \in Slice, BeginBackward(w) PROVE Calls'
  <2>1. /\ thread'[w].at = "backward" /\ call' = call /\ \A v \in Slice : v # w => thread'[v] = thread[v]
        /\ thread[w].at = "idle"
    BY <1>2, <1>6 DEF BeginBackward, Idle
  <2>2. call[w].at = "none" BY <1>1, <2>1
  <2> QED BY <1>3, <2>1, <2>2
<1>7. ASSUME NEW w \in Slice, SendBackward(w) PROVE Calls'
  <2>1. /\ thread'[w].at = "idle" /\ call' = call /\ \A v \in Slice : v # w => thread'[v] = thread[v]
        /\ thread[w].at = "reply"
    BY <1>2, <1>7 DEF SendBackward, Idle
  <2>2. call[w].at = "none" BY <1>1, <2>1
  <2> QED BY <1>3, <2>1, <2>2
<1>8. ASSUME NEW w \in Slice, EndBackward(w) PROVE Calls'
  <2> DEFINE todo == IF token[w] = 0 THEN {} ELSE ToSend(w)
             own == IF thread[w].gen = token[w] THEN sum'[w] ELSE {}
             t == IF ~IsLastMicro(thread[w].id) THEN [thread[w] EXCEPT !.at = "reply"]
                  ELSE [thread[w] EXCEPT !.at = "send", !.cfg = token[w], !.todo = todo, !.own = own,
                                         !.val = value[w]]
  <2>1. thread' = [thread EXCEPT ![w] = t] /\ thread[w].at = "backward" /\ call' = call
    BY <1>8 DEF EndBackward
  <2>2. t.at = "reply" \/ (t.at = "send" /\ t.todo = todo) BY <1>2 DEF ThreadState
  <2>3. todo \subseteq ToSend(w) /\ call[w].at = "none" BY <1>1, <2>1
  <2> HIDE DEF t, todo
  <2> QED BY <1>2, <1>3, <2>1, <2>2, <2>3
<1>9. ASSUME NEW w \in Slice, NEW kind \in {"grad", "update"}, Call(w, kind, Earliest(thread[w].todo), thread[w]),
             thread' = thread, thread[w].todo # {}, thread[w].at = IF kind = "grad" THEN "send" ELSE "push"
      PROVE  Calls'
  <2>1. /\ call'[w].at = "sent" /\ call'[w].kind = kind
        /\ <<call'[w].group, call'[w].to>> \in thread[w].todo
        /\ call'[w].key = Key(thread[w].id) /\ call'[w].own = thread[w].own
        /\ call'[w].val = thread[w].val[call'[w].group]
        /\ \A v \in Slice : v # w => call'[v] = call[v]
    BY <1>9, CallFacts
  <2>2. CallsOf(thread[w], call[w], w) BY <1>1
  <2>3. CallsOf(thread[w], call'[w], w)
    <3>1. CASE kind = "grad"
      <4>1. thread[w].at = "send" BY <1>9, <3>1
      <4> QED BY <2>1, <2>2, <3>1, <4>1
    <3>2. CASE kind = "update"
      <4>1. thread[w].at = "push" BY <1>9, <3>2
      <4> QED BY <2>1, <2>2, <3>2, <4>1
    <3> QED BY <3>1, <3>2
  <2> QED BY <1>3, <1>9, <2>1, <2>3
<1>10. ASSUME NEW w \in Slice, SendGrad(w) PROVE Calls'
  BY <1>9, <1>10 DEF SendGrad
<1>11. ASSUME NEW w \in Slice, SendUpdate(w) PROVE Calls'
  BY <1>9, <1>11 DEF SendUpdate
<1>12. ASSUME NEW w \in Slice, StartWaiting(w) PROVE Calls'
  <2> DEFINE todo == IF thread[w].cfg = 0 THEN {} ELSE ToCollect(w)
  <2>1. /\ thread' = [thread EXCEPT ![w].at = "wait", ![w].todo = todo]
        /\ thread[w].todo = {} /\ call' = call
    BY <1>12 DEF StartWaiting
  <2>2. call[w].at = "none" /\ todo \subseteq ToCollect(w) BY <1>1, <2>1
  <2> HIDE DEF todo
  <2>3. thread'[w].at = "wait" /\ thread'[w].todo = todo /\ \A v \in Slice : v # w => thread'[v] = thread[v]
    BY <1>2, <2>1 DEF ThreadState
  <2> QED BY <1>3, <2>1, <2>2, <2>3
<1>13. ASSUME NEW w \in Slice, CollectGrads(w) PROVE Calls'
  <2>1. /\ thread' = [thread EXCEPT ![w].todo = thread[w].todo \ {Earliest(thread[w].todo)}]
        /\ thread[w].at = "wait" /\ call' = call
    BY <1>13 DEF CollectGrads
  <2>2. /\ thread'[w].at = "wait" /\ thread'[w].todo \subseteq thread[w].todo
        /\ \A v \in Slice : v # w => thread'[v] = thread[v]
    BY <1>2, <2>1 DEF ThreadState
  <2>3. call[w].at = "none" /\ thread[w].todo \subseteq ToCollect(w) BY <1>1, <2>1
  <2> QED BY <1>3, <2>1, <2>2, <2>3
<1>14. ASSUME NEW w \in Slice, Optimize(w) PROVE Calls'
  <2>1. thread[w].at = "wait" /\ call' = call BY <1>14 DEF Optimize
  <2>2. call[w].at = "none" BY <1>1, <2>1
  <2>3. CASE token[w] = 0
    <3>1. thread'[w].at = "idle" /\ \A v \in Slice : v # w => thread'[v] = thread[v]
      BY <1>2, <1>14, <2>3 DEF Optimize, Idle
    <3> QED BY <1>3, <2>1, <2>2, <3>1
  <2>4. CASE token[w] # 0
    <3> DEFINE new == [g \in Group |->
                   IF \E p \in ToCollect(w) : p[1] = g
                   THEN <<value[w][g][1], value[w][g][2] + 1>> ELSE value[w][g]]
               val == IF thread[w].cfg = token[w] THEN new ELSE thread[w].val
               todo == IF thread[w].cfg = 0 THEN {} ELSE ToPush(w)
    <3>1. thread' = [thread EXCEPT ![w] = [thread[w] EXCEPT !.at = "push", !.val = val, !.todo = todo]]
      BY <1>14, <2>4 DEF Optimize
    <3>2. todo \subseteq ToPush(w) OBVIOUS
    <3> HIDE DEF val, todo
    <3>3. thread'[w].at = "push" /\ thread'[w].todo = todo /\ \A v \in Slice : v # w => thread'[v] = thread[v]
      BY <1>2, <3>1 DEF ThreadState
    <3> QED BY <1>3, <2>1, <2>2, <3>2, <3>3
  <2> QED BY <2>3, <2>4
<1>15. ASSUME NEW w \in Slice, StartReply(w) PROVE Calls'
  <2>1. /\ thread' = [thread EXCEPT ![w].at = "reply"] /\ thread[w].todo = {} /\ call' = call
    BY <1>15 DEF StartReply
  <2>2. call[w].at = "none" BY <1>1, <2>1
  <2>3. thread'[w].at = "reply" /\ \A v \in Slice : v # w => thread'[v] = thread[v]
    BY <1>2, <2>1 DEF ThreadState
  <2> QED BY <1>3, <2>1, <2>2, <2>3
<1>16. ASSUME NEW w \in Slice, NEW a \in {"checked", "done"}, call[w].at # "none",
              call' = [call EXCEPT ![w].at = a], thread' = thread
       PROVE  Calls'
  <2>1. /\ call'[w].at = a /\ call'[w].kind = call[w].kind /\ call'[w].group = call[w].group
        /\ call'[w].to = call[w].to /\ call'[w].key = call[w].key /\ call'[w].own = call[w].own
        /\ call'[w].val = call[w].val /\ \A v \in Slice : v # w => call'[v] = call[v]
    BY <1>2, <1>16 DEF CallState
  <2>2. CallsOf(thread[w], call'[w], w) BY <1>1, <1>16, <2>1
  <2> QED BY <1>3, <1>16, <2>1, <2>2
<1>17. ASSUME NEW w \in Slice, Handler(w) PROVE Calls'
  <2>1. CASE CheckToken(w)
    <3> DEFINE a == IF call[w].token = token[call[w].to] THEN "checked" ELSE "done"
    <3>1. call[w].at # "none" /\ call' = [call EXCEPT ![w].at = a] /\ thread' = thread
      BY <2>1 DEF CheckToken
    <3>2. a \in {"checked", "done"} OBVIOUS
    <3> HIDE DEF a
    <3> QED BY <1>16, <3>1, <3>2
  <2>2. CASE tied_grad(w)
    <3>1. call[w].at # "none" /\ call' = [call EXCEPT ![w].at = "done"] /\ thread' = thread
      BY <2>2, Zenon DEF tied_grad
    <3> QED BY <1>16, <3>1
  <2>3. CASE tied_update(w)
    <3>1. call[w].at # "none" /\ call' = [call EXCEPT ![w].at = "done"] /\ thread' = thread
      BY <2>3 DEF tied_update
    <3> QED BY <1>16, <3>1
  <2> QED BY <1>17, <2>1, <2>2, <2>3 DEF Handler
<1>18. ASSUME NEW w \in Slice, CallReturns(w) PROVE Calls'
  <2>1. /\ thread' = [thread EXCEPT ![w].todo = thread[w].todo \ {<<call[w].group, call[w].to>>}]
        /\ call' = [call EXCEPT ![w] = NoCall]
    BY <1>18 DEF CallReturns
  <2>2. /\ thread'[w].at = thread[w].at /\ thread'[w].todo \subseteq thread[w].todo
        /\ call'[w].at = "none"
        /\ \A v \in Slice : v # w => thread'[v] = thread[v] /\ call'[v] = call[v]
    BY <1>2, <2>1 DEF ThreadState, NoCall
  <2> QED BY <1>1, <1>3, <2>2
<1>19. ASSUME NEW w \in Slice, WaitTimesOut(w) \/ CallFails(w) PROVE Calls'
  <2>1. /\ thread'[w].at = "idle" /\ \A v \in Slice : v # w => thread'[v] = thread[v] /\ call'[v] = call[v]
        /\ call'[w].at = "none" \/ (thread[w].at = "wait" /\ call' = call)
    BY <1>2, <1>19 DEF WaitTimesOut, CallFails, Idle, NoCall
  <2>2. call'[w].at = "none" BY <1>1, <2>1
  <2> QED BY <1>3, <2>1, <2>2
<1>20. CASE NewRound \/ UNCHANGED vars BY <1>4, <1>20 DEF NewRound, vars
<1> QED
  BY <1>5, <1>6, <1>7, <1>8, <1>10, <1>11, <1>12, <1>13, <1>14, <1>15, <1>17, <1>18, <1>19, <1>20, Cases
  DEF Aside

\* A call is made, answered, or over.
CallMoves(w) ==
  /\ \A v \in Slice : v # w => call'[v] = call[v]
  /\ \/ call'[w].at = "none"
     \/ call'[w].at = "sent" /\ call'[w].token = token[w]
     \/ /\ call[w].at # "none" /\ call'[w].to = call[w].to /\ call'[w].token = call[w].token
        /\ call'[w].at = "checked" => token[call[w].to] = call[w].token

LEMMA AsideCalls ==
  ASSUME Types, NEW w \in Slice, Aside(w)
  PROVE  call' = call \/ CallMoves(w)
<1> USE DEF coordinator, chain, history
<1>1. call \in [Slice -> CallState] /\ call[w] \in CallState BY DEF Types
<1>2. CASE SendGrad(w)
  <2>1. call'[w].at = "sent" /\ call'[w].token = token[w] /\ \A v \in Slice : v # w => call'[v] = call[v]
    BY <1>2, CallFacts DEF SendGrad
  <2> QED BY <2>1 DEF CallMoves
<1>3. CASE SendUpdate(w)
  <2>1. call'[w].at = "sent" /\ call'[w].token = token[w] /\ \A v \in Slice : v # w => call'[v] = call[v]
    BY <1>3, CallFacts DEF SendUpdate
  <2> QED BY <2>1 DEF CallMoves
<1>4. ASSUME call' = [call EXCEPT ![w] = NoCall] PROVE CallMoves(w)
  BY <1>1, <1>4 DEF CallMoves, NoCall
<1>5. CASE CallReturns(w) \/ CallFails(w) BY <1>4, <1>5 DEF CallReturns, CallFails
<1>6. CASE Handler(w)
  <2>1. CASE CheckToken(w) BY <1>1, <2>1 DEF CheckToken, CallMoves, CallState
  <2>2. ASSUME call' = [call EXCEPT ![w].at = "done"], call[w].at # "none" PROVE CallMoves(w)
    BY <1>1, <2>2 DEF CallMoves, CallState
  <2>3. CASE tied_grad(w)
    <3>1. call' = [call EXCEPT ![w].at = "done"] /\ call[w].at # "none"
      BY <2>3, Zenon DEF tied_grad
    <3> QED BY <2>2, <3>1
  <2>4. CASE tied_update(w) BY <2>2, <2>4 DEF tied_update
  <2> QED BY <1>6, <2>1, <2>3, <2>4 DEF Handler
<1>7. CASE EndBackward(w) \/ StartWaiting(w) \/ CollectGrads(w) \/ StartReply(w) \/ WaitTimesOut(w)
  BY <1>7 DEF EndBackward, StartWaiting, CollectGrads, StartReply, WaitTimesOut
<1>8. CASE Optimize(w) BY <1>8 DEF Optimize
<1> QED BY <1>2, <1>3, <1>5, <1>6, <1>7, <1>8 DEF Aside

LEMMA CutGrows ==
  ASSUME [Next]_vars, Types, cut
  PROVE  cut'
<1> USE DEF coordinator, chain, history
<1>1. ASSUME NEW w \in Slice, Reset(w) PROVE cut'
  BY <1>1 DEF Reset
<1>2. ASSUME NEW w \in Slice, ConfigureTied(w) \/ Forward(w) \/ BeginBackward(w) \/ SendBackward(w) PROVE cut'
  BY <1>2 DEF ConfigureTied, Forward, BeginBackward, SendBackward
<1>3. ASSUME NEW w \in Slice, Aside(w) PROVE cut'
  BY <1>3, AsideUnchanged
<1>4. CASE NewRound \/ UNCHANGED vars BY <1>4 DEF NewRound, vars
<1> QED BY <1>1, <1>2, <1>3, <1>4, Cases

\* A thread on a task, before any worker was initialised in the middle of one.
LEMMA Working ==
  ASSUME Order, ~cut, NEW o \in Slice, thread[o].at # "idle"
  PROVE  /\ token[o] \in Round /\ thread[o].gen = token[o] /\ thread[o].id = bwd[token[o]][o]
         /\ bwd[token[o]][o] \in Nat /\ begun[token[o]][o] = bwd[token[o]][o] + 1
         /\ \A w \in Slice : o <= w => token[w] = token[o]
         /\ o < next => next = NumSlices
         /\ thread[o].at \in {"send", "wait", "push"} =>
              thread[o].cfg = token[o] /\ IsLastMicro(bwd[token[o]][o])
<1>1. thread[o].gen = token[o] /\ (thread[o].at \in {"send", "wait", "push"} => thread[o].cfg = token[o])
  BY DEF Order, OfThisRound
<1>2. thread[o].at \in {"send", "wait", "push"} => IsLastMicro(thread[o].id) BY DEF Order, Tasks
<1> QED BY <1>1, <1>2, OnTask DEF Order

\* A worker without a token has no task.
LEMMA NoTask ==
  ASSUME Order, ~cut, NEW w \in Slice, token[w] = 0
  PROVE  thread[w].at = "idle" /\ call[w].at = "none"
<1>1. thread[w].at = "idle"
  <2> SUFFICES ASSUME thread[w].at # "idle" PROVE FALSE
    OBVIOUS
  <2> QED BY Working, Sizes
<1> QED BY <1>1 DEF Order, Calls, CallsOf

LEMMA OfThisRoundKept ==
  ASSUME Order, [Next]_vars
  PROVE  OfThisRound'
<1> USE DEF coordinator, chain, history
<1> SUFFICES ASSUME ~cut' PROVE OfThisRound'
  BY DEF OfThisRound
<1>1. ~cut BY CutGrows DEF Order
<1>2. /\ thread \in [Slice -> ThreadState] /\ token \in [Slice -> 0 .. MaxRounds]
      /\ \A v \in Slice : call[v].to \in Slice
  BY ThreadTypes DEF Order, Types
<1>3. \A w \in Slice :
        /\ thread[w].at # "idle" => thread[w].gen = token[w]
        /\ thread[w].at \in {"send", "wait", "push"} => thread[w].cfg = token[w]
        /\ call[w].at # "none" => call[w].token = token[w]
        /\ call[w].at = "checked" => token[call[w].to] = call[w].token
  BY <1>1 DEF Order, OfThisRound
<1>4. \A w \in Slice : thread[w].at = "idle" => call[w].at = "none" BY DEF Order, Calls, CallsOf
<1>5. ASSUME NEW w \in Slice, Reset(w) PROVE OfThisRound'
  <2>1. /\ UNCHANGED <<thread, call>> /\ ~Busy(w)
        /\ token'[w] = 0 /\ \A v \in Slice : v # w => token'[v] = token[v]
    BY <1>2, <1>5 DEF Reset
  <2>2. thread[w].at = "idle" /\ call[w].at = "none" /\ \A v \in Slice : call[v].at = "checked" => call[v].to # w
    BY <1>4, <2>1 DEF Busy
  <2> QED BY <1>2, <1>3, <2>1, <2>2 DEF OfThisRound
<1>6. ASSUME NEW w \in Slice, ConfigureTied(w) PROVE OfThisRound'
  <2>1. /\ UNCHANGED <<thread, call>> /\ \A v \in Slice : v # w => token'[v] = token[v]
    BY <1>2, <1>6 DEF ConfigureTied
  <2>2. token[w] = 0 BY <1>6, Sizes DEF ConfigureTied, Order, Tokens
  <2>3. thread[w].at = "idle" /\ call[w].at = "none" BY <1>1, <2>2, NoTask
  <2>4. \A v \in Slice : call[v].at = "checked" => call[v].to # w BY <1>1, <1>3, <2>2, NoTask
  <2> QED BY <1>2, <1>3, <2>1, <2>3, <2>4 DEF OfThisRound
<1>7. ASSUME NEW w \in Slice, BeginBackward(w) PROVE OfThisRound'
  <2>1. /\ thread'[w].at = "backward" /\ thread'[w].gen = token[w] /\ UNCHANGED <<call, token>>
        /\ \A v \in Slice : v # w => thread'[v] = thread[v]
    BY <1>2, <1>7 DEF BeginBackward, Idle
  <2> QED BY <1>3, <2>1 DEF OfThisRound
<1>8. ASSUME NEW w \in Slice, SendBackward(w) PROVE OfThisRound'
  <2>1. /\ thread'[w].at = "idle" /\ UNCHANGED <<call, token>>
        /\ \A v \in Slice : v # w => thread'[v] = thread[v]
    BY <1>2, <1>8 DEF SendBackward, Idle
  <2> QED BY <1>3, <2>1 DEF OfThisRound
<1>9. ASSUME NEW w \in Slice, Aside(w) PROVE OfThisRound'
  <2>1. token' = token BY <1>9, AsideUnchanged
  <2>2. \A v \in Slice :
        /\ thread'[v].at # "idle" => thread'[v].gen = token[v]
        /\ thread'[v].at \in {"send", "wait", "push"} => thread'[v].cfg = token[v]
    <3>1. thread' = thread \/ GoesOn(w) \/ Drops(w) BY <1>9, AsideGoesOn DEF Order
    <3> QED BY <1>3, <3>1 DEF GoesOn, Drops, Idle
  <2>3. \A v \in Slice :
        /\ call'[v].at # "none" => call'[v].token = token[v]
        /\ call'[v].at = "checked" => token[call'[v].to] = call'[v].token
    <3>1. call' = call \/ CallMoves(w) BY <1>9, AsideCalls DEF Order
    <3> QED BY <1>3, <3>1 DEF CallMoves
  <2> QED BY <2>1, <2>2, <2>3 DEF OfThisRound
<1>10. ASSUME NEW w \in Slice, Forward(w) PROVE OfThisRound'
  BY <1>3, <1>10 DEF Forward, OfThisRound
<1>11. CASE NewRound \/ UNCHANGED vars BY <1>3, <1>11 DEF NewRound, OfThisRound, vars
<1> QED BY <1>5, <1>6, <1>7, <1>8, <1>9, <1>10, <1>11, Cases

--------------------
(* The gradients of the slices. *)

LEMMA SumFrame ==
  ASSUME NEW v \in Slice, SumOf(v), sum'[v] = sum[v], token'[v] = token[v],
         thread'[v].at = thread[v].at, thread'[v].own = thread[v].own,
         token[v] # 0 => begun'[token[v]][v] = begun[token[v]][v] /\ bwd'[token[v]][v] = bwd[token[v]][v]
  PROVE  SumOf(v)'
BY DEF SumOf

LEMMA SumsKept ==
  ASSUME Order, Sums, [Next]_vars
  PROVE  Sums'
<1> USE DEF coordinator, chain, history
<1> SUFFICES ASSUME ~cut' PROVE \A w \in Slice : SumOf(w)'
  BY DEF Sums
<1>1. ~cut BY CutGrows DEF Order
<1>2. /\ thread \in [Slice -> ThreadState] /\ token \in [Slice -> 0 .. MaxRounds]
      /\ sum \in [Slice -> Sum] /\ \A v \in Slice : token[v] # 0 <=> token[v] \in Round
  BY TokenIsRound DEF Order, Types
<1>3. \A v \in Slice : SumOf(v) BY <1>1 DEF Sums
<1>4. ASSUME UNCHANGED <<thread, sum, token, begun, bwd>> PROVE \A v \in Slice : SumOf(v)'
  BY <1>3, <1>4, SumFrame
<1>5. ASSUME NEW w \in Slice, UNCHANGED <<token, begun, bwd>>, SumOf(w)',
             \A v \in Slice : v # w => sum'[v] = sum[v] /\ thread'[v] = thread[v]
      PROVE  \A v \in Slice : SumOf(v)'
  BY <1>3, <1>5, SumFrame
<1>6. ASSUME NEW w \in Slice, Reset(w) PROVE \A v \in Slice : SumOf(v)'
  <2>1. /\ UNCHANGED <<thread, begun, bwd>> /\ token'[w] = 0 /\ sum'[w] = {}
        /\ \A v \in Slice : v # w => token'[v] = token[v] /\ sum'[v] = sum[v]
    BY <1>2, <1>6 DEF Reset
  <2>2. SumOf(w)' BY <2>1 DEF SumOf
  <2> QED BY <1>3, <2>1, <2>2, SumFrame
<1>7. ASSUME NEW w \in Slice, ConfigureTied(w) PROVE \A v \in Slice : SumOf(v)'
  <2>1. /\ UNCHANGED <<thread, begun, bwd, sum>> /\ token'[w] = round
        /\ \A v \in Slice : v # w => token'[v] = token[v]
    BY <1>2, <1>7 DEF ConfigureTied
  <2>2. token[w] = 0 /\ next < NumSlices /\ round \in Nat
    BY <1>7, Sizes DEF ConfigureTied, Order, Tokens, Types
  <2>3. bwd[round][w] = 0 /\ thread[w].at = "idle" /\ sum[w] = {}
    BY <1>1, <1>3, <2>2, NothingYet, NoTask DEF Order, SumOf
  <2>4. Partial(round, 0) = {} BY <2>2, PartialNext
  <2>5. SumOf(w)' BY <2>1, <2>3, <2>4 DEF SumOf
  <2> QED BY <1>3, <2>1, <2>5, SumFrame
<1>8. ASSUME NEW w \in Slice, BeginBackward(w) PROVE \A v \in Slice : SumOf(v)'
  <2> DEFINE s == token[w]
  <2>1. s \in Round /\ begun[s][w] = bwd[s][w] /\ thread[w].at = "idle"
    BY <1>8, InTurn DEF BeginBackward, Arrived, Order
  <2>2. /\ thread'[w].at = "backward" /\ UNCHANGED <<bwd, token, sum>>
        /\ \A v \in Slice : v # w => thread'[v] = thread[v]
    BY <1>2, <1>8 DEF BeginBackward, Idle
  <2>3. ASSUME NEW v \in Slice, v # w, token[v] # 0 PROVE begun'[token[v]][v] = begun[token[v]][v]
    BY <1>2, <1>8, <2>1, <2>3 DEF BeginBackward, Order, Types
  <2>4. sum[w] = Partial(s, bwd[s][w])
    <3>1. SumOf(w) /\ s # 0 BY <1>2, <1>3, <2>1
    <3> QED BY <2>1, <3>1 DEF SumOf
  <2>5. SumOf(w)' BY <2>1, <2>2, <2>4, Sizes DEF SumOf
  <2> QED BY <1>3, <2>2, <2>3, <2>5, SumFrame
<1>9. ASSUME NEW w \in Slice, EndBackward(w) PROVE \A v \in Slice : SumOf(v)'
  <2> DEFINE s == token[w]
             n == bwd[s][w]
             todo == IF token[w] = 0 THEN {} ELSE ToSend(w)
             t == IF ~IsLastMicro(thread[w].id) THEN [thread[w] EXCEPT !.at = "reply"]
                  ELSE [thread[w] EXCEPT !.at = "send", !.cfg = token[w], !.todo = todo, !.own = sum'[w],
                                         !.val = value[w]]
  <2>1. thread[w].at = "backward" BY <1>9 DEF EndBackward
  <2>2. s \in Round /\ thread[w].gen = s /\ thread[w].id = n /\ n \in Nat /\ s \in Nat
    BY <1>1, <2>1, Working, Sizes
  <2>3. thread' = [thread EXCEPT ![w] = t] /\ sum' = [sum EXCEPT ![w] = sum[w] \cup {<<s, n>>}]
    BY <1>9, <2>2 DEF EndBackward
  <2>4. sum'[w] = Partial(s, n) \cup {<<s, n>>} /\ \A v \in Slice : v # w => sum'[v] = sum[v]
    <3>1. SumOf(w) /\ s # 0 BY <1>2, <1>3, <2>2
    <3>2. sum[w] = Partial(s, n) BY <2>1, <3>1 DEF SumOf
    <3> QED BY <1>2, <2>3, <3>2
  <2>5. UNCHANGED <<token, begun, bwd>> BY <1>9 DEF EndBackward
  <2>6. /\ ~IsLastMicro(n) => thread'[w].at = "reply"
        /\ IsLastMicro(n) => thread'[w].at = "send" /\ thread'[w].own = sum'[w]
        /\ \A v \in Slice : v # w => thread'[v] = thread[v]
    BY <1>2, <2>2, <2>3 DEF ThreadState
  <2>7. /\ ~IsLastMicro(n) => sum'[w] = Partial(s, n + 1)
        /\ IsLastMicro(n) => sum'[w] = Micros(<<s, Key(n)>>)
    BY <2>2, <2>4, PartialNext
  <2> HIDE DEF t, todo
  <2>8. SumOf(w)' BY <2>2, <2>5, <2>6, <2>7, Sizes DEF SumOf
  <2> QED BY <1>5, <2>4, <2>5, <2>6, <2>8
<1>10. ASSUME NEW w \in Slice, StartWaiting(w) PROVE \A v \in Slice : SumOf(v)'
  <2> DEFINE todo == IF thread[w].cfg = 0 THEN {} ELSE ToCollect(w)
  <2>1. /\ thread' = [thread EXCEPT ![w].at = "wait", ![w].todo = todo]
        /\ thread[w].at = "send" /\ UNCHANGED <<token, begun, bwd, sum>>
    BY <1>10 DEF StartWaiting
  <2> HIDE DEF todo
  <2>2. /\ thread'[w].at = "wait" /\ thread'[w].own = thread[w].own
        /\ \A v \in Slice : v # w => thread'[v] = thread[v]
    BY <1>2, <2>1 DEF ThreadState
  <2>3. SumOf(w)' BY <1>3, <2>1, <2>2 DEF SumOf
  <2> QED BY <1>5, <2>1, <2>2, <2>3
<1>11. ASSUME NEW w \in Slice, NEW d, thread' = [thread EXCEPT ![w].todo = d],
              UNCHANGED <<token, begun, bwd, sum>>
       PROVE  \A v \in Slice : SumOf(v)'
  <2>1. \A v \in Slice : thread'[v].at = thread[v].at /\ thread'[v].own = thread[v].own
    BY <1>2, <1>11 DEF ThreadState
  <2> QED BY <1>3, <1>11, <2>1, SumFrame
<1>12. ASSUME NEW w \in Slice, CollectGrads(w) \/ CallReturns(w) PROVE \A v \in Slice : SumOf(v)'
  BY <1>11, <1>12 DEF CollectGrads, CallReturns
<1>13. ASSUME NEW w \in Slice, Optimize(w) PROVE \A v \in Slice : SumOf(v)'
  <2> DEFINE s == token[w]
             n == bwd[s][w]
             new == [g \in Group |->
                   IF \E p \in ToCollect(w) : p[1] = g
                   THEN <<value[w][g][1], value[w][g][2] + 1>> ELSE value[w][g]]
             val == IF thread[w].cfg = token[w] THEN new ELSE thread[w].val
             todo == IF thread[w].cfg = 0 THEN {} ELSE ToPush(w)
  <2>1. thread[w].at = "wait" BY <1>13 DEF Optimize
  <2>2. s \in Round /\ n \in Nat /\ s \in Nat /\ IsLastMicro(n) /\ s # 0
    BY <1>1, <2>1, Working, Sizes
  <2>3. /\ thread' = [thread EXCEPT ![w] = [thread[w] EXCEPT !.at = "push", !.val = val, !.todo = todo]]
        /\ sum' = [sum EXCEPT ![w] = {}] /\ UNCHANGED <<token, begun, bwd>>
    BY <1>13, <2>2 DEF Optimize
  <2> HIDE DEF val, todo
  <2>4. /\ thread'[w].at = "push" /\ sum'[w] = {}
        /\ \A v \in Slice : v # w => thread'[v] = thread[v] /\ sum'[v] = sum[v]
    BY <1>2, <2>3 DEF ThreadState
  <2>5. Partial(s, n + 1) = {} BY <2>2, PartialNext
  <2>6. SumOf(w)' BY <2>2, <2>3, <2>4, <2>5 DEF SumOf
  <2> QED BY <1>5, <2>3, <2>4, <2>6
<1>14. ASSUME NEW w \in Slice, StartReply(w) PROVE \A v \in Slice : SumOf(v)'
  <2>1. /\ thread' = [thread EXCEPT ![w].at = "reply"] /\ thread[w].at = "push"
        /\ UNCHANGED <<token, begun, bwd, sum>>
    BY <1>14 DEF StartReply
  <2>2. /\ thread'[w].at = "reply" /\ \A v \in Slice : v # w => thread'[v] = thread[v]
    BY <1>2, <2>1 DEF ThreadState
  <2>3. SumOf(w)' BY <1>3, <2>1, <2>2 DEF SumOf
  <2> QED BY <1>5, <2>1, <2>2, <2>3
<1>15. ASSUME NEW w \in Slice, WaitTimesOut(w) \/ CallFails(w) PROVE \A v \in Slice : SumOf(v)'
  <2>1. /\ thread'[w].at = "idle" /\ \A v \in Slice : v # w => thread'[v] = thread[v]
        /\ UNCHANGED <<token, begun, bwd, sum>>
    BY <1>2, <1>15 DEF WaitTimesOut, CallFails, Idle
  <2>2. thread[w].at # "idle" BY <1>15 DEF WaitTimesOut, CallFails, Order, Calls, CallsOf
  <2>3. begun[token[w]][w] # bwd[token[w]][w] /\ token[w] # 0 BY <1>1, <2>2, Working, Sizes
  <2>4. SumOf(w)' BY <2>1, <2>3 DEF SumOf
  <2> QED BY <1>5, <2>1, <2>4
<1>16. ASSUME NEW w \in Slice, SendBackward(w) PROVE \A v \in Slice : SumOf(v)'
  <2> DEFINE s == token[w]
             n == bwd[s][w]
  <2>1. thread[w].at = "reply" BY <1>16 DEF SendBackward
  <2>2. s \in Round /\ thread[w].gen = s /\ n \in Nat /\ s \in Nat /\ s # 0 /\ begun[s][w] = n + 1
    BY <1>1, <2>1, Working, Sizes
  <2>3. /\ thread'[w].at = "idle" /\ \A v \in Slice : v # w => thread'[v] = thread[v]
        /\ UNCHANGED <<token, begun, sum>> /\ bwd' = [bwd EXCEPT ![s][w] = @ + 1]
    BY <1>2, <1>16, <2>2 DEF SendBackward, Idle
  <2>4. bwd'[s][w] = n + 1 /\ \A v \in Slice : v # w /\ token[v] # 0 => bwd'[token[v]][v] = bwd[token[v]][v]
    BY <1>2, <2>2, <2>3 DEF Order, Types
  <2>5. sum[w] = Partial(s, n + 1) BY <1>3, <2>1, <2>2 DEF SumOf
  <2>6. SumOf(w)' BY <2>2, <2>3, <2>4, <2>5 DEF SumOf
  <2> QED BY <1>3, <2>3, <2>4, <2>6, SumFrame
<1>17. ASSUME NEW w \in Slice, SendGrad(w) \/ SendUpdate(w) \/ Handler(w) \/ Forward(w)
       PROVE  \A v \in Slice : SumOf(v)'
  <2>1. ASSUME tied_grad(w) PROVE UNCHANGED <<thread, sum, token, begun, bwd>>
    BY <2>1, Zenon DEF tied_grad
  <2>2. UNCHANGED <<thread, sum, token, begun, bwd>>
    BY <1>17, <2>1 DEF SendGrad, SendUpdate, Handler, Forward, CheckToken, tied_update
  <2> QED BY <1>4, <2>2
<1>18. CASE NewRound \/ UNCHANGED vars BY <1>4, <1>18 DEF NewRound, vars
<1> QED
  BY <1>6, <1>7, <1>8, <1>9, <1>10, <1>12, <1>13, <1>14, <1>15, <1>16, <1>17, <1>18, Cases DEF Aside

--------------------
(* The copies. *)

LEMMA SyncedFacts ==
  ASSUME NEW w \in Slice, NEW g \in Synced(w)
  PROVE  /\ g \in Group /\ w \in Groups[g] /\ Owner(g) \in Slice /\ Owner(g) <= w
         /\ g \in Owned(Owner(g)) /\ (w # Owner(g) => w \in Replicas(g))
<1>1. g \in Group /\ w \in Groups[g] BY PairFacts
<1>2. Owner(g) \in Groups[g] /\ Owner(g) <= w /\ Groups[g] = Replicas(g) \cup {Owner(g)}
  BY <1>1, GroupFacts
<1>3. Owner(g) \in Slice /\ g \in Owned(Owner(g)) BY <1>2, SyncedEverywhere
<1> QED BY <1>1, <1>2, <1>3

LEMMA OwnedFacts ==
  ASSUME NEW w \in Slice, NEW g \in Owned(w)
  PROVE  /\ g \in Group /\ Owner(g) = w /\ g \in Synced(w) /\ w \in Groups[g]
         /\ \A v \in Replicas(g) : v \in Slice /\ w < v /\ g \in Synced(v) /\ g \notin Owned(v) /\ v \in Groups[g]
         /\ \A v \in Groups[g] : v \in Slice /\ w <= v /\ g \in Synced(v) /\ (v = w \/ v \in Replicas(g))
<1>1. g \in Synced(w) /\ Owner(g) = w /\ g \in Group /\ w \in Groups[g] BY PairFacts DEF Owned
<1>2. \A v \in Groups[g] : v \in Slice /\ g \in Synced(v) BY <1>1, SyncedEverywhere
<1>3. /\ \A v \in Groups[g] : w <= v
      /\ \A v \in Replicas(g) : v \in Groups[g] /\ w < v
      /\ Groups[g] = Replicas(g) \cup {w}
  BY <1>1, GroupFacts
<1>4. \A v \in Replicas(g) : v # w BY <1>1, GroupFacts
<1> QED BY <1>1, <1>2, <1>3, <1>4 DEF Owned

LEMMA ValueFrame ==
  ASSUME NEW v \in Slice, ValueOf(v), token'[v] = token[v],
         \A g \in Synced(v) : value'[v][g] = value[v][g],
         token[v] # 0 => \A g \in Synced(v) : /\ bwd'[token[v]][Owner(g)] = bwd[token[v]][Owner(g)]
                                              /\ begun'[token[v]][Owner(g)] = begun[token[v]][Owner(g)]
  PROVE  ValueOf(v)'
BY DEF ValueOf

LEMMA FromFrame ==
  ASSUME NEW v \in Slice, ValuesFrom(v), token'[v] = token[v], thread'[v] = thread[v], call'[v] = call[v],
         thread[v].at # "idle" =>
           /\ \A g \in Owned(v) : \A u \in Groups[g] : value'[u][g] = value[u][g]
           /\ begun'[token[v]][v] = begun[token[v]][v] /\ bwd'[token[v]][v] = bwd[token[v]][v]
  PROVE  ValuesFrom(v)'
<1> SUFFICES ASSUME NEW g \in Owned(v), thread[v].at # "idle"
             PROVE  /\ thread[v].at \in {"backward", "send", "wait"} =>
                         value'[v][g] = <<token[v], Key(bwd'[token[v]][v])>>
                    /\ thread[v].at = "push" =>
                         /\ value'[v][g] = <<token[v], Key(bwd'[token[v]][v]) + 1>>
                         /\ thread[v].val[g] = value'[v][g]
                         /\ \A u \in Replicas(g) : Told(v, g, u) => value'[u][g] = value'[v][g]
                    /\ thread[v].at = "reply" =>
                         \A u \in Groups[g] : value'[u][g] = <<token[v], Key(begun'[token[v]][v])>>
  BY DEF ValuesFrom, Told
<1>1. /\ \A u \in Groups[g] : value'[u][g] = value[u][g]
      /\ v \in Groups[g] /\ \A u \in Replicas(g) : u \in Groups[g]
  BY OwnedFacts
<1> QED BY <1>1 DEF ValuesFrom

LEMMA ValueTypes ==
  ASSUME Types, NEW w \in Slice, NEW g \in Group
  PROVE  /\ value[w][g] \in Nat \X Nat /\ value[w][g] = <<value[w][g][1], value[w][g][2]>>
         /\ value[w][g][2] \in Nat
BY DEF Types

\* Nobody before the worker that is initialised is on a task.
LEMMA BeforeNext ==
  ASSUME Order, ~cut, NEW v \in Slice, thread[v].at # "idle", next < NumSlices
  PROVE  next <= v
<1>1. next \in Nat /\ v \in Nat /\ next # NumSlices BY Sizes DEF Order, Types
<1>2. ~(v < next) BY <1>1, Working
<1> QED BY <1>1, <1>2

LEMMA ValuesInReset ==
  ASSUME Order, Values, ~cut, ~cut', NEW w \in Slice, Reset(w) \/ ConfigureTied(w)
  PROVE  \A v \in Slice : ValueOf(v)' /\ ValuesFrom(v)'
<1> USE DEF coordinator, chain, history
<1>1. /\ UNCHANGED <<thread, call, begun, bwd>> /\ next = w
      /\ \A v \in Slice : v # w => token'[v] = token[v] /\ value'[v] = value[v]
      /\ Reset(w) => token'[w] = 0
      /\ ConfigureTied(w) => token'[w] = round /\ value'[w] = [g \in Group |-> <<round, 0>>]
  BY DEF Reset, ConfigureTied, Order, Types
<1>2. w \in Nat /\ w < NumSlices /\ NumSlices \in Nat BY Sizes
<1>3. thread[w].at = "idle"
  <2>1. CASE Reset(w) BY <2>1 DEF Reset, Busy
  <2>2. CASE ConfigureTied(w)
    <3>1. token[w] = 0 BY <1>1, <1>2, <2>2 DEF ConfigureTied, Order, Tokens
    <3> QED BY <3>1, NoTask
  <2> QED BY <2>1, <2>2
<1>4. ASSUME NEW v \in Slice, v # w PROVE ValueOf(v)'
  BY <1>1, <1>4, ValueFrame DEF Values
<1>5. ValueOf(w)'
  <2>1. CASE Reset(w) BY <1>1, <2>1 DEF ValueOf
  <2>2. CASE ConfigureTied(w)
    <3> SUFFICES ASSUME NEW g \in Synced(w)
                 PROVE  /\ value'[w][g][1] = round
                        /\ Key(bwd[round][Owner(g)]) <= value'[w][g][2]
                        /\ value'[w][g][2] <= Key(begun[round][Owner(g)])
      BY <1>1, <2>2 DEF ValueOf
    <3>1. g \in Group /\ Owner(g) \in Slice BY SyncedFacts
    <3>2. bwd[round][Owner(g)] = 0 /\ begun[round][Owner(g)] = 0
      BY <1>1, <1>2, <3>1, NothingYet DEF Order
    <3> QED BY <1>1, <2>2, <3>1, <3>2, KeyZero
  <2> QED BY <2>1, <2>2
<1>6. ASSUME NEW v \in Slice, v # w PROVE ValuesFrom(v)'
  <2>1. CASE thread[v].at = "idle" BY <1>1, <2>1 DEF ValuesFrom
  <2>2. CASE thread[v].at # "idle"
    <3>1. w <= v BY <1>1, <1>2, <2>2, BeforeNext
    <3>2. \A g \in Owned(v) : \A u \in Groups[g] : u # w /\ u \in Slice
      BY <1>2, <1>6, <3>1, OwnedFacts, Sizes
    <3>3. ValuesFrom(v) BY DEF Values
    <3> QED BY <1>1, <1>6, <3>2, <3>3, FromFrame
  <2> QED BY <2>1, <2>2
<1>7. ValuesFrom(w)' BY <1>1, <1>3 DEF ValuesFrom
<1> QED BY <1>4, <1>5, <1>6, <1>7

LEMMA ValuesInBegin ==
  ASSUME Order, Values, ~cut, NEW w \in Slice, BeginBackward(w)
  PROVE  \A v \in Slice : ValueOf(v)' /\ ValuesFrom(v)'
<1> USE DEF coordinator, chain, history
<1> DEFINE s == token[w]
<1>1. s \in Round /\ begun[s][w] = bwd[s][w] /\ bwd[s][w] \in Nat /\ s # 0
  <2>1. s \in Round /\ begun[s][w] = bwd[s][w] BY InTurn DEF BeginBackward, Arrived, Order
  <2> QED BY <2>1, ChainTypes, Sizes DEF Order
<1>2. /\ UNCHANGED <<token, bwd, value, call>>
      /\ thread'[w].at = "backward" /\ \A v \in Slice : v # w => thread'[v] = thread[v]
  BY DEF BeginBackward, Idle, Order, Types
<1>3. /\ begun'[s][w] = begun[s][w] + 1
      /\ \A r \in Round : \A v \in Slice : r # s \/ v # w => begun'[r][v] = begun[r][v]
  BY <1>1 DEF BeginBackward, Order, Types
<1>4. \A v \in Slice : token[v] # 0 => token[v] \in Round BY TokenIsRound DEF Order
<1>5. ASSUME NEW v \in Slice PROVE ValueOf(v)'
  <2> SUFFICES ASSUME token[v] # 0, NEW g \in Synced(v)
               PROVE  /\ value[v][g][1] = token[v]
                      /\ Key(bwd[token[v]][Owner(g)]) <= value[v][g][2]
                      /\ value[v][g][2] <= Key(begun'[token[v]][Owner(g)])
    BY <1>2 DEF ValueOf
  <2> DEFINE r == token[v]
             o == Owner(g)
  <2>1. r \in Round /\ o \in Slice /\ g \in Group BY <1>4, SyncedFacts
  <2>2. /\ value[v][g][1] = token[v]
        /\ Key(bwd[r][o]) <= value[v][g][2] /\ value[v][g][2] <= Key(begun[r][o])
    BY DEF Values, ValueOf
  <2>3. /\ begun[r][o] \in Nat /\ begun'[r][o] \in Nat /\ begun[r][o] <= begun'[r][o]
    BY <1>3, <2>1, ChainTypes DEF Order
  <2>4. Key(begun[r][o]) <= Key(begun'[r][o]) /\ Key(begun[r][o]) \in Nat /\ Key(begun'[r][o]) \in Nat
    BY <2>3, KeyMono, DivMod
  <2>5. value[v][g][2] \in Nat BY <2>1, ValueTypes DEF Order
  <2> QED BY <2>2, <2>4, <2>5
<1>6. ASSUME NEW v \in Slice, v # w PROVE ValuesFrom(v)'
  <2>1. ValuesFrom(v) BY DEF Values
  <2>2. thread[v].at # "idle" => token[v] \in Round BY Working
  <2> QED BY <1>2, <1>3, <1>6, <2>1, <2>2, FromFrame
<1>7. ValuesFrom(w)'
  <2> SUFFICES ASSUME NEW g \in Owned(w) PROVE value[w][g] = <<s, Key(bwd[s][w])>>
    BY <1>2 DEF ValuesFrom
  <2>1. g \in Synced(w) /\ Owner(g) = w /\ g \in Group BY OwnedFacts
  <2>2. /\ value[w][g][1] = s /\ Key(bwd[s][w]) <= value[w][g][2] /\ value[w][g][2] <= Key(bwd[s][w])
    BY <1>1, <2>1 DEF Values, ValueOf
  <2>3. Key(bwd[s][w]) \in Nat BY <1>1, DivMod
  <2> QED BY <2>1, <2>2, <2>3, ValueTypes DEF Order
<1> QED BY <1>5, <1>6, <1>7

LEMMA ValuesInEnd ==
  ASSUME Order, Values, ~cut, NEW w \in Slice, EndBackward(w)
  PROVE  \A v \in Slice : ValueOf(v)' /\ ValuesFrom(v)'
<1> USE DEF coordinator, chain, history
<1> DEFINE s == token[w]
           n == bwd[s][w]
<1>1. thread[w].at = "backward" /\ UNCHANGED <<token, begun, bwd, value, call>>
  BY DEF EndBackward
<1>2. /\ s \in Round /\ thread[w].gen = s /\ thread[w].id = n /\ n \in Nat /\ begun[s][w] = n + 1
      /\ s # 0 /\ \A v \in Slice : w <= v => token[v] = s
  BY <1>1, Working, Sizes
<1>3. /\ thread'[w].at = IF IsLastMicro(n) THEN "send" ELSE "reply"
      /\ \A v \in Slice : v # w => thread'[v] = thread[v]
  <2> DEFINE todo == IF token[w] = 0 THEN {} ELSE ToSend(w)
             own == IF thread[w].gen = token[w] THEN sum'[w] ELSE {}
             t == IF ~IsLastMicro(thread[w].id) THEN [thread[w] EXCEPT !.at = "reply"]
                  ELSE [thread[w] EXCEPT !.at = "send", !.cfg = token[w], !.todo = todo, !.own = own,
                                         !.val = value[w]]
  <2>1. thread' = [thread EXCEPT ![w] = t] BY DEF EndBackward
  <2>2. t.at = IF IsLastMicro(n) THEN "send" ELSE "reply" BY <1>2 DEF Order, Types, ThreadState
  <2> HIDE DEF t
  <2> QED BY <2>1, <2>2 DEF Order, Types
<1>4. ASSUME NEW v \in Slice PROVE ValueOf(v)'
  BY <1>1, ValueFrame DEF Values
<1>5. ASSUME NEW v \in Slice, v # w PROVE ValuesFrom(v)'
  BY <1>1, <1>3, <1>5, FromFrame DEF Values
<1>6. ASSUME NEW g \in Owned(w) PROVE value[w][g] = <<s, Key(n)>>
  BY <1>1 DEF Values, ValuesFrom
<1>7. CASE IsLastMicro(n)
  <2>1. ValuesFrom(w)' BY <1>1, <1>3, <1>6, <1>7 DEF ValuesFrom
  <2> QED BY <1>4, <1>5, <2>1
<1>8. CASE ~IsLastMicro(n)
  <2>1. Key(begun[s][w]) = Key(n) /\ Key(n) \in Nat BY <1>2, <1>8, KeyNext, DivMod
  <2>2. ASSUME NEW g \in Owned(w), NEW v \in Groups[g] PROVE value[v][g] = <<s, Key(begun[s][w])>>
    <3>1. v \in Slice /\ g \in Synced(v) /\ Owner(g) = w /\ g \in Group /\ token[v] = s
      BY <1>2, <2>2, OwnedFacts
    <3>2. value[v][g][1] = s /\ Key(n) <= value[v][g][2] /\ value[v][g][2] <= Key(n)
      BY <1>2, <2>1, <3>1 DEF Values, ValueOf
    <3> QED BY <2>1, <3>1, <3>2, ValueTypes DEF Order
  <2>3. ValuesFrom(w)' BY <1>1, <1>3, <1>8, <2>2 DEF ValuesFrom
  <2> QED BY <1>4, <1>5, <2>3
<1> QED BY <1>7, <1>8

LEMMA ValuesAtRest ==
  ASSUME Values, ~cut, NEW w \in Slice, UNCHANGED <<value, token, begun, bwd>>, ValuesFrom(w)',
         \A v \in Slice : v # w => thread'[v] = thread[v] /\ call'[v] = call[v]
  PROVE  \A v \in Slice : ValueOf(v)' /\ ValuesFrom(v)'
<1>1. ASSUME NEW v \in Slice PROVE ValueOf(v)'
  BY ValueFrame DEF Values
<1>2. ASSUME NEW v \in Slice, v # w PROVE ValuesFrom(v)'
  BY <1>2, FromFrame DEF Values
<1> QED BY <1>1, <1>2

LEMMA ValuesInCalls ==
  ASSUME Order, Values, ~cut, NEW w \in Slice,
         SendGrad(w) \/ SendUpdate(w) \/ CheckToken(w) \/ tied_grad(w) \/ CallReturns(w)
  PROVE  \A v \in Slice : ValueOf(v)' /\ ValuesFrom(v)'
<1> USE DEF coordinator, chain, history
<1>1. /\ thread \in [Slice -> ThreadState] /\ call \in [Slice -> CallState]
      /\ ValuesFrom(w) /\ CallsOf(thread[w], call[w], w)
  BY DEF Order, Types, Values, Calls
<1>2. ASSUME NEW kind \in {"grad", "update"}, Call(w, kind, Earliest(thread[w].todo), thread[w]),
             thread[w].todo # {}, call[w].at = "none", UNCHANGED <<thread, value, token, begun, bwd>>
      PROVE  \A v \in Slice : ValueOf(v)' /\ ValuesFrom(v)'
  <2>1. call'[w].at = "sent" /\ \A v \in Slice : v # w => call'[v] = call[v]
    BY <1>2, CallFacts DEF Order
  <2>2. ValuesFrom(w)' BY <1>1, <1>2, <2>1 DEF ValuesFrom, Told
  <2> QED BY <1>2, <2>1, <2>2, ValuesAtRest
<1>3. CASE SendGrad(w) BY <1>2, <1>3 DEF SendGrad
<1>4. CASE SendUpdate(w) BY <1>2, <1>4 DEF SendUpdate
<1>5. CASE CheckToken(w)
  <2> DEFINE a == IF call[w].token = token[call[w].to] THEN "checked" ELSE "done"
  <2>1. /\ call[w].at = "sent" /\ call' = [call EXCEPT ![w].at = a]
        /\ UNCHANGED <<thread, value, token, begun, bwd>>
    BY <1>5 DEF CheckToken
  <2>2. thread[w].at = "push" => a = "checked"
    <3> SUFFICES ASSUME thread[w].at = "push" PROVE call[w].token = token[call[w].to]
      OBVIOUS
    <3>1. call[w].token = token[w] BY <2>1 DEF Order, OfThisRound
    <3>2. <<call[w].group, call[w].to>> \in ToPush(w) BY <1>1, <2>1 DEF CallsOf
    <3>3. call[w].group \in Owned(w) /\ call[w].to \in Replicas(call[w].group)
      BY <3>2, PairFacts
    <3>4. call[w].to \in Slice /\ w <= call[w].to BY <3>3, OwnedFacts, Sizes
    <3> QED BY <3>1, <3>4, Working
  <2> HIDE DEF a
  <2>3. call'[w].at = a /\ \A v \in Slice : v # w => call'[v] = call[v]
    BY <1>1, <2>1 DEF CallState
  <2>4. ValuesFrom(w)' BY <1>1, <2>1, <2>2, <2>3 DEF ValuesFrom, Told
  <2> QED BY <2>1, <2>3, <2>4, ValuesAtRest
<1>6. CASE tied_grad(w)
  <2>1. /\ call[w].at = "checked" /\ call[w].kind = "grad" /\ call' = [call EXCEPT ![w].at = "done"]
        /\ UNCHANGED <<thread, value, token, begun, bwd>>
    BY <1>6, Zenon DEF tied_grad
  <2>2. thread[w].at = "send" /\ \A v \in Slice : v # w => call'[v] = call[v]
    BY <1>1, <2>1 DEF CallsOf
  <2>3. ValuesFrom(w)' BY <1>1, <2>1, <2>2 DEF ValuesFrom
  <2> QED BY <2>1, <2>2, <2>3, ValuesAtRest
<1>7. CASE CallReturns(w)
  <2>1. /\ thread' = [thread EXCEPT ![w].todo = thread[w].todo \ {<<call[w].group, call[w].to>>}]
        /\ call' = [call EXCEPT ![w] = NoCall] /\ call[w].at = "done"
        /\ UNCHANGED <<value, token, begun, bwd>>
    BY <1>7 DEF CallReturns
  <2>2. /\ thread'[w].at = thread[w].at /\ thread'[w].val = thread[w].val
        /\ thread'[w].todo = thread[w].todo \ {<<call[w].group, call[w].to>>}
        /\ call'[w].at = "none"
        /\ \A v \in Slice : v # w => thread'[v] = thread[v] /\ call'[v] = call[v]
    BY <1>1, <2>1 DEF ThreadState, NoCall
  <2>3. ASSUME NEW g, NEW v, Told(w, g, v)' PROVE Told(w, g, v)
    BY <2>1, <2>2, <2>3 DEF Told
  <2>4. ValuesFrom(w)' BY <1>1, <2>1, <2>2, <2>3 DEF ValuesFrom
  <2> QED BY <2>1, <2>2, <2>4, ValuesAtRest
<1> QED BY <1>3, <1>4, <1>5, <1>6, <1>7

LEMMA ValuesInWait ==
  ASSUME Order, Values, ~cut, NEW w \in Slice,
         StartWaiting(w) \/ CollectGrads(w) \/ WaitTimesOut(w) \/ CallFails(w) \/ StartReply(w)
  PROVE  \A v \in Slice : ValueOf(v)' /\ ValuesFrom(v)'
<1> USE DEF coordinator, chain, history
<1>1. /\ thread \in [Slice -> ThreadState] /\ call \in [Slice -> CallState]
      /\ ValuesFrom(w) /\ CallsOf(thread[w], call[w], w)
  BY DEF Order, Types, Values, Calls
<1>2. CASE StartWaiting(w) \/ CollectGrads(w)
  <2>1. /\ thread[w].at \in {"send", "wait"} /\ UNCHANGED <<value, token, begun, bwd, call>>
        /\ thread'[w].at = "wait" /\ \A v \in Slice : v # w => thread'[v] = thread[v]
    <3>1. CASE StartWaiting(w)
      <4> DEFINE todo == IF thread[w].cfg = 0 THEN {} ELSE ToCollect(w)
      <4>1. thread' = [thread EXCEPT ![w].at = "wait", ![w].todo = todo]
        BY <3>1 DEF StartWaiting
      <4> HIDE DEF todo
      <4>2. thread'[w].at = "wait" /\ \A v \in Slice : v # w => thread'[v] = thread[v]
        BY <1>1, <4>1 DEF ThreadState
      <4> QED BY <3>1, <4>2 DEF StartWaiting
    <3>2. CASE CollectGrads(w)
      <4>1. /\ thread' = [thread EXCEPT ![w].todo = thread[w].todo \ {Earliest(thread[w].todo)}]
            /\ thread[w].at = "wait"
        BY <3>2 DEF CollectGrads
      <4>2. thread'[w].at = "wait" /\ \A v \in Slice : v # w => thread'[v] = thread[v]
        BY <1>1, <4>1 DEF ThreadState
      <4> QED BY <3>2, <4>1, <4>2 DEF CollectGrads
    <3> QED BY <1>2, <3>1, <3>2
  <2>2. ValuesFrom(w)' BY <1>1, <2>1 DEF ValuesFrom
  <2> QED BY <2>1, <2>2, ValuesAtRest
<1>3. CASE WaitTimesOut(w) \/ CallFails(w)
  <2>1. /\ thread'[w].at = "idle" /\ UNCHANGED <<value, token, begun, bwd>>
        /\ \A v \in Slice : v # w => thread'[v] = thread[v] /\ call'[v] = call[v]
    BY <1>1, <1>3 DEF WaitTimesOut, CallFails, Idle
  <2>2. ValuesFrom(w)' BY <2>1 DEF ValuesFrom
  <2> QED BY <2>1, <2>2, ValuesAtRest
<1>4. CASE StartReply(w)
  <2> DEFINE s == token[w]
             n == bwd[s][w]
  <2>1. /\ thread' = [thread EXCEPT ![w].at = "reply"] /\ thread[w].at = "push" /\ thread[w].todo = {}
        /\ UNCHANGED <<value, token, begun, bwd, call>>
    BY <1>4 DEF StartReply
  <2>2. /\ thread'[w].at = "reply" /\ \A v \in Slice : v # w => thread'[v] = thread[v]
    BY <1>1, <2>1 DEF ThreadState
  <2>3. n \in Nat /\ begun[s][w] = n + 1 /\ IsLastMicro(n) BY <2>1, Working
  <2>4. Key(begun[s][w]) = Key(n) + 1 BY <2>3, KeyNext
  <2>5. ASSUME NEW g \in Owned(w), NEW v \in Groups[g] PROVE value[v][g] = <<s, Key(begun[s][w])>>
    <3>1. value[w][g] = <<s, Key(n) + 1>> /\ \A u \in Replicas(g) : value[u][g] = value[w][g]
      BY <1>1, <2>1 DEF ValuesFrom, Told
    <3>2. v = w \/ v \in Replicas(g) BY <2>5, OwnedFacts
    <3> QED BY <2>4, <3>1, <3>2
  <2>6. ValuesFrom(w)' BY <2>1, <2>2, <2>5 DEF ValuesFrom
  <2> QED BY <2>1, <2>2, <2>6, ValuesAtRest
<1> QED BY <1>2, <1>3, <1>4

LEMMA ValuesInOptimize ==
  ASSUME Order, Values, ~cut, NEW w \in Slice, Optimize(w)
  PROVE  \A v \in Slice : ValueOf(v)' /\ ValuesFrom(v)'
<1> USE DEF coordinator, chain, history
<1> DEFINE s == token[w]
           n == bwd[s][w]
           new == [g \in Group |->
                   IF \E p \in ToCollect(w) : p[1] = g
                   THEN <<value[w][g][1], value[w][g][2] + 1>> ELSE value[w][g]]
<1>1. thread[w].at = "wait" BY DEF Optimize
<1>2. /\ s \in Round /\ n \in Nat /\ s # 0 /\ IsLastMicro(n) /\ begun[s][w] = n + 1 /\ thread[w].cfg = s
  BY <1>1, Working, Sizes
<1>3. Key(begun[s][w]) = Key(n) + 1 /\ Key(n) \in Nat BY <1>2, KeyNext, DivMod
<1>4. /\ thread' = [thread EXCEPT ![w] = [thread[w] EXCEPT !.at = "push", !.val = new, !.todo = ToPush(w)]]
      /\ value' = [value EXCEPT ![w] = new] /\ UNCHANGED <<token, begun, bwd, call>>
  BY <1>2 DEF Optimize
<1>5. \A g \in Group : new[g] = IF g \in Owned(w) THEN <<value[w][g][1], value[w][g][2] + 1>> ELSE value[w][g]
  <2>1. ASSUME NEW g \in Group PROVE (\E p \in ToCollect(w) : p[1] = g) <=> g \in Owned(w)
    <3>1. ASSUME NEW p \in ToCollect(w), p[1] = g PROVE g \in Owned(w)
      BY <3>1, PairFacts
    <3>2. ASSUME g \in Owned(w) PROVE \E p \in ToCollect(w) : p[1] = g
      <4>1. <<g, w>> \in ToCollect(w) BY <3>2, PairFacts
      <4>2. <<g, w>>[1] = g OBVIOUS
      <4> QED BY <4>1, <4>2
    <3> QED BY <3>1, <3>2
  <2> QED BY <2>1
<1> HIDE DEF new
<1>6. /\ thread'[w].at = "push" /\ thread'[w].val = new /\ thread'[w].todo = ToPush(w) /\ value'[w] = new
      /\ \A v \in Slice : v # w => thread'[v] = thread[v] /\ value'[v] = value[v]
  BY <1>4 DEF Order, Types, ThreadState
<1>7. \A g \in Owned(w) : g \in Group /\ value[w][g] = <<s, Key(n)>>
  BY <1>1, OwnedFacts DEF Values, ValuesFrom
<1>8. ASSUME NEW g \in Owned(w) PROVE value'[w][g] = <<s, Key(n) + 1>>
  <2>1. g \in Group /\ value[w][g] = <<s, Key(n)>> BY <1>7
  <2>2. value[w][g][1] = s /\ value[w][g][2] = Key(n) BY <2>1
  <2> QED BY <1>5, <1>6, <2>1, <2>2
<1>9. ASSUME NEW v \in Slice, v # w PROVE ValueOf(v)' /\ ValuesFrom(v)'
  <2>1. ValueOf(v)' BY <1>4, <1>6, <1>9, ValueFrame DEF Values
  <2>2. ASSUME NEW g \in Owned(v), NEW u \in Groups[g] PROVE value'[u][g] = value[u][g]
    <3>1. g \notin Owned(w) /\ g \in Group /\ u \in Slice BY <1>9, <2>2, OwnedFacts
    <3> QED BY <1>5, <1>6, <3>1
  <2>3. ValuesFrom(v)' BY <1>4, <1>6, <1>9, <2>2, FromFrame DEF Values
  <2> QED BY <2>1, <2>3
<1>10. ValueOf(w)'
  <2> SUFFICES ASSUME NEW g \in Synced(w)
               PROVE  /\ value'[w][g][1] = s /\ Key(bwd[s][Owner(g)]) <= value'[w][g][2]
                      /\ value'[w][g][2] <= Key(begun[s][Owner(g)])
    BY <1>4 DEF ValueOf
  <2>1. CASE g \in Owned(w)
    <3>1. Owner(g) = w BY <2>1, OwnedFacts
    <3> QED BY <1>3, <1>8, <2>1, <3>1
  <2>2. CASE g \notin Owned(w)
    <3>1. g \in Group /\ value'[w][g] = value[w][g] BY <1>5, <1>6, <2>2, SyncedFacts
    <3>2. ValueOf(w) BY DEF Values
    <3> QED BY <1>2, <3>1, <3>2 DEF ValueOf
  <2> QED BY <2>1, <2>2
<1>11. ValuesFrom(w)'
  <2> SUFFICES ASSUME NEW g \in Owned(w)
               PROVE  /\ value'[w][g] = <<s, Key(n) + 1>> /\ thread'[w].val[g] = value'[w][g]
                      /\ \A v \in Replicas(g) : ~Told(w, g, v)'
    BY <1>4, <1>6 DEF ValuesFrom
  <2>1. call[w].at = "none" BY <1>1 DEF Order, Calls, CallsOf
  <2>2. \A v \in Replicas(g) : <<g, v>> \in ToPush(w) BY PairFacts
  <2> QED BY <1>4, <1>6, <1>8, <2>1, <2>2 DEF Told
<1> QED BY <1>9, <1>10, <1>11

LEMMA ValuesInUpdate ==
  ASSUME Order, Values, ~cut, NEW w \in Slice, tied_update(w)
  PROVE  \A v \in Slice : ValueOf(v)' /\ ValuesFrom(v)'
<1> USE DEF coordinator, chain, history
<1> DEFINE s == token[w]
           n == bwd[s][w]
           h == call[w].group
           x == call[w].to
<1>1. /\ call[w].at = "checked" /\ call[w].kind = "update" /\ call' = [call EXCEPT ![w].at = "done"]
      /\ value' = IF token[x] = 0 THEN value ELSE [value EXCEPT ![x][h] = call[w].val]
      /\ UNCHANGED <<thread, token, begun, bwd>>
  BY DEF tied_update
<1>2. /\ thread[w].at = "push" /\ <<h, x>> \in thread[w].todo /\ thread[w].todo \subseteq ToPush(w)
      /\ call[w].val = thread[w].val[h]
  BY <1>1 DEF Order, Calls, CallsOf
<1>3. /\ s \in Round /\ n \in Nat /\ s # 0 /\ IsLastMicro(n) /\ begun[s][w] = n + 1
      /\ \A v \in Slice : w <= v => token[v] = s
  BY <1>2, Working, Sizes
<1>4. Key(begun[s][w]) = Key(n) + 1 /\ Key(n) \in Nat BY <1>3, KeyNext, DivMod
<1>5. h \in Owned(w) /\ x \in Replicas(h) BY <1>2, PairFacts
<1>6. /\ x \in Slice /\ w <= x /\ x # w /\ token[x] = s /\ h \in Group /\ Owner(h) = w
  BY <1>3, <1>5, OwnedFacts, Sizes
<1>7. call[w].val = <<s, Key(n) + 1>> /\ value[w][h] = <<s, Key(n) + 1>>
  BY <1>2, <1>5 DEF Values, ValuesFrom
<1>8. \A v \in Slice : \A g \in Group :
        value'[v][g] = IF v = x /\ g = h THEN <<s, Key(n) + 1>> ELSE value[v][g]
  BY <1>1, <1>3, <1>6, <1>7 DEF Order, Types
<1>9. /\ call'[w].at = "done" /\ call'[w].group = h /\ call'[w].to = x
      /\ \A v \in Slice : v # w => call'[v] = call[v]
  BY <1>1 DEF Order, Types, CallState
<1> HIDE DEF h, x
<1>10. ASSUME NEW v \in Slice PROVE ValueOf(v)'
  <2> SUFFICES ASSUME token[v] # 0, NEW g \in Synced(v)
               PROVE  /\ value'[v][g][1] = token[v]
                      /\ Key(bwd[token[v]][Owner(g)]) <= value'[v][g][2]
                      /\ value'[v][g][2] <= Key(begun[token[v]][Owner(g)])
    BY <1>1 DEF ValueOf
  <2>1. g \in Group BY SyncedFacts
  <2>2. CASE v = x /\ g = h BY <1>4, <1>6, <1>8, <2>1, <2>2
  <2>3. CASE ~(v = x /\ g = h) BY <1>8, <2>1, <2>3 DEF Values, ValueOf
  <2> QED BY <2>2, <2>3
<1>11. ASSUME NEW v \in Slice, v # w PROVE ValuesFrom(v)'
  <2>1. ASSUME NEW g \in Owned(v), NEW u \in Groups[g] PROVE value'[u][g] = value[u][g]
    <3>1. g # h /\ g \in Group /\ u \in Slice BY <1>6, <1>11, <2>1, OwnedFacts
    <3> QED BY <1>8, <3>1
  <2> QED BY <1>1, <1>9, <1>11, <2>1, FromFrame DEF Values
<1>12. ValuesFrom(w)'
  <2> SUFFICES ASSUME NEW g \in Owned(w)
               PROVE  /\ value'[w][g] = <<s, Key(n) + 1>> /\ thread[w].val[g] = value'[w][g]
                      /\ \A v \in Replicas(g) : Told(w, g, v)' => value'[v][g] = value'[w][g]
    BY <1>1, <1>2 DEF ValuesFrom
  <2>1. /\ value[w][g] = <<s, Key(n) + 1>> /\ thread[w].val[g] = value[w][g] /\ g \in Group
        /\ \A v \in Replicas(g) : Told(w, g, v) => value[v][g] = value[w][g]
    BY <1>2, OwnedFacts DEF Values, ValuesFrom
  <2>2. value'[w][g] = value[w][g] BY <1>6, <1>8, <2>1
  <2>3. ASSUME NEW v \in Replicas(g), Told(w, g, v)' PROVE value'[v][g] = <<s, Key(n) + 1>>
    <3>1. v \in Slice BY OwnedFacts
    <3>2. CASE v = x /\ g = h BY <1>8, <2>1, <3>1, <3>2
    <3>3. CASE ~(v = x /\ g = h)
      <4>1. Told(w, g, v) BY <1>1, <1>9, <2>3, <3>3 DEF Told
      <4> QED BY <1>8, <2>1, <3>1, <3>3, <4>1
    <3> QED BY <3>2, <3>3
  <2> QED BY <2>1, <2>2, <2>3
<1> QED BY <1>10, <1>11, <1>12

LEMMA ValuesInReply ==
  ASSUME Order, Values, ~cut, NEW w \in Slice, SendBackward(w)
  PROVE  \A v \in Slice : ValueOf(v)' /\ ValuesFrom(v)'
<1> USE DEF coordinator, chain, history
<1> DEFINE s == token[w]
           n == bwd[s][w]
<1>1. thread[w].at = "reply" BY DEF SendBackward
<1>2. s \in Round /\ thread[w].gen = s /\ n \in Nat /\ s # 0 /\ begun[s][w] = n + 1
  BY <1>1, Working, Sizes
<1>3. /\ thread'[w].at = "idle" /\ \A v \in Slice : v # w => thread'[v] = thread[v]
      /\ UNCHANGED <<token, begun, value, call>> /\ bwd' = [bwd EXCEPT ![s][w] = @ + 1]
  BY <1>2 DEF SendBackward, Idle, Order, Types
<1>4. /\ bwd'[s][w] = begun[s][w]
      /\ \A r \in Round : \A v \in Slice : r # s \/ v # w => bwd'[r][v] = bwd[r][v]
  BY <1>2, <1>3 DEF Order, Types
<1>5. ASSUME NEW v \in Slice PROVE ValueOf(v)'
  <2> SUFFICES ASSUME token[v] # 0, NEW g \in Synced(v)
               PROVE  /\ value[v][g][1] = token[v]
                      /\ Key(bwd'[token[v]][Owner(g)]) <= value[v][g][2]
                      /\ value[v][g][2] <= Key(begun[token[v]][Owner(g)])
    BY <1>3 DEF ValueOf
  <2>1. token[v] \in Round /\ Owner(g) \in Slice /\ v \in Groups[g] /\ g \in Owned(Owner(g))
    BY SyncedFacts, TokenIsRound DEF Order
  <2>2. CASE token[v] = s /\ Owner(g) = w
    <3>1. value[v][g] = <<s, Key(begun[s][w])>> BY <1>1, <2>1, <2>2 DEF Values, ValuesFrom
    <3>2. Key(begun[s][w]) \in Nat BY <1>2, DivMod
    <3> QED BY <1>4, <2>2, <3>1, <3>2
  <2>3. CASE ~(token[v] = s /\ Owner(g) = w) BY <1>4, <2>1, <2>3 DEF Values, ValueOf
  <2> QED BY <2>2, <2>3
<1>6. ASSUME NEW v \in Slice, v # w PROVE ValuesFrom(v)'
  <2>1. thread[v].at # "idle" => token[v] \in Round BY Working
  <2> QED BY <1>3, <1>4, <1>6, <2>1, FromFrame DEF Values
<1>7. ValuesFrom(w)' BY <1>3 DEF ValuesFrom
<1> QED BY <1>5, <1>6, <1>7

LEMMA ValuesKept ==
  ASSUME Order, Values, [Next]_vars
  PROVE  Values'
<1> USE DEF coordinator, chain, history
<1> SUFFICES ASSUME ~cut' PROVE \A v \in Slice : ValueOf(v)' /\ ValuesFrom(v)'
  BY DEF Values
<1>1. ~cut BY CutGrows DEF Order
<1>2. ASSUME UNCHANGED <<value, token, begun, bwd, thread, call>>
      PROVE  \A v \in Slice : ValueOf(v)' /\ ValuesFrom(v)'
  BY <1>1, <1>2, ValueFrame, FromFrame DEF Values
<1>3. ASSUME NEW w \in Slice, Forward(w) PROVE \A v \in Slice : ValueOf(v)' /\ ValuesFrom(v)'
  BY <1>2, <1>3 DEF Forward
<1>4. CASE NewRound \/ UNCHANGED vars BY <1>2, <1>4 DEF NewRound, vars
<1>5. ASSUME NEW w \in Slice, Reset(w) \/ ConfigureTied(w) \/ BeginBackward(w) \/ SendBackward(w)
      PROVE  \A v \in Slice : ValueOf(v)' /\ ValuesFrom(v)'
  BY <1>1, <1>5, ValuesInReset, ValuesInBegin, ValuesInReply
<1>6. ASSUME NEW w \in Slice, Aside(w) PROVE \A v \in Slice : ValueOf(v)' /\ ValuesFrom(v)'
  BY <1>1, <1>6, ValuesInEnd, ValuesInCalls, ValuesInWait, ValuesInOptimize, ValuesInUpdate DEF Aside, Handler
<1> QED BY <1>3, <1>4, <1>5, <1>6, Cases

--------------------
(* The gradients an owner is sent. *)

\* What a step can do to a worker.
Counts(v) == \A r \in Round : begun'[r][v] = begun[r][v] /\ bwd'[r][v] = bwd[r][v]
SameTask(v) == thread'[v].gen = thread[v].gen /\ thread'[v].id = thread[v].id

Rests(v) == Counts(v) /\ thread'[v] = thread[v] /\ call'[v] = call[v]
Begins(v) ==
  /\ thread[v].at = "idle" /\ thread'[v].at = "backward" /\ thread'[v].gen = token[v]
  /\ begun[token[v]][v] = bwd[token[v]][v]
  /\ \A r \in Round : bwd'[r][v] = bwd[r][v] /\ (r # token[v] => begun'[r][v] = begun[r][v])
Ends(v) ==
  /\ Counts(v) /\ SameTask(v) /\ thread[v].at = "backward" /\ call'[v].at = "none"
  /\ \/ thread'[v].at = "reply" /\ ~IsLastMicro(thread[v].id)
     \/ thread'[v].at = "send" /\ thread'[v].todo = ToSend(v)
Asks(v) == Counts(v) /\ thread'[v] = thread[v] /\ call[v].at # "done" /\ call'[v].at # "done"
Answered(v) ==
  /\ Counts(v) /\ thread'[v] = thread[v] /\ call[v].at # "done" /\ call'[v].at = "done"
  /\ call'[v].group = call[v].group /\ call[v].at # "none"
  /\ \/ call[v].token # token[call[v].to]
     \/ call[v].at = "checked" /\ (call[v].kind = "grad" => tied_grad(v))
Returns(v) ==
  /\ Counts(v) /\ SameTask(v) /\ thread'[v].at = thread[v].at
  /\ thread'[v].todo = thread[v].todo \ {<<call[v].group, call[v].to>>}
  /\ call[v].at = "done" /\ call'[v].at = "none"
Advances(v) ==
  /\ Counts(v) /\ SameTask(v) /\ thread'[v].at \in {"wait", "push", "reply"}
  /\ \/ thread[v].at = "send" /\ thread[v].todo = {}
     \/ thread[v].at \in {"wait", "push"}
  /\ thread[v].at = "push" => thread'[v].at = "reply"
  /\ thread[v].at = "wait" /\ thread'[v].at = "wait" => thread'[v].todo \subseteq thread[v].todo
Leaves(v) == Counts(v) /\ thread[v].at # "idle" /\ thread'[v].at = "idle"
Replies(v) ==
  /\ thread[v].at = "reply" /\ thread'[v].at = "idle"
  /\ \A r \in Round : /\ begun'[r][v] = begun[r][v]
                      /\ bwd'[r][v] = IF r = token[v] THEN bwd[r][v] + 1 ELSE bwd[r][v]

Moves(v) ==
  \/ Rests(v) \/ Begins(v) \/ Ends(v) \/ Asks(v) \/ Answered(v) \/ Returns(v) \/ Advances(v)
  \/ Leaves(v) \/ Replies(v)

LEMMA TaskMoves ==
  ASSUME Order, ~cut, NEW w \in Slice,
         EndBackward(w) \/ StartWaiting(w) \/ CollectGrads(w) \/ Optimize(w) \/ StartReply(w)
  PROVE  Moves(w) /\ call' = call /\ \A v \in Slice : v # w => thread'[v] = thread[v]
<1> USE DEF coordinator, chain, history
<1>1. /\ thread \in [Slice -> ThreadState] /\ CallsOf(thread[w], call[w], w) /\ begun' = begun /\ bwd' = bwd
      /\ call' = call
  BY DEF Order, Types, Calls, EndBackward, StartWaiting, CollectGrads, Optimize, StartReply
<1>2. Counts(w) BY <1>1 DEF Counts
<1>3. CASE EndBackward(w)
  <2>1. thread[w].at = "backward" /\ thread[w].gen = token[w] /\ token[w] # 0
    BY <1>3, Working, Sizes DEF EndBackward
  <2> DEFINE own == sum'[w]
             t == IF ~IsLastMicro(thread[w].id) THEN [thread[w] EXCEPT !.at = "reply"]
                  ELSE [thread[w] EXCEPT !.at = "send", !.cfg = token[w], !.todo = ToSend(w), !.own = own,
                                         !.val = value[w]]
  <2>2. thread' = [thread EXCEPT ![w] = t] BY <1>3, <2>1 DEF EndBackward
  <2> HIDE DEF own
  <2>3. /\ t.gen = thread[w].gen /\ t.id = thread[w].id
        /\ \/ t.at = "reply" /\ ~IsLastMicro(thread[w].id)
           \/ t.at = "send" /\ t.todo = ToSend(w)
    BY <1>1 DEF ThreadState
  <2> HIDE DEF t
  <2>4. thread'[w] = t /\ \A v \in Slice : v # w => thread'[v] = thread[v] BY <1>1, <2>2
  <2>5. Ends(w) BY <1>1, <1>2, <2>1, <2>3, <2>4 DEF Ends, SameTask, CallsOf
  <2> QED BY <1>1, <2>4, <2>5 DEF Moves
<1>4. CASE StartWaiting(w)
  <2> DEFINE todo == IF thread[w].cfg = 0 THEN {} ELSE ToCollect(w)
  <2>1. /\ thread' = [thread EXCEPT ![w].at = "wait", ![w].todo = todo]
        /\ thread[w].at = "send" /\ thread[w].todo = {}
    BY <1>4 DEF StartWaiting
  <2> HIDE DEF todo
  <2>2. /\ thread'[w].at = "wait" /\ SameTask(w) /\ \A v \in Slice : v # w => thread'[v] = thread[v]
    BY <1>1, <2>1 DEF ThreadState, SameTask
  <2>3. Advances(w) BY <1>2, <2>1, <2>2 DEF Advances
  <2> QED BY <1>1, <2>2, <2>3 DEF Moves
<1>5. CASE CollectGrads(w)
  <2>1. /\ thread' = [thread EXCEPT ![w].todo = thread[w].todo \ {Earliest(thread[w].todo)}]
        /\ thread[w].at = "wait"
    BY <1>5 DEF CollectGrads
  <2>2. /\ thread'[w].at = "wait" /\ SameTask(w) /\ \A v \in Slice : v # w => thread'[v] = thread[v]
        /\ thread'[w].todo \subseteq thread[w].todo
    BY <1>1, <2>1 DEF ThreadState, SameTask
  <2>3. Advances(w) BY <1>2, <2>1, <2>2 DEF Advances
  <2> QED BY <1>1, <2>2, <2>3 DEF Moves
<1>6. CASE Optimize(w)
  <2>1. thread[w].at = "wait" BY <1>6 DEF Optimize
  <2>2. token[w] # 0 BY <2>1, Working, Sizes
  <2> DEFINE same == thread[w].cfg = token[w]
             new == [g \in Group |->
                       IF \E p \in ToCollect(w) : p[1] = g
                       THEN <<value[w][g][1], value[w][g][2] + 1>> ELSE value[w][g]]
             val == IF same THEN new ELSE thread[w].val
             todo == IF thread[w].cfg = 0 THEN {} ELSE ToPush(w)
             t == [thread[w] EXCEPT !.at = "push", !.val = val, !.todo = todo]
  <2>3. thread' = [thread EXCEPT ![w] = t] BY <1>6, <2>2 DEF Optimize
  <2> HIDE DEF val, todo
  <2>4. t.gen = thread[w].gen /\ t.id = thread[w].id /\ t.at = "push" BY <1>1 DEF ThreadState
  <2> HIDE DEF t
  <2>5. thread'[w] = t /\ \A v \in Slice : v # w => thread'[v] = thread[v] BY <1>1, <2>3
  <2>6. Advances(w) BY <1>2, <2>1, <2>4, <2>5 DEF Advances, SameTask
  <2> QED BY <1>1, <2>5, <2>6 DEF Moves
<1>7. CASE StartReply(w)
  <2>1. thread' = [thread EXCEPT ![w].at = "reply"] /\ thread[w].at = "push"
    BY <1>7 DEF StartReply
  <2>2. /\ thread'[w].at = "reply" /\ SameTask(w) /\ \A v \in Slice : v # w => thread'[v] = thread[v]
    BY <1>1, <2>1 DEF ThreadState, SameTask
  <2>3. Advances(w) BY <1>2, <2>1, <2>2 DEF Advances
  <2> QED BY <1>1, <2>2, <2>3 DEF Moves
<1> QED BY <1>3, <1>4, <1>5, <1>6, <1>7

LEMMA MessageMoves ==
  ASSUME Order, ~cut, NEW w \in Slice,
         SendGrad(w) \/ SendUpdate(w) \/ CallReturns(w) \/ Handler(w) \/ WaitTimesOut(w) \/ CallFails(w)
  PROVE  Moves(w) /\ \A v \in Slice : v # w => thread'[v] = thread[v] /\ call'[v] = call[v]
<1> USE DEF coordinator, chain, history
<1>1. /\ thread \in [Slice -> ThreadState] /\ call \in [Slice -> CallState]
      /\ CallsOf(thread[w], call[w], w) /\ begun' = begun /\ bwd' = bwd
  <2>1. begun' = begun /\ bwd' = bwd
    <3>1. Aside(w) BY DEF Aside
    <3> QED BY <3>1, AsideUnchanged
  <2> QED BY <2>1 DEF Order, Types, Calls
<1>2. Counts(w) BY <1>1 DEF Counts
<1>3. ASSUME NEW kind \in {"grad", "update"}, Call(w, kind, Earliest(thread[w].todo), thread[w]),
             thread[w].todo # {}, call[w].at = "none", thread' = thread
      PROVE  Moves(w) /\ \A v \in Slice : v # w => thread'[v] = thread[v] /\ call'[v] = call[v]
  <2>1. call'[w].at = "sent" /\ \A v \in Slice : v # w => call'[v] = call[v]
    BY <1>3, CallFacts DEF Order
  <2>2. Asks(w) BY <1>2, <1>3, <2>1 DEF Asks
  <2> QED BY <1>3, <2>1, <2>2 DEF Moves
<1>4. CASE SendGrad(w) BY <1>3, <1>4 DEF SendGrad
<1>5. CASE SendUpdate(w) BY <1>3, <1>5 DEF SendUpdate
<1>6. CASE CallReturns(w)
  <2>1. /\ thread' = [thread EXCEPT ![w].todo = thread[w].todo \ {<<call[w].group, call[w].to>>}]
        /\ call' = [call EXCEPT ![w] = NoCall] /\ call[w].at = "done"
    BY <1>6 DEF CallReturns
  <2>2. /\ thread'[w].at = thread[w].at /\ SameTask(w)
        /\ thread'[w].todo = thread[w].todo \ {<<call[w].group, call[w].to>>}
        /\ call'[w].at = "none"
        /\ \A v \in Slice : v # w => thread'[v] = thread[v] /\ call'[v] = call[v]
    BY <1>1, <2>1 DEF ThreadState, NoCall, SameTask
  <2>3. Returns(w) BY <1>2, <2>1, <2>2 DEF Returns
  <2> QED BY <2>2, <2>3 DEF Moves
<1>7. CASE CheckToken(w)
  <2> DEFINE a == IF call[w].token = token[call[w].to] THEN "checked" ELSE "done"
  <2>1. call[w].at = "sent" /\ call' = [call EXCEPT ![w].at = a] /\ thread' = thread
    BY <1>7 DEF CheckToken
  <2>2. a # "done" \/ (a = "done" /\ call[w].token # token[call[w].to]) OBVIOUS
  <2> HIDE DEF a
  <2>3. call'[w].at = a /\ call'[w].group = call[w].group /\ \A v \in Slice : v # w => call'[v] = call[v]
    BY <1>1, <2>1 DEF CallState
  <2>4. Asks(w) \/ Answered(w) BY <1>2, <2>1, <2>2, <2>3 DEF Asks, Answered
  <2> QED BY <2>1, <2>3, <2>4 DEF Moves
<1>8. CASE tied_grad(w) \/ tied_update(w)
  <2>1. /\ call[w].at = "checked" /\ call' = [call EXCEPT ![w].at = "done"] /\ thread' = thread
        /\ call[w].kind = "grad" => tied_grad(w)
    <3>1. CASE tied_grad(w) BY <3>1, Zenon DEF tied_grad
    <3>2. CASE tied_update(w) BY <3>2 DEF tied_update
    <3> QED BY <1>8, <3>1, <3>2
  <2>2. /\ call'[w].at = "done" /\ call'[w].group = call[w].group
        /\ \A v \in Slice : v # w => call'[v] = call[v]
    BY <1>1, <2>1 DEF CallState
  <2>3. Answered(w) BY <1>2, <2>1, <2>2 DEF Answered
  <2> QED BY <2>1, <2>2, <2>3 DEF Moves
<1>9. CASE WaitTimesOut(w) \/ CallFails(w)
  <2>1. /\ thread' = [thread EXCEPT ![w] = Idle] /\ (call' = call \/ call' = [call EXCEPT ![w] = NoCall])
        /\ thread[w].at = "wait" \/ call[w].at \in {"sent", "done"}
    BY <1>9 DEF WaitTimesOut, CallFails
  <2>2. thread[w].at # "idle" BY <1>1, <2>1 DEF CallsOf
  <2>3. thread'[w].at = "idle" /\ \A v \in Slice : v # w => thread'[v] = thread[v] /\ call'[v] = call[v]
    BY <1>1, <2>1 DEF Idle
  <2>4. Leaves(w) BY <1>2, <2>2, <2>3 DEF Leaves
  <2> QED BY <2>3, <2>4 DEF Moves
<1> QED BY <1>4, <1>5, <1>6, <1>7, <1>8, <1>9 DEF Handler

LEMMA EveryMove ==
  ASSUME Order, ~cut, [Next]_vars, NEW v \in Slice
  PROVE  Moves(v)
<1> USE DEF coordinator, chain, history
<1>1. ASSUME UNCHANGED <<thread, call, begun, bwd>> PROVE Moves(v)
  BY <1>1 DEF Moves, Rests, Counts
<1>2. CASE NewRound \/ UNCHANGED vars BY <1>1, <1>2 DEF NewRound, vars
<1>3. ASSUME NEW w \in Slice, Reset(w) \/ ConfigureTied(w) \/ Forward(w) PROVE Moves(v)
  BY <1>1, <1>3 DEF Reset, ConfigureTied, Forward
<1>4. ASSUME NEW w \in Slice, BeginBackward(w) PROVE Moves(v)
  <2>1. token[w] \in Round /\ begun[token[w]][w] = bwd[token[w]][w]
    BY <1>4, InTurn DEF BeginBackward, Arrived, Order
  <2>2. /\ call' = call /\ bwd' = bwd /\ thread[w].at = "idle"
        /\ begun' = [begun EXCEPT ![token[w]][w] = @ + 1]
        /\ thread'[w].at = "backward" /\ thread'[w].gen = token[w]
        /\ \A u \in Slice : u # w => thread'[u] = thread[u]
    BY <1>4 DEF BeginBackward, Idle, Order, Types
  <2>3. \A r \in Round : \A u \in Slice : r # token[w] \/ u # w => begun'[r][u] = begun[r][u]
    BY <2>1, <2>2 DEF Order, Types
  <2>4. CASE v = w BY <2>1, <2>2, <2>3, <2>4 DEF Moves, Begins
  <2>5. CASE v # w BY <2>2, <2>3, <2>5 DEF Moves, Rests, Counts
  <2> QED BY <2>4, <2>5
<1>5. ASSUME NEW w \in Slice, SendBackward(w) PROVE Moves(v)
  <2>1. thread[w].at = "reply" BY <1>5 DEF SendBackward
  <2>2. token[w] \in Round /\ thread[w].gen = token[w] BY <2>1, Working
  <2>3. /\ call' = call /\ begun' = begun /\ bwd' = [bwd EXCEPT ![token[w]][w] = @ + 1]
        /\ thread'[w].at = "idle" /\ \A u \in Slice : u # w => thread'[u] = thread[u]
    BY <1>5, <2>2 DEF SendBackward, Idle, Order, Types
  <2>4. \A r \in Round : \A u \in Slice :
          bwd'[r][u] = IF r = token[w] /\ u = w THEN bwd[r][u] + 1 ELSE bwd[r][u]
    BY <2>2, <2>3 DEF Order, Types
  <2>5. CASE v = w BY <2>1, <2>3, <2>4, <2>5 DEF Moves, Replies
  <2>6. CASE v # w BY <2>3, <2>4, <2>6 DEF Moves, Rests, Counts
  <2> QED BY <2>5, <2>6
<1>6. ASSUME NEW w \in Slice, Aside(w) PROVE Moves(v)
  <2>1. begun' = begun /\ bwd' = bwd BY <1>6, AsideUnchanged
  <2>2. Moves(w) /\ \A u \in Slice : u # w => thread'[u] = thread[u] /\ call'[u] = call[u]
    BY <1>6, TaskMoves, MessageMoves DEF Aside
  <2>3. v # w => Rests(v) BY <2>1, <2>2 DEF Rests, Counts
  <2> QED BY <2>2, <2>3 DEF Moves
<1> QED BY <1>2, <1>3, <1>4, <1>5, <1>6, Cases

LEMMA ReplicaFacts ==
  ASSUME Order, ~cut, NEW v \in Slice, NEW g \in Synced(v), v # Owner(g)
  PROVE  /\ thread[v].at = "send" => thread[v].todo \subseteq ToSend(v)
         /\ <<g, Owner(g)>> \in ToSend(v)
         /\ call[v].at # "none" => /\ thread[v].at \in {"send", "push"}
                                   /\ thread[v].at = "send" => call[v].kind = "grad"
         /\ thread[v].at = "send" /\ call[v].at # "none" =>
              /\ <<call[v].group, call[v].to>> \in thread[v].todo
              /\ call[v].to = Owner(call[v].group) /\ call[v].group \in Synced(v)
              /\ call[v].key = Key(thread[v].id) /\ call[v].token = token[v]
<1>1. CallsOf(thread[v], call[v], v) BY DEF Order, Calls
<1>2. <<g, Owner(g)>> \in ToSend(v) BY PairFacts
<1>3. \A p \in ToSend(v) : p[1] \in Synced(v) /\ p[2] = Owner(p[1]) BY PairFacts
<1>4. call[v].at # "none" => call[v].token = token[v] BY DEF Order, OfThisRound
<1>5. thread[v].at = "send" /\ call[v].at # "none" =>
        call[v].to = Owner(call[v].group) /\ call[v].group \in Synced(v)
  <2> SUFFICES ASSUME thread[v].at = "send", call[v].at # "none"
               PROVE  call[v].to = Owner(call[v].group) /\ call[v].group \in Synced(v)
    OBVIOUS
  <2>1. <<call[v].group, call[v].to>> \in ToSend(v) BY <1>1 DEF CallsOf
  <2> QED BY <1>3, <2>1
<1> QED BY <1>1, <1>2, <1>4, <1>5 DEF CallsOf

\* What a replica gave stays given.
LEMMA GivenStays ==
  ASSUME Order, ~cut, [Next]_vars, NEW v \in Slice, NEW g \in Synced(v), v # Owner(g),
         NEW b \in Batch, NEW r \in Round, Given(v, g, b, r)
  PROVE  Given(v, g, b, r)'
<1>1. bwd[r][v] \in Nat /\ begun[r][v] \in Nat /\ b \in Int /\ Key(bwd[r][v]) \in Nat
  BY ChainTypes, DivMod, Sizes DEF Order, Batch
<1>2. Moves(v) BY EveryMove
<1>3. CASE Rests(v) BY <1>3 DEF Rests, Counts, Given
<1>4. CASE Begins(v) BY <1>1, <1>4 DEF Begins, Given
<1>5. CASE Ends(v)
  <2>1. thread[v].gen = thread'[v].gen BY <1>5 DEF Ends, SameTask
  <2> QED BY <1>5, <2>1 DEF Ends, Counts, Given
<1>6. CASE Asks(v) BY <1>6 DEF Asks, Counts, Given
<1>7. CASE Answered(v) BY <1>7 DEF Answered, Counts, Given
<1>8. CASE Returns(v)
  <2>1. thread[v].at = "send" /\ call[v].group = g => call[v].to = Owner(g)
    BY <1>8, ReplicaFacts DEF Returns
  <2> QED BY <1>8, <2>1 DEF Returns, Counts, Given, SameTask
<1>9. CASE Advances(v) BY <1>9 DEF Advances, Counts, Given
<1>10. CASE Leaves(v) BY <1>10 DEF Leaves, Counts, Given
<1>11. CASE Replies(v)
  <2>1. bwd'[r][v] = bwd[r][v] /\ begun'[r][v] = begun[r][v] => Given(v, g, b, r)'
    BY <1>11 DEF Replies, Given
  <2>2. CASE r = token[v]
    <3>1. bwd'[r][v] = bwd[r][v] + 1 BY <1>11, <2>2 DEF Replies
    <3>2. Key(bwd[r][v] + 1) = IF IsLastMicro(bwd[r][v]) THEN Key(bwd[r][v]) + 1 ELSE Key(bwd[r][v])
      BY <1>1, KeyNext
    <3>3. b < Key(bwd[r][v]) \/ (b = Key(bwd[r][v]) /\ IsLastMicro(bwd[r][v])) BY DEF Given
    <3>4. b < Key(bwd'[r][v]) BY <1>1, <3>1, <3>2, <3>3
    <3> QED BY <3>4 DEF Given
  <2> QED BY <1>11, <2>1, <2>2 DEF Replies
<1> QED BY <1>2, <1>3, <1>4, <1>5, <1>6, <1>7, <1>8, <1>9, <1>10, <1>11 DEF Moves

\* The owner gets the gradient of a replica by the replica's call alone.
LEMMA SurelyBefore ==
  ASSUME Order, ~cut, [Next]_vars, NEW v \in Slice, NEW g \in Synced(v), v # Owner(g),
         NEW b \in Batch, token[Owner(g)] \in Round, token'[Owner(g)] = token[Owner(g)],
         SurelyGiven(v, g, b, token[Owner(g)])'
  PROVE  \/ SurelyGiven(v, g, b, token[Owner(g)])
         \/ tied_grad(v) /\ call[v].group = g /\ call[v].to = Owner(g) /\ call[v].key = b
<1> DEFINE r == token[Owner(g)]
<1>1. /\ r \in Round /\ bwd[r][v] \in Nat /\ begun[r][v] \in Nat /\ b \in Int /\ Key(bwd[r][v]) \in Nat
      /\ r # 0 /\ r' = r
  BY ChainTypes, DivMod, Sizes DEF Order, Batch
<1>2. Moves(v) BY EveryMove
<1>3. thread[v].at # "idle" =>
        /\ token[v] \in Round /\ thread[v].gen = token[v] /\ thread[v].id = bwd[token[v]][v]
        /\ bwd[token[v]][v] \in Nat
  BY Working
<1>4. \/ b < Key(bwd'[r][v])
      \/ /\ thread'[v].gen = r /\ b = Key(thread'[v].id) /\ IsLastMicro(thread'[v].id)
         /\ \/ thread'[v].at \in {"wait", "push", "reply"}
            \/ /\ thread'[v].at = "send"
               /\ <<g, Owner(g)>> \notin thread'[v].todo \/ (call'[v].at = "done" /\ call'[v].group = g)
  BY <1>1 DEF SurelyGiven
<1> HIDE DEF r
<1>5. CASE Rests(v) BY <1>1, <1>4, <1>5 DEF Rests, Counts, SurelyGiven, r
<1>6. CASE Begins(v) BY <1>1, <1>4, <1>6 DEF Begins, SurelyGiven, r
<1>7. CASE Ends(v)
  <2>1. <<g, Owner(g)>> \in ToSend(v) BY ReplicaFacts
  <2> QED BY <1>1, <1>4, <1>7, <2>1 DEF Ends, Counts, SameTask, SurelyGiven, r
<1>8. CASE Asks(v) BY <1>1, <1>4, <1>8 DEF Asks, Counts, SurelyGiven, r
<1>9. CASE Answered(v)
  <2>1. CASE thread[v].at = "send" /\ call[v].group = g
    <3>1. /\ call[v].kind = "grad" /\ call[v].to = Owner(g) /\ call[v].key = Key(thread[v].id)
          /\ call[v].token = token[v]
      BY <1>9, <2>1, ReplicaFacts DEF Answered
    <3>2. CASE call[v].token # token[call[v].to]
      BY <1>1, <1>3, <1>4, <1>9, <2>1, <3>1, <3>2 DEF Answered, Counts, SurelyGiven, r
    <3>3. CASE tied_grad(v)
      BY <1>1, <1>4, <1>9, <2>1, <3>1, <3>3 DEF Answered, Counts, SurelyGiven, r
    <3> QED BY <1>9, <3>1, <3>2, <3>3 DEF Answered
  <2>2. CASE ~(thread[v].at = "send" /\ call[v].group = g)
    BY <1>1, <1>4, <1>9, <2>2 DEF Answered, Counts, SurelyGiven, r
  <2> QED BY <2>1, <2>2
<1>10. CASE Returns(v)
  <2>1. thread[v].at = "send" => call[v].group = g \/ <<call[v].group, call[v].to>> # <<g, Owner(g)>>
    OBVIOUS
  <2> QED BY <1>1, <1>4, <1>10, <2>1 DEF Returns, Counts, SameTask, SurelyGiven, r
<1>11. CASE Advances(v) BY <1>1, <1>4, <1>11 DEF Advances, Counts, SameTask, SurelyGiven, r
<1>12. CASE Leaves(v) BY <1>1, <1>4, <1>12 DEF Leaves, Counts, SurelyGiven, r
<1>13. CASE Replies(v)
  <2>1. CASE r = token[v]
    <3>1. bwd'[r][v] = bwd[r][v] + 1 /\ thread[v].at = "reply" /\ thread'[v].at = "idle"
      BY <1>1, <1>13, <2>1 DEF Replies
    <3>2. Key(bwd[r][v] + 1) = IF IsLastMicro(bwd[r][v]) THEN Key(bwd[r][v]) + 1 ELSE Key(bwd[r][v])
      BY <1>1, KeyNext
    <3>3. b < Key(bwd[r][v]) \/ (b = Key(bwd[r][v]) /\ IsLastMicro(bwd[r][v]))
      BY <1>1, <1>4, <3>1, <3>2
    <3>4. thread[v].gen = r /\ thread[v].id = bwd[r][v] BY <1>3, <2>1, <3>1
    <3> QED BY <3>1, <3>3, <3>4 DEF SurelyGiven, r
  <2>2. CASE r # token[v] BY <1>1, <1>4, <1>13, <2>2 DEF Replies, SurelyGiven, r
  <2> QED BY <2>1, <2>2
<1> QED BY <1>2, <1>5, <1>6, <1>7, <1>8, <1>9, <1>10, <1>11, <1>12, <1>13 DEF Moves

\* What an owner has used stays used.
LEMMA CollectedStays ==
  ASSUME Order, ~cut, [Next]_vars, NEW w \in Slice, NEW g \in Owned(w), NEW b \in Batch,
         token[w] \in Round, Collected(w, g, b, token[w]), token'[w] = token[w]
  PROVE  Collected(w, g, b, token[w])'
<1> DEFINE r == token[w]
<1>1. /\ r \in Round /\ bwd[r][w] \in Nat /\ begun[r][w] \in Nat /\ b \in Int /\ Key(bwd[r][w]) \in Nat
      /\ r' = r
  BY ChainTypes, DivMod, Sizes DEF Order, Batch
<1>2. Moves(w) BY EveryMove
<1>3. call[w].at # "none" => thread[w].at \in {"send", "push"} BY DEF Order, Calls, CallsOf
<1>4. \/ b < Key(bwd[r][w])
      \/ /\ b = Key(bwd[r][w]) /\ begun[r][w] = bwd[r][w] + 1 /\ IsLastMicro(bwd[r][w])
         /\ thread[w].at \notin {"backward", "send"}
         /\ ~(thread[w].at = "wait" /\ <<g, w>> \in thread[w].todo)
  BY DEF Collected
<1> SUFFICES \/ b < Key(bwd'[r][w])
             \/ /\ b = Key(bwd'[r][w]) /\ begun'[r][w] = bwd'[r][w] + 1 /\ IsLastMicro(bwd'[r][w])
                /\ thread'[w].at \notin {"backward", "send"}
                /\ ~(thread'[w].at = "wait" /\ <<g, w>> \in thread'[w].todo)
  BY <1>1 DEF Collected
<1> HIDE DEF r
<1>5. CASE Rests(w) BY <1>1, <1>4, <1>5 DEF Rests, Counts
<1>6. CASE Begins(w) BY <1>1, <1>4, <1>6 DEF Begins, r
<1>7. CASE Ends(w) BY <1>1, <1>4, <1>7 DEF Ends, Counts
<1>8. CASE Asks(w) BY <1>1, <1>4, <1>8 DEF Asks, Counts
<1>9. CASE Answered(w) BY <1>1, <1>4, <1>9 DEF Answered, Counts
<1>10. CASE Returns(w) BY <1>1, <1>3, <1>4, <1>10 DEF Returns, Counts
<1>11. CASE Advances(w) BY <1>1, <1>4, <1>11 DEF Advances, Counts
<1>12. CASE Leaves(w) BY <1>1, <1>4, <1>12 DEF Leaves, Counts
<1>13. CASE Replies(w)
  <2>1. bwd'[r][w] = bwd[r][w] + 1 /\ r = token[w] BY <1>1, <1>13 DEF Replies, r
  <2>2. Key(bwd[r][w] + 1) = IF IsLastMicro(bwd[r][w]) THEN Key(bwd[r][w]) + 1 ELSE Key(bwd[r][w])
    BY <1>1, KeyNext
  <2> QED BY <1>1, <1>4, <2>1, <2>2
<1> QED BY <1>2, <1>5, <1>6, <1>7, <1>8, <1>9, <1>10, <1>11, <1>12, <1>13 DEF Moves

\* The call of a replica that its owner serves.
LEMMA CallOfReplica ==
  ASSUME Order, ~cut, NEW v \in Slice, tied_grad(v)
  PROVE  /\ call[v].group \in Group /\ call[v].to \in Slice /\ call[v].key \in Batch /\ call[v].own \in Sum
         /\ call[v].key = Key(bwd[token[v]][v])
         /\ call[v].to = Owner(call[v].group) /\ v \in Replicas(call[v].group)
         /\ token[call[v].to] = token[v] /\ thread[v].at = "send" /\ call[v].own = thread[v].own
         /\ <<call[v].group, call[v].to>> \in thread[v].todo
<1>1. call[v].at = "checked" /\ call[v].kind = "grad" /\ call[v].at # "none"
  BY Zenon DEF tied_grad
<1> HIDE DEF tied_grad
<1>2. /\ CallsOf(thread[v], call[v], v) /\ call[v].token = token[v]
      /\ token[call[v].to] = call[v].token
  BY <1>1 DEF Order, Calls, OfThisRound
<1>3. /\ thread[v].at = "send" /\ <<call[v].group, call[v].to>> \in ToSend(v)
      /\ <<call[v].group, call[v].to>> \in thread[v].todo
      /\ call[v].key = Key(thread[v].id) /\ call[v].own = thread[v].own
  BY <1>1, <1>2 DEF CallsOf
<1>4. call[v].group \in Synced(v) /\ call[v].to = Owner(call[v].group) /\ call[v].to # v
  BY <1>3, PairFacts
<1>5. call[v].group \in Group /\ call[v].to \in Slice /\ v \in Replicas(call[v].group)
  BY <1>4, SyncedFacts
<1>6. call[v].key \in Batch /\ call[v].own \in Sum /\ thread[v].id = bwd[token[v]][v]
  BY <1>3, ThreadTypes, Working DEF Order
<1> QED BY <1>2, <1>3, <1>4, <1>5, <1>6

LEMMA GradArrives ==
  ASSUME Order, ~cut, NEW v \in Slice, tied_grad(v)
  PROVE  \A x \in Slice : \A h \in Group : \A k \in Batch :
           grads'[x][h][k] = IF x = call[v].to /\ h = call[v].group /\ k = call[v].key
                             THEN Append(grads[x][h][k], [from |-> v, own |-> call[v].own])
                             ELSE grads[x][h][k]
<1> DEFINE x == call[v].to
           h == call[v].group
           k == call[v].key
           e == [from |-> v, own |-> call[v].own]
           d == Append(grads[x][h][k], e)
<1>1. grads' = [grads EXCEPT ![x][h][k] = d] BY Zenon DEF tied_grad
<1>2. x \in Slice /\ h \in Group /\ k \in Batch /\ e \in Entry BY CallOfReplica DEF Entry
<1> HIDE DEF x, h, k, e
<1> HIDE DEF d
<1>3. grads \in [Slice -> [Group -> [Batch -> Seq(Entry)]]] BY DEF Order, Types
<1>4. ASSUME NEW y \in Slice, NEW i \in Group, NEW j \in Batch
      PROVE  grads'[y][i][j] = IF y = x /\ i = h /\ j = k THEN d ELSE grads[y][i][j]
  <2> DEFINE D == Seq(Entry)
  <2>1. grads \in [Slice -> [Group -> [Batch -> D]]] BY <1>3
  <2> HIDE DEF D
  <2> QED BY ONLY <1>1, <1>2, <2>1, y \in Slice, i \in Group, j \in Batch
<1> QED BY <1>4 DEF d, x, h, k, e

\* The gradients an owner takes.
Taken(w, g) ==
  /\ Earliest(thread[w].todo) = <<g, w>> /\ <<g, w>> \in thread[w].todo
  /\ thread'[w].todo = thread[w].todo \ {<<g, w>>} /\ thread[w].at = "wait" /\ thread'[w].at = "wait"
  /\ \A x \in Slice : \A h \in Group : \A k \in Batch :
       grads'[x][h][k] = IF x = w /\ h = g /\ k = Key(thread[w].id) THEN <<>> ELSE grads[x][h][k]

LEMMA GradsTaken ==
  ASSUME Order, ~cut, NEW w \in Slice, CollectGrads(w)
  PROVE  \E g \in Owned(w) : Taken(w, g)
<1> DEFINE g == Earliest(thread[w].todo)[1]
           b == Key(thread[w].id)
<1>1. /\ thread[w].at = "wait" /\ thread[w].todo # {}
      /\ grads' = [grads EXCEPT ![w][g][b] = <<>>]
      /\ thread' = [thread EXCEPT ![w].todo = thread[w].todo \ {Earliest(thread[w].todo)}]
  BY DEF CollectGrads
<1>2. /\ thread[w].todo \in SUBSET (Group \X Slice) /\ thread[w].todo \subseteq ToCollect(w)
      /\ thread \in [Slice -> ThreadState]
  BY <1>1, ThreadTypes DEF Order, Calls, CallsOf, Types
<1>3. Earliest(thread[w].todo) \in thread[w].todo BY <1>1, <1>2, EarliestIn
<1>4. Earliest(thread[w].todo) = <<g, w>> /\ g \in Owned(w) /\ g \in Group
  BY <1>2, <1>3, PairFacts, OwnedFacts
<1>5. b \in Batch BY <1>1, IdInBatch DEF Order
<1>6. thread'[w].todo = thread[w].todo \ {<<g, w>>} /\ thread'[w].at = "wait"
  BY <1>1, <1>2, <1>4 DEF ThreadState
<1> HIDE DEF g, b
<1>7. ASSUME NEW x \in Slice, NEW h \in Group, NEW k \in Batch
      PROVE  grads'[x][h][k] = IF x = w /\ h = g /\ k = b THEN <<>> ELSE grads[x][h][k]
  <2> DEFINE D == Seq(Entry)
  <2>1. grads \in [Slice -> [Group -> [Batch -> D]]] BY DEF Order, Types
  <2> HIDE DEF D
  <2> QED BY ONLY <1>1, <1>4, <1>5, <2>1, x \in Slice, h \in Group, k \in Batch
<1> QED BY <1>1, <1>3, <1>4, <1>6, <1>7 DEF Taken, b

LEMMA GradsSteps ==
  ASSUME [Next]_vars, NEW w \in Slice, ~Reset(w)
  PROVE  \/ grads'[w] = grads[w]
         \/ \E v \in Slice : tied_grad(v)
         \/ CollectGrads(w) \/ \E v \in Slice : v # w /\ (Reset(v) \/ CollectGrads(v))
<1>1. ASSUME NEW v \in Slice, Aside(v), ~tied_grad(v), ~CollectGrads(v) PROVE grads' = grads
  BY <1>1 DEF Aside, Handler, EndBackward, SendGrad, StartWaiting, Optimize, SendUpdate, StartReply,
              CallReturns, CheckToken, tied_update, WaitTimesOut, CallFails
<1>2. ASSUME NEW v \in Slice, ConfigureTied(v) \/ Forward(v) \/ BeginBackward(v) \/ SendBackward(v)
      PROVE  grads' = grads
  BY <1>2 DEF ConfigureTied, Forward, BeginBackward, SendBackward
<1>3. NewRound \/ UNCHANGED vars => grads' = grads BY DEF NewRound, vars
<1> QED BY <1>1, <1>2, <1>3, Cases

LEMMA TokenSteps ==
  ASSUME Types, [Next]_vars, NEW w \in Slice
  PROVE  Reset(w) \/ ConfigureTied(w) \/ token'[w] = token[w]
<1> USE DEF coordinator, chain, history
<1>1. ASSUME NEW v \in Slice, Reset(v) \/ ConfigureTied(v), v # w PROVE token'[w] = token[w]
  BY <1>1 DEF Reset, ConfigureTied, Types
<1>2. ASSUME NEW v \in Slice, Forward(v) \/ BeginBackward(v) \/ SendBackward(v) \/ Aside(v)
      PROVE  token' = token
  BY <1>2, AsideUnchanged DEF Forward, BeginBackward, SendBackward
<1>3. NewRound \/ UNCHANGED vars => token' = token BY DEF NewRound, vars
<1> QED BY <1>1, <1>2, <1>3, Cases

\* The gradients of owner w for a group and a step, and what a step makes of them.
LEMMA GradsChange ==
  ASSUME Order, ~cut, [Next]_vars, NEW w \in Slice, ~Reset(w), NEW g \in Owned(w), NEW b \in Batch
  PROVE  \/ grads'[w][g][b] = grads[w][g][b]
         \/ \E v \in Slice : /\ tied_grad(v) /\ call[v].group = g /\ call[v].to = w /\ call[v].key = b
                             /\ grads'[w][g][b] = Append(grads[w][g][b], [from |-> v, own |-> call[v].own])
         \/ /\ CollectGrads(w) /\ thread[w].at = "wait" /\ b = Key(thread[w].id) /\ grads'[w][g][b] = <<>>
            /\ thread'[w].at = "wait" /\ <<g, w>> \notin thread'[w].todo
<1>1. g \in Group BY OwnedFacts
<1>2. ASSUME NEW v \in Slice, tied_grad(v)
      PROVE  grads'[w][g][b] = IF w = call[v].to /\ g = call[v].group /\ b = call[v].key
                               THEN Append(grads[w][g][b], [from |-> v, own |-> call[v].own])
                               ELSE grads[w][g][b]
  BY <1>1, <1>2, GradArrives
<1>3. ASSUME NEW v \in Slice, CollectGrads(v), v # w PROVE grads'[w][g][b] = grads[w][g][b]
  <2>1. PICK h \in Owned(v) : Taken(v, h) BY <1>3, GradsTaken
  <2> QED BY <1>1, <1>3, <2>1 DEF Taken
<1>4. ASSUME NEW v \in Slice, Reset(v), v # w PROVE grads'[w][g][b] = grads[w][g][b]
  BY <1>4 DEF Reset, Order, Types
<1>5. ASSUME CollectGrads(w)
      PROVE  \/ grads'[w][g][b] = grads[w][g][b]
             \/ /\ thread[w].at = "wait" /\ b = Key(thread[w].id) /\ grads'[w][g][b] = <<>>
                /\ thread'[w].at = "wait" /\ <<g, w>> \notin thread'[w].todo
  <2>1. PICK h \in Owned(w) : Taken(w, h) BY <1>5, GradsTaken
  <2> QED BY <1>1, <1>5, <2>1 DEF Taken
<1> QED BY <1>2, <1>3, <1>4, <1>5, GradsSteps

LEMMA EntriesKept ==
  ASSUME Order, Sums, ~cut, [Next]_vars, NEW w \in Slice, NEW g \in Owned(w), NEW b \in Batch,
         token[w] \in Round, token'[w] = token[w], ~Reset(w), Entries(w, g, b)
  PROVE  Entries(w, g, b)'
<1> DEFINE s == grads[w][g][b]
           n == grads'[w][g][b]
           r == token[w]
           old == Givers(g, b, r)
           new == Givers(g, b, r)'
<1>1. /\ g \in Group /\ s \in Seq(Entry) /\ r' = r
      /\ \A v \in Replicas(g) : v \in Slice /\ g \in Synced(v) /\ v # Owner(g)
  BY OwnedFacts, GroupFacts DEF Order, Types
<1>2. ASSUME NEW v \in Replicas(g), Given(v, g, b, r) PROVE Given(v, g, b, r)'
  BY <1>1, <1>2, GivenStays
<1>3. old \subseteq new BY <1>2 DEF Givers
<1>4. /\ \A i \in DOMAIN s : s[i].from \in old /\ s[i].own = Micros(<<r, b>>)
      /\ \A i, j \in DOMAIN s : s[i].from = s[j].from => i = j
  BY DEF Entries
<1> HIDE DEF old
<1> SUFFICES /\ \A i \in DOMAIN n : n[i].from \in new /\ n[i].own = Micros(<<r, b>>)
             /\ \A i, j \in DOMAIN n : n[i].from = n[j].from => i = j
  BY <1>1 DEF Entries
<1>5. ASSUME NEW v \in Slice, tied_grad(v), call[v].group = g, call[v].to = w, call[v].key = b,
             n = Append(s, [from |-> v, own |-> call[v].own])
      PROVE  /\ \A i \in DOMAIN n : n[i].from \in new /\ n[i].own = Micros(<<r, b>>)
             /\ \A i, j \in DOMAIN n : n[i].from = n[j].from => i = j
  <2>1. /\ b = Key(bwd[r][v]) /\ v \in Replicas(g) /\ token[v] = r /\ thread[v].at = "send"
        /\ call[v].own = thread[v].own /\ <<g, Owner(g)>> \in thread[v].todo
    <3>1. token[v] = r /\ w = Owner(g) BY <1>5, CallOfReplica, OwnedFacts
    <3> QED BY <1>5, <3>1, CallOfReplica
  <2>2. /\ thread[v].gen = r /\ IsLastMicro(bwd[r][v]) /\ begun[r][v] = bwd[r][v] + 1
        /\ bwd[r][v] \in Nat
    BY <2>1, Working
  <2>3. thread[v].own = Micros(<<r, b>>) BY <2>1, <2>2, Sizes DEF Sums, SumOf
  <2>4. call[v].at = "checked" BY <1>5, Zenon DEF tied_grad
  <2>5. v \notin old BY <2>1, <2>2, <2>4, DivMod DEF Givers, Given, old
  <2>6. Given(v, g, b, r)'
    <3>1. /\ thread' = thread /\ begun' = begun /\ bwd' = bwd /\ call' = [call EXCEPT ![v].at = "done"]
      BY <1>5, Zenon DEF tied_grad, chain
    <3>2. call'[v].at = "done" /\ call'[v].group = g BY <1>5, <3>1 DEF Order, Types, CallState
    <3> QED BY <1>1, <2>1, <2>2, <3>1, <3>2 DEF Given
  <2>7. v \in new BY <2>1, <2>6 DEF Givers
  <2> DEFINE e == [from |-> v, own |-> call[v].own]
  <2>8. /\ e.from = v /\ e.own = Micros(<<r, b>>) /\ n = Append(s, e)
    <3>1. e.from = v /\ e.own = call[v].own OBVIOUS
    <3>2. call[v].own = Micros(<<r, b>>) BY <2>1, <2>3
    <3> QED BY <1>5, <3>1, <3>2
  <2> HIDE DEF e, n, new, s
  <2>9. /\ DOMAIN n = 1 .. Len(s) + 1 /\ DOMAIN s = 1 .. Len(s) /\ Len(s) \in Nat
        /\ \A i \in 1 .. Len(s) : n[i] = s[i]
        /\ n[Len(s) + 1] = e
    BY <1>1, <2>8
  <2> QED BY <1>3, <1>4, <2>5, <2>7, <2>8, <2>9
<1>6. CASE n = s BY <1>3, <1>4, <1>6
<1>7. CASE n = << >> BY <1>7
<1> QED BY <1>5, <1>6, <1>7, GradsChange

LEMMA GatheredKept ==
  ASSUME Order, ~cut, [Next]_vars, NEW w \in Slice, NEW g \in Owned(w), NEW b \in Batch,
         token[w] \in Round, token'[w] = token[w], ~Reset(w), Gathered(w, g, b)
  PROVE  Gathered(w, g, b)'
<1> DEFINE s == grads[w][g][b]
           n == grads'[w][g][b]
           r == token[w]
<1>1. /\ g \in Group /\ s \in Seq(Entry) /\ r' = r /\ Owner(g) = w
      /\ \A v \in Replicas(g) : v \in Slice /\ g \in Synced(v) /\ v # Owner(g)
  BY OwnedFacts, GroupFacts DEF Order, Types
<1> SUFFICES ASSUME NEW v \in Replicas(g), SurelyGiven(v, g, b, r)', ~Collected(w, g, b, r)'
             PROVE  \E i \in DOMAIN n : n[i].from = v
  BY DEF Gathered
<1>2. ~Collected(w, g, b, r) BY <1>1, CollectedStays
<1>3. SurelyGiven(v, g, b, r) \/ (tied_grad(v) /\ call[v].group = g /\ call[v].to = w /\ call[v].key = b)
  BY <1>1, SurelyBefore
<1>4. ASSUME NEW x \in Slice, n = Append(s, [from |-> x, own |-> call[x].own])
      PROVE  \A u \in Replicas(g) : (x = u \/ \E i \in DOMAIN s : s[i].from = u) => \E i \in DOMAIN n : n[i].from = u
  <2> DEFINE e == [from |-> x, own |-> call[x].own]
  <2>1. e.from = x /\ n = Append(s, e) BY <1>4
  <2> HIDE DEF e, n, s
  <2>2. /\ DOMAIN n = 1 .. Len(s) + 1 /\ DOMAIN s = 1 .. Len(s) /\ Len(s) \in Nat
        /\ \A i \in 1 .. Len(s) : n[i] = s[i]
        /\ n[Len(s) + 1] = e
    BY <1>1, <2>1
  <2>3. Len(s) + 1 \in DOMAIN n /\ \A i \in DOMAIN s : i \in DOMAIN n BY <2>2
  <2> QED BY <2>1, <2>2, <2>3
<1>5. CASE tied_grad(v) /\ call[v].group = g /\ call[v].to = w /\ call[v].key = b
  <2>1. n = Append(s, [from |-> v, own |-> call[v].own]) BY <1>1, <1>5, GradArrives
  <2> QED BY <1>1, <1>4, <2>1
<1>6. CASE SurelyGiven(v, g, b, r)
  <2>1. \E i \in DOMAIN s : s[i].from = v BY <1>2, <1>6 DEF Gathered
  <2>2. ASSUME CollectGrads(w), thread[w].at = "wait", b = Key(thread[w].id), thread'[w].at = "wait",
               <<g, w>> \notin thread'[w].todo
        PROVE  Collected(w, g, b, r)'
    <3>1. /\ thread[w].id = bwd[r][w] /\ begun[r][w] = bwd[r][w] + 1 /\ IsLastMicro(bwd[r][w])
      BY <2>2, Working
    <3>2. begun' = begun /\ bwd' = bwd BY <2>2 DEF CollectGrads, chain
    <3> QED BY <1>1, <2>2, <3>1, <3>2 DEF Collected
  <2>3. ASSUME n = s PROVE \E i \in DOMAIN n : n[i].from = v
    BY <2>1, <2>3
  <2>4. ASSUME NEW x \in Slice, n = Append(s, [from |-> x, own |-> call[x].own])
        PROVE  \E i \in DOMAIN n : n[i].from = v
    BY <1>4, <2>1, <2>4
  <2> QED BY <2>2, <2>3, <2>4, GradsChange
<1> QED BY <1>3, <1>5, <1>6

LEMMA GradientsKept ==
  ASSUME Order, Sums, Gradients, [Next]_vars
  PROVE  Gradients'
<1> USE DEF coordinator, chain, history
<1> SUFFICES ASSUME ~cut', NEW w \in Slice PROVE GradsOf(w)'
  BY DEF Gradients
<1>1. ~cut /\ GradsOf(w) BY CutGrows DEF Order, Gradients
<1>2. token[w] # 0 <=> token[w] \in Round BY TokenIsRound DEF Order
<1>3. CASE Reset(w)
  <2>1. token'[w] = 0 /\ grads'[w] = NoGrads BY <1>3 DEF Reset, Order, Types
  <2> QED BY <2>1 DEF GradsOf
<1>4. CASE ConfigureTied(w)
  <2>1. /\ next = w /\ init = "tie" /\ token' = [token EXCEPT ![w] = round]
        /\ UNCHANGED <<thread, call, grads, begun, bwd>>
    BY <1>4 DEF ConfigureTied
  <2>2. token[w] = 0 /\ token'[w] = round /\ next < NumSlices
    BY <2>1, Sizes DEF Order, Types, Tokens
  <2>3. grads'[w] = NoGrads BY <1>1, <2>1, <2>2 DEF GradsOf
  <2>4. /\ round \in Round
        /\ \A v \in Slice : bwd[round][v] = 0 /\ (thread[v].at # "idle" => thread[v].gen # round)
    BY <2>2, NothingYet DEF Order
  <2>5. ASSUME NEW g \in Owned(w), NEW b \in Batch PROVE Entries(w, g, b)' /\ Gathered(w, g, b)'
    <3>1. g \in Group /\ grads'[w][g][b] = << >> BY <2>3, OwnedFacts DEF NoGrads
    <3>2. ASSUME NEW v \in Replicas(g) PROVE ~SurelyGiven(v, g, b, token[w])'
      <4>1. v \in Slice BY OwnedFacts
      <4>2. bwd[round][v] = 0 /\ (thread[v].at # "idle" => thread[v].gen # round) /\ ~(b < Key(0))
        BY <2>4, <4>1, KeyZero, Sizes DEF Batch
      <4> QED BY <2>1, <2>2, <4>2 DEF SurelyGiven
    <3> QED BY <3>1, <3>2 DEF Entries, Gathered
  <2> QED BY <2>2, <2>5, <2>3 DEF GradsOf
<1>5. CASE ~Reset(w) /\ ~ConfigureTied(w)
  <2>1. token'[w] = token[w] BY <1>5, TokenSteps DEF Order
  <2>2. CASE token[w] = 0
    <3>1. /\ grads \in [Slice -> [Group -> [Batch -> Seq(Entry)]]]
          /\ grads' \in [Slice -> [Group -> [Batch -> Seq(Entry)]]]
      BY TypesKept DEF Order, Types
    <3>2. ASSUME NEW v \in Slice, tied_grad(v) PROVE grads'[w] = grads[w]
      <4>1. token[call[v].to] = token[v] /\ thread[v].at = "send" BY <1>1, <3>2, CallOfReplica
      <4>2. call[v].to # w BY <1>1, <2>2, <4>1, NoTask
      <4>3. \A x \in Slice : \A h \in Group : \A k \in Batch :
              grads'[x][h][k] = IF x = call[v].to /\ h = call[v].group /\ k = call[v].key
                                THEN Append(grads[x][h][k], [from |-> v, own |-> call[v].own])
                                ELSE grads[x][h][k]
        BY <1>1, <3>2, GradArrives, Zenon
      <4>4. \A h \in Group : grads'[w][h] = grads[w][h]
        <5> SUFFICES ASSUME NEW h \in Group PROVE grads'[w][h] = grads[w][h]
          OBVIOUS
        <5>1. \A k \in Batch : grads'[w][h][k] = grads[w][h][k] BY <4>2, <4>3
        <5> QED BY <3>1, <5>1
      <4> QED BY <3>1, <4>4
    <3>3. ASSUME NEW v \in Slice, CollectGrads(v), v # w PROVE grads'[w] = grads[w]
      <4> PICK g \in Owned(v) : Taken(v, g) BY <1>1, <3>3, GradsTaken
      <4>1. \A h \in Group : \A k \in Batch : grads'[w][h][k] = grads[w][h][k] BY <3>3 DEF Taken
      <4>2. \A h \in Group : grads'[w][h] = grads[w][h] BY <3>1, <4>1
      <4> QED BY <3>1, <4>2
    <3>4. ASSUME NEW v \in Slice, Reset(v), v # w PROVE grads'[w] = grads[w]
      BY <3>1, <3>4 DEF Reset
    <3>5. ~CollectGrads(w) BY <1>1, <2>2, NoTask DEF CollectGrads
    <3>6. grads'[w] = grads[w] BY <1>5, <3>2, <3>3, <3>4, <3>5, GradsSteps
    <3> QED BY <1>1, <2>1, <2>2, <3>6 DEF GradsOf
  <2>3. CASE token[w] # 0
    <3>1. ASSUME NEW g \in Owned(w), NEW b \in Batch PROVE Entries(w, g, b)' /\ Gathered(w, g, b)'
      BY <1>1, <1>2, <1>5, <2>1, <2>3, EntriesKept, GatheredKept DEF GradsOf
    <3> QED BY <2>1, <2>3, <3>1 DEF GradsOf
  <2> QED BY <2>2, <2>3
<1> QED BY <1>3, <1>4, <1>5

--------------------
(* The sum of every use. *)

\* The gradient of each replica is there when the backward pass reaches the
\* owner: a replica replies down the chain after the owner's answer.
LEMMA AllThere ==
  ASSUME Order, Gradients, ~cut, NEW w \in Slice, thread[w].at = "wait", NEW g \in Owned(w),
         <<g, w>> \in thread[w].todo
  PROVE  /\ Sent(w, g) \in Seq(Entry)
         /\ \A i \in DOMAIN Sent(w, g) :
              /\ Sent(w, g)[i].from \in Replicas(g)
              /\ Sent(w, g)[i].own = Micros(<<token[w], Key(thread[w].id)>>)
         /\ \A v \in Replicas(g) : \E i \in DOMAIN Sent(w, g) : Sent(w, g)[i].from = v
         /\ Len(Sent(w, g)) = Cardinality(Replicas(g))
         /\ Cardinality(Groups[g]) = Cardinality(Replicas(g)) + 1 /\ Cardinality(Replicas(g)) \in Nat
<1> DEFINE r == token[w]
           n == thread[w].id
           b == Key(n)
           s == grads[w][g][b]
<1>1. /\ r \in Round /\ r # 0 /\ n \in Nat /\ n = bwd[r][w] /\ begun[r][w] = n + 1 /\ IsLastMicro(n)
  BY Working, Sizes
<1>2. b \in Batch /\ b \in Nat /\ Key(n + 1) = b + 1
  BY <1>1, IdInBatch, KeyNext, DivMod DEF Order
<1>3. g \in Group /\ \A v \in Replicas(g) : v \in Slice /\ w < v BY OwnedFacts
<1>4. s \in Seq(Entry) BY <1>2, <1>3 DEF Order, Types
<1>5. Entries(w, g, b) /\ Gathered(w, g, b) BY <1>1, <1>2 DEF Gradients, GradsOf
<1>6. ~Collected(w, g, b, r) BY <1>1, <1>2 DEF Collected
<1>7. ASSUME NEW v \in Replicas(g) PROVE SurelyGiven(v, g, b, r)
  <2>1. n + 1 <= bwd[r][v] /\ bwd[r][v] \in Nat BY <1>1, <1>3, ChainTypes DEF Order, Chain
  <2>2. Key(n + 1) <= Key(bwd[r][v]) /\ Key(bwd[r][v]) \in Nat BY <1>1, <2>1, KeyMono, DivMod
  <2> QED BY <1>2, <2>2 DEF SurelyGiven
<1>8. \A v \in Replicas(g) : \E i \in DOMAIN s : s[i].from = v BY <1>5, <1>6, <1>7 DEF Gathered
<1>9. /\ \A i \in DOMAIN s : s[i].from \in Replicas(g) /\ s[i].own = Micros(<<r, b>>)
      /\ \A i, j \in DOMAIN s : s[i].from = s[j].from => i = j
  BY <1>5 DEF Entries, Givers
<1>10. s = Sent(w, g) BY DEF Sent
<1> HIDE DEF s
<1>11. /\ Len(s) = Cardinality(Replicas(g))
       /\ Cardinality(Groups[g]) = Cardinality(Replicas(g)) + 1 /\ Cardinality(Replicas(g)) \in Nat
  BY <1>3, <1>4, <1>8, <1>9, OneOfEach
<1> QED BY <1>4, <1>8, <1>9, <1>10, <1>11

LEMMA StepSumsAll ==
  ASSUME Order, Sums, Gradients, SumOfEveryUse, ~cut, NEW w \in Slice, CollectGrads(w)
  PROVE  SumOfEveryUse'
<1> DEFINE todo == thread[w].todo
           b == Key(thread[w].id)
<1>1. PICK g \in Owned(w) : Taken(w, g) BY GradsTaken
<1> DEFINE s == Sent(w, g)
           e == [from |-> w, own |-> thread[w].own]
           parts == Append(s, e)
           by == <<thread[w].cfg, b>>
<1>2. /\ Earliest(todo) = <<g, w>> /\ <<g, w>> \in todo /\ thread[w].at = "wait" /\ <<g, w>>[1] = g
  BY <1>1 DEF Taken
<1>3. stepped' = [stepped EXCEPT ![g] = [by |-> by, parts |-> parts]] BY <1>2 DEF CollectGrads
<1>4. g \in Group /\ Groups[g] = Replicas(g) \cup {w} BY OwnedFacts, GroupFacts
<1>5. /\ s \in Seq(Entry)
      /\ \A i \in DOMAIN s : s[i].from \in Replicas(g) /\ s[i].own = Micros(<<token[w], b>>)
      /\ \A v \in Replicas(g) : \E i \in DOMAIN s : s[i].from = v
      /\ Len(s) = Cardinality(Replicas(g)) /\ Cardinality(Groups[g]) = Len(s) + 1 /\ Len(s) \in Nat
  BY <1>2, AllThere
<1>6. /\ thread[w].cfg = token[w] /\ thread[w].id = bwd[token[w]][w] /\ token[w] # 0
  BY <1>2, Working, Sizes
<1>7. thread[w].own = Micros(<<token[w], b>>) BY <1>2, <1>6 DEF Sums, SumOf
<1>8. by = <<token[w], b>> /\ e.from = w /\ e.own = Micros(by) BY <1>6, <1>7
<1>9. /\ stepped'[g].by = by /\ stepped'[g].parts = parts
      /\ \A h \in Group : h # g => stepped'[h] = stepped[h]
  BY <1>3, <1>4 DEF Order, Types
<1> HIDE DEF by, e, s
<1>10. /\ DOMAIN parts = 1 .. Len(s) + 1 /\ DOMAIN s = 1 .. Len(s) /\ Len(parts) = Len(s) + 1
       /\ \A i \in 1 .. Len(s) : parts[i] = s[i]
       /\ parts[Len(s) + 1] = e
  BY <1>5
<1> HIDE DEF parts
<1>11. \A i \in DOMAIN parts : parts[i].own = Micros(by) /\ parts[i].from \in Groups[g]
  <2> SUFFICES ASSUME NEW i \in 1 .. Len(s) + 1 PROVE parts[i].own = Micros(by) /\ parts[i].from \in Groups[g]
    BY <1>10
  <2>1. CASE i \in 1 .. Len(s)
    <3>1. parts[i] = s[i] /\ s[i].own = Micros(by) /\ s[i].from \in Replicas(g)
      BY <1>5, <1>8, <1>10, <2>1
    <3> QED BY <1>4, <3>1
  <2>2. CASE i = Len(s) + 1 BY <1>4, <1>8, <1>10, <2>2
  <2> QED BY <1>5, <2>1, <2>2
<1>12. ASSUME NEW v \in Groups[g] PROVE \E i \in DOMAIN parts : parts[i].from = v
  <2>1. CASE v = w BY <1>5, <1>8, <1>10, <2>1
  <2>2. CASE v \in Replicas(g) BY <1>5, <1>10, <2>2
  <2> QED BY <1>4, <2>1, <2>2
<1>13. {parts[i].from : i \in DOMAIN parts} = Groups[g] BY <1>11, <1>12
<1>14. WholeSum(g)' BY <1>5, <1>9, <1>10, <1>11, <1>13 DEF WholeSum
<1>15. ASSUME NEW h \in Group, h # g, stepped'[h].parts # << >> PROVE WholeSum(h)'
  BY <1>9, <1>15 DEF SumOfEveryUse, WholeSum
<1> QED BY <1>14, <1>15 DEF SumOfEveryUse

LEMMA SumOfEveryUseKept ==
  ASSUME Order, Sums, Gradients, SumOfEveryUse, [Next]_vars
  PROVE  SumOfEveryUse'
<1> SUFFICES ASSUME ~cut' PROVE SumOfEveryUse'
  BY DEF SumOfEveryUse
<1>1. ~cut BY CutGrows DEF Order
<1>2. ASSUME stepped' = stepped PROVE SumOfEveryUse'
  BY <1>1, <1>2 DEF SumOfEveryUse, WholeSum
<1>3. ASSUME NEW w \in Slice, Aside(w), ~CollectGrads(w) PROVE stepped' = stepped
  <2>1. tied_grad(w) => stepped' = stepped BY Zenon DEF tied_grad, history
  <2> HIDE DEF tied_grad
  <2> QED
    BY <1>3, <2>1
       DEF Aside, Handler, EndBackward, SendGrad, StartWaiting, Optimize, SendUpdate, StartReply,
           CallReturns, CheckToken, tied_update, WaitTimesOut, CallFails, history
<1>4. ASSUME NEW w \in Slice,
             Reset(w) \/ ConfigureTied(w) \/ Forward(w) \/ BeginBackward(w) \/ SendBackward(w)
      PROVE  stepped' = stepped
  BY <1>4 DEF Reset, ConfigureTied, Forward, BeginBackward, SendBackward, history
<1>5. NewRound \/ UNCHANGED vars => stepped' = stepped BY DEF NewRound, vars, history
<1> QED BY <1>1, <1>2, <1>3, <1>4, <1>5, StepSumsAll, Cases

--------------------
(* The invariant, and the properties. *)

LEMMA InitInvariant == Init => IInv
<1> SUFFICES ASSUME Init PROVE IInv
  OBVIOUS
<1>1. Types /\ Tokens /\ Chain /\ Tasks /\ Calls BY InitTypes, InitOrder
<1>2. /\ \A w \in Slice : /\ token[w] = 0 /\ sum[w] = {} /\ grads[w] = NoGrads
                          /\ thread[w].at = "idle" /\ call[w].at = "none"
      /\ \A g \in Group : stepped[g].parts = << >>
  BY DEF Init, Idle, NoCall
<1>3. OfThisRound /\ Sums /\ Values
  BY <1>2 DEF OfThisRound, Sums, SumOf, Values, ValueOf, ValuesFrom
<1>4. Gradients /\ SumOfEveryUse BY <1>2 DEF Gradients, GradsOf, SumOfEveryUse
<1> QED BY <1>1, <1>3, <1>4 DEF IInv, Order

LEMMA InvariantKept ==
  ASSUME IInv, [Next]_vars
  PROVE  IInv'
<1>1. Order /\ Sums /\ Values /\ Gradients /\ SumOfEveryUse BY DEF IInv, Order
<1>2. Types' /\ Tokens' /\ Chain' /\ Tasks' /\ Calls' /\ OfThisRound'
  BY <1>1, TypesKept, TokensKept, ChainKept, TasksKept, CallsKept, OfThisRoundKept DEF Order
<1>3. Sums' /\ Values' /\ Gradients' /\ SumOfEveryUse'
  BY <1>1, SumsKept, ValuesKept, GradientsKept, SumOfEveryUseKept
<1> QED BY <1>2, <1>3 DEF IInv, Order

LEMMA TypesInvariant == IInv => TypeOK
<1> SUFFICES ASSUME IInv PROVE TypeOK
  OBVIOUS
<1>1. Types /\ Chain BY DEF IInv, Order
<1>2. ASSUME NEW w \in Slice
      PROVE  /\ thread[w].at \in {"idle", "backward", "send", "wait", "push", "reply"}
             /\ thread[w].todo \subseteq Group \X Slice
             /\ call[w].at \in {"none", "sent", "checked", "done"} /\ call[w].key \in Batch
  BY <1>1, ThreadTypes
<1>3. ASSUME NEW w \in Slice, NEW r \in Round
      PROVE  0 <= bwd[r][w] /\ bwd[r][w] <= fwd[r][w] /\ fwd[r][w] <= NumBatches * NumMicro
  <2>1. fwd[r][w] \in Nat /\ begun[r][w] \in Nat /\ bwd[r][w] \in Nat /\ fwd[r][0] \in Nat
    BY <1>1, ChainTypes, Sizes
  <2>2. bwd[r][w] <= begun[r][w] /\ begun[r][w] <= fwd[r][w] /\ fwd[r][0] <= NumBatches * NumMicro
    BY <1>1 DEF Chain
  <2>3. fwd[r][w] <= fwd[r][0]
    <3>1. CASE w = 0 BY <2>1, <3>1
    <3>2. CASE 0 < w BY <1>1, <3>2, Sizes DEF Chain
    <3> QED BY <3>1, <3>2, Sizes
  <2>4. NumBatches * NumMicro \in Nat BY TiedAssumption
  <2> QED BY <2>1, <2>2, <2>3, <2>4
<1> QED BY <1>1, <1>2, <1>3 DEF TypeOK, Types

LEMMA CurrentValue == IInv => ForwardsOnCurrentValue
<1> SUFFICES ASSUME IInv, NEW w \in Slice, ~cut, ForwardArrived(w), NEW g \in Synced(w)
             PROVE  value[w][g] = <<token[w], Key(fwd[token[w]][w])>>
  BY DEF ForwardsOnCurrentValue
<1> DEFINE r == token[w]
           f == fwd[r][w]
           o == Owner(g)
<1>1. Types /\ Tokens /\ Chain /\ Values BY DEF IInv, Order
<1>2. /\ r \in Round /\ r # 0 BY <1>1, TokenIsRound DEF ForwardArrived
<1>3. o \in Slice /\ o <= w /\ g \in Group BY SyncedFacts
<1>4. f \in Nat /\ begun[r][o] \in Nat /\ bwd[r][o] \in Nat /\ begun[r][w] \in Nat /\ bwd[r][w] \in Nat
  BY <1>1, <1>2, <1>3, ChainTypes
<1>5. value[w][g][1] = r /\ Key(bwd[r][o]) <= value[w][g][2] /\ value[w][g][2] <= Key(begun[r][o])
  BY <1>1, <1>2 DEF Values, ValueOf
<1>6. begun[r][o] <= f
  <2>1. begun[r][w] <= f /\ bwd[r][w] <= begun[r][w] /\ (o < w => begun[r][o] <= bwd[r][w])
    BY <1>1, <1>2, <1>3 DEF Chain
  <2>2. o = w \/ o < w BY <1>3, Sizes
  <2> QED BY <1>4, <2>1, <2>2
<1>7. Key(f) <= Key(bwd[r][o])
  <2>1. CASE w = 0
    <3>1. o = w
      <4>1. o \in Nat BY <1>3, Sizes
      <4> QED BY <1>3, <2>1, <4>1
    <3>2. w # LastSlice BY <2>1, Sizes DEF LastSlice
    <3> QED BY <1>1, <2>1, <3>1, <3>2, Fed0
  <2>2. CASE w # 0
    <3>1. f < fwd[r][w - 1] /\ w - 1 \in Slice /\ fwd[r][w - 1] \in Nat /\ fwd[r][0] \in Nat
      BY <1>1, <1>2, <2>2, Sizes, ChainTypes DEF ForwardArrived, Slice
    <3>2. fwd[r][w - 1] <= fwd[r][0]
      <4>1. CASE w - 1 = 0 BY <3>1, <4>1
      <4>2. CASE 0 < w - 1 BY <1>1, <1>2, <3>1, <4>2, Sizes DEF Chain
      <4> QED BY <3>1, <4>1, <4>2, Sizes
    <3>3. f < fwd[r][0] BY <1>4, <3>1, <3>2
    <3> QED BY <1>1, <1>2, <1>3, <1>4, <3>3, FedBatches
  <2> QED BY <2>1, <2>2
<1>8. Key(begun[r][o]) <= Key(f) /\ Key(f) \in Nat /\ Key(begun[r][o]) \in Nat /\ Key(bwd[r][o]) \in Nat
  BY <1>4, <1>6, KeyMono, DivMod
<1>9. value[w][g] = <<value[w][g][1], value[w][g][2]>> /\ value[w][g][2] \in Nat
  BY <1>1, <1>3, ValueTypes
<1>10. value[w][g][2] = Key(f) BY <1>5, <1>7, <1>8, <1>9
<1> QED BY <1>5, <1>9, <1>10

LEMMA NoWaiting == IInv => OwnerNeverWaits
<1> SUFFICES ASSUME IInv, NEW w \in Slice, ~cut, thread[w].at = "wait", NEW p \in thread[w].todo
             PROVE  Enough(w, p[1])
  BY DEF OwnerNeverWaits
<1>1. Order /\ Gradients BY DEF IInv
<1>2. p \in ToCollect(w) BY <1>1 DEF Order, Calls, CallsOf
<1>3. p = <<p[1], w>> /\ p[1] \in Owned(w) BY <1>2, PairFacts
<1>4. PICK g \in Owned(w) : g = p[1] BY <1>3
<1>5. <<g, w>> \in thread[w].todo BY <1>3, <1>4
<1>6. Len(Sent(w, g)) = Cardinality(Replicas(g)) /\ Cardinality(Replicas(g)) \in Nat
  BY <1>1, <1>5, AllThere
<1> QED BY <1>4, <1>6 DEF Enough

\* The chain, the tasks, the calls, the gradients and the copies stay consistent
\* whatever the interleaving of compute threads, handlers and initialisations.
THEOREM Invariance == Spec => []IInv
<1>1. Init => IInv BY InitInvariant
<1>2. IInv /\ [Next]_vars => IInv' BY InvariantKept
<1> QED BY <1>1, <1>2, PTL DEF Spec

\* Each step of a tied parameter is taken from the gradient of every slice of
\* its group, each once and of all the micro-batches of that very batch
\* (WorkerServicer._optimize, tied_grad).
THEOREM EveryUseIsSummed == Spec => []SumOfEveryUse
<1>1. IInv => SumOfEveryUse BY DEF IInv
<1> QED BY <1>1, Invariance, PTL

\* A slice runs forward on a copy that had every step of the round's earlier
\* batches and no other, and no owner finds a gradient missing
\* (WorkerServicer._optimize, tied_update).
THEOREM CopiesStayCurrent == Spec => []CopiesAreCurrent
<1>1. IInv => CopiesAreCurrent BY TypesInvariant, CurrentValue, NoWaiting DEF CopiesAreCurrent
<1> QED BY <1>1, Invariance, PTL
=============================================================================
