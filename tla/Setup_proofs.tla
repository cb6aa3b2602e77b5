---------------------------- MODULE Setup_proofs ----------------------------
(***************************************************************************)
(* A run trains only on a right shipment, and its end reaches everybody,   *)
(* for any number of workers, slices, layers, faults and starts.           *)
(***************************************************************************)
EXTENDS Setup, FiniteSetTheorems, SequenceTheorems, TLAPS

Describing == {"reach", "describe", "order"}
Shipping == {"init", "rendezvous", "training"}
Closing == {"stopping", "idle", "ended"}
Planned == {"plan"} \cup Shipping \cup Closing
Placed == Describing \cup Planned

\* What worker w says of itself.
Declared(said, w) == said.cap = setting.caps[w] /\ said.first = (w \in setting.first)

\* A registration carries the declaration of its worker.
PoolInv ==
  /\ DOMAIN info = Node /\ DOMAIN told = Worker
  /\ free \in [Worker -> Memories]
  /\ \A w \in Worker : told[w].memory \in Memories \cup {0}
  /\ \A w \in Worker : Up(w) => Declared(told[w], w)
  /\ ~setting.static => \A w \in ToSet(nodes) : Declared(info[w], w)

\* Every slice has a place of its own, hosted ones in this process, and the
\* first registered workers have the others.
PlaceInv ==
  /\ chosen = proxies
  /\ phase \in Placed =>
       /\ Len(proxies) = n /\ IsInjective(proxies)
       /\ \A i \in Ranks : IF i \in _hosted THEN proxies[i] = HostOf(i)
                           ELSE proxies[i] \in Worker /\ (~setting.static => proxies[i] \in ToSet(nodes))
       /\ ~setting.static =>
            /\ Expected <= Len(nodes)
            /\ \A k \in 1 .. Expected : nodes[k] \in ToSet(proxies)

\* Only the first place is the data owner's.
FirstInv ==
  phase \in Planned /\ _hosted = {} /\ ~setting.static =>
    \A i \in Ranks : proxies[i] \in setting.first => i = 1

\* The layers are split, and if the planner did, within the caps.
ShareInv ==
  phase \in Shipping =>
    /\ shares \in Splits
    /\ ~again /\ ~setting.static =>
         \A i \in Ranks : proxies[i] \in Worker => FitsIn(shares[i], setting.caps[proxies[i]])

\* How many slices of this shipment have been sent.
Sent == IF phase \notin Shipping THEN 0 ELSE IF phase = "init" THEN at - 1 ELSE n

\* A slice of this shipment is the one of its place, and those that were sent
\* are there, unless the process ended, or an earlier run's shutdown() came late.
ShipInv ==
  /\ \A id \in Node : Holds(id) => slice[id].token <= token
  /\ phase \in Shipping => \A id \in Node : Holds(id) /\ slice[id].token = token =>
       \E i \in Ranks : id = proxies[i] /\ slice[id] = SliceConfig(i)
  /\ \A i \in 1 .. Sent : \/ slice[proxies[i]] \in {Gone, SliceConfig(i)}
                          \/ slice[proxies[i]] = Dropped /\ run > 1
  /\ \A w \in setting.first : (Holds(w) /\ _hosted = {} /\ ~setting.static) => slice[w].index = 1

\* A shutdown() is called at the end of a run, and may act in a later one.
LateInv == \A l \in late : l.run = run => phase \in {"down"} \cup Closing

\* The rendezvous that init() number b.number of a rank began.
Place(e) == [token |-> e.token, index |-> e.index, number |-> e.number]

\* When there is something in the store.
Meeting == Shipping \cup {"stopping", "idle"}

\* Every rank of shipment k has joined, each on a GPU of its own.
Met(k) ==
  /\ \A r \in Ranks : HasJoined(k, r)
  /\ \A q, r \in Ranks : q # r => setting.gpu[proxies[q]] # setting.gpu[proxies[r]]

\* What is in the store comes from an init(), numbered anew for each attempt.
BegunInv ==
  \A b \in store.begun :
    /\ b = Place(b) /\ b.index \in Ranks /\ b.token \in Nat /\ b.token <= token /\ b.number \in Nat
    /\ phase = "init" /\ b.token = token => b.index <= at /\ (b.index = at => b.number <= MaxInit - tries)

JoinedInv ==
  \A j \in store.joined : Place(j) \in store.begun /\ j.gpu = setting.gpu[proxies[j.index]]

\* A rank says ok when all have joined.
StatusInv ==
  \A s \in store.status :
    /\ s = [token |-> s.token, index |-> s.index, result |-> s.result] /\ s.result \in {"ok", "err"}
    /\ \E b \in store.begun : b.token = s.token /\ b.index = s.index
    /\ s.result = "ok" => Met(s.token)

\* Each init() has one thread at most, which joins once, for the node of its rank.
ThreadInv ==
  \A t \in threads : t.run = run =>
    /\ t = [id |-> t.id, run |-> t.run, join |-> t.join, at |-> t.at] /\ t.at \in {"begun", "joined"}
    /\ t.join \in store.begun /\ t.id = proxies[t.join.index]
    /\ t.at = "begun" => \A j \in store.joined : Place(j) # t.join
    /\ \A u \in threads : u.run = run /\ u.join = t.join => u = t

\* With one init() per rank a rank that has reported has no thread left, and is
\* in the group if it said ok.
Said(i) == [token |-> token, index |-> i, result |-> "ok"]
OnceInv ==
  /\ \A t \in threads : t.run = run =>
       /\ t.join.token = token
       /\ \A s \in store.status : ~(s.token = t.join.token /\ s.index = t.join.index)
  /\ phase \in Shipping => \A i \in Ranks :
       Said(i) \in store.status /\ Holds(proxies[i]) => group[ProcessOf(proxies[i])] = Joined(token)
  /\ phase = "training" /\ setting.nccl => \A i \in Ranks : Said(i) \in store.status

MeetInv ==
  /\ store = [begun |-> store.begun, joined |-> store.joined, status |-> store.status]
  /\ phase \notin Meeting => store = EmptyStore
  /\ BegunInv /\ JoinedInv /\ StatusInv /\ ThreadInv
  /\ ~Repeated => OnceInv
  /\ phase = "training" /\ setting.nccl => Met(token)

GroupInv ==
  /\ DOMAIN group = Node
  /\ \A t \in threads : t.run \in 0 .. run
  /\ ~setting.nccl => threads = {} /\ store = EmptyStore
  /\ Serving => MeetInv

\* teardown() has told those it went past.
ToldInv ==
  /\ phase = "stopping" => \A i \in 1 .. at - 1 : proxies[i] \in stopped
  /\ phase = "idle" => \A i \in Ranks : proxies[i] \in stopped

\* Each start of the coordinator plans once; who is registering has an attempt left.
CountInv ==
  /\ phase # "down" => run >= 1
  /\ token <= setting.tokens + IF phase \in {"discover", "plan"} \cup Describing THEN run - 1 ELSE run
  /\ \A w \in Worker : state[w] = "registering" => attempts[w] >= 1

IndInv ==
  /\ TypeOK
  /\ PoolInv /\ PlaceInv /\ FirstInv /\ ShareInv /\ ShipInv /\ LateInv /\ GroupInv /\ ToldInv /\ CountInv

--------------------
(* The configuration. *)

LEMMA SettingFacts ==
  ASSUME setting \in Settings
  PROVE  /\ n \in Nat /\ 1 <= n /\ n <= Len(LayerMemory) /\ Len(LayerMemory) \in Nat
         /\ Ranks = 1 .. n /\ 1 \in Ranks
         /\ setting.setting \in {"pipeline", "vanilla", "u_shaped"}
         /\ setting.first \subseteq Worker /\ setting.caps \in [Worker -> Nat]
         /\ setting.peers \in Seq(Worker) /\ IsInjective(setting.peers)
         /\ setting.runs \in Nat /\ setting.tokens \in Nat
         /\ MaxInit \in Nat /\ 1 <= MaxInit /\ MaxRegister \in Nat /\ 1 <= MaxRegister
<1>1. Len(LayerMemory) \in Nat BY SetupAssumption, LenProperties
<1> QED BY <1>1, SetupAssumption, SettingsAssumption DEF n, Ranks

LEMMA Fixed ==
  ASSUME setting' = setting
  PROVE  n' = n /\ Ranks' = Ranks /\ _hosted' = _hosted /\ Expected' = Expected
BY DEF n, Ranks, _hosted, Expected

LEMMA HostedFacts ==
  /\ setting.setting = "pipeline" => _hosted = {}
  /\ setting.setting = "vanilla" => _hosted = {1}
  /\ setting.setting = "u_shaped" => _hosted = {1, n}
<1>1. ASSUME setting.setting = "pipeline" PROVE _hosted = {}
  BY <1>1 DEF _hosted
<1>2. ASSUME setting.setting = "vanilla" PROVE _hosted = {1}
  BY <1>2 DEF _hosted
<1>3. ASSUME setting.setting = "u_shaped" PROVE _hosted = {1, n}
  BY <1>3 DEF _hosted
<1> QED BY <1>1, <1>2, <1>3

LEMMA Kinds ==
  /\ Owner \in Node /\ TailHost \in Node /\ Worker \subseteq Node /\ Owner # TailHost
  /\ Owner \notin Worker /\ TailHost \notin Worker
  /\ None \notin Node /\ Gone \notin Node /\ Dropped \notin Node
  /\ \A i : HostOf(i) \in Hosted /\ HostOf(i) \in Node /\ HostOf(i) \notin Worker
BY SetupAssumption DEF Node, Hosted, HostOf

\* The i-th slice is for the remote worker before which off slices are hosted.
LEMMA Remotes ==
  ASSUME setting \in Settings
  PROVE  \E off \in {0, 1} :
           /\ \A i \in Ranks \ _hosted :
                Cardinality(1 .. i \ _hosted) = i - off /\ i - off \in 1 .. Expected
           /\ \A k \in 1 .. Expected : k + off \in Ranks \ _hosted
<1>0. /\ n \in Nat /\ 1 <= n /\ Ranks = 1 .. n
      /\ setting.setting \in {"pipeline", "vanilla", "u_shaped"}
  BY SettingFacts
<1>1. CASE setting.setting = "pipeline"
  <2>1. _hosted = {} /\ Cardinality({}) = 0 BY <1>1, HostedFacts, FS_EmptySet
  <2>2. Expected = n BY <2>1, <1>0 DEF Expected
  <2>3. ASSUME NEW i \in Ranks PROVE Cardinality(1 .. i \ _hosted) = i
    <3>1. i \in Nat /\ 1 <= i /\ 1 .. i \ _hosted = 1 .. i BY <1>0, <2>1
    <3>2. 1 \in Int /\ i \in Int /\ ~(1 > i) /\ i - 1 + 1 = i BY <3>1
    <3>3. Cardinality(1 .. i) = i - 1 + 1 BY <3>2, FS_Interval
    <3> QED BY <3>1, <3>2, <3>3
  <2>4. \A i \in Ranks \ _hosted : Cardinality(1 .. i \ _hosted) = i - 0 /\ i - 0 \in 1 .. Expected
    BY <1>0, <2>1, <2>2, <2>3
  <2>5. \A k \in 1 .. Expected : k + 0 \in Ranks \ _hosted BY <1>0, <2>1, <2>2
  <2> QED BY <2>4, <2>5
<1>2. CASE setting.setting # "pipeline"
  <2>1. _hosted \subseteq {1, n} /\ 1 \in _hosted BY <1>0, <1>2, HostedFacts
  <2>2. ASSUME NEW i \in Ranks \ _hosted
        PROVE  1 .. i \ _hosted = 2 .. i /\ Cardinality(1 .. i \ _hosted) = i - 1
    <3>1. i \in Nat /\ 2 <= i /\ i <= n BY <1>0, <2>1
    <3>2. i \notin _hosted BY <2>2
    <3>3. _hosted = {1} \/ _hosted = {1, n} BY <1>0, <1>2, HostedFacts
    <3>4. \A j \in 1 .. i : j \in _hosted <=> j = 1 BY <1>0, <2>1, <3>1, <3>2, <3>3
    <3>5. 1 .. i \ _hosted = 2 .. i BY <3>1, <3>4
    <3>6. Cardinality(2 .. i) = i - 1
      <4>1. 2 \in Int /\ i \in Int /\ ~(2 > i) /\ i - 2 + 1 = i - 1 BY <3>1
      <4>2. Cardinality(2 .. i) = i - 2 + 1 BY <4>1, FS_Interval
      <4> QED BY <4>1, <4>2
    <3> QED BY <3>5, <3>6
  <2>3. \/ _hosted = {1} /\ Cardinality(_hosted) = 1
        \/ _hosted = {1, n} /\ n # 1 /\ Cardinality(_hosted) = 2
    <3>1. Cardinality({1}) = 1 /\ IsFiniteSet({1}) BY FS_Singleton
    <3>2. Cardinality({1} \cup {n}) = IF n \in {1} THEN Cardinality({1}) ELSE Cardinality({1}) + 1
      BY <3>1, FS_AddElement
    <3>3. {1} \cup {n} = {1, n} /\ (n = 1 => {1, n} = {1}) OBVIOUS
    <3>4. n # 1 => Cardinality({1, n}) = 2 BY <3>1, <3>2, <3>3
    <3> QED BY <1>0, <1>2, <3>1, <3>3, <3>4, HostedFacts
  <2>4. \A i \in Ranks \ _hosted : Cardinality(1 .. i \ _hosted) = i - 1 /\ i - 1 \in 1 .. Expected
    BY <1>0, <2>1, <2>2, <2>3 DEF Expected
  <2>5. \A k \in 1 .. Expected : k + 1 \in Ranks \ _hosted BY <1>0, <2>3 DEF Expected
  <2> QED BY <2>4, <2>5
<1> QED BY <1>1, <1>2

--------------------
(* Places. *)

\* Where an element comes from, and that it goes somewhere.
TakenFrom(s, f, i) == \E j \in 1 .. Len(s) : MoveFirst(s, f)[i] = s[j] /\ (i # 1 => j # f)
KeptIn(s, f, j) == \E i \in 1 .. Len(s) : MoveFirst(s, f)[i] = s[j]

\* _order_nodes() moves one node to the front and leaves the others in order.
LEMMA MoveFirstFacts ==
  ASSUME NEW S, NEW s \in Seq(S), NEW f \in 1 .. Len(s)
  PROVE  /\ MoveFirst(s, f) \in Seq(S) /\ Len(MoveFirst(s, f)) = Len(s)
         /\ \A i \in 1 .. Len(s) :
              MoveFirst(s, f)[i] = IF i = 1 THEN s[f] ELSE IF i <= f THEN s[i - 1] ELSE s[i]
<1> DEFINE a == SubSeq(s, 1, f - 1)
           b == SubSeq(s, f + 1, Len(s))
<1>0. Len(s) \in Nat /\ f \in Nat /\ 1 <= f /\ f <= Len(s) /\ s[f] \in S
  BY LenProperties, ElementOfSeq
<1>1. a \in Seq(S) /\ Len(a) = f - 1 /\ \A i \in 1 .. f - 1 : a[i] = s[i]
  <2>1. 1 \in 1 .. Len(s) + 1 /\ f - 1 \in 0 .. Len(s) BY <1>0
  <2> QED BY <1>0, <2>1, SubSeqProperties
<1>2. b \in Seq(S) /\ Len(b) = Len(s) - f /\ \A i \in 1 .. Len(s) - f : b[i] = s[f + i]
  <2>1. f + 1 \in 1 .. Len(s) + 1 /\ Len(s) \in 0 .. Len(s) BY <1>0
  <2> QED BY <1>0, <2>1, SubSeqProperties
<1> HIDE DEF a, b
<1>3. /\ a \o b \in Seq(S) /\ Len(a \o b) = Len(s) - 1
      /\ \A i \in 1 .. Len(s) - 1 : (a \o b)[i] = IF i <= f - 1 THEN s[i] ELSE s[i + 1]
  <2>1. /\ a \o b \in Seq(S) /\ Len(a \o b) = Len(a) + Len(b)
        /\ \A i \in 1 .. Len(a) + Len(b) : (a \o b)[i] = IF i <= Len(a) THEN a[i] ELSE b[i - Len(a)]
    BY <1>1, <1>2, ConcatProperties
  <2>2. Len(a) + Len(b) = Len(s) - 1 BY <1>0, <1>1, <1>2
  <2>3. ASSUME NEW i \in 1 .. Len(s) - 1
        PROVE  (a \o b)[i] = IF i <= f - 1 THEN s[i] ELSE s[i + 1]
    <3>1. CASE i <= f - 1
      <4>1. i \in 1 .. f - 1 BY <1>0, <3>1
      <4> QED BY <1>1, <2>1, <2>2, <3>1, <4>1
    <3>2. CASE ~(i <= f - 1)
      <4>1. i - (f - 1) \in 1 .. Len(s) - f /\ f + (i - (f - 1)) = i + 1 BY <1>0, <3>2
      <4>2. b[i - (f - 1)] = s[i + 1] BY <1>2, <4>1
      <4> QED BY <1>1, <2>1, <2>2, <3>2, <4>2
    <3> QED BY <3>1, <3>2
  <2> QED BY <2>1, <2>2, <2>3
<1>4. <<s[f]>> \in Seq(S) /\ Len(<<s[f]>>) = 1 /\ <<s[f]>>[1] = s[f] BY <1>0
<1> DEFINE c == a \o b
           d == <<s[f]>>
<1>5. MoveFirst(s, f) = d \o c BY DEF MoveFirst, RemoveAt, a, b
<1> HIDE DEF c, d
<1>6. c \in Seq(S) /\ d \in Seq(S) /\ Len(c) = Len(s) - 1 /\ Len(d) = 1 /\ d[1] = s[f]
  BY <1>3, <1>4 DEF c, d
<1>7. d \o c \in Seq(S) /\ Len(d \o c) = Len(s) /\ \A i \in 1 .. Len(s) : (d \o c)[i] = IF i = 1 THEN d[1] ELSE c[i - 1]
  <2>1. /\ d \o c \in Seq(S) /\ Len(d \o c) = Len(d) + Len(c)
        /\ \A i \in 1 .. Len(d) + Len(c) : (d \o c)[i] = IF i <= Len(d) THEN d[i] ELSE c[i - Len(d)]
    BY <1>6, ConcatProperties
  <2>2. Len(d) + Len(c) = Len(s) /\ \A i \in 1 .. Len(s) : i <= 1 <=> i = 1 BY <1>0, <1>6
  <2> QED BY <1>6, <2>1, <2>2
<1>8. \A i \in 1 .. Len(s) - 1 : c[i] = IF i <= f - 1 THEN s[i] ELSE s[i + 1] BY <1>3 DEF c
<1>9. ASSUME NEW i \in 1 .. Len(s), i # 1
      PROVE  c[i - 1] = IF i <= f THEN s[i - 1] ELSE s[i]
  <2>1. i - 1 \in 1 .. Len(s) - 1 /\ (i - 1 <= f - 1 <=> i <= f) /\ (i - 1) + 1 = i
    BY <1>0, <1>9
  <2> QED BY <1>8, <2>1
<1> QED BY <1>5, <1>6, <1>7, <1>9

LEMMA MoveFirstKeeps ==
  ASSUME NEW S, NEW s \in Seq(S), NEW f \in 1 .. Len(s)
  PROVE  /\ IsInjective(s) => IsInjective(MoveFirst(s, f))
         /\ \A i \in 1 .. Len(s) : TakenFrom(s, f, i)
         /\ \A j \in 1 .. Len(s) : KeptIn(s, f, j)
<1> DEFINE m == MoveFirst(s, f)
           to(i) == IF i = 1 THEN f ELSE IF i <= f THEN i - 1 ELSE i
           back(j) == IF j = f THEN 1 ELSE IF j < f THEN j + 1 ELSE j
<1>0. Len(s) \in Nat /\ f \in Nat /\ 1 <= f /\ f <= Len(s) /\ DOMAIN s = 1 .. Len(s)
  BY LenProperties
<1>1. m \in Seq(S) /\ DOMAIN m = 1 .. Len(s) BY MoveFirstFacts, LenProperties
<1>2. \A i \in 1 .. Len(s) : to(i) \in 1 .. Len(s) /\ m[i] = s[to(i)] /\ (i # 1 => to(i) # f)
  BY <1>0, MoveFirstFacts
<1>3. \A j \in 1 .. Len(s) : back(j) \in 1 .. Len(s) /\ to(back(j)) = j BY <1>0
<1>4. \A i, j \in 1 .. Len(s) : to(i) = to(j) => i = j BY <1>0
<1> HIDE DEF m, to, back
<1>5. IsInjective(s) => IsInjective(m) BY <1>0, <1>1, <1>2, <1>4 DEF IsInjective
<1>6. \A j \in 1 .. Len(s) : m[back(j)] = s[j] BY <1>2, <1>3
<1> QED BY <1>2, <1>3, <1>5, <1>6 DEF m, TakenFrom, KeptIn

LEMMA ExpectedType ==
  ASSUME setting \in Settings
  PROVE  Expected \in Nat
<1>0. n \in Nat /\ 1 <= n /\ Ranks = 1 .. n /\ setting.setting \in {"pipeline", "vanilla", "u_shaped"}
  BY SettingFacts
<1>1. IsFiniteSet(Ranks) /\ Cardinality(Ranks) = n - 1 + 1
  <2>1. 1 \in Int /\ n \in Int /\ ~(1 > n) BY <1>0
  <2> QED BY <1>0, <2>1, FS_Interval
<1>2. _hosted \in SUBSET Ranks BY <1>0, HostedFacts
<1>3. Cardinality(_hosted) \in Nat /\ Cardinality(_hosted) <= Cardinality(Ranks)
  BY <1>1, <1>2, FS_Subset, FS_CardinalityType
<1> QED BY <1>0, <1>1, <1>3 DEF Expected

\* _discover() gives every slice a node of its own.
LEMMA DiscoverFacts ==
  ASSUME setting \in Settings, nodes \in Seq(Worker), IsInjective(nodes), Len(nodes) >= Expected
  PROVE  /\ _discover \in Seq(Node) /\ Len(_discover) = n /\ IsInjective(_discover)
         /\ \A i \in Ranks : IF i \in _hosted THEN _discover[i] = HostOf(i)
                             ELSE _discover[i] \in Worker /\ _discover[i] \in ToSet(nodes)
         /\ \A k \in 1 .. Expected : nodes[k] \in ToSet(_discover)
<1> DEFINE d == _discover
<1>0. n \in Nat /\ 1 <= n /\ Ranks = 1 .. n /\ setting.setting \in {"pipeline", "vanilla", "u_shaped"}
  BY SettingFacts
<1>1. PICK off \in {0, 1} :
        /\ \A i \in Ranks \ _hosted :
             Cardinality(1 .. i \ _hosted) = i - off /\ i - off \in 1 .. Expected
        /\ \A k \in 1 .. Expected : k + off \in Ranks \ _hosted
  BY Remotes
<1>2. Len(nodes) \in Nat /\ DOMAIN nodes = 1 .. Len(nodes) /\ \A k \in 1 .. Len(nodes) : nodes[k] \in Worker
  BY LenProperties, ElementOfSeq
<1>3. _hosted \subseteq {1, n} BY <1>0, HostedFacts
<1>4. Expected \in Nat BY ExpectedType
<1>5. d = [i \in Ranks |-> IF i \in _hosted THEN HostOf(i) ELSE nodes[Cardinality(1 .. i \ _hosted)]]
  BY DEF _discover
<1> HIDE DEF d
<1>6. ASSUME NEW i \in Ranks, i \notin _hosted
      PROVE  /\ d[i] = nodes[i - off] /\ i - off \in 1 .. Len(nodes)
             /\ d[i] \in Worker /\ d[i] \in ToSet(nodes)
  <2>1. d[i] = nodes[i - off] /\ i - off \in 1 .. Expected BY <1>1, <1>5, <1>6
  <2>2. i - off \in 1 .. Len(nodes) BY <1>2, <1>4, <2>1
  <2> QED BY <1>2, <2>1, <2>2 DEF ToSet
<1>7. \A i \in Ranks : i \in _hosted => d[i] = HostOf(i) BY <1>5
<1>8. d \in [1 .. n -> Node] /\ d \in Seq(Node) /\ Len(d) = n
  <2>1. \A i \in Ranks : d[i] \in Node BY <1>6, <1>7, Kinds
  <2>2. d \in [1 .. n -> Node] BY <1>0, <1>5, <2>1
  <2> QED BY <1>0, <2>2
<1>9. ASSUME NEW i \in Ranks, NEW j \in Ranks, d[i] = d[j] PROVE i = j
  <2>1. CASE i \in _hosted /\ j \in _hosted BY <1>0, <1>3, <1>7, <1>9, <2>1, Kinds DEF HostOf
  <2>2. CASE i \notin _hosted /\ j \notin _hosted
    <3>1. i - off = j - off BY <1>2, <1>6, <1>9, <2>2 DEF IsInjective
    <3> QED BY <1>0, <3>1
  <2>3. CASE i \in _hosted /\ j \notin _hosted BY <1>6, <1>7, <1>9, <2>3, Kinds
  <2>4. CASE i \notin _hosted /\ j \in _hosted BY <1>6, <1>7, <1>9, <2>4, Kinds
  <2> QED BY <2>1, <2>2, <2>3, <2>4
<1>10. IsInjective(d) BY <1>0, <1>8, <1>9 DEF IsInjective
<1>11. ASSUME NEW k \in 1 .. Expected PROVE nodes[k] \in ToSet(d)
  <2>1. k + off \in Ranks /\ k + off \notin _hosted /\ (k + off) - off = k BY <1>1, <1>4
  <2>2. d[k + off] = nodes[k] BY <1>6, <2>1
  <2> QED BY <1>0, <1>8, <2>1, <2>2 DEF ToSet
<1> QED BY <1>6, <1>7, <1>8, <1>10, <1>11 DEF d

--------------------
(* Shares. *)

LEMMA Least ==
  ASSUME NEW S \in SUBSET Nat, S # {}
  PROVE  \E m \in S : \A x \in S : m <= x
<1>1. PICK m \in S : \A x \in S : ~(<<x, m>> \in OpToRel(<, Nat))
  BY NatLessThanWellFounded, WFMin
<1>2. ASSUME NEW x \in S PROVE m <= x
  <2>1. x \in Nat /\ m \in Nat OBVIOUS
  <2>2. x < m => <<x, m>> \in OpToRel(<, Nat) BY <2>1 DEF OpToRel
  <2>3. ~(x < m) BY <1>1, <2>2
  <2> QED BY <2>1, <2>3
<1> QED BY <1>2

\* A split gives every layer to exactly one slice.
LEMMA SplitFacts ==
  ASSUME setting \in Settings, NEW s \in Splits
  PROVE  /\ \A i \in Ranks : s[i] \subseteq DOMAIN LayerMemory
         /\ \A i, j \in Ranks : i # j => s[i] \cap s[j] = {}
         /\ \A l \in DOMAIN LayerMemory : \E i \in Ranks : l \in s[i]
<1> DEFINE L == Len(LayerMemory)
<1>0. n \in Nat /\ 1 <= n /\ Ranks = 1 .. n /\ L \in Nat /\ DOMAIN LayerMemory = 1 .. L
  BY SettingFacts, SetupAssumption, LenProperties
<1> HIDE DEF L
<1>1. PICK e \in [1 .. n + 1 -> 0 .. L] :
        /\ e[1] = 0 /\ e[n + 1] = L /\ \A i \in Ranks : e[i] < e[i + 1]
        /\ s = [i \in Ranks |-> e[i] + 1 .. e[i + 1]]
  BY DEF Splits, L
<1>2. \A i \in 1 .. n + 1 : e[i] \in Nat /\ e[i] <= L BY <1>0, <1>1
<1>3. ASSUME NEW i \in 1 .. n + 1, NEW j \in 1 .. n + 1, i < j
      PROVE  e[i] < e[j]
  <2> DEFINE B == {k \in i + 1 .. n + 1 : e[k] <= e[i]}
  <2>1. SUFFICES ASSUME ~(e[i] < e[j]) PROVE FALSE
    OBVIOUS
  <2>2. i \in Nat /\ 1 <= i /\ j \in Nat /\ j <= n + 1 BY <1>0
  <2>3. j \in B /\ B \in SUBSET Nat BY <1>0, <1>2, <1>3, <2>1, <2>2
  <2>4. PICK m \in B : \A x \in B : m <= x BY <2>3, Least
  <2>5. m \in Nat /\ i + 1 <= m /\ m <= n + 1 /\ e[m] <= e[i] BY <2>2, <2>4
  <2>6. m - 1 \in Ranks /\ (m - 1) + 1 = m /\ m - 1 \notin B BY <1>0, <2>2, <2>4, <2>5
  <2>7. e[m - 1] < e[m] BY <1>1, <2>6
  <2>8. m - 1 = i \/ m - 1 \in i + 1 .. n + 1 BY <1>0, <2>2, <2>5
  <2>9. m - 1 = i \/ ~(e[m - 1] <= e[i]) BY <2>6, <2>8
  <2>10. m \in 1 .. n + 1 /\ m - 1 \in 1 .. n + 1 BY <1>0, <2>5, <2>6
  <2> QED BY <1>2, <2>5, <2>7, <2>9, <2>10
<1>4. \A i \in Ranks : s[i] = e[i] + 1 .. e[i + 1] /\ i \in 1 .. n + 1 /\ i + 1 \in 1 .. n + 1
  BY <1>0, <1>1
<1>5. \A i \in Ranks : s[i] \subseteq 1 .. L BY <1>0, <1>2, <1>4
<1>6. ASSUME NEW i \in Ranks, NEW j \in Ranks, i < j
      PROVE  s[i] \cap s[j] = {}
  <2>1. i + 1 = j \/ i + 1 < j BY <1>0, <1>6
  <2>2. e[i + 1] <= e[j] BY <1>2, <1>3, <1>4, <2>1
  <2> QED BY <1>2, <1>4, <2>2
<1>7. ASSUME NEW i \in Ranks, NEW j \in Ranks, i # j
      PROVE  s[i] \cap s[j] = {}
  <2>1. i < j \/ j < i BY <1>0, <1>7
  <2>2. s[j] \cap s[i] = s[i] \cap s[j] OBVIOUS
  <2> QED BY <1>6, <2>1, <2>2
<1>8. ASSUME NEW l \in 1 .. L
      PROVE  \E i \in Ranks : l \in s[i]
  <2> DEFINE B == {k \in 1 .. n + 1 : l <= e[k]}
  <2>1. n + 1 \in B /\ B \in SUBSET Nat BY <1>0, <1>1
  <2>2. PICK m \in B : \A x \in B : m <= x BY <2>1, Least
  <2>3. m \in 1 .. n + 1 /\ l <= e[m] /\ l \in Nat /\ 1 <= l BY <1>0, <2>2
  <2>4. m # 1 BY <1>1, <2>3
  <2>5. m - 1 \in Ranks /\ (m - 1) + 1 = m /\ m - 1 \notin B BY <1>0, <2>2, <2>3, <2>4
  <2>6. ~(l <= e[m - 1]) BY <1>4, <2>5
  <2>7. l \in e[m - 1] + 1 .. e[m] BY <1>2, <1>4, <2>3, <2>5, <2>6
  <2> QED BY <1>4, <2>5, <2>7
<1> QED BY <1>0, <1>5, <1>7, <1>8

\* A slice fits the cap that its worker declared when it fits what the planner asked for.
LEMMA CapFacts ==
  ASSUME setting \in Settings, NEW w \in Worker, Declared(info[w], w), NEW layers,
         FitsIn(layers, memory_cap_mb(w))
  PROVE  FitsIn(layers, setting.caps[w])
<1>1. setting.caps[w] \in Nat /\ info[w].cap = setting.caps[w] BY SettingFacts DEF Declared
<1>2. CASE setting.caps[w] = 0 BY <1>2 DEF FitsIn
<1>3. CASE setting.caps[w] # 0 BY <1>1, <1>3 DEF FitsIn, memory_cap_mb
<1> QED BY <1>2, <1>3

\* What _init_slices() sends is a slice.
LEMMA ConfigFacts ==
  ASSUME setting \in Settings, shares \in Splits, proxies \in Seq(Node), Len(proxies) = n,
         token \in Nat, NEW i \in Ranks
  PROVE  /\ SliceConfig(i) \in SliceRecord /\ SliceConfig(i) \notin {None, Gone, Dropped}
         /\ SliceConfig(i).layers = shares[i] /\ SliceConfig(i).index = i
         /\ SliceConfig(i).token = token
         /\ i > 1 => SliceConfig(i).prev = proxies[i - 1]
         /\ i < n => SliceConfig(i).next = proxies[i + 1]
<1>1. n \in Nat /\ n <= Len(LayerMemory) /\ Ranks = 1 .. n /\ Len(LayerMemory) \in Nat
  BY SettingFacts
<1>2. shares[i] \subseteq DOMAIN LayerMemory BY SplitFacts
<1>3. i > 1 => proxies[i - 1] \in Node BY <1>1, ElementOfSeq
<1>4. i < n => proxies[i + 1] \in Node BY <1>1, ElementOfSeq
<1>5. i \in 1 .. Len(LayerMemory) BY <1>1
<1>6. SliceConfig(i) \in SliceRecord BY <1>2, <1>3, <1>4, <1>5 DEF SliceConfig, SliceRecord
<1> QED BY <1>6, SliceAssumption DEF SliceConfig

--------------------
(* Types. *)

TypeSetup ==
  /\ setting \in Settings /\ phase \in Phases /\ run \in 0 .. setting.runs
  /\ chosen \in Seq(Node) /\ proxies \in Seq(Node) /\ Len(chosen) = Len(proxies)
  /\ at \in Ranks /\ tries \in 1 .. MaxInit /\ token \in 0 .. setting.tokens + setting.runs
  /\ again \in BOOLEAN
TypePool ==
  /\ nodes \in Seq(Worker) /\ IsInjective(nodes)
  /\ \A id \in Node : info[id].memory \in Memories \cup {0, HostMemory}
TypeRun ==
  /\ batch.at \in -1 .. n
  /\ stopped \subseteq Node
  /\ state \in [Worker -> {"off", "registering", "up", "exited"}]
  /\ attempts \in [Worker -> 0 .. MaxRegister]
TypeSlice ==
  /\ slice \in [Node -> SliceRecord \cup {None, Gone, Dropped}]
  /\ \A l \in late : l.id \in Node /\ l.run \in 1 .. run

LEMMA Types == TypeOK <=> TypeSetup /\ TypePool /\ TypeRun /\ TypeSlice
BY DEF TypeOK, TypeSetup, TypePool, TypeRun, TypeSlice

LEMMA TypesNext == TypeOK' <=> TypeSetup' /\ TypePool' /\ TypeRun' /\ TypeSlice'
BY DEF TypeOK, TypeSetup, TypePool, TypeRun, TypeSlice

LEMMA KeepTypePool ==
  ASSUME TypePool, UNCHANGED <<nodes, info>>
  PROVE  TypePool'
BY DEF TypePool

LEMMA KeepTypeRun ==
  ASSUME TypeRun, UNCHANGED <<setting, batch, stopped, state, attempts>>
  PROVE  TypeRun'
BY Fixed DEF TypeRun

LEMMA KeepTypeSlice ==
  ASSUME TypeSlice, UNCHANGED <<run, sliceVars>>
  PROVE  TypeSlice'
BY DEF TypeSlice, sliceVars

LEMMA KeepTypeSetup ==
  ASSUME TypeSetup, UNCHANGED <<setting, phase, run, chosen, proxies, at, tries, token, again>>
  PROVE  TypeSetup'
BY Fixed DEF TypeSetup

LEMMA Numbers ==
  ASSUME TypeSetup
  PROVE  /\ n \in Nat /\ 1 <= n /\ Ranks = 1 .. n /\ 1 \in Ranks
         /\ at \in Nat /\ 1 <= at /\ at <= n /\ token \in Nat /\ run \in Nat
         /\ setting \in Settings /\ setting.tokens \in Nat /\ setting.runs \in Nat
         /\ MaxInit \in Nat /\ 1 <= MaxInit /\ MaxRegister \in Nat /\ 1 <= MaxRegister
BY SettingFacts DEF TypeSetup

--------------------
(* What keeps each part of the invariant. *)

LEMMA KeepPool ==
  ASSUME PoolInv, UNCHANGED <<setting, nodes, info, state, told, free>>
  PROVE  PoolInv'
BY DEF PoolInv, Declared, Up

\* A place once taken is taken, however many workers register behind.
LEMMA KeepPlace ==
  ASSUME PlaceInv, TypeSetup, setting' = setting, chosen' = proxies',
         phase' \in Placed => phase \in Placed /\ proxies' = proxies,
         nodes \in Seq(Worker), nodes' \in Seq(Worker), Len(nodes) <= Len(nodes'),
         \A k \in 1 .. Len(nodes) : nodes'[k] = nodes[k]
  PROVE  PlaceInv'
<1>1. n' = n /\ Ranks' = Ranks /\ _hosted' = _hosted /\ Expected' = Expected BY Fixed
<1>2. Len(nodes) \in Nat /\ Len(nodes') \in Nat /\ DOMAIN nodes = 1 .. Len(nodes) /\ DOMAIN nodes' = 1 .. Len(nodes')
  BY LenProperties
<1>3. \A w \in ToSet(nodes) : w \in ToSet(nodes') BY <1>2 DEF ToSet
<1>4. ASSUME phase' \in Placed PROVE phase \in Placed /\ proxies' = proxies
  BY <1>4
<1>5. ASSUME phase \in Placed, ~setting.static
      PROVE  Expected <= Len(nodes) /\ Expected <= Len(nodes') /\ \A k \in 1 .. Expected : nodes'[k] = nodes[k]
  <2>1. Expected <= Len(nodes) BY <1>5 DEF PlaceInv
  <2>2. Expected \in Int
    <3>1. setting \in Settings BY DEF TypeSetup
    <3> QED BY <3>1, ExpectedType
  <2> QED BY <1>2, <2>1, <2>2
<1> QED BY <1>1, <1>3, <1>4, <1>5 DEF PlaceInv, HostOf, ToSet

LEMMA KeepPlaceSame ==
  ASSUME PlaceInv, TypeSetup, TypePool, UNCHANGED <<setting, nodes>>, chosen' = proxies',
         phase' \in Placed => phase \in Placed /\ proxies' = proxies
  PROVE  PlaceInv'
<1>1. nodes \in Seq(Worker) /\ Len(nodes) \in Nat BY LenProperties DEF TypePool
<1> QED BY <1>1, KeepPlace

LEMMA KeepFirst ==
  ASSUME FirstInv, setting' = setting,
         phase' \in Planned => phase \in Planned /\ proxies' = proxies
  PROVE  FirstInv'
BY Fixed DEF FirstInv

LEMMA KeepShare ==
  ASSUME ShareInv, setting' = setting,
         phase' \in Shipping => phase \in Shipping /\ UNCHANGED <<shares, again, proxies>>
  PROVE  ShareInv'
<1>1. n' = n /\ Ranks' = Ranks /\ Splits' = Splits BY Fixed DEF Splits
<1> QED BY <1>1 DEF ShareInv

LEMMA KeepShip ==
  ASSUME ShipInv, TypeSetup, PlaceInv, UNCHANGED <<setting, token>>,
         phase' \in Shipping => phase \in Shipping /\ UNCHANGED <<run, shares, proxies>> /\ Sent' \in 0 .. Sent,
         \A id \in Node : \/ slice'[id] = slice[id] \/ slice'[id] = Gone
                          \/ slice'[id] = None /\ phase' \notin Shipping
                          \/ slice'[id] = Dropped /\ (phase' \in Shipping => run > 1)
  PROVE  ShipInv'
<1>0. n' = n /\ Ranks' = Ranks /\ _hosted' = _hosted BY Fixed
<1>1. /\ n \in Nat /\ Ranks = 1 .. n /\ at \in Nat /\ at <= n
      /\ \A id \in Node : Holds(id)' => slice'[id] = slice[id] /\ Holds(id)
  BY Numbers DEF Holds
<1>2. ASSUME NEW id \in Node, Holds(id)' PROVE slice'[id].token <= token'
  BY <1>1, <1>2 DEF ShipInv
<1>3. ASSUME phase' \in Shipping, NEW i \in Ranks PROVE SliceConfig(i)' = SliceConfig(i)
  BY <1>0, <1>3 DEF SliceConfig
<1>4. ASSUME phase' \in Shipping, NEW id \in Node, Holds(id)', slice'[id].token = token'
      PROVE  \E i \in Ranks : id = proxies'[i] /\ slice'[id] = SliceConfig(i)'
  <2>1. slice'[id] = slice[id] /\ Holds(id) /\ slice[id].token = token BY <1>1, <1>4
  <2>2. PICK i \in Ranks : id = proxies[i] /\ slice[id] = SliceConfig(i)
    BY <1>4, <2>1 DEF ShipInv
  <2> QED BY <1>3, <1>4, <2>1, <2>2
<1>5. ASSUME NEW i \in 1 .. Sent'
      PROVE  \/ slice'[proxies'[i]] \in {Gone, SliceConfig(i)'}
             \/ slice'[proxies'[i]] = Dropped /\ run' > 1
  <2>1. phase' \in Shipping BY DEF Sent
  <2>2. i \in 1 .. Sent /\ i \in Ranks
    <3>1. Sent \in 0 .. n BY <1>1 DEF Sent
    <3>2. Sent' \in 0 .. Sent BY <2>1
    <3> QED BY <1>1, <3>1, <3>2
  <2>3. /\ proxies[i] \in Node
        /\ slice[proxies[i]] \in {Gone, SliceConfig(i)} \/ (slice[proxies[i]] = Dropped /\ run > 1)
    <3>1. Len(proxies) = n /\ proxies \in Seq(Node)
      BY <2>1 DEF PlaceInv, TypeSetup, Placed, Planned
    <3> QED BY <1>1, <2>2, <3>1, ElementOfSeq DEF ShipInv
  <2>4. \/ slice'[proxies[i]] \in {Gone, slice[proxies[i]]}
        \/ slice'[proxies[i]] = Dropped /\ run > 1
    BY <2>1, <2>3
  <2> QED BY <1>3, <2>1, <2>2, <2>3, <2>4
<1>6. ASSUME NEW w \in setting.first, Holds(w)', _hosted = {}, ~setting.static
      PROVE  slice'[w].index = 1
  <2>1. w \in Node BY Numbers, SettingFacts, Kinds
  <2> QED BY <1>1, <1>6, <2>1 DEF ShipInv
<1> QED BY <1>0, <1>2, <1>4, <1>5, <1>6 DEF ShipInv

LEMMA KeepLate ==
  ASSUME LateInv, run' = run, late' \subseteq late,
         phase \in {"down"} \cup Closing => phase' \in {"down"} \cup Closing
  PROVE  LateInv'
BY DEF LateInv

\* Nobody has come to this run's store.
LEMMA NothingMet ==
  ASSUME store' = EmptyStore, \A t \in threads' : t.run # run', phase' = "training" => ~setting'.nccl
  PROVE  MeetInv'
<1>1. store'.begun = {} /\ store'.joined = {} /\ store'.status = {} BY DEF EmptyStore
<1>2. BegunInv' /\ JoinedInv' /\ StatusInv' /\ ThreadInv'
  BY <1>1 DEF BegunInv, JoinedInv, StatusInv, ThreadInv
<1>3. OnceInv' BY <1>1 DEF OnceInv
<1> QED BY <1>2, <1>3 DEF MeetInv, EmptyStore

\* Before the first shipment there is nothing in the store.
LEMMA NobodyMeets ==
  ASSUME GroupInv, Serving, phase \notin Meeting
  PROVE  store = EmptyStore /\ \A t \in threads : t.run # run
<1>1. MeetInv BY DEF GroupInv
<1>2. store = EmptyStore BY <1>1 DEF MeetInv
<1>3. store.begun = {} BY <1>2 DEF EmptyStore
<1> QED BY <1>1, <1>2, <1>3 DEF MeetInv, ThreadInv

LEMMA KeepGroupAside ==
  ASSUME GroupInv, UNCHANGED <<setting, run, ncclVars>>,
         phase' \notin Meeting, Serving' => Serving /\ phase \notin Meeting
  PROVE  GroupInv'
<1>1. UNCHANGED <<store, threads, group>> BY DEF ncclVars
<1>2. ASSUME Serving' PROVE MeetInv'
  <2>1. store' = EmptyStore /\ \A t \in threads' : t.run # run' BY <1>1, <1>2, NobodyMeets
  <2>2. phase' # "training" BY DEF Meeting, Shipping
  <2> QED BY <2>1, <2>2, NothingMet
<1> QED BY <1>1, <1>2 DEF GroupInv

\* Threads may end, and with processes their groups, and the run goes on.
LEMMA KeepGroup ==
  ASSUME GroupInv, TypeSetup, PlaceInv, UNCHANGED <<setting, run, proxies, token, store>>,
         threads' \subseteq threads, DOMAIN group' = Node,
         \A id \in Node : Holds(id)' => Holds(id) /\ group'[ProcessOf(id)] = group[ProcessOf(id)],
         Serving' => Serving,
         phase' = "init" => phase = "init" /\ at' = at /\ tries' \in 1 .. tries,
         phase' \in Shipping => phase \in Shipping,
         phase' = "training" => phase = "training" \/ \A i \in Ranks : Said(i) \in store.status,
         phase \in Meeting => phase' \in Meeting \/ ~Serving'
  PROVE  GroupInv'
<1>1. n' = n /\ Ranks' = Ranks /\ Ranks = 1 .. n /\ 1 \in Ranks /\ n \in Nat BY Fixed, Numbers
<1>2. /\ \A k : Joined(k)' = Joined(k)
      /\ \A k, r : HasJoined(k, r)' <=> HasJoined(k, r)
      /\ Repeated' <=> Repeated
  BY DEF Joined, HasJoined, Repeated
<1>3. \A k : Met(k)' <=> Met(k) BY <1>1, <1>2 DEF Met
<1>4. \A i : Said(i)' = Said(i) BY DEF Said
<1>5. ASSUME Serving' PROVE MeetInv'
  <2>1. Serving /\ MeetInv BY <1>5 DEF GroupInv
  <2>2. /\ store' = [begun |-> store'.begun, joined |-> store'.joined, status |-> store'.status]
        /\ phase' \notin Meeting => store' = EmptyStore
    BY <1>5, <2>1 DEF MeetInv
  <2>3. BegunInv'
    <3> SUFFICES ASSUME NEW b \in store.begun, phase' = "init", b.token = token
                 PROVE  b.index <= at' /\ (b.index = at' => b.number <= MaxInit - tries')
      BY <1>1, <2>1 DEF BegunInv, MeetInv, Place
    <3>1. b.number \in Nat /\ b.index <= at /\ (b.index = at => b.number <= MaxInit - tries)
      BY <2>1 DEF BegunInv, MeetInv
    <3>2. tries \in Nat /\ tries' \in Nat /\ tries' <= tries /\ MaxInit \in Nat /\ at' = at
      BY Numbers DEF TypeSetup
    <3> QED BY <3>1, <3>2
  <2>4. JoinedInv' BY <2>1 DEF JoinedInv, MeetInv, Place
  <2>5. StatusInv' BY <1>3, <2>1 DEF StatusInv, MeetInv
  <2>6. ThreadInv' BY <2>1 DEF ThreadInv, MeetInv, Place
  <2>7. ASSUME ~Repeated' PROVE OnceInv'
    <3>1. OnceInv BY <1>2, <2>1, <2>7 DEF MeetInv
    <3>2. ASSUME phase' \in Shipping, NEW i \in Ranks, Said(i) \in store.status, slice'[proxies[i]] \notin {None, Gone, Dropped}
          PROVE  group'[ProcessOf(proxies[i])] = Joined(token)
      <4>1. proxies[i] \in Node
        <5>1. proxies \in Seq(Node) /\ Len(proxies) = n
          BY <3>2 DEF PlaceInv, TypeSetup, Placed, Planned
        <5> QED BY <1>1, <5>1, ElementOfSeq
      <4>2. Holds(proxies[i]) /\ group'[ProcessOf(proxies[i])] = group[ProcessOf(proxies[i])]
        BY <3>2, <4>1 DEF Holds
      <4> QED BY <3>1, <3>2, <4>2 DEF OnceInv
    <3>3. ASSUME phase' = "training", setting.nccl, NEW i \in Ranks PROVE Said(i) \in store.status
      BY <3>1, <3>3 DEF OnceInv
    <3>4. \A t \in threads' : t.run = run =>
            /\ t.join.token = token
            /\ \A x \in store.status : ~(x.token = t.join.token /\ x.index = t.join.index)
      BY <3>1 DEF OnceInv
    <3> QED BY <1>1, <1>2, <1>4, <3>2, <3>3, <3>4 DEF OnceInv, Holds
  <2>8. ASSUME phase' = "training", setting.nccl PROVE Met(token)
    <3>1. CASE phase = "training" BY <2>1, <2>8, <3>1 DEF MeetInv
    <3>2. CASE \A i \in Ranks : Said(i) \in store.status
      <4>1. Said(1) \in store.status /\ Said(1).token = token /\ Said(1).result = "ok"
        BY <1>1, <3>2 DEF Said
      <4> QED BY <2>1, <4>1 DEF MeetInv, StatusInv
    <3> QED BY <2>8, <3>1, <3>2
  <2> QED BY <1>3, <2>2, <2>3, <2>4, <2>5, <2>6, <2>7, <2>8 DEF MeetInv
<1> QED BY <1>5 DEF GroupInv

LEMMA KeepTold ==
  ASSUME ToldInv, setting' = setting,
         phase' \in {"stopping", "idle"} => UNCHANGED <<phase, at, proxies>> /\ stopped \subseteq stopped'
  PROVE  ToldInv'
BY Fixed DEF ToldInv

LEMMA KeepCount ==
  ASSUME CountInv, TypeSetup, UNCHANGED <<setting, run, token, attempts>>,
         phase' # "down" => phase # "down",
         phase' \in {"discover", "plan"} \cup Describing => phase \in {"discover", "plan"} \cup Describing,
         \A w \in Worker : state'[w] = "registering" => state[w] = "registering"
  PROVE  CountInv'
BY Numbers DEF CountInv

--------------------
(* Workers. *)

\* What a node says is what it declares, and the memory there is.
LEMMA Says ==
  ASSUME free \in [Worker -> Memories], NEW id \in Node
  PROVE  /\ capabilities(id).memory \in Memories \cup {HostMemory}
         /\ id \in Worker => Declared(capabilities(id), id) /\ capabilities(id).memory \in Memories
<1>1. CASE id \in Hosted
  <2>1. id \notin Worker BY <1>1, Kinds DEF Hosted
  <2> QED BY <1>1, <2>1 DEF capabilities
<1>2. CASE id \notin Hosted
  <2>1. id \in Worker BY <1>2 DEF Node
  <2> QED BY <1>2, <2>1 DEF capabilities, Declared
<1> QED BY <1>1, <1>2

\* A registration, the first or another, adds its worker once.
LEMMA RegisterFacts ==
  ASSUME IndInv, NEW w \in Worker, Up(w), register(w), UNCHANGED <<setting, phase, chosen, proxies>>
  PROVE  /\ TypePool' /\ PlaceInv'
         /\ DOMAIN info' = Node /\ \A v \in ToSet(nodes') : Declared(info'[v], v)
<1>0. TypeSetup /\ TypePool /\ PoolInv /\ PlaceInv /\ w \in Node /\ ~setting.static
  BY Types, Kinds DEF IndInv, register
<1>1. /\ nodes \in Seq(Worker) /\ IsInjective(nodes) /\ Len(nodes) \in Nat
      /\ DOMAIN nodes = 1 .. Len(nodes)
  BY <1>0, LenProperties DEF TypePool
<1>2. info' = [info EXCEPT ![w] = told[w]] BY DEF register, handle_register
<1>3. /\ DOMAIN info' = Node /\ info'[w] = told[w] /\ \A id \in Node \ {w} : info'[id] = info[id]
      /\ told[w].memory \in Memories \cup {0} /\ Declared(told[w], w)
      /\ \A v \in ToSet(nodes) : Declared(info[v], v)
  BY <1>0, <1>2 DEF PoolInv
<1>4. CASE w \in ToSet(nodes) /\ nodes' = nodes
  <2>1. PlaceInv'
    <3>1. chosen' = proxies' BY <1>0 DEF PlaceInv
    <3> QED BY <1>0, <1>4, <3>1, KeepPlaceSame
  <2>2. TypePool' BY <1>0, <1>1, <1>3, <1>4 DEF TypePool
  <2>3. ToSet(nodes') = ToSet(nodes) BY <1>4
  <2>4. \A v \in ToSet(nodes) : v \in Node BY <1>1, Kinds, ElementOfSeq DEF ToSet
  <2> QED BY <1>3, <2>1, <2>2, <2>3, <2>4
<1>5. CASE w \notin ToSet(nodes) /\ nodes' = Append(nodes, w)
  <2>1. /\ nodes' \in Seq(Worker) /\ Len(nodes') = Len(nodes) + 1
        /\ nodes'[Len(nodes) + 1] = w /\ \A k \in 1 .. Len(nodes) : nodes'[k] = nodes[k]
    BY <1>1, <1>5, AppendProperties
  <2>2. DOMAIN nodes' = 1 .. Len(nodes) + 1 BY <2>1, LenProperties
  <2>3. \A k \in 1 .. Len(nodes) : nodes[k] # w BY <1>1, <1>5 DEF ToSet
  <2>4. ASSUME NEW j \in DOMAIN nodes', NEW k \in DOMAIN nodes', nodes'[j] = nodes'[k] PROVE j = k
    <3>1. j \in 1 .. Len(nodes) \/ j = Len(nodes) + 1 BY <1>1, <2>2
    <3>2. k \in 1 .. Len(nodes) \/ k = Len(nodes) + 1 BY <1>1, <2>2
    <3> QED BY <1>1, <2>1, <2>3, <2>4, <3>1, <3>2 DEF IsInjective
  <2>5. IsInjective(nodes') BY <2>4 DEF IsInjective
  <2>6. \A v \in ToSet(nodes') : v = w \/ v \in ToSet(nodes) BY <1>1, <2>1, <2>2 DEF ToSet
  <2>7. \A v \in ToSet(nodes') : v \in Node BY <2>1, <2>2, Kinds, ElementOfSeq DEF ToSet
  <2>8. PlaceInv'
    <3>1. chosen' = proxies' /\ Len(nodes) <= Len(nodes') BY <1>0, <1>1, <2>1 DEF PlaceInv
    <3> QED BY <1>0, <1>1, <2>1, <3>1, KeepPlace
  <2> QED BY <1>0, <1>3, <2>1, <2>5, <2>6, <2>7, <2>8 DEF TypePool
<1> QED BY <1>4, <1>5 DEF register, handle_register

\* What the nodes hold stays when neither they nor the coordinator move.
LEMMA SlicesStay ==
  ASSUME IndInv, UNCHANGED <<setting, run, phase, at, tries, shares, proxies, token, ncclVars, sliceVars>>
  PROVE  TypeSlice' /\ ShipInv' /\ LateInv' /\ GroupInv'
<1>0. TypeSetup /\ TypeSlice /\ PlaceInv /\ ShipInv /\ LateInv /\ GroupInv BY Types DEF IndInv
<1>1. UNCHANGED <<store, threads, group, slice, late>> BY DEF ncclVars, sliceVars
<1>2. Sent' = Sent /\ Sent \in Nat BY <1>0, Fixed, Numbers DEF Sent
<1>3. TypeSlice' /\ ShipInv' /\ LateInv' BY <1>0, <1>1, <1>2, KeepShip, KeepTypeSlice, KeepLate
<1>4. GroupInv'
  <2>1. \A id \in Node : Holds(id)' => Holds(id) /\ group'[ProcessOf(id)] = group[ProcessOf(id)]
    BY <1>1 DEF Holds
  <2>2. tries \in 1 .. tries /\ DOMAIN group' = Node /\ (Serving' => Serving)
    BY <1>0, <1>1, Numbers DEF TypeSetup, GroupInv, Serving
  <2> QED BY <1>0, <1>1, <2>1, <2>2, KeepGroup
<1> QED BY <1>3, <1>4

\* Outside of a shipment the places do not matter.
LEMMA SlicesAside ==
  ASSUME IndInv, UNCHANGED <<setting, run, token, ncclVars, sliceVars>>,
         phase' \notin Meeting, Serving' => Serving /\ phase \notin Meeting,
         phase \in {"down"} \cup Closing => phase' \in {"down"} \cup Closing
  PROVE  TypeSlice' /\ ShipInv' /\ LateInv' /\ GroupInv'
<1>0. TypeSetup /\ TypeSlice /\ PlaceInv /\ ShipInv /\ LateInv /\ GroupInv BY Types DEF IndInv
<1>1. UNCHANGED <<slice, late>> /\ phase' \notin Shipping BY DEF sliceVars, Meeting
<1> QED BY <1>0, <1>1, KeepShip, KeepTypeSlice, KeepLate, KeepGroupAside

LEMMA StartWorkerKeeps ==
  ASSUME IndInv, NEW w \in Worker, StartWorker(w)
  PROVE  IndInv'
<1>0. /\ TypeSetup /\ TypePool /\ TypeRun /\ TypeSlice
      /\ PoolInv /\ PlaceInv /\ FirstInv /\ ShareInv /\ ShipInv /\ ToldInv /\ CountInv
  BY Types DEF IndInv
<1>1. /\ UNCHANGED <<setting, run, phase, chosen, proxies, shares, at, tries, token, again, nodes, info,
                     ncclVars, batch, stopped, free, sliceVars>>
      /\ state' = [state EXCEPT ![w] = IF setting.static THEN "up" ELSE "registering"]
      /\ attempts' = [attempts EXCEPT ![w] = MaxRegister]
      /\ told' = [told EXCEPT ![w] = capabilities(w)]
  BY DEF StartWorker, setupVars, poolVars
<1>2. TypeRun' BY <1>0, <1>1, Fixed, Numbers DEF TypeRun
<1>3. PoolInv'
  <2>1. /\ DOMAIN told' = Worker /\ told'[w] = capabilities(w)
        /\ \A v \in Worker \ {w} : told'[v] = told[v] /\ state'[v] = state[v]
    BY <1>0, <1>1 DEF PoolInv, TypeRun
  <2>2. Declared(told'[w], w) /\ told'[w].memory \in Memories
    BY <1>0, <2>1, Says, Kinds DEF PoolInv
  <2> QED BY <1>0, <1>1, <2>1, <2>2 DEF PoolInv, Declared, Up
<1>4. CountInv'
  <2>1. \A v \in Worker : state'[v] = "registering" => attempts'[v] >= 1
    BY <1>0, <1>1, Numbers DEF CountInv, TypeRun
  <2> QED BY <1>0, <1>1, <2>1 DEF CountInv
<1>5. PlaceInv' BY <1>0, <1>1, KeepPlaceSame DEF PlaceInv
<1>6. FirstInv' /\ ShareInv' /\ ToldInv' BY <1>0, <1>1, KeepFirst, KeepShare, KeepTold
<1>7. TypeSlice' /\ ShipInv' /\ LateInv' /\ GroupInv' BY <1>1, SlicesStay
<1>8. TypeSetup' /\ TypePool' BY <1>0, <1>1, KeepTypeSetup, KeepTypePool
<1> QED BY <1>2, <1>3, <1>4, <1>5, <1>6, <1>7, <1>8, TypesNext DEF IndInv

LEMMA MemoryMovesKeeps ==
  ASSUME IndInv, NEW w \in Worker, MemoryMoves(w)
  PROVE  IndInv'
<1>0. /\ TypeSetup /\ TypePool /\ TypeRun /\ TypeSlice
      /\ PoolInv /\ PlaceInv /\ FirstInv /\ ShareInv /\ ShipInv /\ ToldInv /\ CountInv
  BY Types DEF IndInv
<1>1. /\ UNCHANGED <<setting, run, phase, chosen, proxies, shares, at, tries, token, again, nodes, info,
                     ncclVars, batch, stopped, state, attempts, told, sliceVars>>
      /\ \E m \in Memories \ {free[w]} : free' = [free EXCEPT ![w] = m]
  BY DEF MemoryMoves, setupVars, poolVars
<1>2. PoolInv' BY <1>0, <1>1 DEF PoolInv, Declared, Up
<1>3. CountInv' /\ PlaceInv'
  <2>1. chosen' = proxies' BY <1>0, <1>1 DEF PlaceInv
  <2> QED BY <1>0, <1>1, <2>1, KeepPlaceSame, KeepCount
<1>4. FirstInv' /\ ShareInv' /\ ToldInv' BY <1>0, <1>1, KeepFirst, KeepShare, KeepTold
<1>5. TypeSlice' /\ ShipInv' /\ LateInv' /\ GroupInv' BY <1>1, SlicesStay
<1>6. TypeSetup' /\ TypePool' /\ TypeRun'
  BY <1>0, <1>1, KeepTypeSetup, KeepTypePool, KeepTypeRun
<1> QED BY <1>2, <1>3, <1>4, <1>5, <1>6, TypesNext DEF IndInv

\* What registers leaves the coordinator's other state alone.
LEMMA Registering ==
  ASSUME IndInv, (\E w \in Worker : Up(w) /\ register(w)) \/ UNCHANGED poolVars,
         UNCHANGED <<setting, run, setupVars, stopped, told, free>>,
         CountInv', TypeRun', TypeSlice', ShipInv', LateInv', GroupInv',
         \A v \in Worker : Up(v)' => Up(v)
  PROVE  IndInv'
<1>0. /\ TypeSetup /\ TypePool /\ TypeRun
      /\ PoolInv /\ PlaceInv /\ FirstInv /\ ShareInv /\ ToldInv
  BY Types DEF IndInv
<1>1. UNCHANGED <<phase, chosen, proxies, shares, at, tries, token, again>> BY DEF setupVars
<1>2. /\ TypePool' /\ PlaceInv' /\ DOMAIN info' = Node
      /\ ~setting.static => \A v \in ToSet(nodes') : Declared(info'[v], v)
  <2>1. ASSUME NEW w \in Worker, Up(w), register(w)
        PROVE  /\ TypePool' /\ PlaceInv' /\ DOMAIN info' = Node
               /\ \A v \in ToSet(nodes') : Declared(info'[v], v)
    BY <1>1, <2>1, RegisterFacts
  <2>2. CASE UNCHANGED poolVars
    <3>1. UNCHANGED <<nodes, info>> /\ chosen' = proxies'
      BY <1>0, <1>1, <2>2 DEF poolVars, PlaceInv
    <3>2. PlaceInv' /\ TypePool' BY <1>0, <1>1, <3>1, KeepPlaceSame, KeepTypePool
    <3> QED BY <1>0, <3>1, <3>2 DEF PoolInv
  <2> QED BY <2>1, <2>2
<1>3. PoolInv' BY <1>0, <1>2 DEF PoolInv, Declared
<1>4. FirstInv' /\ ShareInv' /\ ToldInv' BY <1>0, <1>1, KeepFirst, KeepShare, KeepTold
<1>5. TypeSetup' BY <1>0, <1>1, KeepTypeSetup
<1> QED BY <1>2, <1>3, <1>4, <1>5, TypesNext DEF IndInv

\* Processes that end take their slices, threads and groups with them.

LEMMA EndKeeps ==
  ASSUME IndInv, NEW ids \in SUBSET Worker, End(ids),
         UNCHANGED <<setting, run, phase, at, tries, shares, proxies, token>>
  PROVE  TypeSlice' /\ ShipInv' /\ LateInv' /\ GroupInv'
<1>0. TypeSetup /\ TypeSlice /\ PlaceInv /\ ShipInv /\ LateInv /\ GroupInv BY Types DEF IndInv
<1>1. Sent' = Sent /\ Sent \in Nat BY <1>0, Fixed, Numbers DEF Sent
<1>2. /\ slice' = [id \in Node |-> IF id \in ids /\ slice[id] # None THEN Gone ELSE slice[id]]
      /\ late' = {l \in late : l.id \notin ids} /\ threads' = {t \in threads : t.id \notin ids}
      /\ group' = [id \in Node |-> IF id \in ids THEN {} ELSE group[id]]
      /\ UNCHANGED store
  BY DEF End
<1>3. TypeSlice' BY <1>0, <1>2 DEF TypeSlice
<1>4. ShipInv'
  <2>1. \A id \in Node : slice'[id] = slice[id] \/ slice'[id] = Gone BY <1>2
  <2> QED BY <1>0, <1>1, <2>1, KeepShip
<1>5. LateInv' BY <1>0, <1>2, KeepLate
<1>6. GroupInv'
  <2>1. ASSUME NEW id \in Node, Holds(id)'
        PROVE  Holds(id) /\ group'[ProcessOf(id)] = group[ProcessOf(id)]
    <3>1. id \notin ids \/ slice[id] = None BY <1>2, <2>1 DEF Holds
    <3>2. slice'[id] = slice[id] /\ id \notin ids BY <1>2, <2>1, <3>1 DEF Holds
    <3>3. ProcessOf(id) \in Node /\ ProcessOf(id) \notin ids BY <3>2, Kinds DEF ProcessOf
    <3> QED BY <1>2, <2>1, <3>2, <3>3 DEF Holds
  <2>2. tries \in 1 .. tries /\ DOMAIN group' = Node /\ threads' \subseteq threads /\ (Serving' => Serving)
    BY <1>0, <1>2, Numbers DEF TypeSetup, Serving
  <2> QED BY <1>0, <1>2, <2>1, <2>2, KeepGroup
<1> QED BY <1>3, <1>4, <1>5, <1>6

LEMMA LosingKeeps ==
  ASSUME IndInv, NEW id, LosesBatch(id)
  PROVE  batch'.at \in -1 .. n
<1>1. TypeSetup /\ TypeRun BY Types DEF IndInv
<1> QED BY <1>1, Numbers DEF LosesBatch, Lost, TypeRun

LEMMA CrashWorkerKeeps ==
  ASSUME IndInv, NEW w \in Worker, CrashWorker(w)
  PROVE  IndInv'
<1>0. TypeSetup /\ TypeRun /\ CountInv BY Types DEF IndInv
<1>1. /\ UNCHANGED <<setting, run, phase, chosen, proxies, shares, at, tries, token, again, nodes, info,
                     stopped, attempts, told, free>>
      /\ state' = [state EXCEPT ![w] = "off"]
      /\ Up(w) /\ End({w}) /\ LosesBatch(w)
  BY DEF CrashWorker, setupVars, poolVars
<1>2. TypeSlice' /\ ShipInv' /\ LateInv' /\ GroupInv' /\ batch'.at \in -1 .. n
  BY <1>1, EndKeeps, LosingKeeps
<1>3. TypeRun' BY <1>0, <1>1, <1>2, Fixed DEF TypeRun
<1>4. \A v \in Worker : state'[v] = state[v] \/ state'[v] = "off" BY <1>0, <1>1 DEF TypeRun
<1>5. CountInv' BY <1>0, <1>1, <1>4, KeepCount
<1>6. \A v \in Worker : Up(v)' => Up(v) BY <1>4 DEF Up
<1>7. UNCHANGED poolVars /\ UNCHANGED <<setting, run, setupVars, stopped, told, free>>
  BY <1>1 DEF poolVars, setupVars
<1> QED BY <1>1, <1>2, <1>3, <1>5, <1>6, <1>7, Registering

LEMMA RegisteredKeeps ==
  ASSUME IndInv, NEW w \in Worker, Registered(w)
  PROVE  IndInv'
<1>0. TypeSetup /\ TypeRun /\ CountInv BY Types DEF IndInv
<1>1. /\ UNCHANGED <<setting, run, setupVars, ncclVars, batch, stopped, attempts, told, free, sliceVars>>
      /\ state[w] = "registering" /\ state' = [state EXCEPT ![w] = "up"] /\ register(w)
  BY DEF Registered
<1>2. UNCHANGED <<phase, at, tries, shares, proxies, token>> BY <1>1 DEF setupVars
<1>3. TypeSlice' /\ ShipInv' /\ LateInv' /\ GroupInv' BY <1>1, <1>2, SlicesStay
<1>4. TypeRun' BY <1>0, <1>1, Fixed DEF TypeRun
<1>5. Up(w) /\ \A v \in Worker : Up(v)' => Up(v) BY <1>0, <1>1 DEF Up, TypeRun
<1>6. \A v \in Worker : state'[v] = "registering" => state[v] = "registering"
  BY <1>0, <1>1 DEF TypeRun
<1>7. CountInv' BY <1>0, <1>1, <1>2, <1>6, KeepCount
<1> QED BY <1>1, <1>3, <1>4, <1>5, <1>7, Registering

LEMMA WatchdogKeeps ==
  ASSUME IndInv, NEW w \in Worker, Watchdog(w)
  PROVE  IndInv'
<1>0. TypeSetup /\ TypeRun /\ CountInv BY Types DEF IndInv
<1>1. /\ UNCHANGED <<setting, run, setupVars, ncclVars, batch, stopped, state, attempts, told, free, sliceVars>>
      /\ state[w] = "up" /\ register(w)
  BY DEF Watchdog, Watches, workerVars
<1>2. UNCHANGED <<phase, at, tries, shares, proxies, token>> BY <1>1 DEF setupVars
<1>3. TypeSlice' /\ ShipInv' /\ LateInv' /\ GroupInv' BY <1>1, <1>2, SlicesStay
<1>4. TypeRun' /\ CountInv' BY <1>0, <1>1, <1>2, KeepTypeRun, KeepCount
<1>5. Up(w) /\ \A v \in Worker : Up(v)' => Up(v) BY <1>1 DEF Up
<1> QED BY <1>1, <1>3, <1>4, <1>5, Registering

\* A failed attempt leaves one less, and the last one may end the process.
LEMMA RegistrationFailsKeeps ==
  ASSUME IndInv, NEW w \in Worker, RegistrationFails(w)
  PROVE  IndInv'
<1>0. TypeSetup /\ TypeRun /\ CountInv BY Types DEF IndInv
<1>1. /\ UNCHANGED <<setting, run, setupVars, stopped, told, free>>
      /\ state[w] = "registering"
      /\ attempts' = [attempts EXCEPT ![w] = @ - 1]
      /\ state' = [state EXCEPT ![w] = IF attempts[w] = 1 THEN GivesUp(w) ELSE @]
      /\ IF state'[w] = "exited" THEN End({w}) /\ LosesBatch(w) ELSE UNCHANGED <<ncclVars, sliceVars, batch>>
      /\ register(w) \/ UNCHANGED poolVars
  BY DEF RegistrationFails
<1>2. UNCHANGED <<phase, at, tries, shares, proxies, token>> BY <1>1 DEF setupVars
<1>3. TypeSlice' /\ ShipInv' /\ LateInv' /\ GroupInv' /\ batch'.at \in -1 .. n
  <2>1. CASE End({w}) /\ LosesBatch(w) BY <1>1, <1>2, <2>1, EndKeeps, LosingKeeps
  <2>2. CASE UNCHANGED <<ncclVars, sliceVars, batch>>
    BY <1>0, <1>1, <1>2, <2>2, SlicesStay DEF TypeRun
  <2> QED BY <1>1, <2>1, <2>2
<1>4. attempts[w] \in 1 .. MaxRegister /\ attempts[w] - 1 \in 0 .. MaxRegister
  BY <1>0, <1>1, Numbers DEF CountInv, TypeRun
<1>5. TypeRun' BY <1>0, <1>1, <1>3, <1>4, Fixed DEF TypeRun, GivesUp
<1>6. Up(w) /\ \A v \in Worker : Up(v)' => Up(v) BY <1>0, <1>1 DEF Up, TypeRun
<1>7. CountInv'
  <2>1. \A v \in Worker : state'[v] = "registering" => attempts'[v] >= 1
    <3>1. state'[w] = "registering" => attempts[w] # 1 BY <1>0, <1>1 DEF TypeRun, GivesUp
    <3> QED BY <1>0, <1>1, <1>4, <3>1 DEF CountInv, TypeRun
  <2> QED BY <1>0, <1>1, <1>2, <2>1 DEF CountInv
<1> QED BY <1>1, <1>3, <1>5, <1>6, <1>7, Registering

--------------------
(* The coordinator up to its first shipment. *)

\* A setup that fails leaves the workers as they are.
LEMMA Failing ==
  ASSUME IndInv, Fail, UNCHANGED <<setting, run, poolVars, batch, stopped, workerVars>>,
         TypeSlice', ShipInv', LateInv', GroupInv'
  PROVE  IndInv'
<1>0. /\ TypeSetup /\ TypePool /\ TypeRun
      /\ PoolInv /\ PlaceInv /\ FirstInv /\ ShareInv /\ ToldInv /\ CountInv
  BY Types DEF IndInv
<1>1. /\ UNCHANGED <<setting, run, nodes, info, batch, stopped, state, attempts, told, free, token>>
      /\ phase' = "down" /\ chosen' = <<>> /\ proxies' = <<>> /\ at' = 1 /\ tries' = MaxInit /\ again' = FALSE
  BY DEF Fail, poolVars, workerVars
<1>2. TypeSetup'
  <2>1. 1 \in Ranks' /\ MaxInit \in 1 .. MaxInit /\ phase' \in Phases
    BY <1>0, <1>1, Numbers, Fixed DEF Phases
  <2>2. <<>> \in Seq(Node) OBVIOUS
  <2>3. chosen' \in Seq(Node) /\ proxies' \in Seq(Node) /\ Len(chosen') = Len(proxies')
    BY <1>1, <2>2
  <2> QED BY <1>0, <1>1, <2>1, <2>3 DEF TypeSetup
<1>3. PoolInv' /\ TypePool' /\ TypeRun' BY <1>0, <1>1, KeepPool, KeepTypePool, KeepTypeRun
<1>4. /\ phase' \notin Placed /\ phase' \notin Planned /\ phase' \notin Shipping
      /\ phase' \notin {"discover", "plan"} \cup Describing
      /\ phase' # "training" /\ phase' \notin {"stopping", "idle"}
  BY <1>1 DEF Placed, Planned, Shipping, Closing, Describing
<1>5. PlaceInv' /\ FirstInv' /\ ShareInv' /\ ToldInv'
  BY <1>0, <1>1, <1>4, KeepPlaceSame, KeepFirst, KeepShare, KeepTold
<1>6. CountInv' BY <1>0, <1>1, <1>4, KeepCount
<1> QED BY <1>2, <1>3, <1>5, <1>6, TypesNext DEF IndInv

LEMMA FailingWithSlices ==
  ASSUME IndInv, Fail, UNCHANGED <<setting, run, poolVars, ncclVars, batch, stopped, workerVars, sliceVars>>
  PROVE  IndInv'
<1>1. phase' = "down" /\ token' = token BY DEF Fail
<1>2. TypeSlice' /\ ShipInv' /\ LateInv' /\ GroupInv'
  BY <1>1, SlicesAside DEF Meeting, Shipping, Serving
<1> QED BY <1>2, Failing

LEMMA StartCoordinatorKeeps ==
  ASSUME IndInv, StartCoordinator
  PROVE  IndInv'
<1>0. /\ TypeSetup /\ TypePool /\ TypeRun /\ TypeSlice
      /\ PoolInv /\ PlaceInv /\ FirstInv /\ ShareInv /\ ShipInv /\ GroupInv /\ ToldInv /\ CountInv
  BY Types DEF IndInv
<1>1. /\ UNCHANGED <<setting, token, state, attempts, told, free>>
      /\ run < setting.runs /\ run' = run + 1 /\ phase' = "discover" /\ phase \in {"down", "ended"}
      /\ nodes' = IF setting.static THEN setting.peers ELSE <<>>
      /\ info' = [id \in Node |-> IF id \in Hosted THEN capabilities(id) ELSE Unknown]
      /\ chosen' = <<>> /\ proxies' = <<>> /\ at' = 1 /\ tries' = MaxInit /\ again' = FALSE
      /\ store' = EmptyStore
      /\ threads' = {t \in threads : t.id \in Worker} /\ group' = [group EXCEPT ![Owner] = {}]
      /\ late' = {l \in late : l.id \in Worker}
      /\ batch' = NoBatch /\ stopped' = {}
      /\ slice' = [slice EXCEPT ![Owner] = None, ![TailHost] = None]
  BY DEF StartCoordinator, workerVars
<1>2. TypeSetup'
  <2>1. 1 \in Ranks' /\ MaxInit \in 1 .. MaxInit /\ phase' \in Phases
    BY <1>0, <1>1, Numbers, Fixed DEF Phases
  <2>2. <<>> \in Seq(Node) OBVIOUS
  <2>3. chosen' \in Seq(Node) /\ proxies' \in Seq(Node) /\ Len(chosen') = Len(proxies')
    BY <1>1, <2>2
  <2>4. run' \in 0 .. setting.runs
    <3>1. run \in Nat /\ setting.runs \in Nat BY <1>0, Numbers
    <3>2. run < setting.runs /\ run' = run + 1 BY <1>1
    <3> QED BY <3>1, <3>2
  <2> QED BY <1>0, <1>1, <2>1, <2>3, <2>4 DEF TypeSetup
<1>3. TypePool'
  <2>1. nodes' \in Seq(Worker) /\ IsInjective(nodes')
    <3>1. setting.peers \in Seq(Worker) /\ IsInjective(setting.peers)
      BY <1>0, SettingFacts DEF TypeSetup
    <3>2. <<>> \in Seq(Worker) /\ DOMAIN <<>> = {} OBVIOUS
    <3>3. IsInjective(<<>>) BY <3>2 DEF IsInjective
    <3>4. nodes' = setting.peers \/ nodes' = <<>> BY <1>1
    <3>5. CASE nodes' = setting.peers BY <3>1, <3>5
    <3>6. CASE nodes' = <<>> BY <3>2, <3>3, <3>6
    <3> QED BY <3>4, <3>5, <3>6
  <2>2. ASSUME NEW id \in Node PROVE info'[id].memory \in Memories \cup {0, HostMemory}
    BY <1>0, <1>1, Says DEF Unknown, PoolInv
  <2> QED BY <2>1, <2>2 DEF TypePool
<1>4. TypeRun' BY <1>0, <1>1, Numbers, Fixed DEF TypeRun, NoBatch
<1>5. TypeSlice'
  <2>1. slice' \in [Node -> SliceRecord \cup {None, Gone, Dropped}] BY <1>0, <1>1 DEF TypeSlice
  <2>2. run \in Nat BY <1>0, Numbers
  <2>3. \A l \in late' : l.id \in Node /\ l.run \in 1 .. run' BY <1>0, <1>1, <2>2 DEF TypeSlice
  <2> QED BY <2>1, <2>3 DEF TypeSlice
<1>6. PoolInv'
  <2>1. ~setting.static => ToSet(nodes') = {} BY <1>1 DEF ToSet
  <2> QED BY <1>0, <1>1, <2>1 DEF PoolInv, Declared, Up
<1>7. /\ phase' \notin Placed /\ phase' \notin Planned /\ phase' \notin Shipping
      /\ phase' # "training" /\ phase' \notin {"stopping", "idle"}
      /\ phase \notin {"discover", "plan"} \cup Describing
  BY <1>1 DEF Placed, Planned, Shipping, Closing, Describing
<1>8. PlaceInv' /\ FirstInv' /\ ShareInv' /\ ToldInv'
  BY <1>1, <1>7 DEF PlaceInv, FirstInv, ShareInv, ToldInv
<1>9. GroupInv' /\ LateInv'
  <2>1. run \in Nat /\ \A t \in threads : t.run \in 0 .. run BY <1>0, Numbers DEF GroupInv
  <2>2. \A t \in threads' : t.run # run' /\ t.run \in 0 .. run'
    <3>1. run' = run + 1 /\ threads' \subseteq threads BY <1>1
    <3> QED BY <2>1, <3>1
  <2>3. MeetInv' BY <1>1, <1>7, <2>2, NothingMet
  <2>4. DOMAIN group' = Node /\ (~setting'.nccl => threads' = {} /\ store' = EmptyStore)
    BY <1>0, <1>1 DEF GroupInv
  <2>5. \A l \in late' : l.run # run' BY <1>0, <1>1, <2>1 DEF TypeSlice
  <2> QED BY <2>2, <2>3, <2>4, <2>5 DEF GroupInv, LateInv
<1>10. ShipInv'
  <2>1. \A id \in Node : slice'[id] = slice[id] \/ slice'[id] = None BY <1>0, <1>1 DEF TypeSlice
  <2> QED BY <1>0, <1>1, <1>7, <2>1, KeepShip
<1>11. CountInv'
  <2>1. run \in Nat /\ token <= setting.tokens + run BY <1>0, <1>7, Numbers DEF CountInv
  <2>2. run' - 1 = run /\ run' >= 1 /\ phase' = "discover" BY <1>1, <2>1
  <2> QED BY <1>0, <1>1, <2>1, <2>2 DEF CountInv
<1> QED BY <1>2, <1>3, <1>4, <1>5, <1>6, <1>8, <1>9, <1>10, <1>11, TypesNext DEF IndInv

LEMMA DiscoverKeeps ==
  ASSUME IndInv, Discover
  PROVE  IndInv'
<1>0. /\ TypeSetup /\ TypePool /\ TypeRun /\ TypeSlice
      /\ PoolInv /\ PlaceInv /\ FirstInv /\ ShareInv /\ ShipInv /\ ToldInv /\ CountInv
  BY Types DEF IndInv
<1>1. /\ UNCHANGED <<setting, run, nodes, info, tries, token, again, ncclVars, batch, stopped, state, attempts,
                     told, free, sliceVars>>
      /\ phase = "discover" /\ Len(nodes) >= Expected
      /\ chosen' = _discover /\ proxies' = _discover /\ phase' = "reach" /\ at' = 1
  BY DEF Discover, poolVars, workerVars
<1>2. /\ _discover \in Seq(Node) /\ Len(_discover) = n /\ IsInjective(_discover)
      /\ \A i \in Ranks : IF i \in _hosted THEN _discover[i] = HostOf(i)
                          ELSE _discover[i] \in Worker /\ _discover[i] \in ToSet(nodes)
      /\ \A k \in 1 .. Expected : nodes[k] \in ToSet(_discover)
  BY <1>0, <1>1, DiscoverFacts DEF TypeSetup, TypePool
<1>3. TypeSetup' BY <1>0, <1>1, <1>2, Numbers, Fixed DEF TypeSetup, Phases
<1>4. PoolInv' /\ TypePool' /\ TypeRun' BY <1>0, <1>1, KeepPool, KeepTypePool, KeepTypeRun
<1>5. /\ phase' \notin Planned /\ phase' \notin Shipping
      /\ phase' # "training" /\ phase' \notin {"stopping", "idle"}
      /\ phase \in {"discover", "plan"} \cup Describing
  BY <1>1 DEF Placed, Planned, Shipping, Closing, Describing
<1>6. FirstInv' /\ ShareInv' /\ ToldInv' /\ TypeSlice' /\ ShipInv' /\ LateInv' /\ GroupInv'
  BY <1>0, <1>1, <1>5, KeepFirst, KeepShare, KeepTold, SlicesAside DEF Meeting, Serving, Closing, Shipping
<1>7. CountInv' BY <1>0, <1>1, <1>5, KeepCount
<1>8. PlaceInv'
  <2>1. Len(nodes) \in Nat /\ Expected \in Nat
    BY <1>0, LenProperties, ExpectedType DEF TypePool, TypeSetup
  <2> QED BY <1>1, <1>2, <2>1, Fixed DEF PlaceInv, HostOf
<1> QED BY <1>3, <1>4, <1>6, <1>7, <1>8, TypesNext DEF IndInv

\* The loops over the nodes that come before the plan.
LEMMA DescribingOn ==
  ASSUME IndInv, phase \in Describing, phase' \in Describing,
         UNCHANGED <<setting, run, nodes, chosen, proxies, shares, tries, token, again, ncclVars, batch, stopped,
                     workerVars, sliceVars>>,
         at' \in Ranks, TypePool', PoolInv'
  PROVE  IndInv'
<1>0. /\ TypeSetup /\ TypePool /\ TypeRun /\ TypeSlice
      /\ PoolInv /\ PlaceInv /\ FirstInv /\ ShareInv /\ ShipInv /\ ToldInv /\ CountInv
  BY Types DEF IndInv
<1>1. UNCHANGED <<state, attempts, told, free>> BY DEF workerVars
<1>2. /\ phase' \notin Planned /\ phase' \notin Shipping /\ phase \in Placed
      /\ phase' # "training" /\ phase' \notin {"stopping", "idle"}
      /\ phase \in {"discover", "plan"} \cup Describing /\ phase # "down" /\ phase' \in Phases
  BY DEF Placed, Planned, Shipping, Closing, Describing, Phases
<1>3. TypeSetup' BY <1>0, <1>2, Fixed DEF TypeSetup
<1>4. TypeRun' BY <1>0, <1>1, KeepTypeRun
<1>5. FirstInv' /\ ShareInv' /\ ToldInv' /\ TypeSlice' /\ ShipInv' /\ LateInv' /\ GroupInv'
  BY <1>0, <1>2, KeepFirst, KeepShare, KeepTold, SlicesAside DEF Describing, Meeting, Serving, Closing, Shipping
<1>6. CountInv' BY <1>0, <1>1, <1>2, KeepCount
<1>7. PlaceInv'
  <2>1. chosen' = proxies' BY <1>0 DEF PlaceInv
  <2> QED BY <1>0, <1>2, <2>1, KeepPlaceSame
<1> QED BY <1>3, <1>4, <1>5, <1>6, <1>7, TypesNext DEF IndInv

LEMMA AdvanceFacts ==
  ASSUME TypeSetup, NEW next, Advance(next)
  PROVE  /\ at' \in Ranks /\ UNCHANGED <<chosen, proxies, shares, tries, token, again>>
         /\ \/ at = n /\ phase' = next /\ at' = 1
            \/ at < n /\ phase' = phase /\ at' = at + 1
<1>1. n \in Nat /\ Ranks = 1 .. n /\ at \in Nat /\ 1 <= at /\ at <= n /\ 1 <= n BY Numbers
<1>2. /\ phase' = IF at = n THEN next ELSE phase
      /\ at' = IF at = n THEN 1 ELSE at + 1
      /\ UNCHANGED <<chosen, proxies, shares, tries, token, again>>
  BY DEF Advance
<1>3. CASE at = n BY <1>1, <1>2, <1>3
<1>4. CASE at # n BY <1>1, <1>2, <1>4
<1> QED BY <1>2, <1>3, <1>4

LEMMA ReachKeeps ==
  ASSUME IndInv, Reach
  PROVE  IndInv'
<1>0. TypeSetup /\ TypePool /\ PoolInv BY Types DEF IndInv
<1>1. phase = "reach" /\ UNCHANGED <<setting, run, poolVars, ncclVars, batch, stopped, workerVars, sliceVars>>
  BY DEF Reach
<1>2. CASE Fail BY <1>1, <1>2, FailingWithSlices
<1>3. CASE Advance("describe")
  <2>1. phase \in Describing /\ phase' \in Describing
    BY <1>0, <1>1, <1>3, AdvanceFacts DEF Describing
  <2>2. UNCHANGED <<nodes, info, state, told, free>> BY <1>1 DEF poolVars, workerVars
  <2>3. TypePool' /\ PoolInv' BY <1>0, <1>1, <2>2, KeepTypePool, KeepPool
  <2> QED BY <1>0, <1>1, <1>3, <2>1, <2>2, <2>3, AdvanceFacts, DescribingOn
<1> QED BY <1>2, <1>3 DEF Reach

LEMMA DescribeKeeps ==
  ASSUME IndInv, _probe_nodes
  PROVE  IndInv'
<1>0. TypeSetup /\ TypePool /\ PoolInv /\ PlaceInv BY Types DEF IndInv
<1>1. /\ phase = "describe" /\ Advance("order")
      /\ UNCHANGED <<setting, run, nodes, ncclVars, batch, stopped, workerVars, sliceVars>>
      /\ info' = IF Reachable(proxies[at])
                 THEN [info EXCEPT ![chosen[at]] = capabilities(proxies[at])] ELSE info
  BY DEF _probe_nodes
<1>2. phase \in Describing /\ phase' \in Describing /\ phase \in Placed
  BY <1>0, <1>1, AdvanceFacts DEF Describing, Placed
<1>3. chosen[at] = proxies[at] /\ proxies[at] \in Node
  <2>1. chosen = proxies /\ Len(proxies) = n /\ proxies \in Seq(Node)
    BY <1>0, <1>2 DEF PlaceInv, TypeSetup
  <2> QED BY <1>0, <2>1, Numbers, ElementOfSeq
<1>4. /\ DOMAIN info = Node /\ DOMAIN info' = Node
      /\ \A id \in Node : info'[id] = info[id] \/ info'[id] = capabilities(id)
  BY <1>0, <1>1, <1>3 DEF PoolInv
<1>5. TypePool' BY <1>0, <1>1, <1>4, Says DEF TypePool, PoolInv
<1>6. PoolInv'
  <2>1. \A w \in ToSet(nodes) : w \in Worker /\ w \in Node
    BY <1>0, LenProperties, ElementOfSeq, Kinds DEF ToSet, TypePool
  <2>2. free \in [Worker -> Memories] BY <1>0 DEF PoolInv
  <2>3. \A w \in ToSet(nodes) : Declared(capabilities(w), w) BY <2>1, <2>2, Says
  <2> QED BY <1>0, <1>1, <1>4, <2>1, <2>3 DEF PoolInv, Declared, Up, workerVars
<1> QED BY <1>0, <1>1, <1>2, <1>5, <1>6, AdvanceFacts, DescribingOn

--------------------
(* Order and plan. *)

\* After _order_nodes() the first place is for the one that declares first_slice.
LEMMA Ordering ==
  ASSUME IndInv, phase = "order", phase' = "plan",
         UNCHANGED <<setting, run, nodes, info, at, shares, tries, token, again, ncclVars, batch, stopped,
                     workerVars, sliceVars>>,
         chosen' \in Seq(Node), proxies' \in Seq(Node), Len(chosen') = Len(proxies'),
         PlaceInv', FirstInv'
  PROVE  IndInv'
<1>0. /\ TypeSetup /\ TypePool /\ TypeRun /\ TypeSlice
      /\ PoolInv /\ PlaceInv /\ ShareInv /\ ShipInv /\ ToldInv /\ CountInv
  BY Types DEF IndInv
<1>1. UNCHANGED <<state, attempts, told, free>> BY DEF workerVars
<1>2. /\ phase' \notin Shipping /\ phase' \in Phases
      /\ phase' # "training" /\ phase' \notin {"stopping", "idle"}
      /\ phase \in {"discover", "plan"} \cup Describing
  BY DEF Shipping, Closing, Describing, Phases
<1>3. TypeSetup' BY <1>0, <1>2, Fixed DEF TypeSetup
<1>4. TypePool' /\ PoolInv' /\ TypeRun' BY <1>0, <1>1, KeepTypePool, KeepPool, KeepTypeRun
<1>5. ShareInv' /\ ToldInv' /\ TypeSlice' /\ ShipInv' /\ LateInv' /\ GroupInv'
  BY <1>0, <1>2, KeepShare, KeepTold, SlicesAside DEF Describing, Meeting, Serving, Closing, Shipping
<1>6. CountInv' BY <1>0, <1>1, <1>2, KeepCount
<1> QED BY <1>3, <1>4, <1>5, <1>6, TypesNext DEF IndInv

LEMMA NothingHosted ==
  ASSUME setting \in Settings, 1 \notin _hosted
  PROVE  _hosted = {}
BY SettingFacts, HostedFacts

\* What the coordinator knows of the placed workers is what they declare.
LEMMA FirstsDeclared ==
  ASSUME IndInv, phase \in Placed, 1 \notin _hosted, ~setting.static, NEW i \in Ranks
  PROVE  i \in Firsts <=> proxies[i] \in setting.first
<1>0. TypeSetup /\ PoolInv /\ PlaceInv BY Types DEF IndInv
<1>1. _hosted = {} BY <1>0, NothingHosted DEF TypeSetup
<1>2. chosen[i] = proxies[i] /\ proxies[i] \in ToSet(nodes) BY <1>0, <1>1 DEF PlaceInv
<1>3. info[chosen[i]].first = (proxies[i] \in setting.first) BY <1>0, <1>2 DEF PoolInv, Declared
<1> QED BY <1>3 DEF Firsts

LEMMA OrderKeeps ==
  ASSUME IndInv, _order_nodes
  PROVE  IndInv'
<1>0. TypeSetup /\ TypePool /\ PoolInv /\ PlaceInv BY Types DEF IndInv
<1>1. /\ phase = "order" /\ phase \in Placed /\ phase \notin Planned
      /\ UNCHANGED <<setting, run, poolVars, ncclVars, batch, stopped, workerVars, sliceVars>>
  BY DEF _order_nodes, Placed, Planned, Describing, Shipping, Closing
<1>2. UNCHANGED <<nodes, info>> BY <1>1 DEF poolVars
<1>3. /\ chosen = proxies /\ proxies \in Seq(Node) /\ Len(proxies) = n /\ IsInjective(proxies)
      /\ n \in Nat /\ 1 <= n /\ Ranks = 1 .. n /\ setting \in Settings
  BY <1>0, <1>1, Numbers DEF PlaceInv, TypeSetup
<1>4. CASE /\ 1 \in _hosted \/ Firsts = {}
           /\ phase' = "plan" /\ UNCHANGED <<chosen, proxies, shares, at, tries, token, again>>
  <2>1. PlaceInv' BY <1>0, <1>1, <1>2, <1>3, <1>4, KeepPlaceSame
  <2>2. ASSUME _hosted = {}, ~setting.static, NEW i \in Ranks PROVE proxies[i] \notin setting.first
    BY <1>1, <1>4, <2>2, FirstsDeclared
  <2>3. FirstInv' BY <1>1, <1>4, <2>2, Fixed DEF FirstInv
  <2>4. chosen' \in Seq(Node) /\ proxies' \in Seq(Node) /\ Len(chosen') = Len(proxies')
    BY <1>3, <1>4
  <2> QED BY <1>1, <1>2, <1>4, <2>1, <2>3, <2>4, Ordering
<1>5. CASE /\ 1 \notin _hosted /\ Cardinality(Firsts) = 1
           /\ LET f == CHOOSE i \in Firsts : TRUE
              IN chosen' = MoveFirst(chosen, f) /\ proxies' = MoveFirst(proxies, f)
           /\ phase' = "plan" /\ UNCHANGED <<shares, at, tries, token, again>>
  <2> DEFINE f == CHOOSE i \in Firsts : TRUE
  <2>1. Firsts \in SUBSET (1 .. n) BY <1>3 DEF Firsts
  <2>2. IsFiniteSet(1 .. n) BY <1>3, FS_Interval
  <2>3. IsFiniteSet(Firsts) BY <2>1, <2>2, FS_Subset
  <2>4. PICK x : Firsts = {x} BY <1>5, <2>3, FS_Singleton
  <2>5. f = x BY <2>4
  <2>6. f \in 1 .. n /\ Firsts = {f} BY <2>1, <2>4, <2>5
  <2>7. chosen' = MoveFirst(proxies, f) /\ proxies' = MoveFirst(proxies, f) BY <1>3, <1>5
  <2> HIDE DEF f
  <2>8. proxies' \in Seq(Node) /\ Len(proxies') = n /\ IsInjective(proxies')
    BY <1>3, <2>6, <2>7, MoveFirstFacts, MoveFirstKeeps
  <2>9. /\ \A i \in Ranks : \E j \in Ranks : proxies'[i] = proxies[j] /\ (i # 1 => j # f)
        /\ \A j \in Ranks : \E i \in Ranks : proxies'[i] = proxies[j]
    <3>1. Len(proxies) = n /\ proxies \in Seq(Node) /\ f \in 1 .. Len(proxies) BY <1>3, <2>6
    <3>2. /\ \A i \in 1 .. Len(proxies) : TakenFrom(proxies, f, i)
          /\ \A j \in 1 .. Len(proxies) : KeptIn(proxies, f, j)
      BY <3>1, MoveFirstKeeps
    <3>3. 1 .. Len(proxies) = Ranks BY <1>3
    <3> QED BY <2>7, <3>2, <3>3 DEF TakenFrom, KeptIn
  <2>10. _hosted = {} BY <1>3, <1>5, NothingHosted
  <2>11. \A i \in Ranks : proxies'[i] \in Worker /\ (~setting.static => proxies'[i] \in ToSet(nodes))
    BY <1>0, <1>1, <2>9, <2>10 DEF PlaceInv
  <2>12. \A w \in ToSet(proxies) : w \in ToSet(proxies')
    <3>1. DOMAIN proxies = Ranks /\ DOMAIN proxies' = Ranks BY <1>3, <2>8
    <3> QED BY <2>9, <3>1 DEF ToSet
  <2>13. PlaceInv'
    BY <1>0, <1>1, <1>2, <1>3, <2>7, <2>8, <2>10, <2>11, <2>12, Fixed DEF PlaceInv
  <2>14. ASSUME ~setting.static, NEW i \in Ranks, proxies'[i] \in setting.first PROVE i = 1
    <3>1. PICK j \in Ranks : proxies'[i] = proxies[j] /\ (i # 1 => j # f) BY <2>9
    <3>2. j \in Firsts BY <1>1, <1>5, <2>14, <3>1, FirstsDeclared
    <3> QED BY <2>6, <3>1, <3>2
  <2>15. FirstInv' BY <1>1, <2>14, Fixed DEF FirstInv
  <2> QED BY <1>1, <1>2, <1>5, <2>7, <2>8, <2>13, <2>15, Ordering
<1>6. CASE Fail BY <1>1, <1>6, FailingWithSlices
<1> QED BY <1>4, <1>5, <1>6 DEF _order_nodes

\* Where training began each rank reported, and nobody is left at the store.
LEMMA Settled ==
  ASSUME IndInv, phase = "training", ~Repeated
  PROVE  \A t \in threads : t.run # run
<1>0. GroupInv /\ MeetInv /\ OnceInv BY DEF IndInv, GroupInv, MeetInv, Serving
<1>1. ASSUME NEW t \in threads, t.run = run PROVE FALSE
  <2>1. setting.nccl BY <1>0, <1>1 DEF GroupInv
  <2>2. t.join.token = token /\ t.join.index \in Ranks
    BY <1>0, <1>1 DEF OnceInv, MeetInv, ThreadInv, BegunInv
  <2>3. Said(t.join.index) \in store.status BY <1>0, <2>1, <2>2 DEF OnceInv
  <2>4. Said(t.join.index).token = t.join.token /\ Said(t.join.index).index = t.join.index
    BY <2>2 DEF Said
  <2> QED BY <1>0, <1>1, <2>3, <2>4 DEF OnceInv
<1> QED BY <1>1

\* A new shipment meets under keys of its own.
LEMMA NewMeeting ==
  ASSUME IndInv, phase \in {"plan", "training"}, phase' = "init", token' = token + 1,
         UNCHANGED <<setting, run, proxies, ncclVars>>
  PROVE  GroupInv'
<1>0. GroupInv /\ TypeSetup /\ Serving BY Types DEF IndInv, Serving
<1>1. n' = n /\ Ranks' = Ranks /\ token \in Nat /\ UNCHANGED <<store, threads, group>>
  BY <1>0, Fixed, Numbers DEF ncclVars
<1>2. CASE phase = "plan"
  <2>1. store' = EmptyStore /\ \A t \in threads' : t.run # run'
    BY <1>0, <1>1, <1>2, NobodyMeets DEF Meeting, Shipping
  <2>2. MeetInv' BY <2>1, NothingMet
  <2> QED BY <1>0, <1>1, <2>2 DEF GroupInv
<1>3. CASE phase = "training"
  <2>1. MeetInv BY <1>0 DEF GroupInv
  <2>2. /\ \A k : Joined(k)' = Joined(k)
        /\ \A k, r : HasJoined(k, r)' <=> HasJoined(k, r)
        /\ Repeated' <=> Repeated
    BY <1>1 DEF Joined, HasJoined, Repeated
  <2>3. \A k : Met(k)' <=> Met(k) BY <1>1, <2>2 DEF Met
  <2>4. \A b \in store.begun : b.token \in Nat /\ b.token <= token /\ b.token # token'
    BY <1>1, <2>1 DEF MeetInv, BegunInv
  <2>5. BegunInv' BY <1>1, <2>1, <2>4 DEF MeetInv, BegunInv, Place
  <2>6. JoinedInv' /\ StatusInv' /\ ThreadInv'
    BY <1>1, <2>1, <2>3 DEF MeetInv, JoinedInv, StatusInv, ThreadInv, Place
  <2>7. ASSUME ~Repeated' PROVE OnceInv'
    <3>1. \A t \in threads' : t.run # run' BY <1>1, <1>3, <2>2, <2>7, Settled
    <3>2. \A i \in Ranks : Said(i)' \notin store'.status
      <4>1. ASSUME NEW i \in Ranks, Said(i)' \in store.status PROVE FALSE
        <5>1. Said(i)'.token = token' BY DEF Said
        <5> QED BY <2>1, <2>4, <4>1, <5>1 DEF MeetInv, StatusInv
      <4> QED BY <1>1, <4>1
    <3> QED BY <1>1, <3>1, <3>2 DEF OnceInv
  <2>8. phase' \in Meeting BY DEF Meeting, Shipping
  <2>9. MeetInv' BY <1>1, <2>1, <2>5, <2>6, <2>7, <2>8 DEF MeetInv
  <2> QED BY <1>0, <1>1, <2>9 DEF GroupInv
<1> QED BY <1>2, <1>3

\* A shipment gives every place a share, under a token of its own.
LEMMA ShipFromKeeps ==
  ASSUME IndInv, phase \in {"plan", "training"}, NEW parts \in SUBSET Splits, ShipFrom(parts),
         UNCHANGED <<setting, run, poolVars, ncclVars, batch, stopped, workerVars, sliceVars>>,
         again' \in BOOLEAN, phase = "training" => token < setting.tokens,
         ~again' /\ ~setting.static =>
           \A s \in parts : \A i \in Ranks :
             proxies[i] \in Worker => FitsIn(s[i], setting.caps[proxies[i]])
  PROVE  IndInv'
<1>0. /\ TypeSetup /\ TypePool /\ TypeRun /\ TypeSlice
      /\ PoolInv /\ PlaceInv /\ FirstInv /\ ShareInv /\ ShipInv /\ LateInv /\ ToldInv /\ CountInv
  BY Types DEF IndInv
<1>1. /\ UNCHANGED <<nodes, info, state, attempts, told, free, chosen, proxies>>
      /\ shares' \in parts /\ phase' = "init" /\ at' = 1 /\ tries' = MaxInit /\ token' = token + 1
  BY DEF ShipFrom, poolVars, workerVars
<1>2. /\ phase' \in Shipping /\ phase' # "training" /\ phase' \notin {"stopping", "idle"}
      /\ phase' \in Phases /\ phase' \in Planned /\ phase' \in Placed /\ phase' # "down"
      /\ phase' \notin {"discover", "plan"} \cup Describing
      /\ phase \in Planned /\ phase \in Placed /\ phase # "down"
      /\ phase = "training" => phase \notin {"discover", "plan"} \cup Describing
  BY <1>1 DEF Placed, Planned, Shipping, Closing, Describing, Phases
<1>3. /\ token \in Nat /\ run \in Nat /\ setting.tokens \in Nat /\ setting.runs \in Nat /\ run <= setting.runs
  BY <1>0, Numbers DEF TypeSetup
<1>4. token' <= setting.tokens + run /\ token' \in Nat
  <2>1. CASE phase = "plan"
    <3>1. token <= setting.tokens + (run - 1) BY <1>0, <2>1 DEF CountInv
    <3> QED BY <1>1, <1>3, <3>1
  <2>2. CASE phase = "training" BY <1>1, <1>3, <2>2
  <2> QED BY <2>1, <2>2
<1>5. TypeSetup'
  <2>1. token' \in 0 .. setting.tokens + setting.runs BY <1>3, <1>4
  <2>2. 1 \in Ranks' /\ MaxInit \in 1 .. MaxInit BY <1>0, Numbers, Fixed
  <2> QED BY <1>0, <1>1, <1>2, <2>1, <2>2 DEF TypeSetup
<1>6. TypePool' /\ PoolInv' /\ TypeRun' /\ TypeSlice' /\ LateInv' /\ GroupInv'
  <2>1. UNCHANGED <<slice, late>> /\ phase \notin {"down"} \cup Closing
    BY DEF sliceVars, Closing
  <2> QED
    BY <1>0, <1>1, <2>1, KeepTypePool, KeepPool, KeepTypeRun, KeepTypeSlice, KeepLate, NewMeeting
<1>7. PlaceInv' /\ FirstInv' /\ ToldInv'
  <2>1. chosen' = proxies' BY <1>0, <1>1 DEF PlaceInv
  <2> QED BY <1>0, <1>1, <1>2, <2>1, KeepPlaceSame, KeepFirst, KeepTold
<1>8. ShareInv'
  <2>1. Splits' = Splits BY Fixed DEF Splits
  <2> QED BY <1>1, <2>1, Fixed DEF ShareInv
<1>9. ShipInv'
  <2>1. Sent' = 0 BY <1>1, <1>2 DEF Sent
  <2>2. \A id \in Node : Holds(id) => slice[id].token <= token /\ slice[id].token \in Nat
    BY <1>0 DEF ShipInv, TypeSlice, Holds, SliceRecord
  <2>3. \A id \in Node : Holds(id)' => slice'[id].token < token'
    BY <1>1, <1>3, <2>2 DEF Holds, sliceVars
  <2>4. \A id \in Node : Holds(id)' => slice'[id].token <= token' /\ slice'[id].token # token'
    BY <1>1, <1>3, <2>2 DEF Holds, sliceVars
  <2>5. \A w \in setting.first : Holds(w)' <=> Holds(w) BY DEF Holds, sliceVars
  <2> QED BY <1>0, <2>1, <2>4, <2>5, Fixed DEF ShipInv, sliceVars
<1>10. CountInv' BY <1>0, <1>1, <1>2, <1>4 DEF CountInv
<1> QED BY <1>5, <1>6, <1>7, <1>8, <1>9, <1>10, TypesNext DEF IndInv

LEMMA PlanKeeps ==
  ASSUME IndInv, Plan
  PROVE  IndInv'
<1>0. TypeSetup /\ PoolInv /\ PlaceInv BY Types DEF IndInv
<1>1. phase = "plan" /\ UNCHANGED <<setting, run, poolVars, ncclVars, batch, stopped, workerVars, sliceVars>>
  BY DEF Plan
<1>2. CASE Fail BY <1>1, <1>2, FailingWithSlices
<1>3. CASE ShipFrom(planner) /\ UNCHANGED again
  <2>1. planner \in SUBSET Splits BY DEF planner
  <2>2. ASSUME ~setting.static, NEW s \in planner, NEW i \in Ranks, proxies[i] \in Worker
        PROVE  FitsIn(s[i], setting.caps[proxies[i]])
    <3>1. i \notin _hosted BY <1>0, <1>1, <2>2, Kinds DEF PlaceInv, Placed, Planned
    <3>2. chosen[i] = proxies[i] /\ proxies[i] \in ToSet(nodes)
      BY <1>0, <1>1, <2>2, <3>1 DEF PlaceInv, Placed, Planned
    <3>3. Declared(info[proxies[i]], proxies[i]) BY <1>0, <2>2, <3>2 DEF PoolInv
    <3>4. FitsIn(s[i], memory_cap_mb(proxies[i])) BY <3>2 DEF planner
    <3> QED BY <1>0, <2>2, <3>3, <3>4, CapFacts DEF TypeSetup
  <2>3. again' \in BOOLEAN BY <1>0, <1>3 DEF TypeSetup
  <2> QED BY <1>1, <1>3, <2>1, <2>2, <2>3, ShipFromKeeps
<1> QED BY <1>2, <1>3 DEF Plan

LEMMA ReinitKeeps ==
  ASSUME IndInv, Reinit
  PROVE  IndInv'
<1>1. /\ phase = "training" /\ token < setting.tokens /\ ShipFrom(Splits) /\ again' = TRUE
      /\ UNCHANGED <<setting, run, poolVars, ncclVars, batch, stopped, workerVars, sliceVars>>
  BY DEF Reinit
<1>2. Splits \in SUBSET Splits OBVIOUS
<1> QED BY <1>1, <1>2, ShipFromKeeps

--------------------
(* Shipping. *)

\* Where Shipped and the loop of setup() stand.
LEMMA ShippedFacts ==
  ASSUME TypeSetup, phase = "init", Shipped, setting' = setting
  PROVE  /\ at' \in Ranks /\ tries' = MaxInit /\ UNCHANGED <<chosen, proxies, shares, token, again>>
         /\ \/ at = n /\ phase' = AfterInit /\ phase' \in {"rendezvous", "training"} /\ at' = 1
            \/ at < n /\ phase' = "init" /\ at' = at + 1
         /\ phase' \in Shipping /\ Sent' = at /\ Sent = at - 1
<1>1. n \in Nat /\ Ranks = 1 .. n /\ at \in Nat /\ 1 <= at /\ at <= n BY Numbers
<1>2. /\ phase' = IF at = n THEN AfterInit ELSE phase
      /\ at' = IF at = n THEN 1 ELSE at + 1
      /\ tries' = MaxInit /\ UNCHANGED <<chosen, proxies, shares, token, again>>
  BY DEF Shipped
<1>3. AfterInit \in {"rendezvous", "training"} BY DEF AfterInit
<1>4. Sent = at - 1 BY DEF Sent, Shipping
<1>5. n' = n BY Fixed
<1>6. CASE at = n BY <1>1, <1>2, <1>3, <1>4, <1>5, <1>6 DEF Sent, Shipping
<1>7. CASE at # n
  <2>1. phase' = "init" /\ at' = at + 1 /\ at < n BY <1>1, <1>2, <1>7
  <2> QED BY <1>1, <1>2, <1>4, <2>1 DEF Sent, Shipping
<1> QED BY <1>6, <1>7

\* A worker that gets its slice, whether or not the coordinator hears of it.
LEMMA SliceArrives ==
  ASSUME IndInv, phase = "init", UNCHANGED <<setting, run, token, late>>,
         slice' = [slice EXCEPT ![proxies[at]] = SliceConfig(at)],
         phase' \in Shipping => UNCHANGED <<shares, proxies>> /\ Sent' \in 0 .. at
  PROVE  TypeSlice' /\ ShipInv'
<1>0. /\ TypeSetup /\ TypeSlice /\ PlaceInv /\ FirstInv /\ ShareInv /\ ShipInv
      /\ phase \in Shipping /\ phase \in Placed /\ phase \in Planned
  BY Types DEF IndInv, Shipping, Placed, Planned
<1>1. /\ n \in Nat /\ Ranks = 1 .. n /\ at \in Ranks /\ at \in Nat /\ token \in Nat /\ setting \in Settings
      /\ proxies \in Seq(Node) /\ Len(proxies) = n /\ DOMAIN proxies = Ranks /\ shares \in Splits
      /\ IsInjective(proxies)
  BY <1>0, Numbers, LenProperties DEF TypeSetup, PlaceInv, ShareInv
<1>2. \A i \in Ranks : proxies[i] \in Node BY <1>1, ElementOfSeq
<1>3. /\ SliceConfig(at) \in SliceRecord /\ SliceConfig(at) \notin {None, Gone, Dropped}
      /\ SliceConfig(at).index = at /\ SliceConfig(at).token = token
  BY <1>1, ConfigFacts
<1>4. /\ slice'[proxies[at]] = SliceConfig(at)
      /\ \A id \in Node : id # proxies[at] => slice'[id] = slice[id]
  BY <1>0, <1>1, <1>2 DEF TypeSlice
<1>5. TypeSlice' BY <1>0, <1>1, <1>2, <1>3 DEF TypeSlice
<1>6. n' = n /\ Ranks' = Ranks /\ _hosted' = _hosted BY Fixed
<1>7. phase' \in Shipping => proxies' = proxies /\ \A i \in Ranks : SliceConfig(i)' = SliceConfig(i)
  BY <1>6 DEF SliceConfig
<1>8. ASSUME NEW id \in Node, Holds(id)' PROVE slice'[id].token <= token'
  <2>1. CASE id = proxies[at] BY <1>1, <1>3, <1>4, <2>1
  <2>2. CASE id # proxies[at] BY <1>0, <1>4, <1>8, <2>2 DEF ShipInv, Holds
  <2> QED BY <2>1, <2>2
<1>9. ASSUME NEW id \in Node, Holds(id)', slice'[id].token = token'
      PROVE  \E i \in Ranks : id = proxies[i] /\ slice'[id] = SliceConfig(i)
  <2>1. CASE id = proxies[at] BY <1>1, <1>4, <2>1
  <2>2. CASE id # proxies[at] BY <1>0, <1>4, <1>9, <2>2 DEF ShipInv, Holds
  <2> QED BY <2>1, <2>2
<1>10. ASSUME NEW i \in 1 .. Sent'
       PROVE  \/ slice'[proxies'[i]] \in {Gone, SliceConfig(i)'}
              \/ slice'[proxies'[i]] = Dropped /\ run' > 1
  <2>1. phase' \in Shipping BY DEF Sent
  <2>2. i \in Ranks /\ i <= at BY <1>1, <2>1
  <2>3. CASE i = at BY <1>4, <1>7, <2>1, <2>2, <2>3
  <2>4. CASE i # at
    <3>1. i \in 1 .. Sent BY <1>0, <1>1, <2>2, <2>4 DEF Sent
    <3>2. proxies[i] # proxies[at] BY <1>1, <2>2, <2>4 DEF IsInjective
    <3> QED BY <1>0, <1>2, <1>4, <1>7, <2>1, <2>2, <3>1, <3>2 DEF ShipInv
  <2> QED BY <2>3, <2>4
<1>11. ASSUME NEW w \in setting.first, Holds(w)', _hosted = {}, ~setting.static
       PROVE  slice'[w].index = 1
  <2>0. w \in Node BY <1>1, SettingFacts, Kinds
  <2>1. CASE w = proxies[at]
    <3>1. at = 1 BY <1>0, <1>1, <1>11, <2>1 DEF FirstInv
    <3> QED BY <1>3, <1>4, <2>1, <3>1
  <2>2. CASE w # proxies[at] BY <1>0, <1>4, <1>11, <2>0, <2>2 DEF ShipInv, Holds
  <2> QED BY <2>1, <2>2
<1> QED BY <1>5, <1>6, <1>7, <1>8, <1>9, <1>10, <1>11 DEF ShipInv

\* An init() begins a rendezvous that no init() began before.
LEMMA BeginKeeps ==
  ASSUME IndInv, phase = "init", HandleInit(proxies[at]), UNCHANGED <<setting, run, proxies, token>>,
         phase' \in Shipping,
         phase' = "init" => at' = at + 1 \/ (at' = at /\ tries > 1 /\ tries' = tries - 1),
         phase' = "training" => ~setting.nccl
  PROVE  GroupInv'
<1>0. GroupInv /\ MeetInv /\ TypeSetup /\ TypeSlice /\ PlaceInv
  BY Types DEF IndInv, GroupInv, Serving
<1>1. /\ n' = n /\ Ranks' = Ranks /\ Ranks = 1 .. n /\ n \in Nat /\ token \in Nat /\ run \in Nat
      /\ at \in Ranks /\ at \in Nat /\ tries \in Nat /\ tries <= MaxInit /\ MaxInit \in Nat
      /\ proxies \in Seq(Node) /\ Len(proxies) = n /\ IsInjective(proxies) /\ DOMAIN proxies = 1 .. n
  BY <1>0, Fixed, Numbers, LenProperties DEF TypeSetup, PlaceInv, Placed, Planned, Shipping
<1>2. group' = group /\ slice' = [slice EXCEPT ![proxies[at]] = SliceConfig(at)]
  BY DEF HandleInit
<1>3. CASE ~setting.nccl
  <2>1. threads' = {} /\ store' = EmptyStore BY <1>0, <1>3 DEF HandleInit, GroupInv
  <2>2. MeetInv' BY <1>3, <2>1, NothingMet
  <2> QED BY <1>0, <1>2, <2>1, <2>2 DEF GroupInv
<1>4. CASE setting.nccl
  <2> DEFINE new == [id |-> proxies[at], run |-> run, join |-> Begun, at |-> "begun"]
  <2>1. threads' = threads \cup {new} /\ store' = [store EXCEPT !.begun = @ \cup {Begun}]
    BY <1>4 DEF HandleInit
  <2>2. /\ new.id = proxies[at] /\ new.run = run /\ new.join = Begun /\ new.at = "begun"
        /\ new = [id |-> new.id, run |-> new.run, join |-> new.join, at |-> new.at]
    OBVIOUS
  <2> HIDE DEF new
  <2>3. /\ store'.begun = store.begun \cup {Begun} /\ store'.joined = store.joined
        /\ store'.status = store.status
        /\ store' = [begun |-> store'.begun, joined |-> store'.joined, status |-> store'.status]
    BY <1>0, <2>1 DEF MeetInv
  <2>4. /\ Begun.token = token /\ Begun.index = at /\ Begun.number = MaxInit - tries + 1
        /\ Begun = Place(Begun) /\ Begun.number \in Nat
    BY <1>1 DEF Begun, Place
  <2>5. /\ BegunInv /\ JoinedInv /\ StatusInv /\ ThreadInv /\ (~Repeated => OnceInv)
    BY <1>0 DEF MeetInv
  <2>6. Begun \notin store.begun
    <3>1. ASSUME Begun \in store.begun PROVE FALSE
      <4>1. Begun.number <= MaxInit - tries BY <2>4, <2>5, <3>1 DEF BegunInv
      <4> QED BY <1>1, <2>4, <4>1
    <3> QED BY <3>1
  <2>7. /\ \A k : Joined(k)' = Joined(k)
        /\ \A k, r : HasJoined(k, r)' <=> HasJoined(k, r)
    BY <2>3 DEF Joined, HasJoined
  <2>8. \A k : Met(k)' <=> Met(k) BY <1>1, <2>7 DEF Met
  <2>9. BegunInv'
    <3>1. ASSUME NEW b \in store.begun, phase' = "init", b.token = token
          PROVE  b.index <= at' /\ (b.index = at' => b.number <= MaxInit - tries')
      <4>1. /\ b.index \in Nat /\ b.number \in Nat /\ b.index <= at
            /\ b.index = at => b.number <= MaxInit - tries
        BY <1>1, <2>5, <3>1 DEF BegunInv
      <4> QED BY <1>1, <3>1, <4>1
    <3>2. ASSUME phase' = "init"
          PROVE  Begun.index <= at' /\ (Begun.index = at' => Begun.number <= MaxInit - tries')
      BY <1>1, <2>4, <3>2
    <3>3. \A b \in store.begun : b = Place(b) /\ b.index \in Ranks /\ b.token \in Nat /\ b.token <= token /\ b.number \in Nat
      BY <2>5 DEF BegunInv
    <3>4. Begun = Place(Begun) /\ Begun.index \in Ranks /\ Begun.token \in Nat /\ Begun.token <= token
      BY <1>1, <2>4
    <3> HIDE DEF Begun
    <3> SUFFICES ASSUME NEW b \in store'.begun
                 PROVE  /\ b = Place(b) /\ b.index \in Ranks /\ b.token \in Nat /\ b.token <= token /\ b.number \in Nat
                        /\ phase' = "init" /\ b.token = token =>
                             b.index <= at' /\ (b.index = at' => b.number <= MaxInit - tries')
      BY <1>1 DEF BegunInv, Place
    <3>5. CASE b \in store.begun BY <3>1, <3>3, <3>5
    <3>6. CASE b = Begun BY <2>4, <3>2, <3>4, <3>6
    <3> QED BY <2>3, <3>5, <3>6
  <2>10. JoinedInv' /\ StatusInv'
    <3>1. JoinedInv' BY <2>3, <2>5 DEF JoinedInv, Place
    <3>2. StatusInv'
      <4> SUFFICES ASSUME NEW x \in store.status
                   PROVE  /\ x = [token |-> x.token, index |-> x.index, result |-> x.result] /\ x.result \in {"ok", "err"}
                          /\ \E b \in store'.begun : b.token = x.token /\ b.index = x.index
                          /\ x.result = "ok" => Met(x.token)'
        BY <2>3 DEF StatusInv
      <4> QED BY <2>3, <2>5, <2>8 DEF StatusInv
    <3> QED BY <3>1, <3>2
  <2>11. ThreadInv'
    <3>1. ASSUME NEW t \in threads, t.run = run
          PROVE  /\ t = [id |-> t.id, run |-> t.run, join |-> t.join, at |-> t.at] /\ t.at \in {"begun", "joined"}
                 /\ t.join \in store'.begun /\ t.id = proxies[t.join.index]
                 /\ t.at = "begun" => \A j \in store.joined : Place(j) # t.join
                 /\ \A u \in threads' : u.run = run /\ u.join = t.join => u = t
      <4>1. t.join \in store.begun /\ t.join # Begun BY <2>5, <2>6, <3>1 DEF ThreadInv
      <4> QED BY <2>1, <2>2, <2>3, <2>5, <3>1, <4>1 DEF ThreadInv
    <3>2. /\ new = [id |-> new.id, run |-> new.run, join |-> new.join, at |-> new.at] /\ new.at \in {"begun", "joined"}
          /\ new.join \in store'.begun /\ new.id = proxies[new.join.index]
          /\ \A j \in store.joined : Place(j) # new.join
          /\ \A u \in threads' : u.run = run /\ u.join = new.join => u = new
      <4>1. \A j \in store.joined : Place(j) # new.join BY <2>2, <2>5, <2>6 DEF JoinedInv
      <4>2. \A u \in threads : u.run = run => u.join # new.join
        BY <2>2, <2>5, <2>6 DEF ThreadInv
      <4>3. \A u \in threads' : u.run = run /\ u.join = new.join => u = new BY <2>1, <4>2
      <4>4. new.join \in store'.begun /\ new.id = proxies[new.join.index] BY <2>2, <2>3, <2>4
      <4> QED BY <2>2, <4>1, <4>3, <4>4
    <3>3. \A j : Place(j)' = Place(j) BY DEF Place
    <3> QED BY <2>1, <2>3, <3>1, <3>2, <3>3 DEF ThreadInv
  <2>12. ASSUME ~Repeated' PROVE OnceInv'
    <3>1. \A b \in store.begun : ~(b.token = token /\ b.index = at)
      <4>1. ASSUME NEW b \in store.begun, b.token = token, b.index = at PROVE FALSE
        <5>1. b \in store'.begun /\ Begun \in store'.begun /\ b # Begun BY <2>3, <2>6, <4>1
        <5> HIDE DEF Begun
        <5> QED BY <2>4, <2>12, <4>1, <5>1 DEF Repeated
      <4> QED BY <4>1
    <3>2. OnceInv
      <4>1. ~Repeated BY <2>3, <2>12 DEF Repeated
      <4> QED BY <2>5, <4>1
    <3>3. \A x \in store.status : ~(x.token = token /\ x.index = at) BY <2>5, <3>1 DEF StatusInv
    <3>4. ASSUME NEW t \in threads', t.run = run
          PROVE  /\ t.join.token = token
                 /\ \A x \in store.status : ~(x.token = t.join.token /\ x.index = t.join.index)
      <4>1. CASE t \in threads BY <3>2, <3>4, <4>1 DEF OnceInv
      <4>2. CASE t = new BY <2>2, <2>4, <3>3, <4>2
      <4> QED BY <2>1, <4>1, <4>2
    <3>5. ASSUME NEW i \in Ranks, Said(i) \in store.status, slice'[proxies[i]] \notin {None, Gone, Dropped}
          PROVE  group[ProcessOf(proxies[i])] = Joined(token)
      <4>1. i # at BY <3>3, <3>5 DEF Said
      <4>2. proxies[i] # proxies[at] /\ proxies[i] \in Node
        BY <1>1, <4>1, ElementOfSeq DEF IsInjective
      <4>3. Holds(proxies[i]) BY <1>0, <1>2, <3>5, <4>2 DEF Holds, TypeSlice
      <4> QED BY <3>2, <3>5, <4>3 DEF OnceInv, Shipping
    <3>6. \A i : Said(i)' = Said(i) BY DEF Said
    <3> QED BY <1>1, <1>2, <1>4, <2>3, <2>7, <3>4, <3>5, <3>6 DEF OnceInv, Holds
  <2>13. phase' \in Meeting BY DEF Meeting
  <2>14. MeetInv' BY <1>4, <2>3, <2>9, <2>10, <2>11, <2>12, <2>13 DEF MeetInv
  <2>15. \A t \in threads' : t.run \in 0 .. run' BY <1>0, <1>1, <2>1, <2>2 DEF GroupInv
  <2> QED BY <1>0, <1>2, <1>4, <2>14, <2>15 DEF GroupInv
<1> QED BY <1>3, <1>4

\* The thread of an init() that fails is left to itself.
LEMMA BeginAside ==
  ASSUME IndInv, HandleInit(proxies[at]), UNCHANGED <<setting, run>>, phase' = "down"
  PROVE  GroupInv'
<1>0. GroupInv /\ run \in Nat BY Types, Numbers DEF IndInv
<1>1. /\ group' = group
      /\ IF setting.nccl
         THEN threads' = threads \cup {[id |-> proxies[at], run |-> run, join |-> Begun, at |-> "begun"]}
         ELSE UNCHANGED <<threads, store>>
  BY DEF HandleInit
<1>2. \A t \in threads' : t.run \in 0 .. run' BY <1>0, <1>1 DEF GroupInv
<1> QED BY <1>0, <1>1, <1>2 DEF GroupInv, Serving

\* The loop of _init_slices() goes on, or tries again.
LEMMA ShippingOn ==
  ASSUME IndInv, phase = "init", phase' \in Shipping,
         UNCHANGED <<setting, run, poolVars, chosen, proxies, shares, token, again, batch, stopped,
                     workerVars>>,
         at' \in Ranks, tries' \in 1 .. MaxInit, phase' = "training" => ~setting.nccl,
         TypeSlice', ShipInv', LateInv', GroupInv'
  PROVE  IndInv'
<1>0. /\ TypeSetup /\ TypePool /\ TypeRun
      /\ PoolInv /\ PlaceInv /\ FirstInv /\ ShareInv /\ ToldInv /\ CountInv
  BY Types DEF IndInv
<1>1. UNCHANGED <<nodes, info, state, attempts, told, free>> BY DEF workerVars, poolVars
<1>2. /\ phase \in Placed /\ phase \in Planned /\ phase \in Shipping /\ phase # "down"
      /\ phase' \notin {"stopping", "idle"} /\ phase' \notin {"discover", "plan"} \cup Describing
      /\ phase' \in Phases
  BY DEF Placed, Planned, Shipping, Closing, Describing, Phases
<1>3. TypeSetup' BY <1>0, <1>2, Fixed DEF TypeSetup
<1>4. TypePool' /\ PoolInv' /\ TypeRun' BY <1>0, <1>1, KeepTypePool, KeepPool, KeepTypeRun
<1>5. FirstInv' /\ ShareInv' /\ ToldInv' BY <1>0, <1>2, KeepFirst, KeepShare, KeepTold
<1>6. CountInv' BY <1>0, <1>1, <1>2, KeepCount
<1>7. PlaceInv'
  <2>1. chosen' = proxies' BY <1>0 DEF PlaceInv
  <2> QED BY <1>0, <1>1, <1>2, <2>1, KeepPlaceSame
<1> QED BY <1>3, <1>4, <1>5, <1>6, <1>7, TypesNext DEF IndInv

LEMMA UnavailableKeeps ==
  ASSUME IndInv, phase = "init", Unavailable,
         UNCHANGED <<setting, run, poolVars, batch, stopped, workerVars>>,
         HandleInit(proxies[at]) \/ UNCHANGED <<ncclVars, sliceVars>>
  PROVE  IndInv'
<1>0. TypeSetup /\ TypeSlice /\ ShipInv /\ LateInv /\ GroupInv /\ PlaceInv BY Types DEF IndInv
<1>1. CASE tries > 1 /\ tries' = tries - 1 /\ UNCHANGED <<phase, chosen, proxies, shares, at, token, again>>
  <2>1. tries' \in 1 .. MaxInit /\ at' \in Ranks /\ phase' \in Shipping /\ phase' # "training"
    BY <1>0, <1>1, Numbers DEF TypeSetup, Shipping
  <2>2. Sent' = at - 1 /\ Sent' \in 0 .. at /\ Sent = at - 1 /\ Sent' \in 0 .. Sent
    BY <1>0, <1>1, Numbers, Fixed DEF Sent, Shipping
  <2>3. TypeSlice' /\ ShipInv' /\ LateInv' /\ GroupInv'
    <3>1. CASE HandleInit(proxies[at])
      <4>1. slice' = [slice EXCEPT ![proxies[at]] = SliceConfig(at)] /\ late' = late
        BY <3>1 DEF HandleInit
      <4> QED BY <1>0, <1>1, <2>1, <2>2, <3>1, <4>1, SliceArrives, BeginKeeps, KeepLate
    <3>2. CASE UNCHANGED <<ncclVars, sliceVars>>
      <4>1. UNCHANGED <<slice, late, store, threads, group>> BY <3>2 DEF ncclVars, sliceVars
      <4>2. TypeSlice' /\ ShipInv' /\ LateInv'
        BY <1>0, <1>1, <2>1, <2>2, <3>2, <4>1, KeepShip, KeepTypeSlice, KeepLate
      <4>3. GroupInv'
        <5>1. \A id \in Node : Holds(id)' => Holds(id) /\ group'[ProcessOf(id)] = group[ProcessOf(id)]
          BY <4>1 DEF Holds
        <5>2. tries' \in 1 .. tries /\ DOMAIN group' = Node /\ (Serving' => Serving)
          BY <1>0, <1>1, <2>1, <4>1, Numbers DEF TypeSetup, GroupInv, Serving
        <5> QED BY <1>0, <1>1, <4>1, <5>1, <5>2, KeepGroup
      <4> QED BY <4>2, <4>3
    <3> QED BY <3>1, <3>2
  <2> QED BY <1>1, <2>1, <2>3, ShippingOn
<1>2. CASE Fail
  <2>1. phase' = "down" /\ token' = token /\ phase' \notin Shipping /\ proxies' = <<>>
    BY <1>2 DEF Fail, Shipping
  <2>2. TypeSlice' /\ ShipInv' /\ LateInv' /\ GroupInv'
    <3>1. CASE UNCHANGED <<ncclVars, sliceVars>>
      BY <2>1, <3>1, SlicesAside DEF Meeting, Serving, Shipping
    <3>2. CASE HandleInit(proxies[at])
      <4>1. slice' = [slice EXCEPT ![proxies[at]] = SliceConfig(at)] /\ late' = late
        BY <3>2 DEF HandleInit
      <4> QED BY <1>0, <2>1, <3>2, <4>1, SliceArrives, BeginAside, KeepLate
    <3> QED BY <3>1, <3>2
  <2> QED BY <1>2, <2>2, Failing
<1> QED BY <1>1, <1>2 DEF Unavailable

LEMMA InitSlicesKeeps ==
  ASSUME IndInv, _init_slices
  PROVE  IndInv'
<1>0. TypeSetup /\ LateInv BY Types DEF IndInv
<1>1. phase = "init" /\ UNCHANGED <<setting, run, poolVars, batch, stopped, workerVars>>
  BY DEF _init_slices
<1>2. CASE Shipped /\ HandleInit(proxies[at])
  <2>1. /\ at' \in Ranks /\ tries' = MaxInit /\ UNCHANGED <<chosen, proxies, shares, token, again>>
        /\ \/ at = n /\ phase' = AfterInit /\ phase' \in {"rendezvous", "training"} /\ at' = 1
           \/ at < n /\ phase' = "init" /\ at' = at + 1
        /\ phase' \in Shipping /\ Sent' = at
    BY <1>0, <1>1, <1>2, ShippedFacts
  <2>2. Sent' \in 0 .. at /\ tries' \in 1 .. MaxInit BY <1>0, <2>1, Numbers
  <2>3. phase' = "training" => ~setting.nccl BY <2>1 DEF AfterInit
  <2>4. slice' = [slice EXCEPT ![proxies[at]] = SliceConfig(at)] /\ late' = late
    BY <1>2 DEF HandleInit
  <2>5. TypeSlice' /\ ShipInv' BY <1>1, <2>1, <2>2, <2>4, SliceArrives
  <2>6. LateInv' BY <1>0, <1>1, <2>4, KeepLate DEF Closing
  <2>7. GroupInv' BY <1>1, <1>2, <2>1, <2>3, BeginKeeps
  <2> QED BY <1>1, <2>1, <2>2, <2>3, <2>5, <2>6, <2>7, ShippingOn
<1>3. CASE Unavailable /\ (HandleInit(proxies[at]) \/ UNCHANGED <<ncclVars, sliceVars>>)
  BY <1>1, <1>3, UnavailableKeeps
<1> QED BY <1>2, <1>3 DEF _init_slices

--------------------
(* The rendezvous. *)

\* What happens in the store changes nothing else.
LEMMA StoreMoves ==
  ASSUME IndInv, UNCHANGED <<setting, run, setupVars, poolVars, batch, stopped, workerVars, sliceVars>>, GroupInv'
  PROVE  IndInv'
<1>0. /\ TypeSetup /\ TypePool /\ TypeRun /\ TypeSlice
      /\ PoolInv /\ PlaceInv /\ FirstInv /\ ShareInv /\ ShipInv /\ LateInv /\ ToldInv /\ CountInv
  BY Types DEF IndInv
<1>1. UNCHANGED <<phase, chosen, proxies, shares, at, tries, token, again, nodes, info, state, attempts, told, free,
                  slice, late>>
  BY DEF setupVars, poolVars, workerVars, sliceVars
<1>2. TypeSetup' /\ TypePool' /\ TypeRun' /\ TypeSlice' /\ PoolInv'
  BY <1>0, <1>1, KeepTypeSetup, KeepTypePool, KeepTypeRun, KeepTypeSlice, KeepPool
<1>3. PlaceInv' /\ FirstInv' /\ ShareInv' /\ ToldInv' /\ CountInv' /\ LateInv'
  <2>1. chosen' = proxies' BY <1>0, <1>1 DEF PlaceInv
  <2> QED
    BY <1>0, <1>1, <2>1, KeepPlaceSame, KeepFirst, KeepShare, KeepTold, KeepCount, KeepLate
<1>4. ShipInv'
  <2>1. Sent' = Sent /\ Sent \in Nat BY <1>0, <1>1, Fixed, Numbers DEF Sent
  <2> QED BY <1>0, <1>1, <2>1, KeepShip
<1> QED BY <1>2, <1>3, <1>4, TypesNext DEF IndInv

\* A rank that joins had not joined before, unless its init() was repeated.

LEMMA PlacesAreNodes ==
  ASSUME IndInv, phase \in Shipping, NEW i \in Ranks
  PROVE  proxies[i] \in Node
<1>1. TypeSetup /\ PlaceInv /\ Ranks = 1 .. n BY Types, Numbers DEF IndInv
<1>2. proxies \in Seq(Node) /\ Len(proxies) = n BY <1>1 DEF TypeSetup, PlaceInv, Placed, Planned
<1> QED BY <1>1, <1>2, ElementOfSeq

LEMMA JoinKeeps ==
  ASSUME IndInv, NEW t \in threads, Join(t)
  PROVE  IndInv'
<1> DEFINE new == [token |-> t.join.token, index |-> t.join.index, number |-> t.join.number, gpu |-> setting.gpu[t.id]]
           gone == [t EXCEPT !.at = "joined"]
<1>0. GroupInv BY DEF IndInv
<1>1. /\ UNCHANGED <<setting, run, setupVars, poolVars, batch, stopped, workerVars, sliceVars>>
      /\ t.at = "begun" /\ t.run = run /\ Serving
      /\ group' = [group EXCEPT ![ProcessOf(t.id)] = {}]
      /\ store' = [store EXCEPT !.joined = Put(@, new)]
      /\ threads' = (threads \ {t}) \cup {gone}
  BY DEF Join, Connected
<1>2. UNCHANGED <<phase, proxies, at, tries, token, setting, run>> /\ n' = n /\ Ranks' = Ranks
  BY <1>1, Fixed DEF setupVars
<1>3. /\ MeetInv /\ BegunInv /\ JoinedInv /\ StatusInv /\ ThreadInv
      /\ t.join \in store.begun /\ t.join = Place(t.join) /\ t.id = proxies[t.join.index]
      /\ t = [id |-> t.id, run |-> t.run, join |-> t.join, at |-> t.at]
  BY <1>0, <1>1 DEF GroupInv, MeetInv, ThreadInv, BegunInv
<1>4. /\ gone.id = t.id /\ gone.run = t.run /\ gone.join = t.join /\ gone.at = "joined"
      /\ gone = [id |-> gone.id, run |-> gone.run, join |-> gone.join, at |-> gone.at]
  BY <1>3
<1> HIDE DEF gone
<1>5. /\ Place(new) = t.join /\ new.token = t.join.token /\ new.index = t.join.index
      /\ new.gpu = setting.gpu[proxies[t.join.index]]
  BY <1>3 DEF Place
<1> HIDE DEF new
<1>6. /\ store'.joined = {o \in store.joined : o.token # new.token \/ o.index # new.index} \cup {new}
      /\ store'.begun = store.begun /\ store'.status = store.status
      /\ store' = [begun |-> store'.begun, joined |-> store'.joined, status |-> store'.status]
  BY <1>1, <1>3 DEF MeetInv, Put
<1>7. \A j : Place(j)' = Place(j) BY DEF Place
<1>8. \A k, r : HasJoined(k, r) => HasJoined(k, r)'
  <2>1. ASSUME NEW k, NEW r, NEW j \in store.joined, j.token = k, j.index = r PROVE HasJoined(k, r)'
    BY <1>6, <2>1 DEF HasJoined, Joined
  <2> QED BY <2>1 DEF HasJoined, Joined
<1>9. \A k : Met(k) => Met(k)' BY <1>2, <1>8 DEF Met
<1>10. Repeated' <=> Repeated BY <1>6 DEF Repeated
<1>11. BegunInv' /\ JoinedInv' /\ StatusInv'
  <2>1. BegunInv' BY <1>2, <1>3, <1>6, <1>7 DEF BegunInv
  <2>2. JoinedInv' BY <1>2, <1>3, <1>5, <1>6, <1>7 DEF JoinedInv
  <2>3. StatusInv' BY <1>3, <1>6, <1>9 DEF StatusInv
  <2> QED BY <2>1, <2>2, <2>3
<1>12. ThreadInv'
  <2>1. ASSUME NEW u \in threads, u # t, u.run = run
        PROVE  /\ u = [id |-> u.id, run |-> u.run, join |-> u.join, at |-> u.at] /\ u.at \in {"begun", "joined"}
               /\ u.join \in store.begun /\ u.id = proxies[u.join.index]
               /\ u.at = "begun" => \A j \in store'.joined : Place(j) # u.join
               /\ \A v \in threads' : v.run = run /\ v.join = u.join => v = u
    <3>1. u.join # t.join BY <1>1, <1>3, <2>1 DEF ThreadInv
    <3> QED BY <1>1, <1>3, <1>4, <1>5, <1>6, <2>1, <3>1 DEF ThreadInv
  <2>2. \A v \in threads' : v.run = run /\ v.join = gone.join => v = gone
    BY <1>1, <1>3, <1>4 DEF ThreadInv
  <2> QED BY <1>1, <1>2, <1>3, <1>4, <1>6, <1>7, <2>1, <2>2 DEF ThreadInv
<1>13. ASSUME ~Repeated PROVE OnceInv'
  <2>1. OnceInv BY <1>3, <1>13 DEF MeetInv
  <2>2. \A u \in threads' : u.run = run =>
          /\ u.join.token = token
          /\ \A x \in store.status : ~(x.token = u.join.token /\ x.index = u.join.index)
    BY <1>1, <1>4, <2>1 DEF OnceInv
  <2>3. ~HasJoined(t.join.token, t.join.index)
    <3>1. ASSUME NEW j \in store.joined, j.token = t.join.token, j.index = t.join.index PROVE FALSE
      <4>1. Place(j) \in store.begun /\ Place(j).token = t.join.token /\ Place(j).index = t.join.index
        BY <1>3, <3>1 DEF JoinedInv, Place
      <4>2. Place(j) = t.join BY <1>3, <1>13, <4>1 DEF Repeated
      <4> QED BY <1>1, <1>3, <3>1, <4>2 DEF ThreadInv
    <3> QED BY <3>1 DEF HasJoined, Joined
  <2>4. \A i \in Ranks : Said(i) \notin store.status
    <3>1. ASSUME NEW i \in Ranks, Said(i) \in store.status PROVE FALSE
      <4>1. Said(i).token = token /\ Said(i).result = "ok" BY DEF Said
      <4>2. Met(token) BY <1>3, <3>1, <4>1 DEF StatusInv
      <4>3. t.join.token = token /\ t.join.index \in Ranks
        BY <1>1, <1>3, <2>1 DEF OnceInv, BegunInv
      <4> QED BY <2>3, <4>2, <4>3 DEF Met
    <3> QED BY <3>1
  <2>5. \A i : Said(i)' = Said(i) BY <1>2 DEF Said
  <2>6. ~(phase = "training" /\ setting.nccl)
    <3>1. 1 \in Ranks BY Types, Numbers DEF IndInv
    <3> QED BY <2>1, <2>4, <3>1 DEF OnceInv
  <2> QED BY <1>2, <1>6, <2>2, <2>4, <2>5, <2>6 DEF OnceInv
<1>14. MeetInv'
  <2>1. phase' \in Meeting BY <1>2, <1>3 DEF MeetInv, EmptyStore
  <2> QED BY <1>2, <1>3, <1>6, <1>9, <1>10, <1>11, <1>12, <1>13, <2>1 DEF MeetInv
<1>15. GroupInv'
  <2>1. DOMAIN group' = Node /\ \A u \in threads' : u.run \in 0 .. run'
    BY <1>0, <1>1, <1>2, <1>4 DEF GroupInv
  <2>2. setting.nccl BY <1>0 DEF GroupInv
  <2> QED BY <1>2, <1>14, <2>1, <2>2 DEF GroupInv
<1> QED BY <1>1, <1>15, StoreMoves

\* A rank says ok only when it may.
LEMMA RendezvousKeeps ==
  ASSUME IndInv, NEW t \in threads, _rendezvous(t)
  PROVE  IndInv'
<1>0. GroupInv BY DEF IndInv
<1>1. /\ UNCHANGED <<setting, run, setupVars, poolVars, batch, stopped, workerVars, sliceVars>>
      /\ t.run = run /\ Serving /\ threads' = threads \ {t}
  BY DEF _rendezvous, Connected
<1>2. PICK res \in Outcome(t) :
        /\ store' = [store EXCEPT !.status =
             Put(@, [token |-> t.join.token, index |-> t.join.index, result |-> res])]
        /\ group' = IF res = "ok" THEN [group EXCEPT ![ProcessOf(t.id)] = Joined(t.join.token)] ELSE group
  BY DEF _rendezvous
<1>3. UNCHANGED <<phase, proxies, at, tries, token, setting, run>> /\ n' = n /\ Ranks' = Ranks
  BY <1>1, Fixed DEF setupVars
<1>4. /\ MeetInv /\ BegunInv /\ JoinedInv /\ StatusInv /\ ThreadInv
      /\ t.join \in store.begun /\ t.join = Place(t.join) /\ t.id = proxies[t.join.index]
      /\ t.join.index \in Ranks
  BY <1>0, <1>1 DEF GroupInv, MeetInv, ThreadInv, BegunInv
<1> DEFINE new == [token |-> t.join.token, index |-> t.join.index, result |-> res]
<1>5. /\ new.token = t.join.token /\ new.index = t.join.index /\ new.result = res
      /\ new = [token |-> new.token, index |-> new.index, result |-> new.result]
  OBVIOUS
<1>6. /\ store'.status = {o \in store.status : o.token # new.token \/ o.index # new.index} \cup {new}
      /\ store'.begun = store.begun /\ store'.joined = store.joined
      /\ store' = [begun |-> store'.begun, joined |-> store'.joined, status |-> store'.status]
  <2> HIDE DEF new
  <2>1. store' = [store EXCEPT !.status = Put(@, new)] BY <1>2 DEF new
  <2> QED BY <1>4, <2>1 DEF MeetInv, Put
<1>7. /\ \A k : Joined(k)' = Joined(k)
      /\ \A k, r : HasJoined(k, r)' <=> HasJoined(k, r)
      /\ Repeated' <=> Repeated
  BY <1>6 DEF Joined, HasJoined, Repeated
<1>8. \A k : Met(k)' <=> Met(k) BY <1>3, <1>7 DEF Met
<1>9. res \in {"ok", "err"} /\ (res = "ok" => Met(t.join.token))
  <2>1. res \in {"ok", "err"} BY <1>2 DEF Outcome
  <2>2. ASSUME res = "ok" PROVE Met(t.join.token)
    <3>1. \A r \in Ranks : HasJoined(t.join.token, r) /\ ~SharedGpu(t.join.token, r)
      BY <1>2, <2>2 DEF Outcome
    <3>2. ASSUME NEW q \in Ranks, NEW r \in Ranks, q # r, setting.gpu[proxies[q]] = setting.gpu[proxies[r]]
          PROVE  FALSE
      <4>1. PICK j \in Joined(t.join.token) : j.index = q BY <3>1 DEF HasJoined
      <4>2. PICK k \in Joined(t.join.token) : k.index = r BY <3>1 DEF HasJoined
      <4>3. j.gpu = k.gpu BY <1>4, <3>2, <4>1, <4>2 DEF Joined, JoinedInv
      <4> QED BY <3>1, <3>2, <4>1, <4>2, <4>3 DEF SharedGpu
    <3> QED BY <3>1, <3>2 DEF Met
  <2> QED BY <2>1, <2>2
<1> HIDE DEF new
<1>10. \A j : Place(j)' = Place(j) BY DEF Place
<1>11. BegunInv' /\ JoinedInv' BY <1>3, <1>4, <1>6, <1>10 DEF BegunInv, JoinedInv
<1>12. StatusInv'
  <2> SUFFICES ASSUME NEW x \in store'.status
               PROVE  /\ x = [token |-> x.token, index |-> x.index, result |-> x.result] /\ x.result \in {"ok", "err"}
                      /\ \E b \in store.begun : b.token = x.token /\ b.index = x.index
                      /\ x.result = "ok" => Met(x.token)
    BY <1>6, <1>8 DEF StatusInv
  <2>1. CASE x = new BY <1>4, <1>5, <1>9, <2>1
  <2>2. CASE x \in store.status BY <1>4, <2>2 DEF StatusInv
  <2> QED BY <1>6, <2>1, <2>2
<1>13. ThreadInv' BY <1>1, <1>3, <1>4, <1>6, <1>10 DEF ThreadInv
<1>14. ASSUME ~Repeated PROVE OnceInv'
  <2>1. OnceInv /\ t.join.token = token BY <1>1, <1>4, <1>14 DEF MeetInv, OnceInv
  <2>2. ASSUME NEW u \in threads, u # t, u.run = run, NEW x \in store'.status,
               x.token = u.join.token, x.index = u.join.index
        PROVE  FALSE
    <3>1. CASE x = new
      <4>1. u.join \in store.begun /\ u.join.token = t.join.token /\ u.join.index = t.join.index
        BY <1>4, <1>5, <2>2, <3>1 DEF ThreadInv
      <4>2. u.join = t.join BY <1>4, <1>14, <4>1 DEF Repeated
      <4> QED BY <1>1, <1>4, <2>2, <4>2 DEF ThreadInv
    <3>2. CASE x \in store.status BY <2>1, <2>2, <3>2 DEF OnceInv
    <3> QED BY <1>6, <2>2, <3>1, <3>2
  <2>3. ASSUME NEW i \in Ranks, phase \in Shipping, Said(i) \in store'.status, Holds(proxies[i])
        PROVE  group'[ProcessOf(proxies[i])] = Joined(token)
    <3>1. CASE Said(i) = new
      <4>1. res = "ok" /\ i = t.join.index /\ proxies[i] = t.id BY <1>4, <1>5, <3>1 DEF Said
      <4>2. ProcessOf(t.id) \in DOMAIN group
        <5>1. proxies[i] \in Node BY PlacesAreNodes, <2>3
        <5> QED BY <1>0, <4>1, <5>1, Kinds DEF ProcessOf, GroupInv
      <4> QED BY <1>2, <2>1, <4>1, <4>2
    <3>2. CASE Said(i) \in store.status
      <4>1. group[ProcessOf(proxies[i])] = Joined(token) BY <2>1, <2>3, <3>2 DEF OnceInv
      <4> QED BY <1>2, <2>1, <4>1
    <3> QED BY <1>6, <2>3, <3>1, <3>2
  <2>4. ~(phase = "training" /\ setting.nccl)
    <3>1. ASSUME phase = "training", setting.nccl PROVE FALSE
      <4>1. Said(t.join.index) \in store.status BY <1>4, <2>1, <3>1 DEF OnceInv
      <4>2. Said(t.join.index).token = t.join.token /\ Said(t.join.index).index = t.join.index
        BY <2>1 DEF Said
      <4> QED BY <1>1, <2>1, <4>1, <4>2 DEF OnceInv
    <3> QED BY <3>1
  <2>5. \A i : Said(i)' = Said(i) BY <1>3 DEF Said
  <2>6. UNCHANGED slice BY <1>1 DEF sliceVars
  <2>7. \A u \in threads' : u.run = run => u.join.token = token /\ u # t
    BY <1>1, <2>1 DEF OnceInv
  <2> QED BY <1>1, <1>3, <1>7, <2>2, <2>3, <2>4, <2>5, <2>6, <2>7 DEF OnceInv, Holds
<1>15. MeetInv'
  <2>1. phase' \in Meeting BY <1>3, <1>4 DEF MeetInv, EmptyStore
  <2> QED BY <1>3, <1>4, <1>6, <1>7, <1>8, <1>11, <1>12, <1>13, <1>14, <2>1 DEF MeetInv
<1>16. GroupInv'
  <2>1. DOMAIN group' = Node /\ \A u \in threads' : u.run \in 0 .. run'
    BY <1>0, <1>1, <1>2, <1>3 DEF GroupInv
  <2>2. setting.nccl BY <1>0 DEF GroupInv
  <2> QED BY <1>3, <1>15, <2>1, <2>2 DEF GroupInv
<1> QED BY <1>1, <1>16, StoreMoves

LEMMA DisconnectKeeps ==
  ASSUME IndInv, NEW t \in threads, Disconnect(t)
  PROVE  IndInv'
<1>0. TypeSetup /\ PlaceInv /\ GroupInv BY Types DEF IndInv
<1>1. /\ UNCHANGED <<setting, run, setupVars, poolVars, store, group, batch, stopped, workerVars, sliceVars>>
      /\ threads' = threads \ {t}
  BY DEF Disconnect
<1>2. UNCHANGED <<phase, proxies, at, tries, token, slice>> BY <1>1 DEF setupVars, sliceVars
<1>3. \A id \in Node : Holds(id)' => Holds(id) /\ group'[ProcessOf(id)] = group[ProcessOf(id)]
  BY <1>1, <1>2 DEF Holds
<1>4. tries \in 1 .. tries /\ DOMAIN group' = Node /\ (Serving' => Serving)
  BY <1>0, <1>1, <1>2, Numbers DEF TypeSetup, GroupInv, Serving
<1>5. GroupInv' BY <1>0, <1>1, <1>2, <1>3, <1>4, KeepGroup
<1> QED BY <1>1, <1>5, StoreMoves

\* n reports of n ranks, none of them an error, are an ok of each.
LEMMA AllOk ==
  ASSUME IndInv, Serving, Errors(token) = {}, Cardinality(Reported(token)) = n
  PROVE  \A i \in Ranks : Said(i) \in store.status
<1>0. MeetInv /\ BegunInv /\ StatusInv /\ n \in Nat /\ Ranks = 1 .. n /\ 1 <= n
  BY Types, Numbers DEF IndInv, GroupInv, MeetInv
<1> DEFINE ok(i) == Said(i)
           all == {ok(i) : i \in Ranks}
           f == [i \in Ranks |-> ok(i)]
<1>1. \A s \in Reported(token) : s \in all
  <2> SUFFICES ASSUME NEW s \in Reported(token) PROVE s \in all
    OBVIOUS
  <2>1. s \in store.status /\ s.token = token BY DEF Reported
  <2>2. s.result # "err" BY DEF Errors
  <2>3. s = [token |-> s.token, index |-> s.index, result |-> s.result] /\ s.index \in Ranks /\ s.result = "ok"
    BY <1>0, <2>1, <2>2 DEF StatusInv, BegunInv
  <2>4. s = ok(s.index) BY <2>1, <2>3 DEF Said
  <2> QED BY <2>3, <2>4
<1>2. IsFiniteSet(Ranks) /\ Cardinality(Ranks) = n
  <2>1. 1 \in Int /\ n \in Int /\ ~(1 > n) /\ n - 1 + 1 = n BY <1>0
  <2>2. IsFiniteSet(1 .. n) /\ Cardinality(1 .. n) = n - 1 + 1 BY <2>1, FS_Interval
  <2> QED BY <1>0, <2>1, <2>2
<1>3. f \in Surjection(Ranks, all)
  <2>1. f \in [Ranks -> all] OBVIOUS
  <2>2. \A x \in all : \E i \in Ranks : f[i] = x OBVIOUS
  <2> HIDE DEF f, all
  <2> QED BY <2>1, <2>2 DEF Surjection
<1>4. IsFiniteSet(all) /\ Cardinality(all) <= n
  <2> HIDE DEF f, all
  <2> QED BY <1>2, <1>3, FS_Surjection
<1>5. Reported(token) = all
  <2> HIDE DEF all
  <2>1. Reported(token) \in SUBSET all BY <1>1
  <2>2. Cardinality(Reported(token)) <= Cardinality(all) BY <1>4, <2>1, FS_Subset
  <2>3. Cardinality(all) = Cardinality(Reported(token))
    <3>1. Cardinality(all) \in Nat BY <1>4, FS_CardinalityType
    <3> QED BY <1>0, <1>4, <2>2, <3>1
  <2> QED BY <1>4, <2>1, <2>3, FS_Subset
<1> QED BY <1>5 DEF Reported

LEMMA WaitKeeps ==
  ASSUME IndInv, _wait_nccl_ready
  PROVE  IndInv'
<1>0. /\ TypeSetup /\ TypePool /\ TypeRun /\ TypeSlice
      /\ PoolInv /\ PlaceInv /\ FirstInv /\ ShareInv /\ ShipInv /\ LateInv /\ GroupInv /\ ToldInv /\ CountInv
  BY Types DEF IndInv
<1>1. phase = "rendezvous" /\ UNCHANGED <<setting, run, poolVars, ncclVars, batch, stopped, workerVars, sliceVars>>
  BY DEF _wait_nccl_ready
<1>2. CASE Fail BY <1>1, <1>2, FailingWithSlices
<1>3. CASE /\ Errors(token) = {} /\ Cardinality(Reported(token)) = n
           /\ phase' = "training"
           /\ UNCHANGED <<chosen, proxies, shares, at, tries, token, again>>
  <2>1. UNCHANGED <<nodes, info, state, attempts, told, free, store, threads, group, slice, late>>
    BY <1>1 DEF poolVars, workerVars, ncclVars, sliceVars
  <2>2. /\ phase \in Placed /\ phase \in Planned /\ phase \in Shipping /\ phase # "down"
        /\ phase' \in Shipping /\ phase' \in Phases
        /\ phase' \notin {"stopping", "idle"} /\ phase' \notin {"discover", "plan"} \cup Describing
    BY <1>1, <1>3 DEF Placed, Planned, Shipping, Closing, Describing, Phases
  <2>3. TypeSetup' BY <1>0, <1>1, <1>3, <2>2, Fixed DEF TypeSetup
  <2>4. TypePool' /\ PoolInv' /\ TypeRun' /\ TypeSlice'
    BY <1>0, <1>1, <2>1, KeepTypePool, KeepPool, KeepTypeRun, KeepTypeSlice
  <2>5. FirstInv' /\ ShareInv' /\ ToldInv' /\ CountInv' /\ LateInv'
    BY <1>0, <1>1, <1>3, <2>1, <2>2, KeepFirst, KeepShare, KeepTold, KeepCount, KeepLate DEF Closing
  <2>6. PlaceInv'
    <3>1. chosen' = proxies' BY <1>0, <1>3 DEF PlaceInv
    <3> QED BY <1>0, <1>1, <1>3, <2>1, <2>2, <3>1, KeepPlaceSame
  <2>7. ShipInv'
    <3>1. Sent' \in 0 .. Sent BY <1>0, <1>1, <1>3, <2>2, Numbers, Fixed DEF Sent
    <3> QED BY <1>0, <1>1, <1>3, <2>1, <2>2, <3>1, KeepShip
  <2>8. GroupInv'
    <3>1. \A i \in Ranks : Said(i) \in store.status BY <1>1, <1>3, AllOk DEF Serving
    <3>2. \A id \in Node : Holds(id)' => Holds(id) /\ group'[ProcessOf(id)] = group[ProcessOf(id)]
      BY <2>1 DEF Holds
    <3>3. DOMAIN group' = Node /\ (Serving' => Serving) /\ phase' \in Meeting
      BY <1>0, <1>1, <2>1, <2>2 DEF GroupInv, Serving, Meeting
    <3> QED BY <1>0, <1>1, <1>3, <2>1, <2>2, <3>1, <3>2, <3>3, KeepGroup
  <2> QED BY <2>3, <2>4, <2>5, <2>6, <2>7, <2>8, TypesNext DEF IndInv
<1> QED BY <1>2, <1>3 DEF _wait_nccl_ready

--------------------
(* Training and its end. *)

LEMMA CrashCoordinatorKeeps ==
  ASSUME IndInv, CrashCoordinator
  PROVE  IndInv'
<1>1. Fail /\ UNCHANGED <<setting, run, poolVars, ncclVars, batch, stopped, workerVars, sliceVars>>
  BY DEF CrashCoordinator
<1> QED BY <1>1, FailingWithSlices

LEMMA DiscoverTimeoutKeeps ==
  ASSUME IndInv, DiscoverTimeout
  PROVE  IndInv'
<1>1. Fail /\ UNCHANGED <<setting, run, poolVars, ncclVars, batch, stopped, workerVars, sliceVars>>
  BY DEF DiscoverTimeout
<1> QED BY <1>1, FailingWithSlices

LEMMA HeartbeatKeeps ==
  ASSUME IndInv, NEW i \in 1 .. Len(proxies), Heartbeat(i)
  PROVE  IndInv'
<1>1. Fail /\ UNCHANGED <<setting, run, poolVars, ncclVars, batch, stopped, workerVars, sliceVars>>
  BY DEF Heartbeat
<1> QED BY <1>1, FailingWithSlices

\* From the first batch on the places are fixed, and processes only end.
LEMMA Running ==
  ASSUME IndInv, phase \in {"training"} \cup Closing, phase' \in {"training"} \cup Closing,
         phase' = "training" => phase = "training",
         UNCHANGED <<setting, run, chosen, proxies, shares, tries, token, again, poolVars,
                     attempts, told, free>>,
         at' \in Ranks, batch'.at \in -1 .. n, stopped' \subseteq Node,
         state' \in [Worker -> {"off", "registering", "up", "exited"}],
         \A w \in Worker : state'[w] \in {state[w], "exited"},
         TypeSlice', ShipInv', LateInv', GroupInv', ToldInv'
  PROVE  IndInv'
<1>0. /\ TypeSetup /\ TypePool /\ TypeRun
      /\ PoolInv /\ PlaceInv /\ FirstInv /\ ShareInv /\ CountInv
  BY Types DEF IndInv
<1>1. UNCHANGED <<nodes, info>> BY DEF poolVars
<1>2. /\ phase \in Placed /\ phase \in Planned /\ phase # "down"
      /\ phase' \in Shipping => phase \in Shipping
      /\ phase' \notin {"discover", "plan"} \cup Describing
      /\ phase' \in Phases
  BY DEF Placed, Planned, Shipping, Closing, Describing, Phases
<1>3. TypeSetup' BY <1>0, <1>2, Fixed DEF TypeSetup
<1>4. TypeRun' BY <1>0, Fixed DEF TypeRun
<1>5. TypePool' BY <1>0, <1>1, KeepTypePool
<1>6. \A w \in Worker : Up(w)' => Up(w) BY DEF Up
<1>7. PoolInv' BY <1>0, <1>1, <1>6 DEF PoolInv, Declared
<1>8. PlaceInv'
  <2>1. chosen' = proxies' BY <1>0 DEF PlaceInv
  <2> QED BY <1>0, <1>1, <1>2, <2>1, KeepPlaceSame
<1>9. FirstInv' /\ ShareInv' BY <1>0, <1>2, KeepFirst, KeepShare
<1>10. CountInv' BY <1>0, <1>2, KeepCount
<1> QED BY <1>3, <1>4, <1>5, <1>7, <1>8, <1>9, <1>10, TypesNext DEF IndInv

\* A batch that arrives, or finds a worker with no slice for it.
LEMMA Delivering ==
  ASSUME IndInv, phase = "training", NEW i \in Ranks, NEW back, Deliver(i, back),
         UNCHANGED <<setting, run, setupVars, poolVars, stopped, attempts, told, free>>
  PROVE  IndInv'
<1>0. TypeSetup /\ TypeRun /\ ToldInv BY Types DEF IndInv
<1>1. UNCHANGED <<phase, chosen, proxies, shares, at, tries, token, again>> BY DEF setupVars
<1>2. i \in -1 .. n /\ -1 \in -1 .. n BY <1>0, Numbers
<1>3. batch'.at \in -1 .. n BY <1>2 DEF Deliver, Lost
<1>4. /\ state' \in [Worker -> {"off", "registering", "up", "exited"}]
      /\ \A w \in Worker : state'[w] \in {state[w], "exited"}
  BY <1>0 DEF Deliver, TypeRun
<1>5. TypeSlice' /\ ShipInv' /\ LateInv' /\ GroupInv' /\ ToldInv'
  <2>1. PICK ids \in SUBSET Worker : End(ids)
    <3>1. proxies[i] \in Worker => {proxies[i]} \in SUBSET Worker OBVIOUS
    <3> QED BY <3>1 DEF Deliver
  <2> QED BY <1>0, <1>1, <2>1, EndKeeps, KeepTold
<1> QED BY <1>0, <1>1, <1>3, <1>4, <1>5, Running DEF TypeSetup, TypeRun

LEMMA SendBatchKeeps ==
  ASSUME IndInv, SendBatch
  PROVE  IndInv'
<1>0. TypeSetup BY Types DEF IndInv
<1>1. /\ phase = "training"
      /\ UNCHANGED <<setting, run, poolVars, stopped, attempts, told, free>>
  BY DEF SendBatch
<1>2. CASE Deliver(1, FALSE) /\ UNCHANGED setupVars BY <1>0, <1>1, <1>2, Numbers, Delivering
<1>3. CASE Fail /\ UNCHANGED <<batch, state, ncclVars, sliceVars>>
  BY <1>1, <1>3, FailingWithSlices DEF workerVars
<1> QED BY <1>2, <1>3 DEF SendBatch

LEMMA ComputeKeeps ==
  ASSUME IndInv, Compute
  PROVE  IndInv'
<1>0. TypeSetup /\ TypeRun /\ ToldInv BY Types DEF IndInv
<1>1. /\ phase = "training" /\ batch.at > 0
      /\ UNCHANGED <<setting, run, setupVars, poolVars, stopped, attempts, told, free>>
  BY DEF Compute
<1>2. n \in Nat /\ Ranks = 1 .. n /\ batch.at \in -1 .. n BY <1>0, Numbers DEF TypeRun
<1>3. CASE batch.at < n /\ Deliver(batch.at + 1, FALSE)
  <2>1. batch.at + 1 \in Ranks BY <1>1, <1>2, <1>3
  <2> QED BY <1>1, <1>3, <2>1, Delivering
<1>4. CASE batch.at > 1 /\ Deliver(batch.at - 1, TRUE)
  <2>1. batch.at - 1 \in Ranks BY <1>2, <1>4
  <2> QED BY <1>1, <1>4, <2>1, Delivering
<1>5. CASE batch' = NoBatch /\ UNCHANGED <<state, ncclVars, sliceVars>>
  <2>1. UNCHANGED <<phase, chosen, proxies, shares, at, tries, token, again>>
    BY <1>1 DEF setupVars
  <2>2. TypeSlice' /\ ShipInv' /\ LateInv' /\ GroupInv' BY <1>1, <1>5, <2>1, SlicesStay
  <2>3. ToldInv' BY <1>0, <1>1, <2>1, KeepTold
  <2>4. batch'.at \in -1 .. n BY <1>2, <1>5 DEF NoBatch
  <2> QED BY <1>0, <1>1, <1>5, <2>1, <2>2, <2>3, <2>4, Running DEF TypeSetup, TypeRun
<1> QED BY <1>3, <1>4, <1>5 DEF Compute

LEMMA TeardownKeeps ==
  ASSUME IndInv, Teardown
  PROVE  IndInv'
<1>0. TypeSetup /\ TypeRun /\ TypeSlice /\ PlaceInv /\ ShipInv /\ LateInv /\ GroupInv
  BY Types DEF IndInv
<1>1. /\ phase = "training" /\ phase' = "stopping" /\ at' = 1
      /\ UNCHANGED <<setting, run, chosen, proxies, shares, tries, token, again, poolVars, ncclVars, batch,
                     stopped, state, attempts, told, free, sliceVars>>
  BY DEF Teardown, workerVars
<1>2. UNCHANGED <<store, threads, group, slice, late>> BY <1>1 DEF ncclVars, sliceVars
<1>3. TypeSlice' /\ ShipInv' /\ LateInv'
  BY <1>0, <1>1, <1>2, KeepTypeSlice, KeepShip, KeepLate DEF Shipping, Closing
<1>4. GroupInv'
  <2>1. \A id \in Node : Holds(id)' => Holds(id) /\ group'[ProcessOf(id)] = group[ProcessOf(id)]
    BY <1>2 DEF Holds
  <2>2. DOMAIN group' = Node /\ (Serving' => Serving) /\ phase' \in Meeting /\ phase' \notin Shipping
    BY <1>0, <1>1, <1>2 DEF GroupInv, Serving, Meeting, Shipping
  <2> QED BY <1>0, <1>1, <1>2, <2>1, <2>2, KeepGroup
<1>5. ToldInv' BY <1>1 DEF ToldInv
<1> QED BY <1>0, <1>1, <1>3, <1>4, <1>5, Numbers, Running DEF TypeRun, Closing

\* Who is told to shut down will drop its slice or end.

LEMMA Stops ==
  ASSUME IndInv, NEW ids \in SUBSET Node, ShutdownCalls(ids), UNCHANGED <<setting, run, proxies, token>>,
         phase \in {"stopping", "idle"}, phase' \in Closing
  PROVE  /\ stopped' = stopped \cup ids /\ stopped' \subseteq Node
         /\ state' = state /\ TypeSlice' /\ ShipInv' /\ LateInv' /\ GroupInv'
<1>0. /\ TypeSetup /\ TypeRun /\ TypeSlice /\ PlaceInv /\ ShipInv /\ LateInv /\ GroupInv
      /\ run >= 1 /\ run \in Nat
  BY Types, Numbers DEF IndInv, CountInv
<1>1. /\ stopped' = stopped \cup ids /\ UNCHANGED <<store, threads, group, state, slice>>
      /\ late' = late \cup {[id |-> id, run |-> run] : id \in {i \in ids : Reachable(i)}}
  BY DEF ShutdownCalls, ncclVars
<1>2. phase' \notin Shipping BY DEF Closing, Shipping
<1>3. ShipInv' BY <1>0, <1>1, <1>2, KeepShip
<1>4. TypeSlice'
  <2>1. \A l \in late' : l.id \in Node /\ l.run \in 1 .. run BY <1>0, <1>1 DEF TypeSlice
  <2> QED BY <1>0, <1>1, <2>1 DEF TypeSlice
<1>5. LateInv' BY DEF LateInv
<1>6. GroupInv'
  <2>1. \A id \in Node : Holds(id)' => Holds(id) /\ group'[ProcessOf(id)] = group[ProcessOf(id)]
    BY <1>1 DEF Holds
  <2>2. /\ DOMAIN group' = Node /\ (Serving' => Serving) /\ phase' # "init" /\ phase' # "training"
        /\ phase' \in Meeting \/ ~Serving'
    BY <1>0, <1>1 DEF GroupInv, Serving, Meeting, Closing
  <2> QED BY <1>0, <1>1, <1>2, <2>1, <2>2, KeepGroup
<1>7. stopped' = stopped \cup ids /\ stopped' \subseteq Node BY <1>0, <1>1 DEF TypeRun
<1> QED BY <1>1, <1>3, <1>4, <1>5, <1>6, <1>7

LEMMA ShutdownActiveKeeps ==
  ASSUME IndInv, ShutdownActive
  PROVE  IndInv'
<1>0. TypeSetup /\ TypeRun /\ PlaceInv /\ ToldInv BY Types DEF IndInv
<1>1. /\ phase = "stopping" /\ ShutdownCalls({proxies[at]})
      /\ UNCHANGED <<setting, run, poolVars, batch, attempts, told, free>>
  BY DEF ShutdownActive
<1>2. /\ at' \in Ranks /\ UNCHANGED <<chosen, proxies, shares, tries, token, again>>
      /\ \/ at = n /\ phase' = "idle" /\ at' = 1
         \/ at < n /\ phase' = "stopping" /\ at' = at + 1
  BY <1>0, <1>1, AdvanceFacts DEF ShutdownActive
<1>3. /\ n \in Nat /\ Ranks = 1 .. n /\ at \in Nat /\ 1 <= at /\ at <= n
      /\ proxies \in Seq(Node) /\ Len(proxies) = n
  BY <1>0, <1>1, Numbers DEF PlaceInv, TypeSetup, Placed, Planned, Closing
<1>4. {proxies[at]} \in SUBSET Node BY <1>3, ElementOfSeq
<1>5. phase' \notin Shipping /\ phase \in Closing /\ phase' \in Closing
  BY <1>1, <1>2 DEF Shipping, Closing
<1>6. /\ stopped' = stopped \cup {proxies[at]} /\ stopped' \subseteq Node
      /\ state' = state /\ TypeSlice' /\ ShipInv' /\ LateInv' /\ GroupInv'
  BY <1>1, <1>2, <1>4, <1>5, Stops
<1>7. \A i \in 1 .. at : proxies[i] \in stopped'
  <2>1. \A i \in 1 .. at : i = at \/ i \in 1 .. at - 1 BY <1>3
  <2> QED BY <1>0, <1>1, <1>6, <2>1 DEF ToldInv
<1>8. ToldInv'
  <2>1. at' = at + 1 => at' - 1 = at BY <1>3
  <2> QED BY <1>1, <1>2, <1>3, <1>7, <2>1, Fixed DEF ToldInv
<1>9. phase' # "training" /\ batch'.at \in -1 .. n BY <1>0, <1>1, <1>2 DEF TypeRun
<1> QED BY <1>0, <1>1, <1>2, <1>5, <1>6, <1>8, <1>9, Running DEF TypeRun

\* Who is left over is a registered worker.
LEMMA IdleAreNodes ==
  ASSUME TypeOK
  PROVE  idle_nodes \subseteq Node
<1>0. nodes \in Seq(Worker) /\ Len(nodes) \in Nat /\ Expected \in Nat
  BY LenProperties, ExpectedType DEF TypeOK
<1>1. ASSUME NEW w \in ToSet(SubSeq(nodes, Expected + 1, Len(nodes))) PROVE w \in Worker
  <2>1. PICK k \in DOMAIN SubSeq(nodes, Expected + 1, Len(nodes)) :
          w = SubSeq(nodes, Expected + 1, Len(nodes))[k]
    BY DEF ToSet
  <2>2. SubSeq(nodes, Expected + 1, Len(nodes)) \in Seq(Worker) BY <1>0, SubSeqProperties
  <2> HIDE DEF idle_nodes
  <2> QED BY <2>1, <2>2, LenProperties, ElementOfSeq
<1> QED BY <1>1, Kinds DEF idle_nodes

LEMMA ShutdownIdleKeeps ==
  ASSUME IndInv, _shutdown_idle_workers
  PROVE  IndInv'
<1>0. TypeSetup /\ TypeRun /\ TypeOK BY Types DEF IndInv
<1>1. /\ phase = "idle" /\ ShutdownCalls(idle_nodes \ ToSet(proxies)) /\ phase' = "ended"
      /\ UNCHANGED <<setting, run, chosen, proxies, shares, at, tries, token, again, poolVars, batch,
                     attempts, told, free>>
  BY DEF _shutdown_idle_workers
<1>2. idle_nodes \ ToSet(proxies) \in SUBSET Node BY <1>0, IdleAreNodes
<1>3. phase' \notin Shipping /\ phase \in Closing /\ phase' \in Closing /\ phase' # "training"
  BY <1>1 DEF Shipping, Closing
<1>4. /\ stopped' \subseteq Node
      /\ state' = state /\ TypeSlice' /\ ShipInv' /\ LateInv' /\ GroupInv'
  BY <1>1, <1>2, <1>3, Stops
<1>5. ToldInv' BY <1>1 DEF ToldInv
<1> QED BY <1>0, <1>1, <1>3, <1>4, <1>5, Running DEF TypeSetup, TypeRun

\* A shutdown() that acts in a later run takes the slice of that run.
LEMMA ActKeeps ==
  ASSUME IndInv, NEW l \in late, ActOnShutdown(l)
  PROVE  IndInv'
<1>0. /\ TypeSetup /\ TypeRun /\ TypeSlice /\ PlaceInv /\ ShipInv /\ LateInv /\ GroupInv /\ CountInv
      /\ l.id \in Node /\ l.run \in 1 .. run /\ run \in Nat
  BY Types, Numbers DEF IndInv, TypeSlice
<1>1. /\ UNCHANGED <<setting, run, setupVars, poolVars, stopped, attempts, told, free>> /\ LosesBatch(l.id)
      /\ UNCHANGED <<phase, at, tries, shares, proxies, token>>
  BY DEF ActOnShutdown, setupVars
<1>2. batch'.at \in -1 .. n BY <1>1, LosingKeeps
<1>3. CASE setting.persistent \/ l.id \in Hosted
  <2>1. /\ late' = late \ {l} /\ slice' = [slice EXCEPT ![l.id] = IF Holds(l.id) THEN Dropped ELSE @]
        /\ UNCHANGED <<store, threads, group, state>>
    BY <1>3 DEF ActOnShutdown, ncclVars
  <2>2. TypeSlice'
    <3>1. slice' \in [Node -> SliceRecord \cup {None, Gone, Dropped}]
      BY <1>0, <2>1 DEF TypeSlice
    <3> QED BY <1>0, <1>1, <2>1, <3>1 DEF TypeSlice
  <2>3. ShipInv'
    <3>1. phase \in Shipping => run > 1 BY <1>0 DEF LateInv, Shipping, Closing
    <3>2. \A id \in Node : slice'[id] = slice[id] \/ slice'[id] = Dropped
      BY <1>0, <2>1 DEF TypeSlice
    <3>3. Sent' = Sent /\ Sent \in Nat BY <1>0, <1>1, Fixed, Numbers DEF Sent
    <3> QED BY <1>0, <1>1, <3>1, <3>2, <3>3, KeepShip
  <2>4. LateInv' BY <1>0, <1>1, <2>1, KeepLate
  <2>5. GroupInv'
    <3>1. \A id \in Node : Holds(id)' => Holds(id) /\ group'[ProcessOf(id)] = group[ProcessOf(id)]
      BY <1>0, <2>1 DEF Holds, TypeSlice
    <3>2. tries \in 1 .. tries /\ DOMAIN group' = Node /\ (Serving' => Serving)
      BY <1>0, <1>1, <2>1, Numbers DEF TypeSetup, GroupInv, Serving
    <3> QED BY <1>0, <1>1, <2>1, <3>1, <3>2, KeepGroup
  <2>6. TypeRun' /\ CountInv' /\ \A v \in Worker : Up(v)' => Up(v)
    <3>1. TypeRun' BY <1>0, <1>1, <1>2, <2>1, Fixed DEF TypeRun
    <3>2. CountInv' BY <1>0, <1>1, <2>1, KeepCount
    <3>3. \A v \in Worker : Up(v)' => Up(v) BY <2>1 DEF Up
    <3> QED BY <3>1, <3>2, <3>3
  <2> QED BY <1>1, <2>2, <2>3, <2>4, <2>5, <2>6, Registering
<1>4. CASE ~(setting.persistent \/ l.id \in Hosted)
  <2>1. End({l.id}) /\ state' = [state EXCEPT ![l.id] = "exited"] BY <1>4 DEF ActOnShutdown
  <2>2. {l.id} \in SUBSET Worker BY <1>0, <1>4 DEF Node
  <2>3. TypeSlice' /\ ShipInv' /\ LateInv' /\ GroupInv' BY <1>1, <2>1, <2>2, EndKeeps
  <2>4. \A w \in Worker : state'[w] = state[w] \/ state'[w] = "exited" BY <1>0, <2>1 DEF TypeRun
  <2>5. TypeRun' /\ CountInv' /\ \A v \in Worker : Up(v)' => Up(v)
    <3>1. TypeRun' BY <1>0, <1>1, <1>2, <2>1, Fixed DEF TypeRun
    <3>2. CountInv' BY <1>0, <1>1, <2>4, KeepCount
    <3>3. \A v \in Worker : Up(v)' => Up(v) BY <2>4 DEF Up
    <3> QED BY <3>1, <3>2, <3>3
  <2> QED BY <1>1, <2>3, <2>5, Registering
<1> QED BY <1>3, <1>4

--------------------
(* The theorems. *)

LEMMA Initial == Init => IndInv
<1> SUFFICES ASSUME Init PROVE IndInv
  OBVIOUS
<1>1. /\ setting \in Settings /\ phase = "down" /\ run = 0
      /\ nodes = <<>> /\ info = [id \in Node |-> Unknown]
      /\ chosen = <<>> /\ proxies = <<>> /\ shares = <<>>
      /\ at = 1 /\ tries = MaxInit /\ token = 0 /\ again = FALSE
      /\ store = EmptyStore /\ threads = {} /\ group = [id \in Node |-> {}] /\ late = {}
      /\ batch = NoBatch /\ stopped = {}
      /\ state = [w \in Worker |-> "off"] /\ attempts = [w \in Worker |-> MaxRegister]
      /\ told = [w \in Worker |-> Unknown] /\ free \in [Worker -> {Max(Memories)}]
      /\ slice = [id \in Node |-> None]
  BY DEF Init
<1>2. /\ n \in Nat /\ 1 <= n /\ Ranks = 1 .. n /\ 1 \in Ranks
      /\ setting.runs \in Nat /\ setting.tokens \in Nat
      /\ MaxInit \in Nat /\ 1 <= MaxInit /\ MaxRegister \in Nat /\ 1 <= MaxRegister
  BY <1>1, SettingFacts
<1>3. <<>> \in Seq(Worker) /\ <<>> \in Seq(Node) /\ DOMAIN <<>> = {} OBVIOUS
<1>4. IsInjective(<<>>) BY <1>3 DEF IsInjective
<1>5. TypeSetup
  <2>1. chosen \in Seq(Node) /\ proxies \in Seq(Node) /\ Len(chosen) = Len(proxies)
    BY <1>1, <1>3
  <2>2. run \in 0 .. setting.runs /\ tries \in 1 .. MaxInit /\ token \in 0 .. setting.tokens + setting.runs
    BY <1>1, <1>2
  <2> QED BY <1>1, <1>2, <2>1, <2>2 DEF TypeSetup, Phases
<1>6. TypePool
  <2>1. nodes \in Seq(Worker) /\ IsInjective(nodes) BY <1>1, <1>3, <1>4
  <2> QED BY <1>1, <2>1 DEF TypePool, Unknown
<1>7. TypeRun /\ TypeSlice BY <1>1, <1>2 DEF TypeRun, TypeSlice, NoBatch
<1>8. PoolInv
  <2>1. Max(Memories) \in Memories BY SetupAssumption DEF Max
  <2>2. ToSet(nodes) = {} BY <1>1 DEF ToSet
  <2> QED BY <1>1, <2>1, <2>2 DEF PoolInv, Up, Unknown
<1>9. phase \notin Placed /\ phase \notin Planned /\ phase \notin Shipping /\ Sent = 0
  BY <1>1 DEF Placed, Planned, Shipping, Closing, Describing, Sent
<1>10. PlaceInv /\ FirstInv /\ ShareInv /\ ToldInv
  BY <1>1, <1>9 DEF PlaceInv, FirstInv, ShareInv, ToldInv
<1>11. ShipInv
  <2>1. \A id \in Node : ~Holds(id) BY <1>1 DEF Holds
  <2>2. setting.first \subseteq Node BY <1>1, SettingFacts, Kinds
  <2> QED BY <1>9, <2>1, <2>2 DEF ShipInv
<1>12. GroupInv /\ LateInv /\ CountInv
  BY <1>1, <1>2 DEF GroupInv, LateInv, CountInv, Serving, Describing
<1> QED BY <1>5, <1>6, <1>7, <1>8, <1>10, <1>11, <1>12, Types DEF IndInv

LEMMA Steps == IndInv /\ [Next]_vars => IndInv'
<1> SUFFICES ASSUME IndInv, [Next]_vars PROVE IndInv'
  OBVIOUS
<1>1. CASE StartCoordinator \/ CrashCoordinator \/ Discover \/ DiscoverTimeout
  BY <1>1, StartCoordinatorKeeps, CrashCoordinatorKeeps, DiscoverKeeps, DiscoverTimeoutKeeps
<1>2. CASE SetupStep
  BY <1>2, ReachKeeps, DescribeKeeps, OrderKeeps, PlanKeeps, InitSlicesKeeps, WaitKeeps DEF SetupStep
<1>3. CASE Reinit \/ SendBatch \/ Compute \/ Teardown
  BY <1>3, ReinitKeeps, SendBatchKeeps, ComputeKeeps, TeardownKeeps
<1>4. CASE Stopping BY <1>4, ShutdownActiveKeeps, ShutdownIdleKeeps DEF Stopping
<1>5. ASSUME NEW i \in 1 .. Len(proxies), Heartbeat(i) PROVE IndInv'
  BY <1>5, HeartbeatKeeps
<1>6. ASSUME NEW t \in threads, Rendezvous(t) PROVE IndInv'
  BY <1>6, JoinKeeps, RendezvousKeeps, DisconnectKeeps DEF Rendezvous
<1>7. ASSUME NEW w \in Worker,
             StartWorker(w) \/ CrashWorker(w) \/ MemoryMoves(w) \/ WorkerStep(w) \/ Watchdog(w)
      PROVE  IndInv'
  BY <1>7, StartWorkerKeeps, CrashWorkerKeeps, MemoryMovesKeeps, RegisteredKeeps, RegistrationFailsKeeps,
     WatchdogKeeps DEF WorkerStep
<1>8. CASE UNCHANGED vars
  <2>1. UNCHANGED <<setting, run, setupVars, poolVars, ncclVars, batch, stopped, workerVars, sliceVars>>
    BY <1>8 DEF vars
  <2>2. UNCHANGED <<phase, at, tries, shares, proxies, token>> BY <2>1 DEF setupVars
  <2>3. GroupInv' BY <2>1, <2>2, SlicesStay
  <2> QED BY <2>1, <2>3, StoreMoves
<1>9. ASSUME NEW l \in late, ActOnShutdown(l) PROVE IndInv'
  BY <1>9, ActKeeps
<1> QED BY <1>1, <1>2, <1>3, <1>4, <1>5, <1>6, <1>7, <1>8, <1>9 DEF Next

\* The inductive invariant holds in every behaviour.
THEOREM Invariance == Spec => []IndInv
<1>1. Init => IndInv BY Initial
<1>2. IndInv /\ [Next]_vars => IndInv' BY Steps
<1> QED BY <1>1, <1>2, PTL DEF Spec

\* When training starts each process that did not end since has the slice of
\* its place, and no layer has two of them.
LEMMA Formed == IndInv => SlicesFormTheModel
<1> SUFFICES ASSUME IndInv, phase = "training" PROVE SlicesFormTheModel
  BY DEF SlicesFormTheModel
<1>0. /\ TypeSetup /\ TypeSlice /\ PlaceInv /\ ShareInv /\ ShipInv
      /\ phase \in Shipping /\ phase \in Placed
  BY Types DEF IndInv, Shipping, Placed, Planned
<1>1. /\ n \in Nat /\ Ranks = 1 .. n /\ token \in Nat /\ setting \in Settings /\ shares \in Splits
      /\ proxies \in Seq(Node) /\ Len(proxies) = n /\ IsInjective(proxies)
  BY <1>0, Numbers DEF TypeSetup, PlaceInv, ShareInv
<1>2. \A i \in Ranks : (slice[proxies[i]] = Dropped /\ run > 1)
                         \/ slice[proxies[i]] \in {Gone, SliceConfig(i)}
  BY <1>0, <1>1 DEF ShipInv, Sent
<1>3. \A i \in Ranks :
        /\ SliceConfig(i) \in SliceRecord /\ SliceConfig(i) \notin {None, Gone, Dropped}
        /\ SliceConfig(i).layers = shares[i] /\ SliceConfig(i).index = i /\ SliceConfig(i).token = token
        /\ i > 1 => SliceConfig(i).prev = proxies[i - 1]
        /\ i < n => SliceConfig(i).next = proxies[i + 1]
  BY <1>1, ConfigFacts
<1>4. ASSUME NEW i \in Ranks
      PROVE  \/ slice[proxies[i]] = Gone
             \/ slice[proxies[i]] = Dropped /\ run > 1
             \/ /\ Holds(proxies[i])
                /\ slice[proxies[i]].index = i /\ slice[proxies[i]].token = token
                /\ i > 1 => slice[proxies[i]].prev = proxies[i - 1]
                /\ i < n => slice[proxies[i]].next = proxies[i + 1]
  BY <1>2, <1>3 DEF Holds
<1>5. \A i \in Ranks : Holds(proxies[i]) => slice[proxies[i]].layers = shares[i]
  BY <1>2, <1>3 DEF Holds
<1>6. /\ \A i \in Ranks : shares[i] \subseteq DOMAIN LayerMemory
      /\ \A i, j \in Ranks : i # j => shares[i] \cap shares[j] = {}
      /\ \A l \in DOMAIN LayerMemory : \E i \in Ranks : l \in shares[i]
  BY <1>1, SplitFacts
<1>7. ASSUME NEW l \in DOMAIN LayerMemory
      PROVE  Cardinality({i \in Ranks : Holds(proxies[i]) /\ l \in slice[proxies[i]].layers}) <= 1
  <2> DEFINE who == {i \in Ranks : Holds(proxies[i]) /\ l \in slice[proxies[i]].layers}
  <2>1. \A i, j \in who : i = j
    <3>1. \A i \in who : i \in Ranks /\ l \in shares[i] BY <1>5
    <3> HIDE DEF who
    <3> QED BY <1>6, <3>1
  <2>2. CASE who = {} BY <2>2, FS_EmptySet
  <2>3. CASE who # {}
    <3>1. PICK i \in who : TRUE BY <2>3
    <3>2. who = {i} BY <2>1, <3>1
    <3>3. Cardinality({i}) = 1 BY FS_Singleton
    <3> HIDE DEF who
    <3>4. Cardinality(who) = 1 BY <3>2, <3>3
    <3> QED BY <3>4 DEF who
  <2> QED BY <2>2, <2>3
<1>8. ASSUME \A i \in Ranks : Holds(proxies[i])
      PROVE  UNION {slice[proxies[i]].layers : i \in Ranks} = DOMAIN LayerMemory
  <2>1. \A i \in Ranks : slice[proxies[i]].layers = shares[i] BY <1>5, <1>8
  <2> QED BY <1>6, <2>1
<1> QED BY <1>1, <1>4, <1>7, <1>8 DEF SlicesFormTheModel

\* The hosts hold their slices, and only a first slice goes to a data owner.
LEMMA DataStays == IndInv => DataStaysWithItsOwner
<1> SUFFICES ASSUME IndInv PROVE DataStaysWithItsOwner
  OBVIOUS
<1>0. TypeSetup /\ PlaceInv /\ ShipInv BY Types DEF IndInv
<1>1. ASSUME phase = "training", NEW i \in _hosted PROVE proxies[i] = HostOf(i)
  <2>1. i \in Ranks BY <1>0, Numbers, SettingFacts, HostedFacts
  <2> QED BY <1>0, <1>1, <2>1 DEF PlaceInv, Placed, Planned, Shipping
<1>2. \A w \in setting.first : (Holds(w) /\ _hosted = {} /\ ~setting.static) => slice[w].index = 1
  BY <1>0 DEF ShipInv
<1> QED BY <1>1, <1>2 DEF DataStaysWithItsOwner

\* A slice of this shipment is a share the planner fitted to its worker.
LEMMA CapsHold == IndInv => DeclaredCapsHold
<1> SUFFICES ASSUME IndInv, NEW i \in DOMAIN proxies,
                    phase \in {"init", "rendezvous", "training"}, ~again, ~setting.static,
                    proxies[i] \in Worker, Holds(proxies[i]), slice[proxies[i]].token = token
             PROVE  FitsIn(slice[proxies[i]].layers, setting.caps[proxies[i]])
  BY DEF DeclaredCapsHold
<1>0. /\ TypeSetup /\ PlaceInv /\ ShareInv /\ ShipInv /\ phase \in Shipping /\ phase \in Placed
  BY Types DEF IndInv, Shipping, Placed, Planned
<1>1. proxies[i] \in Node BY Kinds
<1>2. PICK j \in Ranks : proxies[i] = proxies[j] /\ slice[proxies[i]] = SliceConfig(j)
  BY <1>0, <1>1 DEF ShipInv
<1>3. slice[proxies[i]].layers = shares[j] BY <1>2 DEF SliceConfig
<1> QED BY <1>0, <1>2, <1>3 DEF ShareInv

\* Every rank said ok; if none was begun anew, each is still in the group.

LEMMA Grouped == IndInv => GroupIsWhole
<1> SUFFICES ASSUME IndInv, phase = "training", setting.nccl PROVE GroupIsWhole
  BY DEF GroupIsWhole
<1>1. Met(token) /\ BegunInv /\ JoinedInv /\ (~Repeated => OnceInv)
  BY DEF IndInv, GroupInv, MeetInv, Serving
<1>2. ASSUME NEW i \in Ranks PROVE HasJoined(token, i) /\ ~SharedGpu(token, i)
  <2>1. ASSUME NEW j \in Joined(token), NEW k \in Joined(token), j.index = i, k.index # i, j.gpu = k.gpu
        PROVE  FALSE
    <3>1. /\ Place(k) \in store.begun /\ Place(k).index = k.index
          /\ j.gpu = setting.gpu[proxies[i]] /\ k.gpu = setting.gpu[proxies[k.index]]
      BY <1>1, <2>1 DEF Joined, JoinedInv, Place
    <3>2. k.index \in Ranks BY <1>1, <3>1 DEF BegunInv
    <3> QED BY <1>1, <2>1, <3>1, <3>2 DEF Met
  <2> QED BY <1>1, <2>1 DEF Met, SharedGpu
<1>3. ASSUME NEW i \in Ranks, Holds(proxies[i]), ~Repeated
      PROVE  /\ group[ProcessOf(proxies[i])] = Joined(token)
             /\ \A t \in threads : t.id = proxies[i] => ~Connected(t)
  <2>1. group[ProcessOf(proxies[i])] = Joined(token) BY <1>1, <1>3 DEF OnceInv, Shipping
  <2> QED BY <1>3, <2>1, Settled DEF Connected
<1> QED BY <1>2, <1>3 DEF GroupIsWhole

\* Whatever registers, dies, answers late or starts again: when training starts
\* the slices out there are one model (but where a process ended since, or a
\* shutdown() of an earlier run came late), the raw data is at its owner, no
\* planned slice exceeds a declared cap, and the NCCL group is whole unless a
\* rank's init() was repeated on this store.
THEOREM ShipmentAlwaysRight == Spec => []ShipmentIsRight
<1>1. IndInv => ShipmentIsRight
  BY Formed, DataStays, CapsHold, Grouped DEF IndInv, ShipmentIsRight
<1> QED BY <1>1, Invariance, PTL

\* A run ends in _shutdown_idle_workers().
LEMMA OneEnd ==
  ASSUME TypeSetup, Next, phase # "ended", phase' = "ended"
  PROVE  _shutdown_idle_workers
<1>0. "ended" \notin {"down", "discover", "reach", "describe", "order", "plan", "init", "rendezvous",
                      "training", "stopping", "idle"}
  OBVIOUS
<1>1. ~StartCoordinator /\ ~CrashCoordinator /\ ~Discover /\ ~DiscoverTimeout
  BY <1>0 DEF StartCoordinator, CrashCoordinator, Discover, DiscoverTimeout, Fail
<1>2. ~Reach /\ ~_probe_nodes BY <1>0 DEF Reach, _probe_nodes, Advance, Fail
<1>3. ~_order_nodes /\ ~Plan /\ ~Reinit BY <1>0 DEF _order_nodes, Plan, Reinit, ShipFrom, Fail
<1>4. ~_init_slices /\ ~_wait_nccl_ready
  BY <1>0 DEF _init_slices, _wait_nccl_ready, Shipped, AfterInit, Unavailable, Fail
<1>5. ~SendBatch /\ ~Compute /\ ~Teardown /\ ~ShutdownActive
  BY <1>0 DEF SendBatch, Compute, Teardown, ShutdownActive, Advance, Fail, setupVars
<1>6. \A i \in 1 .. Len(proxies) : ~Heartbeat(i) BY <1>0 DEF Heartbeat, Fail
<1>7. /\ \A t \in threads : ~Rendezvous(t)
      /\ \A l \in late : ~ActOnShutdown(l)
  BY DEF Rendezvous, Join, _rendezvous, Disconnect, ActOnShutdown, setupVars
<1>8. \A w \in Worker : ~StartWorker(w) /\ ~CrashWorker(w) /\ ~MemoryMoves(w) /\ ~WorkerStep(w) /\ ~Watchdog(w)
  BY DEF StartWorker, CrashWorker, MemoryMoves, WorkerStep, Registered, RegistrationFails, Watchdog, setupVars
<1> QED BY <1>1, <1>2, <1>3, <1>4, <1>5, <1>6, <1>7, <1>8 DEF Next, SetupStep, Stopping

\* Who registered is among the first, which have places, or among the others.
LEMMA AllTold ==
  ASSUME IndInv, _shutdown_idle_workers
  PROVE  (IF setting.static THEN {} ELSE ToSet(nodes)) \cup ToSet(proxies) \subseteq stopped'
<1>0. TypeSetup /\ TypePool /\ PlaceInv /\ ToldInv BY Types DEF IndInv
<1>1. phase = "idle" /\ phase \in Placed /\ stopped' = stopped \cup (idle_nodes \ ToSet(proxies))
  BY DEF _shutdown_idle_workers, ShutdownCalls, Placed, Planned, Closing
<1>2. ToSet(proxies) \subseteq stopped
  <2>1. DOMAIN proxies = Ranks BY <1>0, <1>1, Numbers, LenProperties DEF PlaceInv, TypeSetup
  <2> QED BY <1>0, <1>1, <2>1 DEF ToldInv, ToSet
<1>3. ASSUME ~setting.static, NEW w \in ToSet(nodes) PROVE w \in stopped'
  <2>1. /\ nodes \in Seq(Worker) /\ Len(nodes) \in Nat /\ DOMAIN nodes = 1 .. Len(nodes)
        /\ Expected \in Nat /\ Expected <= Len(nodes)
        /\ \A k \in 1 .. Expected : nodes[k] \in ToSet(proxies)
    BY <1>0, <1>1, <1>3, LenProperties, ExpectedType DEF TypePool, PlaceInv, TypeSetup
  <2>2. PICK k \in 1 .. Len(nodes) : w = nodes[k] BY <2>1 DEF ToSet
  <2>3. CASE k <= Expected
    <3>1. w \in ToSet(proxies) BY <2>1, <2>2, <2>3
    <3> QED BY <1>1, <1>2, <3>1
  <2>4. CASE ~(k <= Expected)
    <3> DEFINE rest == SubSeq(nodes, Expected + 1, Len(nodes))
    <3>1. /\ rest \in Seq(Worker) /\ Len(rest) = Len(nodes) - Expected
          /\ \A j \in 1 .. Len(nodes) - Expected : rest[j] = nodes[Expected + j]
      <4>1. \A j \in 1 .. Len(nodes) - Expected : (Expected + 1) + j - 1 = Expected + j BY <2>1
      <4>2. /\ rest \in Seq(Worker) /\ Len(rest) = Len(nodes) - Expected
            /\ \A j \in 1 .. Len(nodes) - Expected : rest[j] = nodes[(Expected + 1) + j - 1]
        <5>1. Expected + 1 \in Int /\ Len(nodes) \in Int /\ Expected + 1 <= Len(nodes)
          BY <2>1, <2>2, <2>4
        <5>2. \A i \in Expected + 1 .. Len(nodes) : nodes[i] \in Worker BY <2>1, ElementOfSeq
        <5>3. /\ rest \in Seq(Worker)
              /\ Len(rest) = IF Expected + 1 <= Len(nodes) THEN Len(nodes) - (Expected + 1) + 1 ELSE 0
              /\ \A i \in 1 .. Len(nodes) - (Expected + 1) + 1 : rest[i] = nodes[(Expected + 1) + i - 1]
          BY <5>1, <5>2, SubSeqProperties
        <5>4. Len(nodes) - (Expected + 1) + 1 = Len(nodes) - Expected BY <2>1
        <5> QED BY <5>1, <5>3, <5>4
      <4> QED BY <4>1, <4>2
    <3> HIDE DEF rest
    <3>2. k - Expected \in 1 .. Len(nodes) - Expected /\ Expected + (k - Expected) = k
      BY <2>1, <2>4
    <3>3. k - Expected \in DOMAIN rest /\ rest[k - Expected] = w
      BY <2>2, <3>1, <3>2, LenProperties
    <3>4. w \in ToSet(rest) BY <3>3 DEF ToSet
    <3>5. w \in idle_nodes BY <1>3, <3>4 DEF rest, idle_nodes
    <3> QED BY <1>1, <1>2, <3>5
  <2> QED BY <2>3, <2>4
<1> QED BY <1>1, <1>2, <1>3

\* teardown() tells every node that has a place and every worker that ever
\* registered with this coordinator, however many registered late, died, or came
\* back, before the run is over.
THEOREM EveryoneHears == Spec => EveryoneIsTold
<1>1. IndInv /\ [Next]_vars =>
        [(phase # "ended" /\ phase' = "ended") =>
           (IF setting.static THEN {} ELSE ToSet(nodes)) \cup ToSet(proxies) \subseteq stopped']_vars
  BY OneEnd, AllTold, Types DEF IndInv
<1> QED BY <1>1, Invariance, PTL DEF Spec, EveryoneIsTold
=============================================================================
