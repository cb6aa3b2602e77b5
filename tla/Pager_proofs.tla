---------------------------- MODULE Pager_proofs ----------------------------
(***************************************************************************)
(* Proofs about module Pager, for any number of slices, slots and batches. *)
(***************************************************************************)
EXTENDS Pager, SequenceTheorems, WellFoundedInduction, TLAPS

--------------------
(* The operations in flight. *)

Values == (Slice \union {0}) \X (0 .. NumBatches)
Content == UNION {[regions -> Values] : regions \in SUBSET Region}

CopyOp == [does : {"copy"}, id : Nat, after : SUBSET Nat, from : Place, to : Place, want : Content]
RunOp == [does : {"run"}, id : Nat, after : SUBSET Nat, from : Place, to : Place, want : Content,
          makes : Content]
ReadOp == [does : {"read"}, id : Nat, after : SUBSET Nat, from : Place, to : Place, want : Content,
           slot : Slot, waits : SUBSET Nat]
Op == CopyOp \union RunOp \union ReadOp

Elems(s) == {s[k] : k \in DOMAIN s}
In(q) == Elems(queue[q])
Pending == UNION {In(q) : q \in Queues}

\* Operations are numbered in the order of the program; only a read hands its
\* number on, to the copy it issues, and only the stream of these is not in order.
Distinct(s) == \A k, l \in DOMAIN s : s[k].id = s[l].id => k = l
Sorted(s) == \A k, l \in DOMAIN s : k < l => s[k].id < s[l].id
InOrder(q) == q # H2D \/ mode # "disk"

\* What each queue holds, and where its operations read and write.
Kind(q, x) ==
  /\ q = Compute => x \in RunOp /\ x.from = x.to /\ \E s \in Slot : x.to = InSlot(s)
  /\ q = HostStep => mode = "host" /\ x \in RunOp /\ x.from = x.to /\ \E i \in Slice : x.to = Home(i)
  /\ q = H2D => /\ x \in CopyOp
                /\ \E s \in Slot, i \in Slice :
                     x.to = InSlot(s) /\ x.from = IF mode = "disk" THEN Staging(s) ELSE Home(i)
  /\ q = D2H => /\ x \in CopyOp
                /\ \E s \in Slot, i \in Slice :
                     x.from = InSlot(s) /\ x.to = IF mode = "disk" THEN Staging(s) ELSE Home(i)
  /\ \A s \in Slot : q = Lane(s) =>
       /\ mode = "disk"
       /\ \E i \in Slice :
            \/ x \in CopyOp /\ x.from = Staging(s) /\ x.to = Home(i)
            \/ x \in ReadOp /\ x.slot = s /\ x.to = Staging(s) /\ x.from = Home(i)

QueueInv ==
  /\ mode \in {"cpu", "host", "disk"} /\ ops \in Nat
  /\ queue \in [Queues -> Seq(Op)]
  /\ \A q \in Queues : \A x \in In(q) : Kind(q, x)
  /\ \A q \in Queues : Distinct(queue[q]) /\ (InOrder(q) => Sorted(queue[q]))
  /\ \A p, q \in Queues : p # q => \A x \in In(p), y \in In(q) : x.id # y.id
  /\ \A q \in Queues : \A x \in In(q) : x.id \in 1 .. ops

--------------------
(* Queues as sets. *)

LEMMA ElemsTail ==
  ASSUME NEW S, NEW s \in Seq(S), s # <<>>, Distinct(s)
  PROVE  /\ Head(s) \in Elems(s)
         /\ Elems(Tail(s)) = Elems(s) \ {Head(s)}
         /\ Distinct(Tail(s))
         /\ Sorted(s) => Sorted(Tail(s)) /\ \A x \in Elems(s) : x # Head(s) => Head(s).id < x.id
<1>1. /\ Len(s) \in Nat \ {0} /\ DOMAIN s = 1 .. Len(s) /\ Head(s) = s[1]
      /\ Tail(s) \in Seq(S) /\ Len(Tail(s)) = Len(s) - 1 /\ DOMAIN Tail(s) = 1 .. Len(s) - 1
      /\ \A k \in 1 .. Len(s) - 1 : Tail(s)[k] = s[k + 1]
  OBVIOUS
<1>2. Elems(Tail(s)) = Elems(s) \ {Head(s)}
  <2>1. ASSUME NEW x \in Elems(Tail(s)) PROVE x \in Elems(s) /\ x # Head(s)
    <3>1. PICK k \in 1 .. Len(s) - 1 : x = s[k + 1] BY <1>1, <2>1 DEF Elems
    <3>2. k + 1 \in DOMAIN s /\ 1 \in DOMAIN s /\ k + 1 # 1 BY <1>1
    <3> QED BY <1>1, <3>1, <3>2 DEF Elems, Distinct
  <2>2. ASSUME NEW x \in Elems(s), x # Head(s) PROVE x \in Elems(Tail(s))
    <3>1. PICK k \in DOMAIN s : x = s[k] BY DEF Elems
    <3>2. k - 1 \in 1 .. Len(s) - 1 /\ k = (k - 1) + 1 BY <1>1, <2>2, <3>1
    <3>3. Tail(s)[k - 1] = x BY <1>1, <3>1, <3>2
    <3> QED BY <1>1, <3>2, <3>3 DEF Elems
  <2> QED BY <2>1, <2>2
<1>3. Distinct(Tail(s))
  <2> SUFFICES ASSUME NEW k \in 1 .. Len(s) - 1, NEW l \in 1 .. Len(s) - 1, s[k + 1].id = s[l + 1].id
               PROVE  k = l
    BY <1>1 DEF Distinct
  <2>1. k + 1 \in DOMAIN s /\ l + 1 \in DOMAIN s BY <1>1
  <2>2. k + 1 = l + 1 BY <2>1 DEF Distinct
  <2> QED BY <1>1, <2>2
<1>4. ASSUME Sorted(s)
      PROVE  Sorted(Tail(s)) /\ \A x \in Elems(s) : x # Head(s) => Head(s).id < x.id
  <2>1. ASSUME NEW k \in 1 .. Len(s) - 1, NEW l \in 1 .. Len(s) - 1, k < l
        PROVE  s[k + 1].id < s[l + 1].id
    <3>1. k + 1 \in DOMAIN s /\ l + 1 \in DOMAIN s /\ k + 1 < l + 1 BY <1>1, <2>1
    <3> QED BY <1>4, <3>1 DEF Sorted
  <2>2. ASSUME NEW x \in Elems(s), x # Head(s) PROVE Head(s).id < x.id
    <3>1. PICK k \in DOMAIN s : x = s[k] BY DEF Elems
    <3>2. 1 \in DOMAIN s /\ 1 < k BY <1>1, <2>2, <3>1
    <3> QED BY <1>1, <1>4, <3>1, <3>2 DEF Sorted
  <2> QED BY <1>1, <2>1, <2>2 DEF Sorted
<1>5. Head(s) \in Elems(s)
  <2>1. 1 \in DOMAIN s BY <1>1
  <2> QED BY <1>1, <2>1 DEF Elems
<1> QED BY <1>2, <1>3, <1>4, <1>5

LEMMA ElemsAppend ==
  ASSUME NEW S, NEW s \in Seq(S), NEW n \in S, Distinct(s), \A x \in Elems(s) : x.id # n.id
  PROVE  /\ Append(s, n) \in Seq(S)
         /\ Elems(Append(s, n)) = Elems(s) \union {n}
         /\ Distinct(Append(s, n))
         /\ (Sorted(s) /\ \A x \in Elems(s) : x.id < n.id) => Sorted(Append(s, n))
<1>1. /\ Len(s) \in Nat /\ DOMAIN s = 1 .. Len(s)
      /\ Append(s, n) \in Seq(S) /\ DOMAIN Append(s, n) = 1 .. Len(s) + 1
      /\ \A k \in 1 .. Len(s) : Append(s, n)[k] = s[k]
      /\ Append(s, n)[Len(s) + 1] = n
  OBVIOUS
<1>2. \A k \in 1 .. Len(s) + 1 : k \in 1 .. Len(s) \/ k = Len(s) + 1 BY <1>1
<1>3. Elems(Append(s, n)) = Elems(s) \union {n} BY <1>1, <1>2 DEF Elems
<1>4. Distinct(Append(s, n)) BY <1>1, <1>2 DEF Elems, Distinct
<1>5. ASSUME Sorted(s), \A x \in Elems(s) : x.id < n.id PROVE Sorted(Append(s, n))
  <2> SUFFICES ASSUME NEW k \in 1 .. Len(s) + 1, NEW l \in 1 .. Len(s) + 1, k < l
               PROVE  Append(s, n)[k].id < Append(s, n)[l].id
    BY <1>1 DEF Sorted
  <2>1. k \in 1 .. Len(s) BY <1>1
  <2>2. CASE l \in 1 .. Len(s) BY <1>1, <1>5, <2>1, <2>2 DEF Sorted
  <2>3. CASE l = Len(s) + 1 BY <1>1, <1>5, <2>1, <2>3 DEF Elems
  <2> QED BY <1>2, <2>2, <2>3
<1> QED BY <1>1, <1>3, <1>4, <1>5

LEMMA Places ==
  \A q \in Queues : \/ q \in {Compute, H2D, D2H, HostStep} /\ \A s \in Slot : q # Lane(s)
                    \/ q \notin {Compute, H2D, D2H, HostStep} /\ \E s \in Slot : q = Lane(s)
BY DEF Queues, Compute, H2D, D2H, HostStep, Lane

LEMMA InOp ==
  ASSUME QueueInv, NEW q \in Queues, NEW x \in In(q)
  PROVE  x \in Op /\ x \in Pending
BY DEF QueueInv, In, Elems, Pending

LEMMA ReadsInLanes ==
  ASSUME QueueInv, NEW q \in Queues, NEW x \in In(q), x.does = "read"
  PROVE  \E s \in Slot : q = Lane(s) /\ x \in ReadOp /\ x.slot = s
<1>1. Kind(q, x) BY DEF QueueInv
<1>2. x \notin CopyOp /\ x \notin RunOp BY DEF CopyOp, RunOp
<1> QED BY <1>1, <1>2, Places DEF Kind

\* What a read goes on as.
Second(o) ==
  [does |-> "copy", id |-> o.id, after |-> o.waits, from |-> o.to, to |-> InSlot(o.slot), want |-> o.want]
Found(o) == IF o.does = "run" THEN o.makes ELSE [r \in DOMAIN o.want |-> mem[o.from][r]]

\* The next operation of a queue, when what it waits for is done.
Foremost(q, o) ==
  /\ o \in In(q) /\ \A x \in Pending : x.id \notin o.after
  /\ InOrder(q) => \A x \in In(q) : x = o \/ o.id < x.id

Executed(q, o) ==
  /\ Foremost(q, o)
  /\ mem' = Put(o.to, Found(o)) /\ mode' = mode
  /\ In(q)' = In(q) \ {o}
  /\ \A p \in Queues \ {q, H2D} : In(p)' = In(p)
  /\ q # H2D => In(H2D)' = IF o.does = "read" THEN In(H2D) \union {Second(o)} ELSE In(H2D)

LEMMA ReadyStep ==
  ASSUME QueueInv, NEW q \in Queues, Ready(q)
  PROVE  Foremost(q, Head(queue[q]))
<1> DEFINE o == Head(queue[q])
<1>1. /\ queue[q] \in Seq(Op) /\ queue[q] # <<>> /\ Distinct(queue[q])
      /\ InOrder(q) => Sorted(queue[q])
      /\ \A id \in o.after : Done(id)
  BY DEF QueueInv, Ready
<1>2. o \in In(q) /\ (InOrder(q) => \A x \in In(q) : x # o => o.id < x.id)
  BY <1>1, ElemsTail DEF In
<1>3. \A x \in Pending : x.id \notin o.after
  <2> SUFFICES ASSUME NEW x \in Pending, x.id \in o.after PROVE FALSE
    OBVIOUS
  <2>1. PICK p \in Queues : \E k \in DOMAIN queue[p] : x = queue[p][k] BY DEF Pending, In, Elems
  <2>2. PendingIn(Queues, x.id) BY <2>1 DEF PendingIn
  <2> QED BY <1>1, <2>2 DEF Done
<1> HIDE DEF o
<1> QED BY <1>2, <1>3 DEF Foremost, o

LEMMA ExecuteStep ==
  ASSUME QueueInv, NEW q \in Queues, Execute(q)
  PROVE  QueueInv' /\ \E o \in In(q) : Executed(q, o)
<1> DEFINE o == Head(queue[q])
           h == Second(o)
<1>1. /\ queue[q] \in Seq(Op) /\ queue[q] # <<>> /\ Distinct(queue[q])
      /\ InOrder(q) => Sorted(queue[q])
      /\ \A id \in o.after : Done(id)
  BY DEF QueueInv, Execute, Ready
<1>2. /\ o \in In(q) /\ Elems(Tail(queue[q])) = In(q) \ {o} /\ Distinct(Tail(queue[q]))
      /\ Tail(queue[q]) \in Seq(Op)
      /\ InOrder(q) => Sorted(Tail(queue[q])) /\ \A x \in In(q) : x # o => o.id < x.id
  BY <1>1, ElemsTail DEF In
<1>3. Foremost(q, o) BY ReadyStep DEF Execute
<1>4. mem' = Put(o.to, Found(o)) /\ UNCHANGED <<mode, ops>> BY DEF Execute, Found, config
<1>5. H2D \in Queues BY DEF Queues
<1>6. CASE o.does # "read"
  <2>1. queue' = [queue EXCEPT ![q] = Tail(@)] BY <1>6 DEF Execute, Taken
  <2>2. queue'[q] = Tail(queue[q]) /\ \A p \in Queues \ {q} : queue'[p] = queue[p]
    BY <2>1 DEF QueueInv
  <2>3. In(q)' = In(q) \ {o} /\ \A p \in Queues \ {q} : In(p)' = In(p) BY <1>2, <2>2 DEF In
  <2>4. QueueInv'
    <3>1. queue' \in [Queues -> Seq(Op)] BY <1>2, <2>1 DEF QueueInv
    <3>2. \A p \in Queues : In(p)' \subseteq In(p) BY <2>3
    <3>3. \A p \in Queues : Distinct(queue'[p]) /\ (InOrder(p)' => Sorted(queue'[p]))
      BY <1>2, <1>4, <2>2 DEF QueueInv, InOrder
    <3>4. \A p \in Queues : \A x \in In(p)' : Kind(p, x)' BY <1>4, <3>2 DEF QueueInv, Kind
    <3> QED BY <1>4, <3>1, <3>2, <3>3, <3>4 DEF QueueInv
  <2> QED BY <1>2, <1>3, <1>4, <1>5, <1>6, <2>3, <2>4 DEF Executed
<1>7. CASE o.does = "read"
  <2>1. PICK s \in Slot : q = Lane(s) /\ o \in ReadOp /\ o.slot = s BY <1>2, <1>7, ReadsInLanes
  <2>2. q # H2D BY <2>1 DEF Lane, H2D
  <2>3. queue' = [[queue EXCEPT ![q] = Tail(@)] EXCEPT ![H2D] = Append(@, h)]
    BY <1>7 DEF Execute, Taken, Second
  <2>4. /\ queue'[q] = Tail(queue[q]) /\ queue'[H2D] = Append(queue[H2D], h)
        /\ \A p \in Queues \ {q, H2D} : queue'[p] = queue[p]
    BY <1>5, <2>2, <2>3 DEF QueueInv
  <2>5. Kind(q, o) BY <1>2 DEF QueueInv
  <2>6. mode = "disk" /\ o.to = Staging(s)
    <3>1. o \notin CopyOp BY <2>1 DEF ReadOp, CopyOp
    <3> QED BY <2>1, <2>5, <3>1 DEF Kind, Lane, Staging
  <2>7. h \in CopyOp /\ h \in Op BY <2>1 DEF Second, ReadOp, CopyOp, Op, Place
  <2>8. Kind(H2D, h)
    <3>1. h.to = InSlot(s) /\ h.from = Staging(s) /\ \E i \in Slice : TRUE
      BY <2>1, <2>6, PagerAssumption DEF Second, Slice
    <3>2. H2D # Compute /\ H2D # D2H /\ H2D # HostStep /\ \A t \in Slot : H2D # Lane(t)
      BY DEF Compute, H2D, D2H, HostStep, Lane
    <3> QED BY <2>1, <2>6, <2>7, <3>1, <3>2 DEF Kind
  <2>9. \A x \in Elems(queue[H2D]) : x.id # h.id BY <1>2, <1>5, <2>2 DEF QueueInv, In, Second
  <2>10. /\ Append(queue[H2D], h) \in Seq(Op) /\ Elems(Append(queue[H2D], h)) = In(H2D) \union {h}
         /\ Distinct(Append(queue[H2D], h))
    BY <1>5, <2>7, <2>9, ElemsAppend DEF QueueInv, In
  <2>11. /\ In(q)' = In(q) \ {o} /\ In(H2D)' = In(H2D) \union {h}
         /\ \A p \in Queues \ {q, H2D} : In(p)' = In(p)
    BY <1>2, <2>4, <2>10 DEF In
  <2>12. QueueInv'
    <3>1. queue' \in [Queues -> Seq(Op)]
      <4>1. [queue EXCEPT ![q] = Tail(@)] \in [Queues -> Seq(Op)] BY <1>2 DEF QueueInv
      <4>2. [queue EXCEPT ![q] = Tail(@)][H2D] = queue[H2D] BY <1>5, <2>2 DEF QueueInv
      <4> QED BY <1>5, <2>3, <2>10, <4>1, <4>2
    <3>2. \A p \in Queues : Distinct(queue'[p]) /\ (InOrder(p)' => Sorted(queue'[p]))
      BY <1>2, <1>4, <2>4, <2>6, <2>10 DEF QueueInv, InOrder
    <3>3. \A p \in Queues : \A x \in In(p)' : Kind(p, x)'
      <4>1. \A p \in Queues : \A x \in In(p)' : Kind(p, x) BY <2>8, <2>11 DEF QueueInv
      <4> QED BY <1>4, <4>1 DEF Kind
    <3>4. \A p \in Queues : \A x \in In(p)' : x \in In(p) \/ (p = H2D /\ x = h)
      <4> HIDE DEF h, o
      <4> QED BY <2>2, <2>11
    <3>5. h.id = o.id BY DEF Second
    <3>6. \A p1, q1 \in Queues : p1 # q1 => \A x \in In(p1)', y \in In(q1)' : x.id # y.id
      <4> SUFFICES ASSUME NEW p1 \in Queues, NEW q1 \in Queues, p1 # q1,
                          NEW x \in In(p1)', NEW y \in In(q1)', x.id = y.id
                   PROVE  FALSE
        OBVIOUS
      <4>1. ~(x \in In(p1) /\ y \in In(q1)) BY DEF QueueInv
      <4>2. CASE p1 = H2D /\ x = h
        <5>1. y \in In(q1) /\ y.id = o.id BY <3>4, <3>5, <4>2
        <5>2. q1 = q BY <1>2, <5>1 DEF QueueInv
        <5>3. y # o BY <2>11, <5>2
        <5> QED BY <1>1, <1>2, <5>1, <5>2, <5>3 DEF In, Elems, Distinct
      <4>3. CASE q1 = H2D /\ y = h
        <5>1. x \in In(p1) /\ x.id = o.id BY <3>4, <3>5, <4>3
        <5>2. p1 = q BY <1>2, <5>1 DEF QueueInv
        <5>3. x # o BY <2>11, <5>2
        <5> QED BY <1>1, <1>2, <5>1, <5>2, <5>3 DEF In, Elems, Distinct
      <4> QED BY <3>4, <4>1, <4>2, <4>3
    <3>7. \A p \in Queues : \A x \in In(p)' : x.id \in 1 .. ops BY <1>2, <3>4, <3>5 DEF QueueInv
    <3> QED BY <1>4, <3>1, <3>2, <3>3, <3>6, <3>7 DEF QueueInv
  <2> QED BY <1>2, <1>3, <1>4, <1>7, <2>2, <2>11, <2>12 DEF Executed
<1> QED BY <1>6, <1>7

\* The operations that the host issues in one step.
Issues(Q, N) ==
  /\ \A p \in Queues : queue'[p] = IF p \in Q THEN Append(queue[p], N[p]) ELSE queue[p]
  /\ \A q \in Q : N[q] \in Op /\ Kind(q, N[q]) /\ N[q].id \in ops + 1 .. ops'
  /\ \A p, q \in Q : p # q => N[p].id # N[q].id

LEMMA IssueStep ==
  ASSUME QueueInv, NEW Q \in SUBSET Queues, NEW N, Issues(Q, N),
         DOMAIN queue' = Queues, queue' = [q \in Queues |-> queue'[q]],
         ops' \in Nat, ops' >= ops, mode' = mode
  PROVE  /\ QueueInv'
         /\ \A p \in Queues : In(p)' = IF p \in Q THEN In(p) \union {N[p]} ELSE In(p)
<1>1. ASSUME NEW p \in Queues
      PROVE  /\ queue'[p] \in Seq(Op) /\ Distinct(queue'[p]) /\ (InOrder(p) => Sorted(queue'[p]))
             /\ In(p)' = IF p \in Q THEN In(p) \union {N[p]} ELSE In(p)
  <2>1. queue[p] \in Seq(Op) /\ Distinct(queue[p]) /\ (InOrder(p) => Sorted(queue[p]))
    BY DEF QueueInv
  <2>2. CASE p \notin Q BY <2>1, <2>2 DEF In, Issues
  <2>3. CASE p \in Q
    <3>1. N[p] \in Op /\ queue'[p] = Append(queue[p], N[p]) /\ N[p].id \in ops + 1 .. ops'
      BY <2>3 DEF Issues
    <3>2. \A x \in Elems(queue[p]) : x.id \in 1 .. ops BY DEF QueueInv, In
    <3>3. \A x \in Elems(queue[p]) : x.id # N[p].id /\ x.id < N[p].id BY <3>1, <3>2 DEF QueueInv
    <3> QED BY <2>1, <2>3, <3>1, <3>3, ElemsAppend DEF In
  <2> QED BY <2>2, <2>3
<1>2. ASSUME NEW p \in Queues, NEW x \in In(p)'
      PROVE  \/ x \in In(p) /\ x.id \in 1 .. ops
             \/ p \in Q /\ x = N[p] /\ x.id \in ops + 1 .. ops'
  BY <1>1 DEF QueueInv, Issues
<1>3. \A p, q \in Queues : p # q => \A x \in In(p)', y \in In(q)' : x.id # y.id
  <2> SUFFICES ASSUME NEW p \in Queues, NEW q \in Queues, p # q, NEW x \in In(p)', NEW y \in In(q)'
               PROVE  x.id # y.id
    OBVIOUS
  <2>1. CASE x \in In(p) /\ y \in In(q) BY <2>1 DEF QueueInv
  <2>2. CASE x \notin In(p) /\ y \notin In(q)
    <3>1. p \in Q /\ x = N[p] /\ q \in Q /\ y = N[q] BY <1>2, <2>2
    <3> QED BY <3>1 DEF Issues
  <2>3. ops \in Nat BY DEF QueueInv
  <2>4. CASE x \in In(p) /\ y \notin In(q)
    <3>1. x.id \in 1 .. ops BY <2>4 DEF QueueInv
    <3>2. y.id \in ops + 1 .. ops' BY <1>2, <2>4
    <3> QED BY <2>3, <3>1, <3>2
  <2>5. CASE x \notin In(p) /\ y \in In(q)
    <3>1. y.id \in 1 .. ops BY <2>5 DEF QueueInv
    <3>2. x.id \in ops + 1 .. ops' BY <1>2, <2>5
    <3> QED BY <2>3, <3>1, <3>2
  <2> QED BY <2>1, <2>2, <2>4, <2>5
<1>4. \A p \in Queues : \A x \in In(p)' : Kind(p, x)'
  <2>1. ASSUME NEW p \in Queues, NEW x \in In(p)' PROVE Kind(p, x)
    <3>1. CASE x \in In(p) BY <3>1 DEF QueueInv
    <3>2. CASE p \in Q /\ x = N[p] BY <3>2 DEF Issues
    <3> QED BY <1>2, <3>1, <3>2
  <2> QED BY <2>1 DEF Kind
<1>5. \A p \in Queues : \A x \in In(p)' : x.id \in 1 .. ops' BY <1>2 DEF QueueInv
<1>6. \A p \in Queues : InOrder(p)' = InOrder(p) BY DEF InOrder
<1>7. queue' \in [Queues -> Seq(Op)] BY <1>1
<1> QED BY <1>1, <1>3, <1>4, <1>5, <1>6, <1>7 DEF QueueInv

--------------------
(* The host. *)

Calls == {"first", "acquire", "fetch", "run", "release", "submit", "end", "close", "closed"}

HostTypes ==
  /\ frozen \subseteq MayFreeze
  /\ at \in [leg : {"forward", "backward"}, slice : Slice, call : Calls]
  /\ batch \in 0 .. NumBatches /\ grown \in BOOLEAN /\ clock \in Nat /\ mark \in Nat
  /\ page \in [Slice -> [slot : Slot \union {None}, stateIn : BOOLEAN, adopted : BOOLEAN,
                         homeReady : Nat, homeEv : Nat]]
  /\ slot \in [Slot -> [page : Slice \union {None}, busy : BOOLEAN, ready : Nat, free : Nat,
                        out : Nat, last : Nat, fresh : BOOLEAN]]
  /\ latest \in [Slice -> [{"p", "b", "s"} -> Nat]]

InBatch == at.call \in {"acquire", "fetch", "run", "release", "submit"}
Computing == at.call \in {"fetch", "run", "release"}

\* The slice that is acquired next has been fetched.
HasTarget ==
  \/ at.call = "acquire"
  \/ at.call \in {"run", "release", "submit"} /\ (at.leg = "forward" \/ at.slice > 1)
Target ==
  IF at.call = "acquire" THEN at.slice ELSE IF at.leg = "forward" THEN at.slice + 1 ELSE at.slice - 1

\* In the forward leg every slice but the last one is run.
Control ==
  /\ at.call \in {"first", "close", "closed"} => at.leg = "forward" /\ at.slice = 1
  /\ at.call = "end" => at.leg = "backward" /\ at.slice = 1
  /\ at.leg = "forward" /\ InBatch => at.slice < Last
  /\ at.call = "submit" => mode = "disk"
  /\ batch < NumBatches \/ at.call \in {"close", "closed"}

\* Pages and slots point at each other; the slice that computes keeps its slot.
Resident ==
  /\ \A i \in Slice : page[i].slot # None => slot[page[i].slot].page = i
  /\ \A s \in Slot : slot[s].page # None => page[slot[s].page].slot = s
  /\ InBatch => page[at.slice].slot # None
  /\ HasTarget => page[Target].slot # None
  /\ \A s \in Slot : slot[s].busy <=> (Computing /\ page[at.slice].slot = s)

\* A backward pass finds the optimizer state in its slot, if it has a home; until
\* the slots have room for it, only slices the batch is through with have one.
Adopted ==
  /\ \A i \in Slice : page[i].stateIn => page[i].adopted /\ page[i].slot # None
  /\ \A i \in Slice : page[i].adopted => i \notin frozen /\ mode # "host"
  /\ ~grown => \A i \in Slice : page[i].adopted =>
       at.leg = "backward" /\ (i > at.slice \/ (i = at.slice /\ at.call \in {"submit", "end"}))
  /\ \A i \in Slice :
       /\ page[i].adopted
       /\ \/ at.leg = "backward" /\ i = at.slice /\ at.call \in {"acquire", "fetch", "run", "release"}
          \/ HasTarget /\ i = Target /\ (at.leg = "backward" \/ i = Last)
       => page[i].stateIn

\* A batch updates a region once.
Ran(i) ==
  \/ at.leg = "forward" /\ (i < at.slice \/ (i = at.slice /\ at.call \in {"release", "submit"}))
  \/ at.leg = "backward" /\ (i < Last \/ at.slice < Last \/ at.call \in {"release", "submit", "end"})
RanBack(i) ==
  at.leg = "backward" /\ (i > at.slice \/ (i = at.slice /\ at.call \in {"release", "submit", "end"}))

Counts ==
  \A i \in Slice :
    /\ latest[i]["b"] <= batch + (IF Ran(i) THEN 1 ELSE 0)
    /\ latest[i]["p"] <= batch + (IF RanBack(i) THEN 1 ELSE 0)
    /\ latest[i]["s"] <= batch + (IF RanBack(i) THEN 1 ELSE 0)
    /\ (mode = "host" /\ i = at.slice /\ at.call = "release") => latest[i]["p"] <= batch

HostInv == HostTypes /\ Control /\ Resident /\ Adopted /\ Counts

LEMMA Numbers ==
  /\ NumSlices \in Nat \ {0} /\ NumSlots \in Nat /\ NumSlots >= 2 /\ NumBatches \in Nat \ {0}
  /\ Slice = 1 .. NumSlices /\ Last = NumSlices /\ Slot = 1 .. NumSlots /\ None = 0
  /\ 1 \in Slice /\ Last \in Slice /\ None \notin Slot /\ None \notin Slice
BY PagerAssumption DEF Slice, Last, Slot, None

LEMMA HostInitially == Init => HostInv
<1> SUFFICES ASSUME Init PROVE HostInv
  OBVIOUS
<1>1. HostTypes
  <2>1. at \in [leg : {"forward", "backward"}, slice : Slice, call : Calls]
    BY Numbers DEF Init, Calls
  <2>2. page \in [Slice -> [slot : Slot \union {None}, stateIn : BOOLEAN, adopted : BOOLEAN,
                           homeReady : Nat, homeEv : Nat]]
    BY DEF Init
  <2>3. slot \in [Slot -> [page : Slice \union {None}, busy : BOOLEAN, ready : Nat, free : Nat,
                          out : Nat, last : Nat, fresh : BOOLEAN]]
    BY DEF Init
  <2>4. latest \in [Slice -> [{"p", "b", "s"} -> Nat]] BY DEF Init
  <2>5. frozen \subseteq MayFreeze /\ clock \in Nat /\ mark \in Nat BY DEF Init
  <2>6. batch \in 0 .. NumBatches BY Numbers DEF Init
  <2>7. grown \in BOOLEAN BY DEF Init
  <2> QED BY <2>1, <2>2, <2>3, <2>4, <2>5, <2>6, <2>7 DEF HostTypes
<1>2. Control BY Numbers DEF Init, Control, InBatch
<1>3. Resident BY Numbers DEF Init, Resident, InBatch, HasTarget, Computing
<1>4. Adopted BY Numbers DEF Init, Adopted
<1>5. Counts BY Numbers DEF Init, Counts
<1> QED BY <1>1, <1>2, <1>3, <1>4, <1>5 DEF HostInv

--------------------
(* Fetching. *)

LEMMA IdleSlot ==
  ASSUME HostInv
  PROVE  Idle # {}
<1>1. 1 \in Slot /\ 2 \in Slot BY Numbers
<1>2. PICK s \in {1, 2} : ~(Computing /\ page[at.slice].slot = s) OBVIOUS
<1> QED BY <1>1, <1>2 DEF HostInv, Resident, Idle

LEMMA Smallest ==
  ASSUME NEW T, T \subseteq Nat, T # {}
  PROVE  \E x \in T : \A y \in T : x <= y
<1>1. PICK x \in T : \A y \in T : ~(<<y, x>> \in OpToRel(<, Nat))
  BY NatLessThanWellFounded, WFMin
<1>2. ASSUME NEW y \in T PROVE x <= y
  <2>1. x \in Nat /\ y \in Nat OBVIOUS
  <2>2. y < x => <<y, x>> \in OpToRel(<, Nat) BY <2>1 DEF OpToRel
  <2>3. ~(y < x) BY <1>1, <2>2
  <2> QED BY <2>1, <2>3
<1> QED BY <1>2

LEMMA VictimIsIdle ==
  ASSUME HostInv
  PROVE  Victim \in Idle
<1> DEFINE empty == {s \in Idle : slot[s].page = None}
<1>1. Idle \subseteq Nat BY Numbers DEF Idle
<1>2. CASE empty # {}
  <2>1. \E s \in empty : \A t \in empty : s <= t BY <1>1, <1>2, Smallest
  <2> QED BY <1>2, <2>1 DEF Victim
<1>3. CASE empty = {}
  <2> DEFINE T == {slot[s].last : s \in Idle}
  <2>1. T \subseteq Nat /\ T # {}
    <3>1. \A s \in Idle : slot[s].last \in Nat BY DEF HostInv, HostTypes, Idle
    <3> QED BY <3>1, IdleSlot
  <2>2. PICK x \in T : \A y \in T : x <= y BY <2>1, Smallest
  <2>3. \E s \in Idle : \A t \in Idle : slot[s].last <= slot[t].last BY <2>2
  <2> QED BY <1>3, <2>3 DEF Victim
<1> QED BY <1>2, <1>3

\* When the program fetches which slice, with or without its state.
Fetches(i, state, next) ==
  /\ i \in Slice /\ state \in BOOLEAN
  /\ \/ /\ at.call = "first" /\ i = 1 /\ state = (Last = 1) /\ next = FirstCall
     \/ /\ at.call = "fetch" /\ at.leg = "forward" /\ i = at.slice + 1
        /\ state = (i = Last) /\ next = Goto("run")
     \/ /\ at.call = "fetch" /\ at.leg = "backward" /\ i = at.slice - 1
        /\ state = TRUE /\ next = Goto("run")

PageType == [slot : Slot \union {None}, stateIn : BOOLEAN, adopted : BOOLEAN, homeReady : Nat, homeEv : Nat]
SlotType == [page : Slice \union {None}, busy : BOOLEAN, ready : Nat, free : Nat, out : Nat, last : Nat,
             fresh : BOOLEAN]

\* What fetch() brings into a slot, if it brings anything.
Brought(p, s, regions) == [p EXCEPT !.slot = s, !.homeReady = 0, !.stateIn = @ \/ "s" \in regions]
Gone(p) == [p EXCEPT !.slot = None, !.stateIn = FALSE]
PagesBecome(i, s, regions) ==
  page' = [j \in Slice |-> IF j = i THEN Brought(page[i], s, regions)
                           ELSE IF j = slot[s].page THEN Gone(page[j])
                           ELSE page[j]]
SlotsBecome(i, s) == slot' = [slot EXCEPT ![s] = [@ EXCEPT !.page = i, !.ready = ops + 1, !.fresh = FALSE]]
Sends(i, s, regions) ==
  queue' = IF mode = "disk"
           THEN Issued(Lane(s), Read({slot[s].ready}, i, s, Now(i, regions), Waits(i, s)))
           ELSE Issued(H2D, Copy(Waits(i, s), Home(i), InSlot(s), Now(i, regions)))
PagedIn(i, s, regions) ==
  /\ s \in Idle /\ regions \subseteq {"p", "b", "s"}
  /\ page[i].slot = None => {"p", "b"} \subseteq regions
  /\ page[i].slot # None => page[i].slot = s
  /\ "s" \in regions => page[i].adopted
  /\ Returned(page[i].homeReady)
  /\ PagesBecome(i, s, regions) /\ SlotsBecome(i, s) /\ Sends(i, s, regions)
  /\ ops' = ops + 1

LEMMA BroughtIs ==
  ASSUME NEW p \in PageType, NEW s \in Slot, NEW regions
  PROVE  /\ Brought(p, s, regions) \in PageType
         /\ Brought(p, s, regions).slot = s /\ Brought(p, s, regions).homeReady = 0
         /\ Brought(p, s, regions).stateIn <=> (p.stateIn \/ "s" \in regions)
         /\ Brought(p, s, regions).adopted = p.adopted /\ Brought(p, s, regions).homeEv = p.homeEv
<1> DEFINE b == p.stateIn \/ "s" \in regions
<1>1. b \in BOOLEAN /\ (b <=> (p.stateIn \/ "s" \in regions)) OBVIOUS
<1>2. Brought(p, s, regions) = [p EXCEPT !.slot = s, !.homeReady = 0, !.stateIn = b]
  BY Zenon DEF Brought
<1> HIDE DEF b
<1>3. p = [slot |-> p.slot, stateIn |-> p.stateIn, adopted |-> p.adopted, homeReady |-> p.homeReady,
           homeEv |-> p.homeEv]
  BY DEF PageType
<1>4. Brought(p, s, regions) = [slot |-> s, stateIn |-> b, adopted |-> p.adopted, homeReady |-> 0,
                                homeEv |-> p.homeEv]
  BY <1>2, <1>3
<1>5. s \in Slot \union {None} /\ p.adopted \in BOOLEAN /\ 0 \in Nat /\ p.homeEv \in Nat
  BY DEF PageType
<1>6. Brought(p, s, regions) \in PageType BY <1>1, <1>4, <1>5 DEF PageType
<1>7. Brought(p, s, regions).stateIn = b BY <1>4
<1> QED BY <1>1, <1>4, <1>6, <1>7

LEMMA FetchStep ==
  ASSUME HostInv, NEW i, NEW state, NEW next, Fetches(i, state, next), Fetch(i, state, next)
  PROVE  /\ at' = next /\ UNCHANGED <<config, batch, grown, clock, mem, mark, latest>>
         /\ \/ UNCHANGED <<page, slot, queue, ops>>
            \/ \E s \in Slot, regions \in SUBSET {"p", "b", "s"} : PagedIn(i, s, regions)
         /\ page'[i].slot # None
         /\ (state /\ page[i].adopted) => page'[i].stateIn
<1> DEFINE wantState == state /\ mode # "host" /\ page[i].adopted
           here == page[i].slot # None
           regions == (IF here THEN {} ELSE {"p", "b"})
                        \union IF wantState /\ ~page[i].stateIn THEN {"s"} ELSE {}
<1>1. i \in Slice /\ page[i].slot \in Slot \union {None} /\ page[i].stateIn \in BOOLEAN
      /\ page[i].adopted \in BOOLEAN /\ grown \in BOOLEAN
  BY DEF Fetches, HostInv, HostTypes
<1>2. page[i].adopted => mode # "host" BY <1>1 DEF HostInv, Adopted
<1>3. ~Raises(i, wantState)
  <2>1. (page[i].adopted /\ wantState) => grown
    <3>1. at.slice \in Nat /\ i \in Nat BY <1>1, Numbers DEF HostInv, HostTypes
    <3>2. ~(at.leg = "backward" /\ (i > at.slice \/ (i = at.slice /\ at.call \in {"submit", "end"})))
      BY <3>1 DEF HostInv, Control, Fetches
    <3> QED BY <1>1, <3>2 DEF HostInv, Adopted
  <2> QED BY <1>1, <2>1, IdleSlot DEF Raises
<1>4. at' = next /\ UNCHANGED <<config, batch, grown, clock, mem, mark, latest>>
  BY <1>3 DEF Fetch
<1>5. CASE regions = {}
  <2>1. here /\ ~(wantState /\ ~page[i].stateIn) BY <1>5
  <2>2. UNCHANGED <<page, slot, queue, ops>> BY <1>5 DEF Fetch
  <2> QED BY <1>1, <1>2, <1>4, <2>1, <2>2
<1>6. CASE regions # {}
  <2>1. IF here THEN PageIn(i, page[i].slot, regions, page)
        ELSE PageIn(i, Victim, regions, Evicted(Victim))
    BY <1>3, <1>6 DEF Fetch
  <2> DEFINE s == IF here THEN page[i].slot ELSE Victim
  <2>2. s \in Idle /\ s \in Slot
    <3>1. CASE here
      <4>1. ~(Computing /\ page[at.slice].slot = s)
        <5>1. at.slice \in Slice /\ (Computing => i # at.slice)
          <6>1. at.slice \in Slice /\ at.slice \in Nat /\ i \in Nat
            BY <1>1, Numbers DEF HostInv, HostTypes
          <6> QED BY <6>1 DEF Fetches, Computing
        <5>2. page[at.slice].slot = s => at.slice = i
          BY <1>1, <3>1, <5>1, Numbers DEF HostInv, Resident
        <5> QED BY <5>1, <5>2
      <4> QED BY <1>1, <3>1, <4>1 DEF HostInv, Resident, Idle
    <3>2. CASE ~here BY <3>2, VictimIsIdle DEF Idle
    <3> QED BY <3>1, <3>2
  <2>3. PagedIn(i, s, regions)
    <3> DEFINE pages == IF here THEN page ELSE Evicted(Victim)
    <3>1. /\ Returned(page[i].homeReady)
          /\ page' = [pages EXCEPT ![i].slot = s, ![i].homeReady = 0, ![i].stateIn = @ \/ "s" \in regions]
          /\ slot' = [slot EXCEPT ![s].page = i, ![s].ready = ops + 1, ![s].fresh = FALSE]
          /\ ops' = ops + 1
      <4>1. PageIn(i, s, regions, pages) BY <2>1
      <4> HIDE DEF regions, s, pages
      <4> QED BY <4>1 DEF PageIn
    <3>2. Sends(i, s, regions) BY <2>1 DEF PageIn, Sends
    <3>3. /\ \A j \in Slice : j # i => (page[j].slot # None => page[j].slot # page[i].slot)
          /\ here => slot[s].page = i
          /\ ~here => slot[s].page # i
      BY <1>1, <2>2, Numbers DEF HostInv, Resident
    <3>4. pages = [j \in Slice |-> IF j # i /\ j = slot[s].page THEN Gone(page[j]) ELSE page[j]]
      <4>1. CASE here
        <5>1. page = [j \in Slice |-> page[j]] BY DEF HostInv, HostTypes
        <5> HIDE DEF regions, s
        <5> QED BY <3>3, <4>1, <5>1
      <4>2. CASE ~here
        <5>1. pages = [j \in Slice |-> IF j = slot[s].page THEN Gone(page[j]) ELSE page[j]]
          BY <4>2 DEF Evicted, Gone
        <5> HIDE DEF regions, s, pages
        <5> QED BY <3>3, <4>2, <5>1
      <4> QED BY <4>1, <4>2
    <3>5. PagesBecome(i, s, regions)
      <4> HIDE DEF pages, s, regions
      <4>1. pages[i] = page[i] /\ DOMAIN pages = Slice BY <1>1, <3>4
      <4>2. page' = [pages EXCEPT ![i] = Brought(pages[i], s, regions)]
        BY <1>1, <3>1, <4>1, Zenon DEF Brought
      <4> QED BY <1>1, <3>4, <4>1, <4>2 DEF PagesBecome
    <3>6. SlotsBecome(i, s)
      <4> HIDE DEF pages, s, regions
      <4> QED BY <3>1, Zenon DEF SlotsBecome
    <3> HIDE DEF pages, s
    <3> QED BY <1>1, <2>2, <3>1, <3>2, <3>5, <3>6 DEF PagedIn, s
  <2>4. page'[i].slot = s /\ (page'[i].stateIn <=> (page[i].stateIn \/ "s" \in regions))
    <3> HIDE DEF s, regions
    <3>1. page'[i] = Brought(page[i], s, regions) /\ page[i] \in PageType
      BY <1>1, <2>3 DEF PagedIn, PagesBecome, HostInv, HostTypes, PageType
    <3> QED BY <2>2, <3>1, BroughtIs
  <2>5. s # None BY <2>2, Numbers
  <2>6. regions \in SUBSET {"p", "b", "s"} OBVIOUS
  <2>7. (state /\ page[i].adopted) => page'[i].stateIn BY <1>1, <1>2, <2>4
  <2> HIDE DEF s, regions
  <2> QED BY <1>4, <2>2, <2>3, <2>4, <2>5, <2>6, <2>7
<1> QED BY <1>5, <1>6

LEMMA NextCallIs ==
  ASSUME HostInv, at.call \in {"release", "submit"}
  PROVE  /\ NextCall \in [leg : {"forward", "backward"}, slice : Slice, call : {"acquire", "end"}]
         /\ NextCall.call = "end" <=> ~HasTarget
         /\ HasTarget => NextCall.slice = Target
         /\ NextCall.leg = "forward" => at.leg = "forward" /\ NextCall.slice < Last
         /\ at.leg = "forward" /\ NextCall.leg = "backward" => NextCall.slice = Last
         /\ NextCall.call = "end" => NextCall.leg = "backward" /\ NextCall.slice = 1 /\ at.slice = 1
         /\ NextCall.leg = "backward" /\ NextCall.slice = Last /\ NextCall.call = "acquire" => at.leg = "forward"
<1>1. /\ at.slice \in 1 .. NumSlices /\ at.leg \in {"forward", "backward"}
      /\ at.leg = "forward" => at.slice < NumSlices
      /\ at = [leg |-> at.leg, slice |-> at.slice, call |-> at.call]
  BY Numbers DEF HostInv, HostTypes, Control, InBatch
<1>2. CASE at.leg = "forward" /\ at.slice + 1 < Last
  <2>1. NextCall = [leg |-> "forward", slice |-> at.slice + 1, call |-> "acquire"]
    BY <1>1, <1>2, Numbers DEF NextCall
  <2> QED BY <1>1, <1>2, <2>1, Numbers DEF HasTarget, Target
<1>3. CASE at.leg = "forward" /\ at.slice + 1 = Last
  <2>1. NextCall = [leg |-> "backward", slice |-> Last, call |-> "acquire"]
    BY <1>1, <1>3, Numbers DEF NextCall
  <2> QED BY <1>1, <1>3, <2>1, Numbers DEF HasTarget, Target
<1>4. CASE at.leg = "backward" /\ at.slice > 1
  <2>1. NextCall = [leg |-> "backward", slice |-> at.slice - 1, call |-> "acquire"]
    BY <1>4 DEF NextCall
  <2> QED BY <1>1, <1>4, <2>1, Numbers DEF HasTarget, Target
<1>5. CASE at.leg = "backward" /\ at.slice = 1
  <2>1. NextCall = Goto("end") BY <1>5, Numbers DEF NextCall
  <2> QED BY <1>1, <1>5, <2>1, Numbers DEF HasTarget, Target, Goto
<1> QED BY <1>1, <1>2, <1>3, <1>4, <1>5, Numbers

LEMMA FetchesNext ==
  ASSUME HostInv, NEW i, NEW state, NEW next, Fetches(i, state, next), at' = next
  PROVE  /\ at' \in [leg : {"forward", "backward"}, slice : Slice, call : {"acquire", "run"}]
         /\ HasTarget' /\ Target' = i
         /\ at'.call = "acquire" => (at.call = "first" /\ at'.slice = 1 /\ i = 1)
         /\ at'.call = "run" => (at.call = "fetch" /\ at'.leg = at.leg /\ at'.slice = at.slice /\ i # at.slice)
         /\ at'.leg = "forward" => at'.slice < Last
         /\ (at'.leg = "backward" \/ i = Last) => state
         /\ (at'.call = "acquire" /\ at'.leg = "backward") => Last = 1
<1>1. /\ at.slice \in 1 .. NumSlices /\ at.leg \in {"forward", "backward"}
      /\ (InBatch /\ at.leg = "forward") => at.slice < NumSlices
      /\ at = [leg |-> at.leg, slice |-> at.slice, call |-> at.call]
      /\ i \in 1 .. NumSlices
  BY Numbers DEF HostInv, HostTypes, Control, InBatch, Fetches
<1>2. CASE at.call = "first"
  <2>1. /\ i = 1 /\ state = (Last = 1)
        /\ at' = [leg |-> IF Last = 1 THEN "backward" ELSE "forward", slice |-> 1, call |-> "acquire"]
    BY <1>2 DEF Fetches, FirstCall
  <2>2. at'.call = "acquire" /\ at'.slice = 1 /\ at'.leg = IF Last = 1 THEN "backward" ELSE "forward"
    BY <2>1
  <2>3. HasTarget' /\ Target' = i BY <2>1, <2>2 DEF HasTarget, Target
  <2>4. at' \in [leg : {"forward", "backward"}, slice : Slice, call : {"acquire", "run"}]
    BY <2>1, Numbers
  <2>5. at'.leg = "forward" => at'.slice < Last BY <2>2, Numbers
  <2>6. (at'.leg = "backward" \/ i = Last) => Last = 1 BY <2>1, <2>2
  <2> QED BY <1>2, <2>1, <2>2, <2>3, <2>4, <2>5, <2>6
<1>3. CASE at.call = "fetch"
  <2>1. at' = [leg |-> at.leg, slice |-> at.slice, call |-> "run"]
    BY <1>1, <1>3 DEF Fetches, Goto
  <2>2. /\ at.leg = "forward" => i = at.slice + 1 /\ state = (i = Last)
        /\ at.leg = "backward" => i = at.slice - 1 /\ state = TRUE
    BY <1>3 DEF Fetches
  <2>3. at'.leg = at.leg /\ at'.slice = at.slice /\ at'.call = "run" BY <2>1
  <2>4. HasTarget' /\ Target' = i BY <1>1, <2>2, <2>3 DEF HasTarget, Target
  <2>5. at' \in [leg : {"forward", "backward"}, slice : Slice, call : {"acquire", "run"}]
    BY <1>1, <2>1, Numbers
  <2>6. i # at.slice BY <1>1, <2>2
  <2>7. at'.leg = "forward" => at'.slice < Last BY <1>1, <1>3, <2>3, Numbers DEF InBatch
  <2>8. (at'.leg = "backward" \/ i = Last) => state BY <1>1, <2>2, <2>3
  <2> QED BY <1>3, <2>3, <2>4, <2>5, <2>6, <2>7, <2>8
<1> QED BY <1>2, <1>3 DEF Fetches

\* Slice i is in slot s, the slice that was there is in none.
PagesAfter(i, s, regions) ==
  \A j \in Slice :
    /\ page'[j] \in PageType
    /\ page'[j].adopted = page[j].adopted /\ page'[j].homeEv = page[j].homeEv
    /\ page'[j].homeReady = IF j = i THEN 0 ELSE page[j].homeReady
    /\ page'[j].slot = IF j = i THEN s ELSE IF j = slot[s].page THEN None ELSE page[j].slot
    /\ page'[j].stateIn <=> \/ j = i /\ (page[i].stateIn \/ "s" \in regions)
                            \/ j # i /\ j # slot[s].page /\ page[j].stateIn
SlotsAfter(i, s) ==
  \A t \in Slot :
    /\ slot'[t] \in SlotType
    /\ slot'[t].page = IF t = s THEN i ELSE slot[t].page
    /\ slot'[t].ready = IF t = s THEN ops + 1 ELSE slot[t].ready
    /\ slot'[t].busy = slot[t].busy /\ slot'[t].free = slot[t].free /\ slot'[t].out = slot[t].out

LEMMA PagedInHost ==
  ASSUME HostInv, NEW i \in Slice, NEW s, NEW regions, PagedIn(i, s, regions), ops \in Nat
  PROVE  /\ s \in Slot /\ ~slot[s].busy /\ s # None
         /\ PagesAfter(i, s, regions) /\ SlotsAfter(i, s)
         /\ page' \in [Slice -> PageType] /\ slot' \in [Slot -> SlotType]
<1>1. s \in Slot /\ ~slot[s].busy BY DEF PagedIn, Idle
<1>2. page \in [Slice -> PageType] /\ slot \in [Slot -> SlotType]
  BY DEF HostInv, HostTypes, PageType, SlotType
<1>3. PagesBecome(i, s, regions) /\ SlotsBecome(i, s) BY DEF PagedIn
<1>4. PagesAfter(i, s, regions)
  <2> SUFFICES ASSUME NEW j \in Slice
               PROVE  /\ page'[j] \in PageType
                      /\ page'[j].adopted = page[j].adopted /\ page'[j].homeEv = page[j].homeEv
                      /\ page'[j].homeReady = IF j = i THEN 0 ELSE page[j].homeReady
                      /\ page'[j].slot = IF j = i THEN s ELSE IF j = slot[s].page THEN None ELSE page[j].slot
                      /\ page'[j].stateIn <=> \/ j = i /\ (page[i].stateIn \/ "s" \in regions)
                                              \/ j # i /\ j # slot[s].page /\ page[j].stateIn
    BY DEF PagesAfter
  <2>1. page[j] \in PageType BY <1>2
  <2>2. CASE j = i
    <3>1. page'[j] = Brought(page[j], s, regions) BY <1>3, <2>2 DEF PagesBecome
    <3> QED BY <1>1, <2>1, <2>2, <3>1, BroughtIs
  <2>3. CASE j # i /\ j = slot[s].page
    <3>1. page'[j] = Gone(page[j]) BY <1>3, <2>3 DEF PagesBecome
    <3> QED BY <2>1, <2>3, <3>1 DEF PageType, Gone
  <2>4. CASE j # i /\ j # slot[s].page BY <1>3, <2>1, <2>4 DEF PagesBecome
  <2> QED BY <2>2, <2>3, <2>4
<1>5. SlotsAfter(i, s)
  <2> SUFFICES ASSUME NEW t \in Slot
               PROVE  /\ slot'[t] \in SlotType
                      /\ slot'[t].page = IF t = s THEN i ELSE slot[t].page
                      /\ slot'[t].ready = IF t = s THEN ops + 1 ELSE slot[t].ready
                      /\ slot'[t].busy = slot[t].busy /\ slot'[t].free = slot[t].free
                      /\ slot'[t].out = slot[t].out
    BY DEF SlotsAfter
  <2>1. slot[t] \in SlotType BY <1>2
  <2>2. CASE t = s
    <3>1. slot'[t] = [slot[t] EXCEPT !.page = i, !.ready = ops + 1, !.fresh = FALSE]
      BY <1>2, <1>3, <2>2 DEF SlotsBecome
    <3>2. ops + 1 \in Nat OBVIOUS
    <3> QED BY <2>1, <2>2, <3>1, <3>2 DEF SlotType
  <2>3. CASE t # s BY <1>2, <1>3, <2>1, <2>3 DEF SlotsBecome
  <2> QED BY <2>2, <2>3
<1>6. page' \in [Slice -> PageType] BY <1>3, <1>4 DEF PagesAfter, PagesBecome
<1>7. slot' \in [Slot -> SlotType] BY <1>2, <1>3, <1>5 DEF SlotsAfter, SlotsBecome
<1> QED BY <1>1, <1>4, <1>5, <1>6, <1>7, Numbers

LEMMA FetchHost ==
  ASSUME HostInv, ops \in Nat, NEW i, NEW state, NEW next, Fetches(i, state, next), Fetch(i, state, next)
  PROVE  HostInv'
<1>1. /\ at' = next /\ UNCHANGED <<mode, frozen, batch, grown, clock, mem, mark, latest>>
      /\ \/ UNCHANGED <<page, slot, queue, ops>>
         \/ \E s \in Slot, regions \in SUBSET {"p", "b", "s"} : PagedIn(i, s, regions)
      /\ page'[i].slot # None
      /\ (state /\ page[i].adopted) => page'[i].stateIn
  BY FetchStep DEF config
<1>2. /\ at' \in [leg : {"forward", "backward"}, slice : Slice, call : {"acquire", "run"}]
      /\ HasTarget' /\ Target' = i
      /\ at'.call = "acquire" => (at.call = "first" /\ at'.slice = 1 /\ i = 1)
      /\ at'.call = "run" => (at.call = "fetch" /\ at'.leg = at.leg /\ at'.slice = at.slice /\ i # at.slice)
      /\ at'.leg = "forward" => at'.slice < Last
      /\ (at'.leg = "backward" \/ i = Last) => state
      /\ (at'.call = "acquire" /\ at'.leg = "backward") => Last = 1
  BY <1>1, FetchesNext
<1>3. i \in Slice /\ at.call \in {"first", "fetch"} BY DEF Fetches
<1>4. at'.slice \in Slice /\ at'.leg \in {"forward", "backward"} /\ at'.call \in {"acquire", "run"}
      /\ at.slice \in Slice /\ at.leg \in {"forward", "backward"}
  BY <1>2 DEF HostInv, HostTypes
<1>5. Control' BY <1>1, <1>2, <1>3, <1>4 DEF HostInv, Control, InBatch
<1>6. Counts'
  <2>1. \A j \in Slice : (Ran(j) => Ran(j)') /\ (RanBack(j) => RanBack(j)')
    <3> SUFFICES ASSUME NEW j \in Slice PROVE (Ran(j) => Ran(j)') /\ (RanBack(j) => RanBack(j)')
      OBVIOUS
    <3>1. j \in 1 .. NumSlices /\ at.slice \in 1 .. NumSlices /\ at'.slice \in 1 .. NumSlices
      BY <1>4, Numbers
    <3>2. CASE at.call = "first"
      <4>1. at.leg = "forward" /\ at.slice = 1 BY <3>2 DEF HostInv, Control
      <4> QED BY <3>1, <3>2, <4>1 DEF Ran, RanBack
    <3>3. CASE at.call = "fetch"
      <4>1. at'.call = "run" /\ at'.leg = at.leg /\ at'.slice = at.slice BY <1>2, <1>4, <3>3
      <4> QED BY <3>1, <3>3, <4>1 DEF Ran, RanBack
    <3> QED BY <1>3, <3>2, <3>3
  <2>2. at'.call # "release" BY <1>2
  <2> SUFFICES ASSUME NEW j \in Slice
               PROVE  /\ latest[j]["b"] <= batch + (IF Ran(j)' THEN 1 ELSE 0)
                      /\ latest[j]["p"] <= batch + (IF RanBack(j)' THEN 1 ELSE 0)
                      /\ latest[j]["s"] <= batch + (IF RanBack(j)' THEN 1 ELSE 0)
    BY <1>1, <2>2 DEF Counts
  <2>3. latest[j]["b"] \in Nat /\ latest[j]["p"] \in Nat /\ latest[j]["s"] \in Nat /\ batch \in Nat
    <3>1. latest[j] \in [{"p", "b", "s"} -> Nat] /\ batch \in 0 .. NumBatches
      BY DEF HostInv, HostTypes
    <3> QED BY <3>1, Numbers
  <2>4. /\ latest[j]["b"] <= batch + (IF Ran(j) THEN 1 ELSE 0)
        /\ latest[j]["p"] <= batch + (IF RanBack(j) THEN 1 ELSE 0)
        /\ latest[j]["s"] <= batch + (IF RanBack(j) THEN 1 ELSE 0)
    BY DEF HostInv, Counts
  <2> QED BY <2>1, <2>3, <2>4
<1> DEFINE Pages == /\ \A j \in Slice : page'[j].adopted = page[j].adopted
                    /\ \A j \in Slice : page'[j].stateIn => page[j].adopted /\ page'[j].slot # None
                    /\ \A j \in Slice : page'[j].slot # None => slot'[page'[j].slot].page = j
                    /\ \A t \in Slot : slot'[t].page # None => page'[slot'[t].page].slot = t
                    /\ \A t \in Slot : slot'[t].busy = slot[t].busy
                    /\ page' \in [Slice -> PageType] /\ slot' \in [Slot -> SlotType]
                    /\ Computing => page'[at.slice].slot = page[at.slice].slot
                    /\ (Computing /\ page[at.slice].stateIn) => page'[at.slice].stateIn
<1>7. Pages
  <2>1. CASE UNCHANGED <<page, slot, queue, ops>>
    <3>1. Resident /\ Adopted /\ page \in [Slice -> PageType] /\ slot \in [Slot -> SlotType]
      BY DEF HostInv, HostTypes, PageType, SlotType
    <3> QED BY <2>1, <3>1 DEF Resident, Adopted
  <2>2. ASSUME NEW s \in Slot, NEW regions \in SUBSET {"p", "b", "s"}, PagedIn(i, s, regions)
        PROVE  Pages
    <3>1. /\ ~slot[s].busy /\ s # None /\ PagesAfter(i, s, regions) /\ SlotsAfter(i, s)
          /\ page' \in [Slice -> PageType] /\ slot' \in [Slot -> SlotType]
      BY <1>3, <2>2, PagedInHost
    <3>2. /\ "s" \in regions => page[i].adopted
          /\ page[i].slot # None => page[i].slot = s
      BY <2>2 DEF PagedIn
    <3>3. Resident /\ Adopted BY DEF HostInv
    <3>4. \A j \in Slice : page[j].slot \in Slot \union {None} /\ page[j].stateIn \in BOOLEAN
      BY DEF HostInv, HostTypes
    <3>5. \A j \in Slice : page'[j].slot # None => slot'[page'[j].slot].page = j
      <4> SUFFICES ASSUME NEW j \in Slice, page'[j].slot # None PROVE slot'[page'[j].slot].page = j
        OBVIOUS
      <4>1. CASE j = i BY <3>1, <4>1 DEF PagesAfter, SlotsAfter
      <4>2. CASE j # i
        <5>1. page'[j].slot = page[j].slot /\ j # slot[s].page BY <3>1, <4>2 DEF PagesAfter
        <5>2. page[j].slot # s /\ page[j].slot \in Slot /\ slot[page[j].slot].page = j
          BY <3>3, <3>4, <5>1 DEF Resident
        <5> QED BY <3>1, <5>1, <5>2 DEF SlotsAfter
      <4> QED BY <4>1, <4>2
    <3>6. \A t \in Slot : slot'[t].page # None => page'[slot'[t].page].slot = t
      <4> SUFFICES ASSUME NEW t \in Slot, slot'[t].page # None PROVE page'[slot'[t].page].slot = t
        OBVIOUS
      <4>1. CASE t = s BY <1>3, <3>1, <4>1 DEF PagesAfter, SlotsAfter
      <4>2. CASE t # s
        <5>1. slot'[t].page = slot[t].page BY <3>1, <4>2 DEF SlotsAfter
        <5>2. slot[t].page \in Slice /\ page[slot[t].page].slot = t
          BY <3>3, <5>1 DEF Resident, HostInv, HostTypes
        <5>3. slot[t].page # i BY <3>2, <4>2, <5>2, Numbers
        <5>4. slot[t].page # slot[s].page BY <3>3, <4>2, <5>1, <5>2 DEF Resident
        <5> QED BY <3>1, <5>1, <5>2, <5>3, <5>4 DEF PagesAfter
      <4> QED BY <4>1, <4>2
    <3>7. \A j \in Slice : page'[j].stateIn => page[j].adopted /\ page'[j].slot # None
      BY <3>1, <3>2, <3>3, <3>4 DEF PagesAfter, Adopted
    <3>8. Computing => /\ page'[at.slice].slot = page[at.slice].slot
                       /\ page[at.slice].stateIn => page'[at.slice].stateIn
      <4> SUFFICES ASSUME Computing
                   PROVE  /\ page'[at.slice].slot = page[at.slice].slot
                          /\ page[at.slice].stateIn => page'[at.slice].stateIn
        OBVIOUS
      <4>1. at.slice # i BY <1>2, <1>3 DEF Computing
      <4>2. page[at.slice].slot \in Slot /\ slot[page[at.slice].slot].busy
        BY <1>4, <3>3, <3>4 DEF Resident, InBatch, Computing
      <4>3. at.slice # slot[s].page BY <1>4, <3>1, <3>3, <4>2, Numbers DEF Resident
      <4> QED BY <1>4, <3>1, <4>1, <4>3 DEF PagesAfter
    <3>9. \A j \in Slice : page'[j].adopted = page[j].adopted BY <3>1 DEF PagesAfter
    <3>10. \A t \in Slot : slot'[t].busy = slot[t].busy BY <3>1 DEF SlotsAfter
    <3> QED BY <3>1, <3>5, <3>6, <3>7, <3>8, <3>9, <3>10
  <2> QED BY <1>1, <2>1, <2>2
<1> HIDE DEF Pages
<1>8. HostTypes' BY <1>1, <1>2, <1>7 DEF HostInv, HostTypes, Calls, Pages, PageType, SlotType
<1>9. Resident'
  <2>1. InBatch' => page'[at'.slice].slot # None
    BY <1>1, <1>2, <1>4, <1>7 DEF Pages, HostInv, Resident, InBatch, Computing
  <2>2. \A s \in Slot : slot'[s].busy <=> (Computing' /\ page'[at'.slice].slot = s)
    <3>1. CASE at.call = "first"
      <4>1. ~Computing /\ ~Computing' BY <1>2, <1>3, <1>4, <3>1 DEF Computing
      <4> QED BY <1>7, <4>1 DEF Pages, HostInv, Resident
    <3>2. CASE at.call = "fetch"
      <4>1. Computing /\ Computing' /\ at'.slice = at.slice BY <1>2, <1>4, <3>2 DEF Computing
      <4> QED BY <1>7, <4>1 DEF Pages, HostInv, Resident
    <3> QED BY <1>3, <3>1, <3>2
  <2> QED BY <1>1, <1>2, <1>7, <2>1, <2>2 DEF Pages, Resident
<1>10. Adopted'
  <2>1. /\ \A j \in Slice : page'[j].stateIn => page'[j].adopted /\ page'[j].slot # None
        /\ \A j \in Slice : page'[j].adopted => j \notin frozen' /\ mode' # "host"
    BY <1>1, <1>7 DEF Pages, HostInv, Adopted
  <2>2. ~grown' => \A j \in Slice : page'[j].adopted =>
          at'.leg = "backward" /\ (j > at'.slice \/ (j = at'.slice /\ at'.call \in {"submit", "end"}))
    <3> SUFFICES ASSUME ~grown, NEW j \in Slice, page[j].adopted
                 PROVE  at'.leg = "backward" /\ j > at'.slice
      BY <1>1, <1>7 DEF Pages
    <3>1. at.leg = "backward" /\ (j > at.slice \/ (j = at.slice /\ at.call \in {"submit", "end"}))
      BY DEF HostInv, Adopted
    <3>2. at.call = "fetch" BY <1>3, <3>1 DEF HostInv, Control
    <3> QED BY <1>2, <1>4, <3>1, <3>2
  <2>3. ASSUME NEW j \in Slice, page'[j].adopted,
               \/ at'.leg = "backward" /\ j = at'.slice /\ at'.call \in {"acquire", "fetch", "run", "release"}
               \/ HasTarget' /\ j = Target' /\ (at'.leg = "backward" \/ j = Last)
        PROVE  page'[j].stateIn
    <3>1. CASE j = i
      <4>1. page[i].adopted BY <1>7, <2>3, <3>1 DEF Pages
      <4>2. state BY <1>2, <2>3, <3>1
      <4> QED BY <1>1, <3>1, <4>1, <4>2
    <3>2. CASE j # i
      <4>1. at'.leg = "backward" /\ j = at'.slice BY <1>2, <2>3, <3>2
      <4>2. at'.call = "run" BY <1>2, <1>4, <3>2, <4>1
      <4>3. at.call = "fetch" /\ at.leg = "backward" /\ j = at.slice BY <1>2, <4>1, <4>2
      <4>4. page[j].stateIn BY <1>7, <2>3, <4>3 DEF Pages, HostInv, Adopted
      <4> QED BY <1>7, <4>3, <4>4 DEF Pages, Computing
    <3> QED BY <3>1, <3>2
  <2> QED BY <2>1, <2>2, <2>3 DEF Adopted
<1> QED BY <1>5, <1>6, <1>8, <1>9, <1>10 DEF HostInv

--------------------
(* The other actions of the host. *)

\* What a step keeps of pages and slots that it does not page in or out.
SamePages ==
  /\ page' \in [Slice -> PageType] /\ slot' \in [Slot -> SlotType]
  /\ \A j \in Slice : page'[j].slot = page[j].slot /\ (page'[j].stateIn <=> page[j].stateIn)
  /\ \A t \in Slot : slot'[t].page = slot[t].page /\ slot'[t].ready = slot[t].ready

LEMMA HostTyped ==
  ASSUME HostInv
  PROVE  /\ page \in [Slice -> PageType] /\ slot \in [Slot -> SlotType]
         /\ at.slice \in Slice /\ at.leg \in {"forward", "backward"} /\ at.call \in Calls
         /\ at = [leg |-> at.leg, slice |-> at.slice, call |-> at.call]
         /\ \A j \in Slice : page[j].slot \in Slot \union {None}
         /\ Computing => /\ page[at.slice].slot \in Slot /\ slot[page[at.slice].slot].page = at.slice
                         /\ slot[page[at.slice].slot].busy
         /\ InBatch => /\ page[at.slice].slot \in Slot /\ slot[page[at.slice].slot].page = at.slice
         /\ HasTarget => Target \in Slice /\ page[Target].slot \in Slot
<1>1. /\ page \in [Slice -> PageType] /\ slot \in [Slot -> SlotType]
      /\ at.slice \in Slice /\ at.leg \in {"forward", "backward"} /\ at.call \in Calls
      /\ at = [leg |-> at.leg, slice |-> at.slice, call |-> at.call]
  BY DEF HostInv, HostTypes, PageType, SlotType
<1>2. \A j \in Slice : page[j].slot \in Slot \union {None} BY <1>1 DEF PageType
<1>3. InBatch => /\ page[at.slice].slot \in Slot /\ slot[page[at.slice].slot].page = at.slice
  BY <1>1, <1>2 DEF HostInv, Resident
<1>4. Computing => InBatch BY DEF Computing, InBatch
<1>5. Computing => slot[page[at.slice].slot].busy BY <1>3, <1>4 DEF HostInv, Resident
<1>6. HasTarget => Target \in Slice
  <2>1. at.slice \in 1 .. NumSlices BY <1>1, Numbers
  <2>2. (InBatch /\ at.leg = "forward") => at.slice < NumSlices BY Numbers DEF HostInv, Control
  <2> QED BY <1>1, <2>1, <2>2, Numbers DEF HasTarget, Target, InBatch
<1>7. HasTarget => page[Target].slot \in Slot BY <1>2, <1>6 DEF HostInv, Resident
<1> QED BY <1>1, <1>2, <1>3, <1>4, <1>5, <1>6, <1>7

\* The slot of the slice that the program is at.
Own == page[at.slice].slot

LEMMA AcquireIs ==
  ASSUME HostInv, ops \in Nat, Acquire
  PROVE  /\ Own \in Slot /\ at.call = "acquire" /\ at' = Goto("fetch") /\ Returned(slot[Own].ready)
         /\ SamePages /\ page' = page
         /\ \A t \in Slot : /\ slot'[t].busy <=> (t = Own \/ slot[t].busy)
                            /\ slot'[t].free = slot[t].free /\ slot'[t].out = slot[t].out
         /\ queue' = Issued(Compute, Run({slot[Own].ready, slot[Own].out}, InSlot(Own), Now(at.slice, {}),
                                       IF at.leg = "backward" THEN Gradient(at.slice, 0) ELSE Now(at.slice, {})))
         /\ ops' = ops + 1 /\ mark' = ops + 1 /\ clock' = clock + 1
         /\ UNCHANGED <<mode, frozen, batch, page, grown, mem, latest>>
<1> DEFINE i == at.slice
           s == Own
<1>1. at.call = "acquire" /\ s # None /\ s \in Slot
  <2>1. at.call = "acquire" BY Zenon DEF Acquire
  <2> QED BY <2>1, HostTyped, Numbers DEF InBatch, Own
<1>2. /\ Returned(slot[s].ready)
      /\ slot' = [slot EXCEPT ![s].busy = TRUE, ![s].last = clock + 1]
      /\ clock' = clock + 1
      /\ queue' = Issued(Compute, Run({slot[s].ready, slot[s].out}, InSlot(s), Now(i, {}),
                                       IF at.leg = "backward" THEN Gradient(i, 0) ELSE Now(i, {})))
      /\ ops' = ops + 1 /\ mark' = ops + 1
      /\ at' = Goto("fetch")
      /\ UNCHANGED <<mode, frozen, batch, page, grown, mem, latest>>
  BY <1>1 DEF Acquire, config, Own
<1>3. /\ page \in [Slice -> PageType] /\ slot \in [Slot -> SlotType] /\ clock + 1 \in Nat
  BY HostTyped DEF HostInv, HostTypes
<1>4. /\ slot' \in [Slot -> SlotType]
      /\ \A t \in Slot : /\ slot'[t].busy <=> (t = s \/ slot[t].busy)
                         /\ slot'[t].free = slot[t].free /\ slot'[t].out = slot[t].out
                         /\ slot'[t].page = slot[t].page /\ slot'[t].ready = slot[t].ready
  <2> HIDE DEF s
  <2>1. ASSUME NEW t \in Slot
        PROVE  /\ slot'[t] \in SlotType
               /\ slot'[t].busy <=> (t = s \/ slot[t].busy)
               /\ slot'[t].free = slot[t].free /\ slot'[t].out = slot[t].out
               /\ slot'[t].page = slot[t].page /\ slot'[t].ready = slot[t].ready
    <3>1. slot[t] \in SlotType BY <1>2, <1>3
    <3>2. CASE t = s
      <4>1. slot'[t] = [slot[t] EXCEPT !.busy = TRUE, !.last = clock + 1] BY <1>2, <1>3, <3>2
      <4> QED BY <1>3, <3>1, <3>2, <4>1 DEF SlotType
    <3>3. CASE t # s BY <1>2, <1>3, <3>1, <3>3
    <3> QED BY <3>2, <3>3
  <2>2. slot' = [t \in Slot |-> slot'[t]] BY <1>2, <1>3
  <2>3. slot' \in [Slot -> SlotType] BY <2>1, <2>2
  <2> QED BY <2>1, <2>3
<1>5. SamePages BY <1>2, <1>3, <1>4 DEF SamePages
<1> QED BY <1>1, <1>2, <1>4, <1>5

LEMMA AcquireHost ==
  ASSUME HostInv, ops \in Nat, Acquire
  PROVE  HostInv'
<1>1. /\ Own \in Slot /\ at.call = "acquire" /\ at' = Goto("fetch")
      /\ SamePages /\ page' = page
      /\ \A t \in Slot : slot'[t].busy <=> (t = Own \/ slot[t].busy)
      /\ ops' = ops + 1 /\ mark' = ops + 1 /\ clock' = clock + 1
      /\ UNCHANGED <<mode, frozen, batch, page, grown, mem, latest>>
  BY AcquireIs
<1>2. /\ at' = [leg |-> at.leg, slice |-> at.slice, call |-> "fetch"]
      /\ at.slice \in Slice /\ at.leg \in {"forward", "backward"}
  BY <1>1, HostTyped DEF Goto
<1>3. at'.leg = at.leg /\ at'.slice = at.slice /\ at'.call = "fetch" BY <1>2
<1>4. HostTypes'
  <2>1. mark' \in Nat /\ clock' \in Nat BY <1>1 DEF HostInv, HostTypes
  <2>2. at' \in [leg : {"forward", "backward"}, slice : Slice, call : Calls] BY <1>2 DEF Calls
  <2> QED BY <1>1, <2>1, <2>2 DEF HostInv, HostTypes, SamePages, PageType, SlotType
<1>5. Control' BY <1>1, <1>3 DEF HostInv, Control, InBatch
<1>6. Resident'
  <2>1. ~Computing BY <1>1 DEF Computing
  <2>2. \A t \in Slot : slot'[t].busy <=> (Computing' /\ page'[at'.slice].slot = t)
    BY <1>1, <1>3, <2>1 DEF HostInv, Resident, Computing, Own
  <2>3. ~HasTarget' /\ (InBatch' => page'[at'.slice].slot # None)
    BY <1>1, <1>3, Numbers DEF InBatch, HasTarget, Own
  <2>4. /\ \A j \in Slice : page'[j].slot # None => slot'[page'[j].slot].page = j
        /\ \A t \in Slot : slot'[t].page # None => page'[slot'[t].page].slot = t
    <3>1. \A j \in Slice : page[j].slot \in Slot \union {None} BY HostTyped
    <3> QED BY <1>1, <3>1 DEF HostInv, Resident, SamePages
  <2> QED BY <2>2, <2>3, <2>4 DEF Resident
<1>7. Adopted' BY <1>1, <1>3 DEF HostInv, Adopted, HasTarget
<1>8. Counts'
  <2>1. \A j \in Slice : (Ran(j)' <=> Ran(j)) /\ (RanBack(j)' <=> RanBack(j))
    BY <1>1, <1>3 DEF Ran, RanBack
  <2> QED BY <1>1, <1>3, <2>1 DEF HostInv, Counts
<1> QED BY <1>4, <1>5, <1>6, <1>7, <1>8 DEF HostInv

LEMMA PrefetchNothing ==
  ASSUME HostInv, at.call = "fetch", at.leg = "backward", at.slice = 1, at' = Goto("run"),
         UNCHANGED <<config, batch, page, slot, grown, clock, mem, queue, ops, mark, latest>>
  PROVE  HostInv'
<1>1. /\ at' = [leg |-> at.leg, slice |-> at.slice, call |-> "run"]
      /\ UNCHANGED <<mode, frozen, batch, page, slot, grown, clock, mem, queue, ops, mark, latest>>
  BY HostTyped DEF Goto, config
<1>2. at'.leg = at.leg /\ at'.slice = at.slice /\ at'.call = "run" BY <1>1
<1>3. HostTypes' BY <1>1 DEF HostInv, HostTypes, Calls
<1>4. Control' BY <1>1, <1>2 DEF HostInv, Control, InBatch
<1>5. Resident' BY <1>1, <1>2 DEF HostInv, Resident, InBatch, HasTarget, Computing
<1>6. Adopted' BY <1>1, <1>2 DEF HostInv, Adopted, HasTarget
<1>7. Counts'
  <2>1. \A j \in Slice : (Ran(j)' <=> Ran(j)) /\ (RanBack(j)' <=> RanBack(j))
    BY <1>1, <1>2 DEF Ran, RanBack
  <2> QED BY <1>1, <1>2, <2>1 DEF HostInv, Counts
<1> QED BY <1>3, <1>4, <1>5, <1>6, <1>7 DEF HostInv

\* What a pass updates.
Updates == IF at.leg = "forward" THEN {"b"} ELSE BackwardUpdates(at.slice)

LEMMA PassIs ==
  ASSUME HostInv, Pass
  PROVE  /\ at.call = "run" /\ at' = Goto("release")
         /\ Updates \subseteq {"p", "b", "s"}
         /\ \A j \in Slice, r \in {"p", "b", "s"} :
              latest'[j][r] = IF j = at.slice /\ r \in Updates THEN latest[j][r] + 1 ELSE latest[j][r]
         /\ latest' \in [Slice -> [{"p", "b", "s"} -> Nat]]
         /\ ops' = ops + 1 /\ mark' = ops + 1
         /\ UNCHANGED <<mode, frozen, batch, page, slot, grown, clock, mem>>
<1> DEFINE i == at.slice
<1>1. /\ at.call = "run" /\ at' = Goto("release") /\ Counted(i, Updates)
      /\ ops' = ops + 1 /\ mark' = ops + 1
      /\ UNCHANGED <<mode, frozen, batch, page, slot, grown, clock, mem>>
  BY DEF Pass, config, Updates
<1>2. i \in Slice /\ latest \in [Slice -> [{"p", "b", "s"} -> Nat]]
  BY HostTyped DEF HostInv, HostTypes
<1>3. latest' = [latest EXCEPT ![i] = [r \in {"p", "b", "s"} |-> IF r \in Updates THEN latest[i][r] + 1 ELSE latest[i][r]]]
  BY <1>1 DEF Counted
<1>4. Updates \subseteq {"p", "b", "s"} BY DEF BackwardUpdates, Updates
<1>5. latest' \in [Slice -> [{"p", "b", "s"} -> Nat]] BY <1>2, <1>3
<1>6. \A j \in Slice, r \in {"p", "b", "s"} :
        latest'[j][r] = IF j = at.slice /\ r \in Updates THEN latest[j][r] + 1 ELSE latest[j][r]
  BY <1>2, <1>3
<1> QED BY <1>1, <1>2, <1>4, <1>5, <1>6

LEMMA PassHost ==
  ASSUME HostInv, ops \in Nat, Pass
  PROVE  HostInv'
<1> DEFINE i == at.slice
<1>1. /\ at.call = "run" /\ at' = Goto("release")
      /\ \A j \in Slice, r \in {"p", "b", "s"} :
              latest'[j][r] = IF j = at.slice /\ r \in Updates THEN latest[j][r] + 1 ELSE latest[j][r]
      /\ latest' \in [Slice -> [{"p", "b", "s"} -> Nat]]
      /\ ops' = ops + 1 /\ mark' = ops + 1
      /\ UNCHANGED <<mode, frozen, batch, page, slot, grown, clock, mem>>
  BY PassIs
<1>2. /\ at' = [leg |-> at.leg, slice |-> at.slice, call |-> "release"]
      /\ at.slice \in Slice /\ at.leg \in {"forward", "backward"}
  BY <1>1, HostTyped DEF Goto
<1>3. at'.leg = at.leg /\ at'.slice = at.slice /\ at'.call = "release" BY <1>2
<1>4. HostTypes'
  <2>1. mark' \in Nat BY <1>1
  <2>2. at' \in [leg : {"forward", "backward"}, slice : Slice, call : Calls] BY <1>2 DEF Calls
  <2> QED BY <1>1, <2>1, <2>2 DEF HostInv, HostTypes
<1>5. Control' BY <1>1, <1>3 DEF HostInv, Control, InBatch
<1>6. HasTarget' = HasTarget /\ (HasTarget => Target' = Target)
  BY <1>1, <1>3 DEF HasTarget, Target
<1>7. Resident' BY <1>1, <1>3, <1>6 DEF HostInv, Resident, InBatch, Computing
<1>8. Adopted' BY <1>1, <1>3, <1>6 DEF HostInv, Adopted
<1>9. Counts'
  <2> SUFFICES ASSUME NEW j \in Slice
               PROVE  /\ latest'[j]["b"] <= batch + (IF Ran(j)' THEN 1 ELSE 0)
                      /\ latest'[j]["p"] <= batch + (IF RanBack(j)' THEN 1 ELSE 0)
                      /\ latest'[j]["s"] <= batch + (IF RanBack(j)' THEN 1 ELSE 0)
                      /\ (mode = "host" /\ j = at.slice) => latest'[j]["p"] <= batch
    BY <1>1, <1>3 DEF Counts
  <2>1. /\ latest[j]["b"] <= batch + (IF Ran(j) THEN 1 ELSE 0)
        /\ latest[j]["p"] <= batch + (IF RanBack(j) THEN 1 ELSE 0)
        /\ latest[j]["s"] <= batch + (IF RanBack(j) THEN 1 ELSE 0)
    BY DEF HostInv, Counts
  <2>2. latest[j]["b"] \in Nat /\ latest[j]["p"] \in Nat /\ latest[j]["s"] \in Nat /\ batch \in Nat
    <3>1. latest[j] \in [{"p", "b", "s"} -> Nat] /\ batch \in 0 .. NumBatches
      BY DEF HostInv, HostTypes
    <3> QED BY <3>1, Numbers
  <2>3. j \in 1 .. NumSlices /\ at.slice \in 1 .. NumSlices /\ Last = NumSlices BY <1>2, Numbers
  <2>4. \A r \in {"p", "b", "s"} :
           latest'[j][r] = IF j = at.slice /\ r \in Updates THEN latest[j][r] + 1 ELSE latest[j][r]
    BY <1>1
  <2>5. (Ran(j) => Ran(j)') /\ (RanBack(j) => RanBack(j)') BY <1>1, <1>3, <2>3 DEF Ran, RanBack
  <2>6. CASE j # i BY <2>1, <2>2, <2>4, <2>5, <2>6
  <2>7. CASE j = i
    <3>1. ~RanBack(j) BY <1>1, <2>3, <2>7 DEF RanBack
    <3>2. /\ latest[j]["p"] <= batch /\ latest[j]["s"] <= batch BY <2>1, <2>2, <3>1
    <3>3. CASE at.leg = "forward"
      <4>1. ~Ran(j) /\ Ran(j)' BY <1>1, <1>3, <2>3, <2>7, <3>3 DEF Ran
      <4>2. latest'[j]["b"] = latest[j]["b"] + 1 /\ latest'[j]["p"] = latest[j]["p"] /\ latest'[j]["s"] = latest[j]["s"]
        BY <2>4, <2>7, <3>3 DEF Updates
      <4> QED BY <2>1, <2>2, <2>5, <3>1, <3>2, <4>1, <4>2
    <3>4. CASE at.leg = "backward"
      <4>1. Ran(j)' /\ RanBack(j)' BY <1>1, <1>3, <2>3, <2>7, <3>4 DEF Ran, RanBack
      <4>2. "b" \in Updates => ~Ran(j)
        <5>1. "b" \in Updates => j = Last BY <2>7, <3>4 DEF BackwardUpdates, Updates
        <5> QED BY <1>1, <2>3, <2>7, <3>4, <5>1 DEF Ran
      <4>3. latest'[j]["b"] <= batch + 1 BY <2>1, <2>2, <2>4, <4>2
      <4>4. latest'[j]["p"] <= batch + 1 /\ latest'[j]["s"] <= batch + 1 BY <2>2, <2>4, <3>2
      <4>5. mode = "host" => latest'[j]["p"] <= batch
        <5>1. mode = "host" => "p" \notin Updates
          BY <3>4 DEF BackwardUpdates, StateOnDevice, Updates
        <5> QED BY <2>4, <3>2, <5>1
      <4> QED BY <2>7, <4>1, <4>3, <4>4, <4>5
    <3> QED BY <1>2, <3>3, <3>4
  <2> QED BY <2>6, <2>7
<1> QED BY <1>4, <1>5, <1>7, <1>8, <1>9 DEF HostInv

LEMMA Advances ==
  ASSUME HostInv, at.call \in {"release", "submit"}, at' = NextCall, mode' = mode, batch' = batch
  PROVE  /\ at' \in [leg : {"forward", "backward"}, slice : Slice, call : Calls]
         /\ Control' /\ ~Computing' /\ at'.call \in {"acquire", "end"}
         /\ HasTarget' <=> HasTarget
         /\ HasTarget => Target' = Target /\ at'.slice = Target
         /\ InBatch' <=> HasTarget
         /\ \A j \in Slice :
              /\ Ran(j) => Ran(j)'
              /\ (RanBack(j) \/ (j = at.slice /\ at.leg = "backward")) => RanBack(j)'
              /\ (at.leg = "backward" /\ (j > at.slice \/ j = at.slice)) =>
                   (at'.leg = "backward" /\ (j > at'.slice \/ (j = at'.slice /\ at'.call \in {"submit", "end"})))
              /\ \/ at'.leg = "backward" /\ j = at'.slice /\ at'.call \in {"acquire", "fetch", "run", "release"}
                 \/ HasTarget' /\ j = Target' /\ (at'.leg = "backward" \/ j = Last)
                 => HasTarget /\ j = Target /\ (at.leg = "backward" \/ j = Last)
<1>1. /\ at.slice \in 1 .. NumSlices /\ at.leg \in {"forward", "backward"} /\ Last = NumSlices
      /\ at.leg = "forward" => at.slice < NumSlices
      /\ NumSlices \in Nat \ {0} /\ Slice = 1 .. NumSlices
  BY Numbers DEF HostInv, HostTypes, Control, InBatch
<1>2. /\ at' \in [leg : {"forward", "backward"}, slice : Slice, call : {"acquire", "end"}]
      /\ at'.call = "end" <=> ~HasTarget
      /\ HasTarget => at'.slice = Target
      /\ at'.leg = "forward" => at.leg = "forward" /\ at'.slice < Last
      /\ (at.leg = "forward" /\ at'.leg = "backward") => at'.slice = Last
      /\ at'.call = "end" => at'.leg = "backward" /\ at'.slice = 1 /\ at.slice = 1
      /\ (at'.leg = "backward" /\ at'.slice = Last /\ at'.call = "acquire") => at.leg = "forward"
  BY NextCallIs
<1>3. at'.slice \in 1 .. NumSlices /\ at'.leg \in {"forward", "backward"} /\ at'.call \in {"acquire", "end"}
  BY <1>1, <1>2
<1>4. at' \in [leg : {"forward", "backward"}, slice : Slice, call : Calls] BY <1>2 DEF Calls
<1>5. ~Computing' /\ (InBatch' <=> HasTarget) /\ (HasTarget' <=> HasTarget)
  BY <1>2, <1>3 DEF Computing, InBatch, HasTarget
<1>6. HasTarget => Target' = Target /\ at'.slice = Target BY <1>2, <1>3 DEF Target
<1>7. Control'
  <2>1. batch < NumBatches BY DEF HostInv, Control
  <2> QED BY <1>2, <1>3, <2>1 DEF Control, InBatch
<1>8. HasTarget => Target = IF at.leg = "forward" THEN at.slice + 1 ELSE at.slice - 1
  BY DEF Target
<1>9. at.leg = "forward" => HasTarget BY DEF HasTarget
<1>10. ASSUME NEW j \in Slice
       PROVE  /\ Ran(j) => Ran(j)'
              /\ (RanBack(j) \/ (j = at.slice /\ at.leg = "backward")) => RanBack(j)'
              /\ (at.leg = "backward" /\ (j > at.slice \/ j = at.slice)) =>
                   (at'.leg = "backward" /\ (j > at'.slice \/ (j = at'.slice /\ at'.call \in {"submit", "end"})))
              /\ \/ at'.leg = "backward" /\ j = at'.slice /\ at'.call \in {"acquire", "fetch", "run", "release"}
                 \/ HasTarget' /\ j = Target' /\ (at'.leg = "backward" \/ j = Last)
                 => HasTarget /\ j = Target /\ (at.leg = "backward" \/ j = Last)
  <2>1. j \in 1 .. NumSlices BY <1>1
  <2>2. (at.leg = "backward" /\ (j > at.slice \/ j = at.slice)) =>
          (at'.leg = "backward" /\ (j > at'.slice \/ (j = at'.slice /\ at'.call \in {"submit", "end"})))
    BY <1>1, <1>2, <1>3, <1>8, <2>1
  <2>3. (RanBack(j) \/ (j = at.slice /\ at.leg = "backward")) => RanBack(j)' BY <2>2 DEF RanBack
  <2>4. Ran(j) => Ran(j)'
    <3> SUFFICES ASSUME Ran(j) PROVE Ran(j)'
      OBVIOUS
    <3>1. CASE at.leg = "forward"
      <4>1. j <= at.slice /\ at'.slice = at.slice + 1 /\ at'.call = "acquire"
        BY <1>1, <1>2, <1>3, <1>8, <1>9, <2>1, <3>1 DEF Ran
      <4> QED BY <1>1, <1>2, <1>3, <2>1, <3>1, <4>1 DEF Ran
    <3>2. CASE at.leg = "backward"
      <4>1. at'.leg = "backward" BY <1>2, <1>3, <3>2
      <4>2. at'.call = "end" \/ at'.slice < Last BY <1>1, <1>2, <1>3, <3>2, <4>1
      <4> QED BY <1>1, <1>3, <2>1, <4>1, <4>2 DEF Ran
    <3> QED BY <1>1, <3>1, <3>2
  <2>5. \/ at'.leg = "backward" /\ j = at'.slice /\ at'.call \in {"acquire", "fetch", "run", "release"}
        \/ HasTarget' /\ j = Target' /\ (at'.leg = "backward" \/ j = Last)
        => HasTarget /\ j = Target /\ (at.leg = "backward" \/ j = Last)
    BY <1>1, <1>2, <1>3, <1>5, <1>6
  <2> QED BY <2>2, <2>3, <2>4, <2>5
<1> QED BY <1>2, <1>3, <1>4, <1>5, <1>6, <1>7, <1>10

\* release() gives the optimizer state a home.
Adopts == at.leg = "backward" /\ Trains(at.slice) /\ ~page[at.slice].adopted

LEMMA ReleaseIs ==
  ASSUME HostInv, ops \in Nat, Release
  PROVE  /\ Own \in Slot /\ at.call = "release" /\ (at.leg = "forward" \/ mode # "host")
         /\ Adopts => queue[Compute] = <<>>
         /\ mem' = IF Adopts THEN Put(Home(at.slice), Now(at.slice, {"s"})) ELSE mem
         /\ at' = IF mode = "disk" THEN Goto("submit") ELSE NextCall
         /\ SamePages
         /\ \A t \in Slot : /\ slot'[t].busy <=> (t # Own /\ slot[t].busy)
                            /\ slot'[t].free = IF t = Own THEN mark ELSE slot[t].free
                            /\ slot'[t].out = IF t = Own THEN ops + 1 ELSE slot[t].out
         /\ \A j \in Slice : /\ page'[j].adopted <=> (page[j].adopted \/ (j = at.slice /\ Adopts))
                             /\ page'[j].homeReady = page[j].homeReady
                             /\ page'[j].homeEv = IF j = at.slice /\ mode # "disk" THEN ops + 1 ELSE page[j].homeEv
         /\ queue' = Issued(D2H, Copy({mark}, InSlot(Own), IF mode = "disk" THEN Staging(Own) ELSE Home(at.slice),
                                      Now(at.slice, Changed(at.slice))))
         /\ ops' = ops + 1
         /\ UNCHANGED <<mode, frozen, batch, grown, clock, mark, latest>>
<1> DEFINE i == at.slice
           s == Own
<1>1. at.call = "release" /\ s \in Slot /\ i \in Slice BY HostTyped DEF Release, Own, InBatch
<1>2. /\ at.leg = "forward" \/ mode # "host"
      /\ Adopts => queue[Compute] = <<>>
      /\ mem' = IF Adopts THEN Put(Home(at.slice), Now(at.slice, {"s"})) ELSE mem
      /\ slot' = [slot EXCEPT ![s].busy = FALSE, ![s].free = mark, ![s].out = ops + 1]
      /\ ops' = ops + 1
      /\ UNCHANGED <<mode, frozen, batch, grown, clock, mark, latest>>
  BY DEF Release, Released, Own, Adopts, config
<1>3. /\ at' = IF mode = "disk" THEN Goto("submit") ELSE NextCall
      /\ queue' = Issued(D2H, Copy({mark}, InSlot(Own), IF mode = "disk" THEN Staging(Own) ELSE Home(at.slice),
                                   Now(at.slice, Changed(at.slice))))
  BY DEF Release, Own
<1>4. page' = IF mode = "disk" THEN [page EXCEPT ![i].adopted = @ \/ Adopts]
              ELSE [page EXCEPT ![i].adopted = @ \/ Adopts, ![i].homeEv = ops + 1]
  <2>1. CASE mode = "disk" BY <2>1, Zenon DEF Release, Adopts
  <2>2. CASE mode # "disk" BY <2>2, Zenon DEF Release, Adopts
  <2> QED BY <2>1, <2>2
<1>5. /\ page \in [Slice -> PageType] /\ slot \in [Slot -> SlotType] /\ mark \in Nat /\ ops + 1 \in Nat
  BY HostTyped DEF HostInv, HostTypes
<1> HIDE DEF i, s
<1>6. ASSUME NEW t \in Slot
      PROVE  /\ slot'[t] \in SlotType
             /\ slot'[t].busy <=> (t # s /\ slot[t].busy)
             /\ slot'[t].free = IF t = s THEN mark ELSE slot[t].free
             /\ slot'[t].out = IF t = s THEN ops + 1 ELSE slot[t].out
             /\ slot'[t].page = slot[t].page /\ slot'[t].ready = slot[t].ready
  <2>1. slot[t] \in SlotType BY <1>5
  <2>2. CASE t = s
    <3>1. slot'[t] = [slot[t] EXCEPT !.busy = FALSE, !.free = mark, !.out = ops + 1]
      BY <1>2, <1>5, <2>2
    <3> QED BY <1>5, <2>1, <2>2, <3>1 DEF SlotType
  <2>3. CASE t # s BY <1>2, <1>5, <2>1, <2>3
  <2> QED BY <2>2, <2>3
<1>7. slot' = [t \in Slot |-> slot'[t]] BY <1>2, <1>5
<1>8. slot' \in [Slot -> SlotType] BY <1>6, <1>7
<1> DEFINE b == page[i].adopted \/ Adopts
<1>9. b \in BOOLEAN /\ (b <=> (page[i].adopted \/ Adopts)) OBVIOUS
<1>10. page' = IF mode = "disk" THEN [page EXCEPT ![i].adopted = b]
               ELSE [page EXCEPT ![i].adopted = b, ![i].homeEv = ops + 1]
  BY <1>1, <1>4, <1>5, Zenon
<1> HIDE DEF b
<1>11. ASSUME NEW j \in Slice
       PROVE  /\ page'[j] \in PageType
              /\ page'[j].adopted <=> IF j = i THEN b ELSE page[j].adopted
              /\ page'[j].slot = page[j].slot /\ (page'[j].stateIn <=> page[j].stateIn)
              /\ page'[j].homeReady = page[j].homeReady
              /\ page'[j].homeEv = IF j = i /\ mode # "disk" THEN ops + 1 ELSE page[j].homeEv
  <2>1. page[j] \in PageType BY <1>5
  <2>2. CASE j = i
    <3>1. page'[j] = [page[j] EXCEPT !.adopted = b, !.homeEv = IF mode = "disk" THEN @ ELSE ops + 1]
      BY <1>5, <1>10, <2>1, <2>2 DEF PageType
    <3>2. page'[j] = [slot |-> page[j].slot, stateIn |-> page[j].stateIn, adopted |-> b,
                      homeReady |-> page[j].homeReady, homeEv |-> IF mode = "disk" THEN page[j].homeEv ELSE ops + 1]
      BY <2>1, <3>1 DEF PageType
    <3>3. page'[j] \in PageType BY <1>5, <1>9, <2>1, <3>2 DEF PageType
    <3> QED BY <2>2, <3>2, <3>3
  <2>3. CASE j # i BY <1>5, <1>10, <2>1, <2>3
  <2> QED BY <2>2, <2>3
<1>12. page' = [j \in Slice |-> page'[j]] BY <1>5, <1>10
<1>13. page' \in [Slice -> PageType] BY <1>11, <1>12
<1>14. SamePages BY <1>6, <1>8, <1>11, <1>13 DEF SamePages
<1>15. \A j \in Slice : page'[j].adopted <=> (page[j].adopted \/ (j = at.slice /\ Adopts))
  BY <1>9, <1>11 DEF i
<1> QED BY <1>1, <1>2, <1>3, <1>6, <1>11, <1>14, <1>15 DEF i, s

LEMMA ReleaseHost ==
  ASSUME HostInv, ops \in Nat, Release
  PROVE  HostInv'
<1>1. /\ Own \in Slot /\ at.call = "release" /\ (at.leg = "forward" \/ mode # "host")
      /\ at' = IF mode = "disk" THEN Goto("submit") ELSE NextCall
      /\ SamePages
      /\ \A t \in Slot : slot'[t].busy <=> (t # Own /\ slot[t].busy)
      /\ \A j \in Slice : page'[j].adopted <=> (page[j].adopted \/ (j = at.slice /\ Adopts))
      /\ UNCHANGED <<mode, frozen, batch, grown, clock, mark, latest>>
  BY ReleaseIs
<1>2. /\ at.slice \in Slice /\ at.leg \in {"forward", "backward"}
      /\ at.slice \in 1 .. NumSlices
  BY HostTyped, Numbers
<1> DEFINE Moved ==
      /\ at' \in [leg : {"forward", "backward"}, slice : Slice, call : Calls]
      /\ Control' /\ ~Computing' /\ at'.call # "release"
      /\ HasTarget' <=> HasTarget
      /\ HasTarget => Target' = Target
      /\ InBatch' => page[at'.slice].slot # None
      /\ \A j \in Slice :
           /\ Ran(j) => Ran(j)'
           /\ RanBack(j) => RanBack(j)'
           /\ (at.leg = "backward" /\ (j > at.slice \/ j = at.slice)) =>
                (at'.leg = "backward" /\ (j > at'.slice \/ (j = at'.slice /\ at'.call \in {"submit", "end"})))
           /\ \/ at'.leg = "backward" /\ j = at'.slice /\ at'.call \in {"acquire", "fetch", "run", "release"}
              \/ HasTarget' /\ j = Target' /\ (at'.leg = "backward" \/ j = Last)
              => HasTarget /\ j = Target /\ (at.leg = "backward" \/ j = Last)
<1>3. Moved
  <2>1. CASE mode = "disk"
    <3>1. at' = [leg |-> at.leg, slice |-> at.slice, call |-> "submit"]
      BY <1>1, <2>1, HostTyped DEF Goto
    <3>2. at'.leg = at.leg /\ at'.slice = at.slice /\ at'.call = "submit" BY <3>1
    <3>3. Control' /\ ~Computing' BY <1>1, <2>1, <3>2 DEF HostInv, Control, InBatch, Computing
    <3>4. (HasTarget' <=> HasTarget) /\ (HasTarget => Target' = Target)
      BY <1>1, <3>2 DEF HasTarget, Target
    <3>5. InBatch' => page[at'.slice].slot # None BY <1>1, <3>2 DEF HostInv, Resident, InBatch
    <3>6. \A j \in Slice : (Ran(j) => Ran(j)') /\ (RanBack(j) => RanBack(j)')
      BY <1>1, <3>2 DEF Ran, RanBack
    <3>7. at' \in [leg : {"forward", "backward"}, slice : Slice, call : Calls]
      BY <1>2, <3>1 DEF Calls
    <3> QED BY <3>2, <3>3, <3>4, <3>5, <3>6, <3>7
  <2>2. CASE mode # "disk"
    <3>1. at' = NextCall BY <1>1, <2>2
    <3>2. /\ at' \in [leg : {"forward", "backward"}, slice : Slice, call : Calls]
          /\ Control' /\ ~Computing' /\ at'.call \in {"acquire", "end"}
          /\ HasTarget' <=> HasTarget
          /\ HasTarget => Target' = Target /\ at'.slice = Target
          /\ InBatch' <=> HasTarget
          /\ \A j \in Slice :
               /\ Ran(j) => Ran(j)'
               /\ (RanBack(j) \/ (j = at.slice /\ at.leg = "backward")) => RanBack(j)'
               /\ (at.leg = "backward" /\ (j > at.slice \/ j = at.slice)) =>
                    (at'.leg = "backward" /\ (j > at'.slice \/ (j = at'.slice /\ at'.call \in {"submit", "end"})))
               /\ \/ at'.leg = "backward" /\ j = at'.slice /\ at'.call \in {"acquire", "fetch", "run", "release"}
                  \/ HasTarget' /\ j = Target' /\ (at'.leg = "backward" \/ j = Last)
                  => HasTarget /\ j = Target /\ (at.leg = "backward" \/ j = Last)
      BY <1>1, <3>1, Advances
    <3>3. InBatch' => page[at'.slice].slot # None BY <3>2 DEF HostInv, Resident
    <3> QED BY <3>2, <3>3
  <2> QED BY <2>1, <2>2
<1> HIDE DEF Moved
<1>4. HostTypes' BY <1>1, <1>3 DEF HostInv, HostTypes, SamePages, PageType, SlotType, Moved
<1>5. Resident'
  <2>1. /\ \A j \in Slice : page'[j].slot # None => slot'[page'[j].slot].page = j
        /\ \A t \in Slot : slot'[t].page # None => page'[slot'[t].page].slot = t
    <3>1. \A j \in Slice : page[j].slot \in Slot \union {None} BY HostTyped
    <3>2. \A t \in Slot : slot[t].page \in Slice \union {None} BY HostTyped DEF SlotType
    <3> QED BY <1>1, <3>1, <3>2 DEF HostInv, Resident, SamePages
  <2>2. \A t \in Slot : ~slot'[t].busy BY <1>1 DEF HostInv, Resident, Own
  <2>3. InBatch' => page'[at'.slice].slot # None BY <1>1, <1>3 DEF Moved, SamePages
  <2>4. HasTarget' => page'[Target'].slot # None
    BY <1>1, <1>3, HostTyped, Numbers DEF Moved, SamePages
  <2> QED BY <1>3, <2>1, <2>2, <2>3, <2>4 DEF Resident, Moved
<1>6. Adopted'
  <2>1. \A j \in Slice : page[j].stateIn => page[j].adopted /\ page[j].slot # None
    BY DEF HostInv, Adopted
  <2>2. \A j \in Slice : page'[j].stateIn => page'[j].adopted /\ page'[j].slot # None
    BY <1>1, <2>1 DEF SamePages
  <2>3. \A j \in Slice : page'[j].adopted => j \notin frozen' /\ mode' # "host"
    <3>1. Adopts => at.slice \notin frozen /\ mode # "host" BY <1>1 DEF Adopts, Trains
    <3> QED BY <1>1, <3>1 DEF HostInv, Adopted
  <2>4. ~grown' => \A j \in Slice : page'[j].adopted =>
          at'.leg = "backward" /\ (j > at'.slice \/ (j = at'.slice /\ at'.call \in {"submit", "end"}))
    <3> SUFFICES ASSUME ~grown, NEW j \in Slice, page'[j].adopted
                 PROVE  at'.leg = "backward" /\ (j > at'.slice \/ (j = at'.slice /\ at'.call \in {"submit", "end"}))
      BY <1>1
    <3>1. at.leg = "backward" /\ (j > at.slice \/ j = at.slice)
      BY <1>1 DEF HostInv, Adopted, Adopts
    <3> QED BY <1>3, <3>1 DEF Moved
  <2>5. ASSUME NEW j \in Slice, page'[j].adopted,
               \/ at'.leg = "backward" /\ j = at'.slice /\ at'.call \in {"acquire", "fetch", "run", "release"}
               \/ HasTarget' /\ j = Target' /\ (at'.leg = "backward" \/ j = Last)
        PROVE  page'[j].stateIn
    <3>1. HasTarget /\ j = Target /\ (at.leg = "backward" \/ j = Last) BY <1>3, <2>5 DEF Moved
    <3>2. j # at.slice BY <1>1, <1>2, <3>1 DEF Target
    <3>3. page[j].stateIn BY <1>1, <2>5, <3>1, <3>2 DEF HostInv, Adopted
    <3> QED BY <1>1, <3>3 DEF SamePages
  <2> QED BY <2>2, <2>3, <2>4, <2>5 DEF Adopted
<1>7. Counts'
  <2> SUFFICES ASSUME NEW j \in Slice
               PROVE  /\ latest[j]["b"] <= batch + (IF Ran(j)' THEN 1 ELSE 0)
                      /\ latest[j]["p"] <= batch + (IF RanBack(j)' THEN 1 ELSE 0)
                      /\ latest[j]["s"] <= batch + (IF RanBack(j)' THEN 1 ELSE 0)
    BY <1>1, <1>3 DEF Counts, Moved
  <2>1. /\ latest[j]["b"] <= batch + (IF Ran(j) THEN 1 ELSE 0)
        /\ latest[j]["p"] <= batch + (IF RanBack(j) THEN 1 ELSE 0)
        /\ latest[j]["s"] <= batch + (IF RanBack(j) THEN 1 ELSE 0)
    BY DEF HostInv, Counts
  <2>2. (Ran(j) => Ran(j)') /\ (RanBack(j) => RanBack(j)') BY <1>3 DEF Moved
  <2>3. latest[j]["b"] \in Nat /\ latest[j]["p"] \in Nat /\ latest[j]["s"] \in Nat /\ batch \in Nat
    <3>1. latest[j] \in [{"p", "b", "s"} -> Nat] /\ batch \in 0 .. NumBatches
      BY DEF HostInv, HostTypes
    <3> QED BY <3>1, Numbers
  <2> QED BY <2>1, <2>2, <2>3
<1>8. Control' BY <1>3 DEF Moved
<1> QED BY <1>4, <1>5, <1>6, <1>7, <1>8 DEF HostInv

LEMMA SubmitIs ==
  ASSUME HostInv, ops \in Nat, Submit
  PROVE  /\ Own \in Slot /\ at.call = "submit" /\ mode = "disk" /\ at' = NextCall
         /\ Returned(page[at.slice].homeReady)
         /\ SamePages /\ slot' = slot
         /\ \A j \in Slice : /\ page'[j].adopted = page[j].adopted /\ page'[j].homeEv = page[j].homeEv
                             /\ page'[j].homeReady = IF j = at.slice THEN ops + 1 ELSE page[j].homeReady
         /\ queue' = Issued(Lane(Own), Copy({slot[Own].out}, Staging(Own), Home(at.slice),
                                           Now(at.slice, Changed(at.slice))))
         /\ ops' = ops + 1
         /\ UNCHANGED <<mode, frozen, batch, grown, clock, mem, mark, latest>>
<1>1. at.call = "submit" /\ Own \in Slot /\ at.slice \in Slice /\ mode = "disk"
  BY HostTyped DEF Submit, Own, InBatch, HostInv, Control
<1>2. /\ Returned(page[at.slice].homeReady)
      /\ queue' = Issued(Lane(Own), Copy({slot[Own].out}, Staging(Own), Home(at.slice),
                                        Now(at.slice, Changed(at.slice))))
      /\ page' = [page EXCEPT ![at.slice].homeReady = ops + 1]
      /\ ops' = ops + 1 /\ at' = NextCall
      /\ UNCHANGED <<mode, frozen, batch, slot, grown, clock, mem, mark, latest>>
  BY DEF Submit, Own, config
<1>3. /\ page \in [Slice -> PageType] /\ slot \in [Slot -> SlotType] /\ ops + 1 \in Nat
  BY HostTyped
<1>4. ASSUME NEW j \in Slice
      PROVE  /\ page'[j] \in PageType
             /\ page'[j].slot = page[j].slot /\ (page'[j].stateIn <=> page[j].stateIn)
             /\ page'[j].adopted = page[j].adopted /\ page'[j].homeEv = page[j].homeEv
             /\ page'[j].homeReady = IF j = at.slice THEN ops + 1 ELSE page[j].homeReady
  <2>1. page[j] \in PageType BY <1>3
  <2>2. CASE j = at.slice
    <3>1. page'[j] = [page[j] EXCEPT !.homeReady = ops + 1] BY <1>1, <1>2, <1>3, <2>2
    <3> QED BY <1>3, <2>1, <2>2, <3>1 DEF PageType
  <2>3. CASE j # at.slice BY <1>2, <1>3, <2>1, <2>3
  <2> QED BY <2>2, <2>3
<1>5. page' = [j \in Slice |-> page'[j]] BY <1>2, <1>3
<1>6. page' \in [Slice -> PageType] BY <1>4, <1>5
<1>7. SamePages BY <1>2, <1>3, <1>4, <1>6 DEF SamePages
<1> QED BY <1>1, <1>2, <1>4, <1>7

\* The last action of the program for a slice in one leg of the batch.
LEMMA AdvanceHost ==
  ASSUME HostInv, at.call \in {"release", "submit"}, at' = NextCall,
         UNCHANGED <<mode, frozen, batch, grown, clock, mark>>,
         page' \in [Slice -> PageType], slot' \in [Slot -> SlotType],
         \A j \in Slice : page'[j].slot \in {page[j].slot, None},
         \A j \in Slice : page'[j].slot = None /\ page[j].slot # None => j = at.slice,
         \A j \in Slice : /\ page'[j].adopted = page[j].adopted
                          /\ page'[j].stateIn => page[j].stateIn /\ page'[j].slot # None,
         \A j \in Slice : page[j].stateIn /\ page'[j].slot # None => page'[j].stateIn,
         \A t \in Slot : slot'[t].page = IF slot[t].page \in Slice /\ page'[slot[t].page].slot = None
                                         THEN None ELSE slot[t].page,
         \A t \in Slot : ~slot'[t].busy,
         latest' \in [Slice -> [{"p", "b", "s"} -> Nat]], Counts'
  PROVE  HostInv'
<1>1. /\ at' \in [leg : {"forward", "backward"}, slice : Slice, call : Calls]
      /\ Control' /\ ~Computing' /\ at'.call \in {"acquire", "end"}
      /\ HasTarget' <=> HasTarget
      /\ HasTarget => Target' = Target /\ at'.slice = Target
      /\ InBatch' <=> HasTarget
      /\ \A j \in Slice :
           /\ Ran(j) => Ran(j)'
           /\ (RanBack(j) \/ (j = at.slice /\ at.leg = "backward")) => RanBack(j)'
           /\ (at.leg = "backward" /\ (j > at.slice \/ j = at.slice)) =>
                (at'.leg = "backward" /\ (j > at'.slice \/ (j = at'.slice /\ at'.call \in {"submit", "end"})))
           /\ \/ at'.leg = "backward" /\ j = at'.slice /\ at'.call \in {"acquire", "fetch", "run", "release"}
              \/ HasTarget' /\ j = Target' /\ (at'.leg = "backward" \/ j = Last)
              => HasTarget /\ j = Target /\ (at.leg = "backward" \/ j = Last)
  BY Advances
<1>2. at.slice \in 1 .. NumSlices /\ at.leg \in {"forward", "backward"} BY HostTyped, Numbers
<1>3. HasTarget => Target \in Slice /\ Target # at.slice /\ page'[Target].slot # None
  <2>1. HasTarget => Target \in Slice /\ page[Target].slot \in Slot BY HostTyped
  <2>2. HasTarget => Target # at.slice BY <1>2 DEF Target
  <2> QED BY <2>1, <2>2, Numbers
<1>4. HostTypes' BY <1>1 DEF HostInv, HostTypes, PageType, SlotType
<1>5. Resident'
  <2>1. \A j \in Slice : page'[j].slot # None => slot'[page'[j].slot].page = j
    <3> SUFFICES ASSUME NEW j \in Slice, page'[j].slot # None PROVE slot'[page'[j].slot].page = j
      OBVIOUS
    <3>1. page'[j].slot = page[j].slot /\ page[j].slot \in Slot BY HostTyped
    <3>2. slot[page[j].slot].page = j BY <3>1, Numbers DEF HostInv, Resident
    <3> QED BY <3>1, <3>2
  <2>2. \A t \in Slot : slot'[t].page # None => page'[slot'[t].page].slot = t
    <3> SUFFICES ASSUME NEW t \in Slot, slot'[t].page # None PROVE page'[slot'[t].page].slot = t
      OBVIOUS
    <3>1. slot[t].page \in Slice \union {None} BY HostTyped DEF SlotType
    <3>2. slot'[t].page = slot[t].page /\ slot[t].page \in Slice /\ page'[slot[t].page].slot # None
      BY <3>1
    <3>3. page[slot[t].page].slot = t BY <3>2, Numbers DEF HostInv, Resident
    <3> QED BY <3>2, <3>3
  <2> QED BY <1>1, <1>3, <2>1, <2>2 DEF Resident
<1>6. Adopted'
  <2>1. \A j \in Slice : page'[j].stateIn => page'[j].adopted /\ page'[j].slot # None
    BY DEF HostInv, Adopted
  <2>2. \A j \in Slice : page'[j].adopted => j \notin frozen' /\ mode' # "host"
    BY DEF HostInv, Adopted
  <2>3. ~grown' => \A j \in Slice : page'[j].adopted =>
          at'.leg = "backward" /\ (j > at'.slice \/ (j = at'.slice /\ at'.call \in {"submit", "end"}))
    <3> SUFFICES ASSUME ~grown, NEW j \in Slice, page[j].adopted
                 PROVE  at'.leg = "backward" /\ (j > at'.slice \/ (j = at'.slice /\ at'.call \in {"submit", "end"}))
      OBVIOUS
    <3>1. at.leg = "backward" /\ (j > at.slice \/ j = at.slice) BY DEF HostInv, Adopted
    <3> QED BY <1>1, <3>1
  <2>4. ASSUME NEW j \in Slice, page'[j].adopted,
               \/ at'.leg = "backward" /\ j = at'.slice /\ at'.call \in {"acquire", "fetch", "run", "release"}
               \/ HasTarget' /\ j = Target' /\ (at'.leg = "backward" \/ j = Last)
        PROVE  page'[j].stateIn
    <3>1. HasTarget /\ j = Target /\ (at.leg = "backward" \/ j = Last) BY <1>1, <2>4
    <3>2. page[j].stateIn BY <2>4, <3>1 DEF HostInv, Adopted
    <3> QED BY <1>3, <3>1, <3>2
  <2> QED BY <2>1, <2>2, <2>3, <2>4 DEF Adopted
<1> QED BY <1>1, <1>4, <1>5, <1>6 DEF HostInv

LEMMA SubmitHost ==
  ASSUME HostInv, ops \in Nat, Submit
  PROVE  HostInv'
<1>1. /\ Own \in Slot /\ at.call = "submit" /\ mode = "disk" /\ at' = NextCall
      /\ SamePages /\ slot' = slot
      /\ \A j \in Slice : page'[j].adopted = page[j].adopted
      /\ UNCHANGED <<mode, frozen, batch, grown, clock, mem, mark, latest>>
  BY SubmitIs
<1>2. Counts'
  <2>1. /\ at'.call \in {"acquire", "end"}
        /\ \A j \in Slice : (Ran(j) => Ran(j)') /\ (RanBack(j) => RanBack(j)')
    BY <1>1, Advances
  <2> SUFFICES ASSUME NEW j \in Slice
               PROVE  /\ latest[j]["b"] <= batch + (IF Ran(j)' THEN 1 ELSE 0)
                      /\ latest[j]["p"] <= batch + (IF RanBack(j)' THEN 1 ELSE 0)
                      /\ latest[j]["s"] <= batch + (IF RanBack(j)' THEN 1 ELSE 0)
    BY <1>1, <2>1 DEF Counts
  <2>2. /\ latest[j]["b"] <= batch + (IF Ran(j) THEN 1 ELSE 0)
        /\ latest[j]["p"] <= batch + (IF RanBack(j) THEN 1 ELSE 0)
        /\ latest[j]["s"] <= batch + (IF RanBack(j) THEN 1 ELSE 0)
    BY DEF HostInv, Counts
  <2>3. latest[j]["b"] \in Nat /\ latest[j]["p"] \in Nat /\ latest[j]["s"] \in Nat /\ batch \in Nat
    <3>1. latest[j] \in [{"p", "b", "s"} -> Nat] /\ batch \in 0 .. NumBatches
      BY DEF HostInv, HostTypes
    <3> QED BY <3>1, Numbers
  <2> QED BY <2>1, <2>2, <2>3
<1>3. /\ page' \in [Slice -> PageType] /\ slot' \in [Slot -> SlotType]
      /\ \A j \in Slice : page'[j].slot = page[j].slot /\ (page'[j].stateIn <=> page[j].stateIn)
  BY <1>1 DEF SamePages
<1>4. \A t \in Slot : ~slot'[t].busy BY <1>1 DEF HostInv, Resident, Computing
<1>5. /\ \A j \in Slice : page[j].stateIn => page[j].slot # None
      /\ \A t \in Slot : slot[t].page \in Slice => page[slot[t].page].slot = t
  BY Numbers DEF HostInv, Adopted, Resident
<1>6. \A t \in Slot : ~(slot[t].page \in Slice /\ page'[slot[t].page].slot = None)
  BY <1>3, <1>5, Numbers
<1>7. latest' \in [Slice -> [{"p", "b", "s"} -> Nat]] BY <1>1 DEF HostInv, HostTypes
<1> QED BY <1>1, <1>2, <1>3, <1>4, <1>5, <1>6, <1>7, AdvanceHost

LEMMA StepIs ==
  ASSUME HostInv, ops \in Nat, StepOnCpu
  PROVE  /\ Own \in Slot /\ at.call = "release" /\ at.leg = "backward" /\ mode = "host" /\ at' = NextCall
         /\ page' \in [Slice -> PageType] /\ slot' \in [Slot -> SlotType]
         /\ \A t \in Slot : /\ slot'[t].page = IF t = Own THEN None ELSE slot[t].page
                            /\ slot'[t].ready = slot[t].ready
                            /\ slot'[t].busy <=> (t # Own /\ slot[t].busy)
                            /\ slot'[t].free = IF t = Own THEN mark ELSE slot[t].free
                            /\ slot'[t].out = IF t = Own THEN ops + 1 ELSE slot[t].out
         /\ \A j \in Slice : /\ page'[j].slot = IF j = at.slice THEN None ELSE page[j].slot
                             /\ page'[j].stateIn <=> page[j].stateIn
                             /\ page'[j].adopted = page[j].adopted
                             /\ page'[j].homeReady = IF j = at.slice THEN ops + 2 ELSE page[j].homeReady
                             /\ page'[j].homeEv = IF j = at.slice THEN ops + 1 ELSE page[j].homeEv
         /\ latest' \in [Slice -> [{"p", "b", "s"} -> Nat]]
         /\ \A j \in Slice, r \in {"p", "b", "s"} :
              latest'[j][r] = IF j = at.slice /\ r = "p" /\ Trains(j) THEN latest[j][r] + 1 ELSE latest[j][r]
         /\ ops' = ops + 2
         /\ UNCHANGED <<mode, frozen, batch, grown, clock, mem, mark>>
<1> DEFINE i == at.slice
           s == Own
           steps == IF Trains(i) THEN {"p"} ELSE {}
<1>1. at.call = "release" /\ s \in Slot /\ i \in Slice
  <2>1. at.call = "release" BY Zenon DEF StepOnCpu
  <2> QED BY <2>1, HostTyped DEF Own, InBatch
<1>2. /\ at.leg = "backward" /\ mode = "host"
      /\ slot' = [[slot EXCEPT ![s].busy = FALSE, ![s].free = mark, ![s].out = ops + 1] EXCEPT ![s].page = None]
      /\ page' = [page EXCEPT ![i].slot = None, ![i].homeEv = ops + 1, ![i].homeReady = ops + 2]
      /\ ops' = ops + 2 /\ Counted(i, steps) /\ at' = NextCall
      /\ UNCHANGED <<mode, frozen, batch, grown, clock, mem, mark>>
  BY DEF StepOnCpu, Released, Own, config
<1>3. /\ page \in [Slice -> PageType] /\ slot \in [Slot -> SlotType] /\ mark \in Nat /\ ops + 1 \in Nat
      /\ ops + 2 \in Nat /\ latest \in [Slice -> [{"p", "b", "s"} -> Nat]]
  BY HostTyped DEF HostInv, HostTypes
<1>4. latest' = [latest EXCEPT ![i] = [r \in {"p", "b", "s"} |-> IF r \in steps THEN latest[i][r] + 1 ELSE latest[i][r]]]
  BY <1>2 DEF Counted
<1>5. latest' \in [Slice -> [{"p", "b", "s"} -> Nat]] BY <1>1, <1>3, <1>4
<1>6. \A j \in Slice, r \in {"p", "b", "s"} :
        latest'[j][r] = IF j = i /\ r = "p" /\ Trains(j) THEN latest[j][r] + 1 ELSE latest[j][r]
  BY <1>3, <1>4
<1> HIDE DEF i, s
<1>7. ASSUME NEW t \in Slot
      PROVE  /\ slot'[t] \in SlotType
             /\ slot'[t].busy <=> (t # s /\ slot[t].busy)
             /\ slot'[t].free = IF t = s THEN mark ELSE slot[t].free
             /\ slot'[t].out = IF t = s THEN ops + 1 ELSE slot[t].out
             /\ slot'[t].page = IF t = s THEN None ELSE slot[t].page
             /\ slot'[t].ready = slot[t].ready
  <2>1. slot[t] \in SlotType BY <1>3
  <2>2. CASE t = s
    <3>1. slot'[t] = [slot[t] EXCEPT !.busy = FALSE, !.free = mark, !.out = ops + 1, !.page = None]
      BY <1>2, <1>3, <2>2
    <3> QED BY <1>3, <2>1, <2>2, <3>1 DEF SlotType
  <2>3. CASE t # s BY <1>2, <1>3, <2>1, <2>3
  <2> QED BY <2>2, <2>3
<1>8. slot' = [t \in Slot |-> slot'[t]] /\ page' = [j \in Slice |-> page'[j]] BY <1>2, <1>3
<1>9. slot' \in [Slot -> SlotType] BY <1>7, <1>8
<1>10. ASSUME NEW j \in Slice
       PROVE  /\ page'[j] \in PageType
              /\ page'[j].slot = IF j = i THEN None ELSE page[j].slot
              /\ page'[j].stateIn <=> page[j].stateIn
              /\ page'[j].adopted = page[j].adopted
              /\ page'[j].homeReady = IF j = i THEN ops + 2 ELSE page[j].homeReady
              /\ page'[j].homeEv = IF j = i THEN ops + 1 ELSE page[j].homeEv
  <2>1. page[j] \in PageType BY <1>3
  <2>2. CASE j = i
    <3>1. page'[j] = [page[j] EXCEPT !.slot = None, !.homeEv = ops + 1, !.homeReady = ops + 2]
      BY <1>2, <1>3, <2>2
    <3> QED BY <1>3, <2>1, <2>2, <3>1 DEF PageType
  <2>3. CASE j # i BY <1>2, <1>3, <2>1, <2>3
  <2> QED BY <2>2, <2>3
<1>11. page' \in [Slice -> PageType] BY <1>8, <1>10
<1> QED BY <1>1, <1>2, <1>5, <1>6, <1>7, <1>9, <1>10, <1>11 DEF i, s

LEMMA StepHost ==
  ASSUME HostInv, ops \in Nat, StepOnCpu
  PROVE  HostInv'
<1>1. /\ Own \in Slot /\ at.call = "release" /\ at.leg = "backward" /\ mode = "host" /\ at' = NextCall
      /\ page' \in [Slice -> PageType] /\ slot' \in [Slot -> SlotType]
      /\ \A t \in Slot : /\ slot'[t].page = IF t = Own THEN None ELSE slot[t].page
                         /\ slot'[t].busy <=> (t # Own /\ slot[t].busy)
      /\ \A j \in Slice : /\ page'[j].slot = IF j = at.slice THEN None ELSE page[j].slot
                          /\ page'[j].stateIn <=> page[j].stateIn
                          /\ page'[j].adopted = page[j].adopted
      /\ latest' \in [Slice -> [{"p", "b", "s"} -> Nat]]
      /\ \A j \in Slice, r \in {"p", "b", "s"} :
           latest'[j][r] = IF j = at.slice /\ r = "p" /\ Trains(j) THEN latest[j][r] + 1 ELSE latest[j][r]
      /\ UNCHANGED <<mode, frozen, batch, grown, clock, mem, mark>>
  BY StepIs
<1>2. Counts'
  <2>1. /\ at'.call \in {"acquire", "end"}
        /\ \A j \in Slice : /\ Ran(j) => Ran(j)'
                            /\ (RanBack(j) \/ j = at.slice) => RanBack(j)'
    BY <1>1, Advances
  <2> SUFFICES ASSUME NEW j \in Slice
               PROVE  /\ latest'[j]["b"] <= batch + (IF Ran(j)' THEN 1 ELSE 0)
                      /\ latest'[j]["p"] <= batch + (IF RanBack(j)' THEN 1 ELSE 0)
                      /\ latest'[j]["s"] <= batch + (IF RanBack(j)' THEN 1 ELSE 0)
    BY <1>1, <2>1 DEF Counts
  <2>2. /\ latest[j]["b"] <= batch + (IF Ran(j) THEN 1 ELSE 0)
        /\ latest[j]["p"] <= batch + (IF RanBack(j) THEN 1 ELSE 0)
        /\ latest[j]["s"] <= batch + (IF RanBack(j) THEN 1 ELSE 0)
        /\ j = at.slice => latest[j]["p"] <= batch
    BY <1>1 DEF HostInv, Counts
  <2>3. latest[j]["b"] \in Nat /\ latest[j]["p"] \in Nat /\ latest[j]["s"] \in Nat /\ batch \in Nat
    <3>1. latest[j] \in [{"p", "b", "s"} -> Nat] /\ batch \in 0 .. NumBatches
      BY DEF HostInv, HostTypes
    <3> QED BY <3>1, Numbers
  <2>4. /\ latest'[j]["b"] = latest[j]["b"] /\ latest'[j]["s"] = latest[j]["s"]
        /\ latest'[j]["p"] = latest[j]["p"] \/ (j = at.slice /\ latest'[j]["p"] = latest[j]["p"] + 1)
    BY <1>1
  <2> QED BY <2>1, <2>2, <2>3, <2>4
<1>3. /\ at.slice \in Slice /\ slot[Own].page = at.slice /\ page[at.slice].slot = Own
      /\ \A t \in Slot : slot[t].page \in Slice \union {None}
      /\ \A t \in Slot : slot[t].page \in Slice => page[slot[t].page].slot = t
  <2>1. at.slice \in Slice /\ slot[Own].page = at.slice /\ page[at.slice].slot = Own
    BY <1>1, HostTyped DEF InBatch, Own
  <2>2. \A t \in Slot : slot[t].page \in Slice \union {None} BY HostTyped DEF SlotType
  <2>3. \A t \in Slot : slot[t].page \in Slice => page[slot[t].page].slot = t
    BY Numbers DEF HostInv, Resident
  <2> QED BY <2>1, <2>2, <2>3
<1>4. \A t \in Slot : ~slot'[t].busy BY <1>1 DEF HostInv, Resident, Own
<1>5. \A j \in Slice : ~page[j].stateIn BY <1>1 DEF HostInv, Adopted
<1>6. \A t \in Slot : slot'[t].page = IF slot[t].page \in Slice /\ page'[slot[t].page].slot = None
                                      THEN None ELSE slot[t].page
  <2> SUFFICES ASSUME NEW t \in Slot
               PROVE  slot'[t].page = IF slot[t].page \in Slice /\ page'[slot[t].page].slot = None
                                      THEN None ELSE slot[t].page
    OBVIOUS
  <2>1. CASE t = Own BY <1>1, <1>3, <2>1
  <2>2. CASE t # Own
    <3>1. slot[t].page \in Slice => page'[slot[t].page].slot = t BY <1>1, <1>3, <2>2
    <3> QED BY <1>1, <2>2, <3>1, Numbers
  <2> QED BY <2>1, <2>2
<1>7. HostInv'
  <2>1. /\ \A j \in Slice : page'[j].slot \in {page[j].slot, None}
        /\ \A j \in Slice : page'[j].slot = None /\ page[j].slot # None => j = at.slice
        /\ \A j \in Slice : /\ page'[j].adopted = page[j].adopted
                            /\ page'[j].stateIn => page[j].stateIn /\ page'[j].slot # None
        /\ \A j \in Slice : page[j].stateIn /\ page'[j].slot # None => page'[j].stateIn
    BY <1>1, <1>5
  <2> QED BY <1>1, <1>2, <1>4, <1>6, <2>1, AdvanceHost
<1> QED BY <1>7

\* The slots are allocated again.
Grows == mode # "host" /\ ~grown /\ \E i \in Slice : page[i].adopted

LEMMA EndIs ==
  ASSUME HostInv, EndBatch
  PROVE  /\ at.call = "end" /\ queue[Compute] = <<>>
         /\ at'.leg = "forward" /\ at'.slice = 1
         /\ at'.call = IF batch + 1 < NumBatches THEN "first" ELSE "close"
         /\ at' \in [leg : {"forward", "backward"}, slice : Slice, call : Calls]
         /\ batch' = batch + 1
         /\ UNCHANGED <<mode, frozen, clock, queue, ops, mark, latest>>
         /\ ~Grows => UNCHANGED <<page, slot, grown, mem>>
         /\ Grows => /\ Drained /\ grown' = TRUE
                     /\ mem' = [place \in DOMAIN mem |-> IF place[1] = "home" THEN mem[place] ELSE Nothing]
                     /\ page' \in [Slice -> PageType] /\ slot' \in [Slot -> SlotType]
                     /\ \A j \in Slice : /\ page'[j].slot = None /\ page'[j].stateIn = FALSE
                                         /\ page'[j].adopted = page[j].adopted
                                         /\ page'[j].homeReady = page[j].homeReady
                                         /\ page'[j].homeEv = page[j].homeEv
                     /\ \A t \in Slot : slot'[t].page = None /\ slot'[t].busy = slot[t].busy
<1>1. /\ at.call = "end" /\ queue[Compute] = <<>> /\ batch' = batch + 1
      /\ at' = [leg |-> "forward", slice |-> 1, call |-> IF batch + 1 < NumBatches THEN "first" ELSE "close"]
      /\ UNCHANGED <<mode, frozen, clock, queue, ops, mark, latest>>
      /\ ~Grows => UNCHANGED <<page, slot, grown, mem>>
      /\ Grows => Grow
  BY DEF EndBatch, config, Grows
<1>2. at' \in [leg : {"forward", "backward"}, slice : Slice, call : Calls]
  BY <1>1, Numbers DEF Calls
<1>3. page \in [Slice -> PageType] /\ slot \in [Slot -> SlotType] BY HostTyped
<1>4. ASSUME Grow
      PROVE  /\ Drained /\ grown' = TRUE
             /\ mem' = [place \in DOMAIN mem |-> IF place[1] = "home" THEN mem[place] ELSE Nothing]
             /\ page' \in [Slice -> PageType] /\ slot' \in [Slot -> SlotType]
             /\ \A j \in Slice : /\ page'[j].slot = None /\ page'[j].stateIn = FALSE
                                 /\ page'[j].adopted = page[j].adopted
                                 /\ page'[j].homeReady = page[j].homeReady
                                 /\ page'[j].homeEv = page[j].homeEv
             /\ \A t \in Slot : slot'[t].page = None /\ slot'[t].busy = slot[t].busy
  <2>1. /\ Drained /\ grown' = TRUE
        /\ mem' = [place \in DOMAIN mem |-> IF place[1] = "home" THEN mem[place] ELSE Nothing]
        /\ page' = [j \in Slice |-> Gone(page[j])]
        /\ slot' = [t \in Slot |-> [slot[t] EXCEPT !.page = None, !.ready = 0, !.free = 0, !.out = 0, !.fresh = TRUE]]
    BY <1>4 DEF Grow, AllEvicted, Gone
  <2>2. ASSUME NEW j \in Slice
        PROVE  /\ page'[j] \in PageType /\ page'[j].slot = None /\ page'[j].stateIn = FALSE
               /\ page'[j].adopted = page[j].adopted
               /\ page'[j].homeReady = page[j].homeReady
               /\ page'[j].homeEv = page[j].homeEv
    <3>1. page[j] \in PageType /\ page'[j] = Gone(page[j]) BY <1>3, <2>1
    <3> QED BY <3>1 DEF PageType, Gone
  <2>3. ASSUME NEW t \in Slot
        PROVE  slot'[t] \in SlotType /\ slot'[t].page = None /\ slot'[t].busy = slot[t].busy
    <3>1. slot[t] \in SlotType /\ slot'[t] = [slot[t] EXCEPT !.page = None, !.ready = 0, !.free = 0, !.out = 0, !.fresh = TRUE]
      BY <1>3, <2>1
    <3>2. slot'[t] = [page |-> None, busy |-> slot[t].busy, ready |-> 0, free |-> 0, out |-> 0,
                      last |-> slot[t].last, fresh |-> TRUE]
      BY <3>1 DEF SlotType
    <3>3. slot[t].busy \in BOOLEAN /\ slot[t].last \in Nat BY <3>1 DEF SlotType
    <3> QED BY <3>2, <3>3 DEF SlotType
  <2>4. page' = [j \in Slice |-> page'[j]] /\ slot' = [t \in Slot |-> slot'[t]] BY <2>1
  <2>5. page' \in [Slice -> PageType] /\ slot' \in [Slot -> SlotType] BY <2>2, <2>3, <2>4
  <2> QED BY <2>1, <2>2, <2>3, <2>5
<1> QED BY <1>1, <1>2, <1>4

LEMMA EndHost ==
  ASSUME HostInv, EndBatch
  PROVE  HostInv'
<1>1. /\ at.call = "end"
      /\ at'.leg = "forward" /\ at'.slice = 1
      /\ at'.call = IF batch + 1 < NumBatches THEN "first" ELSE "close"
      /\ at' \in [leg : {"forward", "backward"}, slice : Slice, call : Calls]
      /\ batch' = batch + 1
      /\ UNCHANGED <<mode, frozen, clock, queue, ops, mark, latest>>
      /\ ~Grows => UNCHANGED <<page, slot, grown, mem>>
      /\ Grows => /\ grown' = TRUE
                  /\ page' \in [Slice -> PageType] /\ slot' \in [Slot -> SlotType]
                  /\ \A j \in Slice : /\ page'[j].slot = None /\ page'[j].stateIn = FALSE
                                      /\ page'[j].adopted = page[j].adopted
                  /\ \A t \in Slot : slot'[t].page = None /\ slot'[t].busy = slot[t].busy
  BY EndIs
<1>2. batch \in 0 .. NumBatches /\ batch < NumBatches /\ batch \in Nat
  BY <1>1, Numbers DEF HostInv, HostTypes, Control
<1>3. at'.call \in {"first", "close"} /\ ~Computing' /\ ~InBatch' /\ ~HasTarget'
  BY <1>1 DEF Computing, InBatch, HasTarget
<1>4. HostTypes'
  <2>1. batch' \in 0 .. NumBatches BY <1>1, <1>2, Numbers
  <2>2. /\ page' \in [Slice -> PageType] /\ slot' \in [Slot -> SlotType] /\ grown' \in BOOLEAN
    BY <1>1, HostTyped DEF HostInv, HostTypes
  <2> QED BY <1>1, <2>1, <2>2 DEF HostInv, HostTypes, PageType, SlotType
<1>5. Control' BY <1>1, <1>2, <1>3, Numbers DEF Control, InBatch
<1>6. \A t \in Slot : ~slot[t].busy BY <1>1 DEF HostInv, Resident, Computing
<1>7. Resident' BY <1>1, <1>3, <1>6 DEF HostInv, Resident
<1>8. Adopted'
  <2>1. CASE Grows BY <1>1, <1>3, <2>1 DEF HostInv, Adopted
  <2>2. CASE ~Grows
    <3>1. ~grown => \A j \in Slice : ~page[j].adopted BY <2>2 DEF Grows, HostInv, Adopted
    <3> QED BY <1>1, <1>3, <2>2, <3>1 DEF HostInv, Adopted
  <2> QED BY <2>1, <2>2
<1>9. Counts'
  <2> SUFFICES ASSUME NEW j \in Slice
               PROVE  /\ latest[j]["b"] <= batch + 1
                      /\ latest[j]["p"] <= batch + 1
                      /\ latest[j]["s"] <= batch + 1
    <3>1. ASSUME NEW j \in Slice
          PROVE  latest[j]["b"] \in Nat /\ latest[j]["p"] \in Nat /\ latest[j]["s"] \in Nat
      <4>1. latest[j] \in [{"p", "b", "s"} -> Nat] BY DEF HostInv, HostTypes
      <4> QED BY <4>1
    <3> QED BY <1>1, <1>2, <1>3, <3>1 DEF Counts
  <2>1. /\ latest[j]["b"] <= batch + (IF Ran(j) THEN 1 ELSE 0)
        /\ latest[j]["p"] <= batch + (IF RanBack(j) THEN 1 ELSE 0)
        /\ latest[j]["s"] <= batch + (IF RanBack(j) THEN 1 ELSE 0)
    BY DEF HostInv, Counts
  <2>2. latest[j]["b"] \in Nat /\ latest[j]["p"] \in Nat /\ latest[j]["s"] \in Nat
    <3>1. latest[j] \in [{"p", "b", "s"} -> Nat] BY DEF HostInv, HostTypes
    <3> QED BY <3>1
  <2> QED BY <1>2, <2>1, <2>2
<1> QED BY <1>4, <1>5, <1>7, <1>8, <1>9 DEF HostInv

LEMMA CloseIs ==
  ASSUME HostInv, Close
  PROVE  /\ at.call = "close" /\ Drained
         /\ at' = Goto("closed")
         /\ page' \in [Slice -> PageType] /\ slot' \in [Slot -> SlotType]
         /\ \A j \in Slice : /\ page'[j].slot = None /\ page'[j].stateIn = FALSE
                             /\ page'[j].adopted = page[j].adopted
                             /\ page'[j].homeReady = page[j].homeReady
                             /\ page'[j].homeEv = page[j].homeEv
         /\ \A t \in Slot : slot'[t].page = None /\ slot'[t].busy = slot[t].busy /\ slot'[t].free = slot[t].free
                            /\ slot'[t].out = slot[t].out /\ slot'[t].ready = slot[t].ready
         /\ UNCHANGED <<mode, frozen, batch, grown, clock, mem, queue, ops, mark, latest>>
<1>1. /\ at.call = "close" /\ Drained /\ at' = Goto("closed")
      /\ page' = [j \in Slice |-> Gone(page[j])]
      /\ slot' = [t \in Slot |-> [slot[t] EXCEPT !.page = None]]
      /\ UNCHANGED <<mode, frozen, batch, grown, clock, mem, queue, ops, mark, latest>>
  BY DEF Close, AllEvicted, Gone, config
<1>2. page \in [Slice -> PageType] /\ slot \in [Slot -> SlotType] BY HostTyped
<1>3. ASSUME NEW j \in Slice
      PROVE  /\ page'[j] \in PageType /\ page'[j].slot = None /\ page'[j].stateIn = FALSE
             /\ page'[j].adopted = page[j].adopted
             /\ page'[j].homeReady = page[j].homeReady
             /\ page'[j].homeEv = page[j].homeEv
  <2>1. page[j] \in PageType /\ page'[j] = Gone(page[j]) BY <1>1, <1>2
  <2> QED BY <2>1 DEF PageType, Gone
<1>4. ASSUME NEW t \in Slot
      PROVE  /\ slot'[t] \in SlotType /\ slot'[t].page = None /\ slot'[t].busy = slot[t].busy
             /\ slot'[t].free = slot[t].free /\ slot'[t].out = slot[t].out /\ slot'[t].ready = slot[t].ready
  <2>1. slot[t] \in SlotType /\ slot'[t] = [slot[t] EXCEPT !.page = None] BY <1>1, <1>2
  <2> QED BY <2>1 DEF SlotType
<1>5. page' = [j \in Slice |-> page'[j]] /\ slot' = [t \in Slot |-> slot'[t]] BY <1>1
<1>6. page' \in [Slice -> PageType] /\ slot' \in [Slot -> SlotType] BY <1>3, <1>4, <1>5
<1> QED BY <1>1, <1>3, <1>4, <1>6

LEMMA CloseHost ==
  ASSUME HostInv, Close
  PROVE  HostInv'
<1>1. /\ at.call = "close" /\ at' = Goto("closed")
      /\ page' \in [Slice -> PageType] /\ slot' \in [Slot -> SlotType]
      /\ \A j \in Slice : /\ page'[j].slot = None /\ page'[j].stateIn = FALSE
                          /\ page'[j].adopted = page[j].adopted
      /\ \A t \in Slot : slot'[t].page = None /\ slot'[t].busy = slot[t].busy
      /\ UNCHANGED <<mode, frozen, batch, grown, clock, mem, queue, ops, mark, latest>>
  BY CloseIs
<1>2. at' = [leg |-> at.leg, slice |-> at.slice, call |-> "closed"] BY <1>1, HostTyped DEF Goto
<1>3. at'.leg = "forward" /\ at'.slice = 1 /\ at'.call = "closed" /\ at.leg = "forward" /\ at.slice = 1
  BY <1>1, <1>2 DEF HostInv, Control
<1>4. ~Computing' /\ ~InBatch' /\ ~HasTarget' /\ ~Computing
  BY <1>1, <1>3 DEF Computing, InBatch, HasTarget
<1>5. at' \in [leg : {"forward", "backward"}, slice : Slice, call : Calls]
  BY <1>2, <1>3, Numbers DEF Calls
<1>6. HostTypes' BY <1>1, <1>5 DEF HostInv, HostTypes, PageType, SlotType
<1>7. Control' BY <1>1, <1>3 DEF HostInv, Control, InBatch
<1>8. Resident' BY <1>1, <1>4 DEF HostInv, Resident
<1>9. Adopted' BY <1>1, <1>3, <1>4 DEF HostInv, Adopted
<1>10. Counts'
  <2>1. \A j \in Slice : (Ran(j)' <=> Ran(j)) /\ (RanBack(j)' <=> RanBack(j))
    BY <1>1, <1>3 DEF Ran, RanBack
  <2> QED BY <1>1, <1>3, <2>1 DEF HostInv, Counts
<1> QED BY <1>6, <1>7, <1>8, <1>9, <1>10 DEF HostInv

--------------------
(* What is done before what. *)

\* Every set of N with the members of T, and with every node that one of its
\* members needs (the pairs of E), has x: when all of T is done, so is x.
Implied(N, E, T, x) ==
  \A S \in SUBSET N : T \subseteq S /\ (\A e \in E : e[2] \in S => e[1] \in S) => x \in S

LEMMA ImpliedSelf ==
  ASSUME NEW N, NEW E, NEW T, NEW x \in T
  PROVE  Implied(N, E, T, x)
BY DEF Implied

LEMMA ImpliedStep ==
  ASSUME NEW N, NEW E, NEW T, NEW x, NEW y, <<x, y>> \in E, Implied(N, E, T, y)
  PROVE  Implied(N, E, T, x)
<1> SUFFICES ASSUME NEW S \in SUBSET N, T \subseteq S, \A e \in E : e[2] \in S => e[1] \in S
             PROVE  x \in S
  BY DEF Implied
<1>1. y \in S BY DEF Implied
<1> DEFINE e == <<x, y>>
<1>2. e \in E /\ e[2] = y /\ e[1] = x OBVIOUS
<1> QED BY <1>1, <1>2

LEMMA ImpliedTrans ==
  ASSUME NEW N, NEW E, NEW T, NEW U, NEW x, \A z \in U : Implied(N, E, T, z), Implied(N, E, U, x)
  PROVE  Implied(N, E, T, x)
<1> SUFFICES ASSUME NEW S \in SUBSET N, T \subseteq S, \A e \in E : e[2] \in S => e[1] \in S
             PROVE  x \in S
  BY DEF Implied
<1>1. \A z \in U : z \in S BY DEF Implied
<1> QED BY <1>1 DEF Implied

LEMMA ImpliedGrow ==
  ASSUME NEW N, NEW E, NEW T, NEW x, NEW N2, NEW E2, NEW T2,
         N \subseteq N2, E \subseteq E2, E \subseteq N \X N, T \subseteq T2, T \subseteq N,
         Implied(N, E, T, x)
  PROVE  Implied(N2, E2, T2, x)
<1> SUFFICES ASSUME NEW S \in SUBSET N2, T2 \subseteq S, \A e \in E2 : e[2] \in S => e[1] \in S
             PROVE  x \in S
  BY DEF Implied
<1>1. T \subseteq S \intersect N OBVIOUS
<1>2. \A e \in E : e[2] \in S \intersect N => e[1] \in S \intersect N
  <2> SUFFICES ASSUME NEW e \in E, e[2] \in S \intersect N PROVE e[1] \in S \intersect N
    OBVIOUS
  <2>1. e \in E2 /\ e \in N \X N OBVIOUS
  <2> QED BY <2>1
<1> QED BY <1>1, <1>2 DEF Implied

LEMMA ImpliedShrink ==
  ASSUME NEW N, NEW E, NEW T, NEW x, NEW N2, NEW E2, NEW T2, NEW o \in N,
         N2 = N \ {o}, \A e \in E : e[1] # o /\ e[2] # o => e \in E2,
         \A e \in E : e[2] = o => e[1] = o, T \subseteq T2 \union {o}, x # o, Implied(N, E, T, x)
  PROVE  Implied(N2, E2, T2, x)
<1> SUFFICES ASSUME NEW S \in SUBSET N2, T2 \subseteq S, \A e \in E2 : e[2] \in S => e[1] \in S
             PROVE  x \in S
  BY DEF Implied
<1>1. S \union {o} \in SUBSET N /\ T \subseteq S \union {o} OBVIOUS
<1>2. \A e \in E : e[2] \in S \union {o} => e[1] \in S \union {o} OBVIOUS
<1> QED BY <1>1, <1>2 DEF Implied

LEMMA ImpliedAlone ==
  ASSUME NEW N, NEW E, NEW o \in N, NEW x, \A e \in E : e[2] = o => e[1] = o, Implied(N, E, {o}, x)
  PROVE  x = o
<1>1. {o} \in SUBSET N /\ {o} \subseteq {o} /\ \A e \in E : e[2] \in {o} => e[1] \in {o} OBVIOUS
<1>2. x \in {o} BY <1>1 DEF Implied
<1> QED BY <1>2

LEMMA ImpliedNone ==
  ASSUME NEW N, NEW E, NEW x, Implied(N, E, {}, x)
  PROVE  FALSE
<1>1. {} \in SUBSET N /\ {} \subseteq {} /\ \A e \in E : e[2] \in {} => e[1] \in {} OBVIOUS
<1>2. x \in {} BY <1>1 DEF Implied
<1> QED BY <1>2

\* The operations that are to be done: a read stands for two.
Nodes == Pending \union {Second(x) : x \in {y \in Pending : y.does = "read"}}

\* y is not done before x is.
Needs(x, y) ==
  \/ \E q \in Queues : InOrder(q) /\ x \in In(q) /\ y \in In(q) /\ x.id < y.id
  \/ x.id \in y.after
  \/ x.does = "read" /\ y = Second(x)
Edges == {e \in Nodes \X Nodes : Needs(e[1], e[2])}
Follows(T, x) == Implied(Nodes, Edges, T, x)
Of(d) == {x \in Nodes : x.id = d}

LEMMA SameId ==
  ASSUME QueueInv, NEW x \in Pending, NEW y \in Pending, x.id = y.id
  PROVE  x = y
<1>1. PICK p \in Queues, q \in Queues : x \in In(p) /\ y \in In(q) BY DEF Pending
<1>2. p = q BY <1>1 DEF QueueInv
<1>3. Distinct(queue[p]) BY DEF QueueInv
<1> QED BY <1>1, <1>2, <1>3 DEF In, Elems, Distinct

LEMMA NodeIs ==
  ASSUME QueueInv, NEW x \in Nodes
  PROVE  x.id \in 1 .. ops /\ \/ x \in Pending
                              \/ x.does = "copy" /\ \E y \in Pending : y.does = "read" /\ x = Second(y)
<1>1. CASE x \in Pending BY <1>1 DEF Pending, QueueInv
<1>2. CASE x \notin Pending
  <2>1. PICK y \in Pending : y.does = "read" /\ x = Second(y) BY <1>2 DEF Nodes
  <2>2. x.id = y.id /\ x.does = "copy" /\ y.id \in 1 .. ops
    BY <2>1 DEF Second, Pending, QueueInv
  <2> QED BY <2>1, <2>2
<1> QED BY <1>1, <1>2

\* The foremost operation of a queue needs none of the others.
LEMMA ForemostAlone ==
  ASSUME QueueInv, NEW q \in Queues, NEW o, Foremost(q, o)
  PROVE  /\ o \in Nodes /\ o \in Pending
         /\ \A e \in Edges : e[2] = o => e[1] = o
<1>1. o \in In(q) /\ o \in Pending /\ o \in Nodes BY DEF Foremost, Pending, Nodes
<1>2. \A p \in Queues \ {q} : o \notin In(p) BY <1>1 DEF QueueInv
<1>3. \A y \in Pending : y.does = "read" => Second(y) # o
  <2> SUFFICES ASSUME NEW y \in Pending, y.does = "read", Second(y) = o PROVE FALSE
    OBVIOUS
  <2>1. o.id = y.id /\ o.does = "copy" BY DEF Second
  <2>2. o = y BY <1>1, <2>1, SameId
  <2> QED BY <2>1, <2>2
<1>4. ASSUME NEW e \in Edges, e[2] = o PROVE e[1] = o
  <2>1. e[1] \in Nodes /\ Needs(e[1], o) BY <1>4 DEF Edges
  <2>2. CASE \E p \in Queues : InOrder(p) /\ e[1] \in In(p) /\ o \in In(p) /\ e[1].id < o.id
    <3>1. PICK p \in Queues : InOrder(p) /\ e[1] \in In(p) /\ o \in In(p) /\ e[1].id < o.id
      BY <2>2
    <3>2. p = q BY <1>2, <3>1
    <3>3. e[1] = o \/ o.id < e[1].id BY <3>1, <3>2 DEF Foremost
    <3>4. o.id \in Nat /\ e[1].id \in Nat BY <3>1 DEF QueueInv
    <3> QED BY <3>1, <3>3, <3>4
  <2>3. CASE e[1].id \in o.after
    <3>1. CASE e[1] \in Pending BY <2>3, <3>1 DEF Foremost
    <3>2. CASE e[1] \notin Pending
      <4>1. PICK y \in Pending : e[1] = Second(y) BY <2>1, <3>2 DEF Nodes
      <4>2. y.id = e[1].id BY <4>1 DEF Second
      <4> QED BY <2>3, <4>2 DEF Foremost
    <3> QED BY <3>1, <3>2
  <2>4. CASE e[1].does = "read" /\ o = Second(e[1])
    <3>1. e[1] \in Pending BY <2>1, <2>4, NodeIs
    <3> QED BY <1>3, <2>4, <3>1
  <2> QED BY <2>1, <2>2, <2>3, <2>4 DEF Needs
<1> QED BY <1>1, <1>4

\* Execution takes it.
LEMMA ExecutedNodes ==
  ASSUME QueueInv, NEW q \in Queues, NEW o, Executed(q, o)
  PROVE  /\ o \in Nodes /\ o \in Pending /\ Nodes' = Nodes \ {o}
         /\ Pending' = (Pending \ {o}) \union (IF o.does = "read" THEN {Second(o)} ELSE {})
         /\ \A e \in Edges : e[1] # o /\ e[2] # o => e \in Edges'
         /\ \A e \in Edges : e[2] = o => e[1] = o
<1>1. o \in In(q) /\ o \in Pending /\ o \in Nodes /\ H2D \in Queues
  BY DEF Executed, Foremost, Pending, Nodes, Queues
<1>2. \A p \in Queues \ {q} : o \notin In(p) BY <1>1 DEF QueueInv
<1>3. \A y \in Pending : y.does = "read" => Second(y) # o
  <2> SUFFICES ASSUME NEW y \in Pending, y.does = "read", Second(y) = o PROVE FALSE
    OBVIOUS
  <2>1. o.id = y.id /\ o.does = "copy" BY DEF Second
  <2>2. o = y BY <1>1, <2>1, SameId
  <2> QED BY <2>1, <2>2
<1>4. o.does = "read" => q # H2D
  <2>1. o.does = "read" => \E s \in Slot : q = Lane(s) BY <1>1, ReadsInLanes
  <2> QED BY <2>1 DEF Lane, H2D
<1>5. \A p \in Queues : In(p)' = (In(p) \ {o}) \union (IF o.does = "read" /\ p = H2D THEN {Second(o)} ELSE {})
  BY <1>2, <1>4 DEF Executed
<1>6. Pending' = (Pending \ {o}) \union (IF o.does = "read" THEN {Second(o)} ELSE {})
  BY <1>1, <1>5 DEF Pending
<1>7. Second(o).does = "copy" BY DEF Second
<1>8. Nodes' = Nodes \ {o}
  <2>1. ASSUME NEW z \in Nodes' PROVE z \in Nodes /\ z # o
    <3>1. CASE z \in Pending' BY <1>1, <1>3, <1>6, <3>1 DEF Nodes
    <3>2. CASE z \notin Pending'
      <4>1. PICK y \in Pending' : y.does = "read" /\ z = Second(y) BY <3>2 DEF Nodes
      <4>2. y \in Pending BY <1>6, <1>7, <4>1
      <4> QED BY <1>3, <4>1, <4>2 DEF Nodes
    <3> QED BY <3>1, <3>2
  <2>2. ASSUME NEW z \in Nodes, z # o PROVE z \in Nodes'
    <3>1. CASE z \in Pending BY <1>6, <2>2, <3>1 DEF Nodes
    <3>2. CASE z \notin Pending
      <4>1. PICK y \in Pending : y.does = "read" /\ z = Second(y) BY <3>2 DEF Nodes
      <4>2. CASE y = o BY <1>6, <4>1, <4>2 DEF Nodes
      <4>3. CASE y # o
        <5>1. y \in Pending' BY <1>6, <4>3
        <5> QED BY <4>1, <5>1 DEF Nodes
      <4> QED BY <4>2, <4>3
    <3> QED BY <3>1, <3>2
  <2> QED BY <2>1, <2>2
<1>9. ASSUME NEW e \in Edges, e[1] # o, e[2] # o PROVE e \in Edges'
  <2>1. e \in Nodes \X Nodes /\ Needs(e[1], e[2]) BY DEF Edges
  <2>2. e \in Nodes' \X Nodes' BY <1>8, <1>9, <2>1
  <2>3. Needs(e[1], e[2])'
    <3>1. CASE \E p \in Queues : InOrder(p) /\ e[1] \in In(p) /\ e[2] \in In(p) /\ e[1].id < e[2].id
      <4>1. PICK p \in Queues : InOrder(p) /\ e[1] \in In(p) /\ e[2] \in In(p) /\ e[1].id < e[2].id
        BY <3>1
      <4>2. e[1] \in In(p)' /\ e[2] \in In(p)' BY <1>5, <1>9, <4>1
      <4>3. InOrder(p)' BY <4>1 DEF InOrder, Executed
      <4> QED BY <4>1, <4>2, <4>3 DEF Needs
    <3>2. CASE e[1].id \in e[2].after BY <3>2 DEF Needs
    <3>3. CASE e[1].does = "read" /\ e[2] = Second(e[1]) BY <3>3 DEF Needs
    <3> QED BY <2>1, <3>1, <3>2, <3>3 DEF Needs
  <2> QED BY <2>2, <2>3 DEF Edges
<1>10. \A e \in Edges : e[2] = o => e[1] = o BY ForemostAlone DEF Executed
<1> QED BY <1>1, <1>6, <1>8, <1>9, <1>10

\* What follows in the next state.
Later(T, x) == Implied(Nodes', Edges', T, x)

LEMMA ExecutedLater ==
  ASSUME QueueInv, NEW q \in Queues, NEW o, Executed(q, o),
         NEW T, NEW U, NEW x, T \subseteq U \union {o}, x # o, Follows(T, x)
  PROVE  Later(U, x)
<1>1. /\ o \in Nodes /\ Nodes' = Nodes \ {o}
      /\ \A e \in Edges : e[1] # o /\ e[2] # o => e \in Edges'
      /\ \A e \in Edges : e[2] = o => e[1] = o
  BY ExecutedNodes
<1>2. Implied(Nodes, Edges, T, x) BY DEF Follows
<1> QED BY <1>1, <1>2, ImpliedShrink DEF Later

\* The operations N of the queues Q are issued.
Issuing(Q, N) ==
  /\ Q \subseteq Queues /\ Issues(Q, N)
  /\ DOMAIN queue' = Queues /\ queue' = [q \in Queues |-> queue'[q]]
  /\ ops' \in Nat /\ ops' >= ops /\ mode' = mode

LEMMA IssuedNodes ==
  ASSUME QueueInv, NEW Q, NEW N, Issuing(Q, N)
  PROVE  /\ QueueInv'
         /\ \A p \in Queues : In(p)' = IF p \in Q THEN In(p) \union {N[p]} ELSE In(p)
         /\ Pending' = Pending \union {N[p] : p \in Q}
         /\ Nodes \subseteq Nodes' /\ Edges \subseteq Edges'
         /\ \A x \in Nodes' : x \in Nodes \/ \E p \in Q : x = N[p] \/ (N[p].does = "read" /\ x = Second(N[p]))
         /\ \A p \in Q : N[p] \in Nodes' /\ (N[p].does = "read" => Second(N[p]) \in Nodes')
<1>1. /\ QueueInv'
      /\ \A p \in Queues : In(p)' = IF p \in Q THEN In(p) \union {N[p]} ELSE In(p)
  BY IssueStep DEF Issuing
<1>2. Pending' = Pending \union {N[p] : p \in Q}
  <2>1. ASSUME NEW x \in Pending' PROVE x \in Pending \union {N[p] : p \in Q}
    BY <1>1 DEF Pending
  <2>2. ASSUME NEW x \in Pending PROVE x \in Pending'
    BY <1>1 DEF Pending
  <2>3. ASSUME NEW p \in Q PROVE N[p] \in Pending'
    <3>1. p \in Queues /\ N[p] \in In(p)' BY <1>1 DEF Issuing
    <3> QED BY <3>1 DEF Pending
  <2> QED BY <2>1, <2>2, <2>3
<1>3. Nodes \subseteq Nodes' BY <1>2 DEF Nodes
<1>4. Edges \subseteq Edges'
  <2> SUFFICES ASSUME NEW e \in Edges PROVE e \in Edges'
    OBVIOUS
  <2>1. e \in Nodes' \X Nodes' /\ Needs(e[1], e[2]) BY <1>3 DEF Edges
  <2>2. Needs(e[1], e[2])'
    <3>1. CASE \E p \in Queues : InOrder(p) /\ e[1] \in In(p) /\ e[2] \in In(p) /\ e[1].id < e[2].id
      <4>1. PICK p \in Queues : InOrder(p) /\ e[1] \in In(p) /\ e[2] \in In(p) /\ e[1].id < e[2].id
        BY <3>1
      <4>2. e[1] \in In(p)' /\ e[2] \in In(p)' BY <1>1, <4>1
      <4>3. InOrder(p)' BY <4>1 DEF InOrder, Issuing
      <4> QED BY <4>1, <4>2, <4>3 DEF Needs
    <3>2. CASE e[1].id \in e[2].after \/ (e[1].does = "read" /\ e[2] = Second(e[1]))
      BY <3>2 DEF Needs
    <3> QED BY <2>1, <3>1, <3>2 DEF Needs
  <2> QED BY <2>1, <2>2 DEF Edges
<1>5. \A p \in Q : N[p] \in Nodes' /\ (N[p].does = "read" => Second(N[p]) \in Nodes')
  BY <1>2 DEF Nodes
<1>6. ASSUME NEW x \in Nodes'
      PROVE  x \in Nodes \/ \E p \in Q : x = N[p] \/ (N[p].does = "read" /\ x = Second(N[p]))
  BY <1>2 DEF Nodes
<1> QED BY <1>1, <1>2, <1>3, <1>4, <1>5, <1>6

\* What followed still does; what a new operation comes after is what it waits
\* for, and what is before it in its queue.
LEMMA LaterOld ==
  ASSUME QueueInv, NEW Q, NEW N, Issuing(Q, N),
         NEW T, NEW U, NEW x, T \subseteq Nodes, T \subseteq U, Follows(T, x)
  PROVE  Later(U, x)
<1>1. Nodes \subseteq Nodes' /\ Edges \subseteq Edges' /\ Edges \subseteq Nodes \X Nodes
  BY IssuedNodes DEF Edges
<1>2. Implied(Nodes, Edges, T, x) BY DEF Follows
<1> QED BY <1>1, <1>2, ImpliedGrow DEF Later

LEMMA LaterStep ==
  ASSUME NEW T, NEW U, NEW y, NEW x, \A z \in T : z \in Nodes' /\ Needs(z, y)',
         y \in Nodes', Later(T, x)
  PROVE  Later({y}, x)
<1>1. ASSUME NEW z \in T PROVE Later({y}, z)
  <2>1. <<z, y>> \in Edges'
    <3> DEFINE e == <<z, y>>
    <3>1. e[1] = z /\ e[2] = y /\ e \in Nodes' \X Nodes' OBVIOUS
    <3> QED BY <3>1 DEF Edges
  <2>2. Implied(Nodes', Edges', {y}, y) BY ImpliedSelf
  <2> QED BY <2>1, <2>2, ImpliedStep DEF Later
<1> QED BY <1>1, ImpliedTrans DEF Later

LEMMA LaterSelf ==
  ASSUME NEW T, NEW x \in T
  PROVE  Later(T, x)
BY ImpliedSelf DEF Later

LEMMA LaterLine ==
  ASSUME QueueInv, NEW Q, NEW N, Issuing(Q, N), NEW q \in Q, InOrder(q),
         NEW T, NEW x, T \subseteq In(q), Follows(T, x)
  PROVE  Later({N[q]}, x)
<1>1. /\ Nodes \subseteq Nodes' /\ N[q] \in Nodes' /\ q \in Queues
      /\ In(q)' = In(q) \union {N[q]} /\ InOrder(q)'
  BY IssuedNodes DEF Issuing, InOrder
<1>2. T \subseteq Nodes BY <1>1 DEF Nodes, Pending
<1>3. Later(T, x) BY <1>2, LaterOld
<1>4. ASSUME NEW z \in T PROVE z \in Nodes' /\ Needs(z, N[q])'
  <2>1. z \in In(q) /\ z.id \in 1 .. ops /\ ops \in Nat BY <1>1 DEF QueueInv
  <2>2. N[q].id \in ops + 1 .. ops' /\ ops' \in Nat BY DEF Issuing, Issues
  <2>3. z.id < N[q].id BY <2>1, <2>2
  <2>4. z \in In(q)' /\ N[q] \in In(q)' BY <1>1, <2>1
  <2> QED BY <1>1, <1>2, <2>3, <2>4 DEF Needs
<1> QED BY <1>1, <1>3, <1>4, LaterStep

LEMMA LaterAfter ==
  ASSUME QueueInv, NEW Q, NEW N, Issuing(Q, N), NEW q \in Q, NEW d \in N[q].after,
         NEW x, Follows(Of(d), x)
  PROVE  Later({N[q]}, x)
<1>1. Nodes \subseteq Nodes' /\ N[q] \in Nodes' /\ Of(d) \subseteq Nodes BY IssuedNodes DEF Of
<1>2. Later(Of(d), x) BY <1>1, LaterOld
<1>3. ASSUME NEW z \in Of(d) PROVE z \in Nodes' /\ Needs(z, N[q])'
  <2>1. z.id \in N[q].after BY DEF Of
  <2> QED BY <1>1, <2>1 DEF Needs
<1> QED BY <1>1, <1>2, <1>3, LaterStep

\* The copy that a read issues comes after the read, and what it waits for.
LEMMA LaterRead ==
  ASSUME QueueInv, NEW Q, NEW N, Issuing(Q, N), NEW q \in Q, N[q].does = "read",
         NEW x, Later({N[q]}, x)
  PROVE  Later({Second(N[q])}, x)
<1>1. N[q] \in Nodes' /\ Second(N[q]) \in Nodes' BY IssuedNodes
<1>2. Needs(N[q], Second(N[q]))' BY DEF Needs
<1> QED BY <1>1, <1>2, LaterStep

LEMMA LaterWaits ==
  ASSUME QueueInv, NEW Q, NEW N, Issuing(Q, N), NEW q \in Q, N[q].does = "read", NEW d \in N[q].waits,
         NEW x, Follows(Of(d), x)
  PROVE  Later({Second(N[q])}, x)
<1>1. Nodes \subseteq Nodes' /\ Second(N[q]) \in Nodes' /\ Of(d) \subseteq Nodes
  BY IssuedNodes DEF Of
<1>2. Later(Of(d), x) BY <1>1, LaterOld
<1>3. ASSUME NEW z \in Of(d) PROVE z \in Nodes' /\ Needs(z, Second(N[q]))'
  <2>1. z.id \in Second(N[q]).after BY DEF Of, Second
  <2> QED BY <1>1, <2>1 DEF Needs
<1> QED BY <1>1, <1>2, <1>3, LaterStep

LEMMA IssuingOne ==
  ASSUME QueueInv, NEW q \in Queues, NEW n \in Op, Kind(q, n), n.id = ops + 1,
         queue' = Issued(q, n), ops' = ops + 1, mode' = mode, NEW N, N = [p \in {q} |-> n]
  PROVE  Issuing({q}, N) /\ N[q] = n
<1>1. N[q] = n /\ ops \in Nat /\ queue \in [Queues -> Seq(Op)] BY DEF QueueInv
<1>2. queue' = [queue EXCEPT ![q] = Append(@, n)] BY DEF Issued
<1>3. /\ \A p \in Queues : queue'[p] = IF p \in {q} THEN Append(queue[p], N[p]) ELSE queue[p]
      /\ DOMAIN queue' = Queues /\ queue' = [p \in Queues |-> queue'[p]]
  BY <1>1, <1>2
<1>4. n.id \in ops + 1 .. ops' BY <1>1
<1> QED BY <1>1, <1>3, <1>4 DEF Issuing, Issues

--------------------
(* The kinds of operations. *)

Runs(s) == {x \in Nodes : x.does = "run" /\ x.to = InSlot(s)}
Ins(s) == {x \in Nodes : x.does = "copy" /\ x.to = InSlot(s)}
Reads(s) == {x \in Nodes : x.does = "read" /\ x.to = Staging(s)}
Outs(s) == {x \in Nodes : x.does = "copy" /\ x.from = InSlot(s)}
Files(s, i) == {x \in Nodes : x.does = "copy" /\ x.from = Staging(s) /\ x.to = Home(i)}
Steps(i) == {x \in Nodes : x.does = "run" /\ x.to = Home(i)}

LEMMA PlacesDiffer ==
  /\ \A a, b : (InSlot(a) = InSlot(b) => a = b) /\ (Home(a) = Home(b) => a = b) /\ (Staging(a) = Staging(b) => a = b)
  /\ \A a, b : InSlot(a) # Home(b) /\ InSlot(a) # Staging(b) /\ Home(a) # Staging(b)
BY DEF InSlot, Home, Staging

LEMMA NodeKinds ==
  ASSUME QueueInv, NEW x \in Nodes
  PROVE  /\ x.from \in Place /\ x.to \in Place
         /\ \/ \E s \in Slot : x \in Runs(s) /\ x \in In(Compute) /\ x.from = InSlot(s)
            \/ \E i \in Slice : x \in Steps(i) /\ x \in In(HostStep) /\ mode = "host" /\ x.from = Home(i)
            \/ \E s \in Slot : /\ x \in Ins(s)
                               /\ IF mode = "disk" THEN x.from = Staging(s)
                                  ELSE x \in In(H2D) /\ \E i \in Slice : x.from = Home(i)
            \/ \E s \in Slot : /\ x \in Outs(s) /\ x \in In(D2H)
                               /\ IF mode = "disk" THEN x.to = Staging(s) ELSE \E i \in Slice : x.to = Home(i)
            \/ \E s \in Slot, i \in Slice : x \in Files(s, i) /\ x \in In(Lane(s)) /\ mode = "disk"
            \/ \E s \in Slot, i \in Slice :
                 /\ x \in Reads(s) /\ x \in In(Lane(s)) /\ mode = "disk" /\ x.from = Home(i)
                 /\ x.slot = s
<1>1. ASSUME NEW q \in Queues, NEW y \in In(q), y.does = "read"
      PROVE  \E s \in Slot, i \in Slice : /\ q = Lane(s) /\ mode = "disk" /\ y.slot = s
                                          /\ y.to = Staging(s) /\ y.from = Home(i)
  <2>1. PICK s \in Slot : q = Lane(s) /\ y \in ReadOp /\ y.slot = s BY <1>1, ReadsInLanes
  <2>2. Kind(q, y) BY DEF QueueInv
  <2>3. y \notin CopyOp BY <1>1 DEF CopyOp
  <2> QED BY <2>1, <2>2, <2>3 DEF Kind
<1>2. CASE x \in Pending
  <2>1. PICK q \in Queues : x \in In(q) BY <1>2 DEF Pending
  <2>2. Kind(q, x) /\ x \in Op BY <2>1, InOp DEF QueueInv
  <2>3. x.from \in Place /\ x.to \in Place BY <2>2 DEF Op, CopyOp, RunOp, ReadOp
  <2>4. /\ x \in CopyOp => x.does = "copy"
        /\ x \in RunOp => x.does = "run"
        /\ x \in ReadOp => x.does = "read"
    BY DEF CopyOp, RunOp, ReadOp
  <2>5. CASE q = Compute BY <2>1, <2>2, <2>3, <2>4, <2>5 DEF Kind, Runs
  <2>6. CASE q = HostStep BY <2>1, <2>2, <2>3, <2>4, <2>6 DEF Kind, Steps
  <2>7. CASE q = H2D BY <2>1, <2>2, <2>3, <2>4, <2>7 DEF Kind, Ins
  <2>8. CASE q = D2H BY <2>1, <2>2, <2>3, <2>4, <2>8 DEF Kind, Outs
  <2>9. ASSUME NEW s \in Slot, q = Lane(s)
        PROVE  \E i \in Slice : \/ x \in Files(s, i) /\ x \in In(Lane(s)) /\ mode = "disk"
                                \/ /\ x \in Reads(s) /\ x \in In(Lane(s)) /\ mode = "disk" /\ x.from = Home(i)
                                   /\ x.slot = s
    BY <2>1, <2>2, <2>3, <2>4, <2>9 DEF Kind, Files, Reads
  <2> QED BY <2>3, <2>5, <2>6, <2>7, <2>8, <2>9, Places
<1>3. CASE x \notin Pending
  <2>1. PICK y \in Pending : y.does = "read" /\ x = Second(y) BY <1>3 DEF Nodes
  <2>2. PICK q \in Queues : y \in In(q) BY DEF Pending
  <2>3. PICK s \in Slot, i \in Slice : mode = "disk" /\ y.slot = s /\ y.to = Staging(s)
    BY <1>1, <2>1, <2>2
  <2>4. x.does = "copy" /\ x.from = Staging(s) /\ x.to = InSlot(s) BY <2>1, <2>3 DEF Second
  <2>5. x.from \in Place /\ x.to \in Place BY <2>4 DEF Place
  <2> QED BY <2>3, <2>4, <2>5 DEF Ins
<1> QED BY <1>2, <1>3

\* Who writes and who reads a place.
LEMMA ToSlot ==
  ASSUME QueueInv, NEW x \in Nodes, NEW s \in Slot, x.to = InSlot(s)
  PROVE  \/ x \in Runs(s) /\ x \in In(Compute)
         \/ x \in Ins(s) /\ (mode # "disk" => x \in In(H2D))
BY NodeKinds, PlacesDiffer DEF Runs, Steps, Ins, Outs, Files, Reads

LEMMA FromSlot ==
  ASSUME QueueInv, NEW x \in Nodes, NEW s \in Slot, x.from = InSlot(s)
  PROVE  \/ x \in Runs(s) /\ x \in In(Compute)
         \/ x \in Outs(s) /\ x \in In(D2H)
<1>1. \A t \in Slot : /\ x \in Runs(t) /\ x.from = InSlot(t) => t = s
                      /\ x \in Outs(t) => t = s
                      /\ x.from # Staging(t)
  BY PlacesDiffer DEF Runs, Outs
<1>2. \A i \in Slice : x.from # Home(i) BY PlacesDiffer
<1>3. \A t \in Slot, i \in Slice : x \notin Files(t, i) BY <1>1 DEF Files
<1> QED BY <1>1, <1>2, <1>3, NodeKinds

LEMMA ToHome ==
  ASSUME QueueInv, NEW x \in Nodes, NEW i \in Slice, x.to = Home(i)
  PROVE  \/ mode = "host" /\ x \in Steps(i)
         \/ mode # "disk" /\ x \in In(D2H) /\ \E s \in Slot : x \in Outs(s)
         \/ mode = "disk" /\ \E s \in Slot : x \in Files(s, i) /\ x \in In(Lane(s))
BY NodeKinds, PlacesDiffer DEF Runs, Steps, Ins, Outs, Files, Reads

LEMMA FromHome ==
  ASSUME QueueInv, NEW x \in Nodes, NEW i \in Slice, x.from = Home(i)
  PROVE  \/ mode = "host" /\ x \in Steps(i)
         \/ mode # "disk" /\ \E s \in Slot : x \in Ins(s)
         \/ mode = "disk" /\ \E s \in Slot : x \in Reads(s)
BY NodeKinds, PlacesDiffer DEF Runs, Steps, Ins, Outs, Files, Reads

LEMMA ToStaging ==
  ASSUME QueueInv, NEW x \in Nodes, NEW s \in Slot, x.to = Staging(s)
  PROVE  /\ mode = "disk"
         /\ \/ x \in Outs(s) /\ x \in In(D2H)
            \/ x \in Reads(s) /\ x \in In(Lane(s))
BY NodeKinds, PlacesDiffer DEF Runs, Steps, Ins, Outs, Files, Reads

LEMMA FromStaging ==
  ASSUME QueueInv, NEW x \in Nodes, NEW s \in Slot, x.from = Staging(s)
  PROVE  /\ mode = "disk"
         /\ \/ x \in Ins(s)
            \/ \E i \in Slice : x \in Files(s, i) /\ x \in In(Lane(s))
BY NodeKinds, PlacesDiffer DEF Runs, Steps, Ins, Outs, Files, Reads

--------------------
(* What the events and the futures say is done. *)

\* Compute waits for an operation, and it may still come before the next one that
\* conflicts with it: what is brought into a slot, or written from its buffer, is
\* either awaited by compute or for the slice that is acquired next.
Awaited(x) == Follows(In(Compute), x)
Expected(s, x) ==
  HasTarget /\ page[Target].slot = s /\ \A i \in Slice : x.from = Home(i) => i = Target
Arrives(s, x) ==
  \/ x \in Ins(s) \/ x \in Reads(s)
  \/ \E i \in Slice : i # slot[s].page /\ x \in Files(s, i)

Marked == \A x \in In(Compute) : Follows(Of(mark), x)
Freed == \A s \in Slot : ~slot[s].busy => \A x \in Runs(s) : Follows(Of(slot[s].free), x)
CopiedOut == \A s \in Slot : \A x \in Outs(s) : Follows(Of(slot[s].out), x)
CopiedHome ==
  \A i \in Slice, s \in Slot : \A x \in Outs(s) : x.to = Home(i) => Follows(Of(page[i].homeEv), x)
Returning ==
  \A i \in Slice :
    /\ \A x \in Steps(i) : x.id = page[i].homeReady /\ page[i].slot = None
    /\ \A s \in Slot : \A x \in Files(s, i) : x.id = page[i].homeReady
Arriving ==
  \A s \in Slot, x \in Nodes :
    Arrives(s, x) => Follows(Of(slot[s].ready), x) /\ (Awaited(x) \/ Expected(s, x))
Leaving == \A s \in Slot : slot[s].busy => \A x \in Outs(s) : Awaited(x)
\* What is copied to the staging buffer is written to a file before the buffer is
\* used again.
Staged ==
  mode = "disk" => \A s \in Slot : \A x \in Outs(s) :
    \/ \E i \in Slice : \E w \in Files(s, i) : Follows({w}, x)
    \/ at.call = "submit" /\ s = Own
Reading == \A s \in Slot : \A x \in Reads(s) : x.id = slot[s].ready /\ Expected(s, x)

\* Of two operations, one of which writes what the other one reads or writes, the
\* second needs the first.  Only the copy of a slice to the staging buffer may
\* overtake the file write of what that slice was before.
Conflict(x, y) == x.to = y.from \/ x.to = y.to \/ x.from = y.to
Overtakes(x, y) ==
  /\ at.call = "submit" /\ x \in Files(Own, at.slice) /\ y \in Outs(Own)
  /\ DOMAIN y.want = Changed(at.slice)
OvertakesNext(x, y) == Overtakes(x, y)'
Ordered == \A x, y \in Nodes : x.id < y.id /\ Conflict(x, y) => Follows({y}, x) \/ Overtakes(x, y)

SyncInv ==
  /\ Marked /\ Freed /\ CopiedOut /\ CopiedHome /\ Returning /\ Arriving /\ Leaving /\ Staged /\ Reading
  /\ Ordered

LEMMA ExecuteSync ==
  ASSUME QueueInv, SyncInv, NEW q \in Queues, Execute(q)
  PROVE  SyncInv'
<1>1. PICK o \in In(q) : Executed(q, o) BY ExecuteStep
<1>2. UNCHANGED <<mode, frozen, at, batch, page, slot, grown, clock, ops, mark, latest>>
  BY DEF Execute, config
<1>3. /\ Nodes' = Nodes \ {o} /\ o \in Nodes
      /\ \A e \in Edges : e[2] = o => e[1] = o
  BY <1>1, ExecutedNodes
<1>4. ASSUME NEW d, NEW x \in Nodes', Follows(Of(d), x)
      PROVE  Follows(Of(d), x)'
  <2>1. Of(d) \subseteq Of(d)' \union {o} /\ x # o BY <1>3 DEF Of
  <2>2. Later(Of(d)', x) BY <1>1, <1>4, <2>1, ExecutedLater
  <2> QED BY <2>2 DEF Later, Follows
<1>5. In(Compute) \subseteq In(Compute)' \union {o} /\ In(Compute)' \subseteq In(Compute)
  <2>1. Compute # H2D /\ Compute \in Queues BY DEF Compute, H2D, Queues
  <2> QED BY <1>1, <2>1 DEF Executed
<1>6. ASSUME NEW x \in Nodes', Awaited(x)
      PROVE  Awaited(x)'
  <2>1. Later(In(Compute)', x) BY <1>1, <1>3, <1>5, <1>6, ExecutedLater DEF Awaited
  <2> QED BY <2>1 DEF Later, Follows, Awaited
<1>7. ASSUME NEW x \in Nodes', NEW y \in Nodes, Follows({y}, x)
      PROVE  y \in Nodes' /\ Follows({y}, x)'
  <2>1. y # o
    <3>1. ASSUME y = o PROVE FALSE
      <4>1. Implied(Nodes, Edges, {o}, x) BY <1>7, <3>1 DEF Follows
      <4>2. x = o BY <1>3, <4>1, ImpliedAlone
      <4> QED BY <1>3, <4>2
    <3> QED BY <3>1
  <2>2. Later({y}, x) BY <1>1, <1>3, <1>7, ExecutedLater
  <2> QED BY <1>3, <2>1, <2>2 DEF Later, Follows
<1>8. /\ \A s \in Slot : /\ Runs(s)' \subseteq Runs(s) /\ Ins(s)' \subseteq Ins(s)
                         /\ Reads(s)' \subseteq Reads(s) /\ Outs(s)' \subseteq Outs(s)
                         /\ Runs(s)' \subseteq Nodes' /\ Outs(s)' \subseteq Nodes'
      /\ \A i \in Slice : /\ Steps(i)' \subseteq Steps(i)
                          /\ \A s \in Slot : Files(s, i)' = Files(s, i) \ {o}
  BY <1>3 DEF Runs, Ins, Reads, Outs, Files, Steps
<1>9. Marked'
  <2> SUFFICES ASSUME NEW x \in In(Compute)' PROVE Follows(Of(mark), x)'
    BY DEF Marked
  <2>1. x \in Nodes' BY DEF Nodes, Pending, Queues
  <2>2. Follows(Of(mark), x) BY <1>5 DEF SyncInv, Marked
  <2> QED BY <1>2, <1>4, <2>1, <2>2
<1>10. Freed'
  <2> SUFFICES ASSUME NEW s \in Slot, ~slot[s].busy, NEW x \in Runs(s)' PROVE Follows(Of(slot[s].free), x)'
    BY <1>2 DEF Freed
  <2>1. x \in Nodes' /\ Follows(Of(slot[s].free), x) BY <1>8 DEF SyncInv, Freed
  <2> QED BY <1>2, <1>4, <2>1
<1>11. CopiedOut'
  <2> SUFFICES ASSUME NEW s \in Slot, NEW x \in Outs(s)' PROVE Follows(Of(slot[s].out), x)'
    BY DEF CopiedOut
  <2>1. x \in Nodes' /\ Follows(Of(slot[s].out), x) BY <1>8 DEF SyncInv, CopiedOut
  <2> QED BY <1>2, <1>4, <2>1
<1>12. CopiedHome'
  <2> SUFFICES ASSUME NEW i \in Slice, NEW s \in Slot, NEW x \in Outs(s)', x.to = Home(i)
               PROVE  Follows(Of(page[i].homeEv), x)'
    BY DEF CopiedHome
  <2>1. x \in Nodes' /\ Follows(Of(page[i].homeEv), x) BY <1>8 DEF SyncInv, CopiedHome
  <2> QED BY <1>2, <1>4, <2>1
<1>13. Returning' BY <1>2, <1>8 DEF SyncInv, Returning
<1>14. HasTarget' = HasTarget /\ Target' = Target /\ Own' = Own
  BY <1>2 DEF HasTarget, Target, Own
<1>15. Arriving'
  <2> SUFFICES ASSUME NEW s \in Slot, NEW x \in Nodes', Arrives(s, x)'
               PROVE  Follows(Of(slot[s].ready), x)' /\ (Awaited(x)' \/ Expected(s, x)')
    BY DEF Arriving
  <2>1. x \in Nodes /\ Arrives(s, x) BY <1>2, <1>3, <1>8 DEF Arrives
  <2>2. Follows(Of(slot[s].ready), x) /\ (Awaited(x) \/ Expected(s, x))
    BY <2>1 DEF SyncInv, Arriving
  <2>3. Follows(Of(slot[s].ready), x)' BY <1>2, <1>4, <2>2
  <2>4. Expected(s, x)' = Expected(s, x) BY <1>2, <1>14 DEF Expected
  <2> QED BY <1>6, <2>2, <2>3, <2>4
<1>16. Leaving' BY <1>2, <1>6, <1>8 DEF SyncInv, Leaving
<1>17. Staged'
  <2> SUFFICES ASSUME mode = "disk", NEW s \in Slot, NEW x \in Outs(s)', ~(at.call = "submit" /\ s = Own)
               PROVE  \E i \in Slice : \E w \in Files(s, i)' : Follows({w}, x)'
    BY <1>2, <1>14 DEF Staged
  <2>1. PICK i \in Slice : \E w \in Files(s, i) : Follows({w}, x) BY <1>8 DEF SyncInv, Staged
  <2>2. PICK w \in Files(s, i) : Follows({w}, x) BY <2>1
  <2>3. w \in Nodes' /\ Follows({w}, x)' BY <1>7, <1>8, <2>2 DEF Files
  <2>4. w \in Files(s, i)' BY <1>3, <1>8, <2>3
  <2> QED BY <2>3, <2>4
<1>18. Reading'
  <2> SUFFICES ASSUME NEW s \in Slot, NEW x \in Reads(s)'
               PROVE  x.id = slot[s].ready /\ Expected(s, x)'
    BY <1>2 DEF Reading
  <2>1. Expected(s, x)' = Expected(s, x) BY <1>2, <1>14 DEF Expected
  <2> QED BY <1>8, <2>1 DEF SyncInv, Reading
<1>19. Ordered'
  <2> SUFFICES ASSUME NEW x \in Nodes', NEW y \in Nodes', x.id < y.id, Conflict(x, y)
               PROVE  Follows({y}, x)' \/ Overtakes(x, y)'
    BY DEF Ordered, Conflict
  <2>1. CASE Follows({y}, x) BY <1>3, <1>7, <2>1
  <2>2. CASE Overtakes(x, y)
    <3>1. Changed(at.slice)' = Changed(at.slice) BY <1>2 DEF Changed, Trains
    <3> QED BY <1>2, <1>14, <2>2, <3>1 DEF Overtakes, Files, Outs
  <2> QED BY <1>3, <2>1, <2>2 DEF SyncInv, Ordered
<1> QED BY <1>9, <1>10, <1>11, <1>12, <1>13, <1>15, <1>16, <1>17, <1>18, <1>19 DEF SyncInv

\* Issuing operations: what followed before still does, and what the new ones
\* follow is done when they are.
LEMMA OldFollows ==
  ASSUME QueueInv, NEW Q, NEW N, Issuing(Q, N), NEW d, NEW x, Follows(Of(d), x)
  PROVE  Follows(Of(d), x)'
<1>1. Of(d) \subseteq Nodes /\ Of(d) \subseteq Of(d)' BY IssuedNodes DEF Of
<1>2. Later(Of(d)', x) BY <1>1, LaterOld
<1> QED BY <1>2 DEF Later, Follows

LEMMA OldNeeds ==
  ASSUME QueueInv, NEW Q, NEW N, Issuing(Q, N), NEW y \in Nodes, NEW x, Follows({y}, x)
  PROVE  Follows({y}, x)'
<1>1. Later({y}, x) BY LaterOld
<1> QED BY <1>1 DEF Later, Follows

LEMMA OldAwaited ==
  ASSUME QueueInv, NEW Q, NEW N, Issuing(Q, N), NEW x, Awaited(x)
  PROVE  Awaited(x)'
<1>1. Compute \in Queues BY DEF Queues
<1>2. In(Compute) \subseteq Nodes /\ In(Compute) \subseteq In(Compute)'
  BY <1>1, IssuedNodes DEF Nodes, Pending
<1>3. Later(In(Compute)', x) BY <1>2, LaterOld DEF Awaited
<1> QED BY <1>3 DEF Later, Follows, Awaited

LEMMA NewFollows ==
  ASSUME NEW n \in Nodes', NEW d, n.id = d, NEW x, Later({n}, x)
  PROVE  Follows(Of(d), x)'
<1>1. n \in Of(d)' BY DEF Of
<1>2. Later(Of(d)', n) BY <1>1, LaterSelf
<1>3. Later(Of(d)', x) BY <1>2, ImpliedTrans DEF Later
<1> QED BY <1>3 DEF Later, Follows

LEMMA NewAwaited ==
  ASSUME NEW n \in In(Compute)', NEW x, Later({n}, x)
  PROVE  Awaited(x)'
<1>1. Later(In(Compute)', n) BY LaterSelf
<1>2. Later(In(Compute)', x) BY <1>1, ImpliedTrans DEF Later
<1> QED BY <1>2 DEF Later, Follows, Awaited

LEMMA NewNeeds ==
  ASSUME NEW n, NEW x, Later({n}, x)
  PROVE  Follows({n}, x)'
BY DEF Later, Follows

\* The new operations are after every one that they conflict with.
LEMMA IssuedOrdered ==
  ASSUME QueueInv, Ordered, NEW Q, NEW N, Issuing(Q, N),
         \A x, y \in Nodes : ~Overtakes(x, y),
         \A q \in Q : \A x \in Nodes : Conflict(x, N[q]) => Later({N[q]}, x) \/ OvertakesNext(x, N[q]),
         \A q \in Q : N[q].does = "read" =>
           \A x \in Nodes : Conflict(x, Second(N[q])) => Later({Second(N[q])}, x),
         \A p, q \in Q : N[p].id < N[q].id => Later({N[q]}, N[p]) /\ N[p].does # "read" /\ N[q].does # "read"
  PROVE  Ordered'
<1> SUFFICES ASSUME NEW x \in Nodes', NEW y \in Nodes', x.id < y.id, Conflict(x, y)
             PROVE  Follows({y}, x)' \/ Overtakes(x, y)'
  BY DEF Ordered, Conflict
<1>1. \A z \in Nodes' : z \in Nodes \/ \E p \in Q : z = N[p] \/ (N[p].does = "read" /\ z = Second(N[p]))
  BY IssuedNodes
<1>2. \A z \in Nodes : z.id \in 1 .. ops BY NodeIs
<1>3. \A p \in Q : N[p].id \in ops + 1 .. ops' /\ Second(N[p]).id = N[p].id
  BY DEF Issuing, Issues, Second
<1>4. ops \in Nat /\ ops' \in Nat BY DEF QueueInv, Issuing
<1>5. CASE x \in Nodes /\ y \in Nodes
  <2>1. Follows({y}, x) BY <1>5 DEF Ordered
  <2> QED BY <1>5, <2>1, OldNeeds
<1>6. CASE x \in Nodes /\ y \notin Nodes
  <2>1. PICK p \in Q : y = N[p] \/ (N[p].does = "read" /\ y = Second(N[p])) BY <1>1, <1>6
  <2>2. Later({y}, x) \/ OvertakesNext(x, y) BY <1>6, <2>1
  <2> QED BY <2>2, NewNeeds DEF OvertakesNext
<1>7. CASE x \notin Nodes
  <2>1. PICK p \in Q : x = N[p] \/ (N[p].does = "read" /\ x = Second(N[p])) BY <1>1, <1>7
  <2>2. x.id \in ops + 1 .. ops' /\ x.id = N[p].id BY <1>3, <2>1
  <2>3. y \notin Nodes BY <1>2, <1>4, <2>2
  <2>4. PICK r \in Q : y = N[r] \/ (N[r].does = "read" /\ y = Second(N[r])) BY <1>1, <2>3
  <2>5. y.id = N[r].id BY <1>3, <2>4
  <2>6. N[p].id < N[r].id BY <2>2, <2>5
  <2>7. Later({y}, x) BY <2>1, <2>4, <2>6
  <2> QED BY <2>7, NewNeeds
<1> QED BY <1>5, <1>6, <1>7

LEMMA OneOrdered ==
  ASSUME QueueInv, Ordered, NEW q, NEW n, NEW N, Issuing({q}, N), N[q] = n,
         \A x, y \in Nodes : ~Overtakes(x, y),
         \A x \in Nodes : Conflict(x, n) => Later({n}, x) \/ OvertakesNext(x, n),
         n.does = "read" => \A x \in Nodes : Conflict(x, Second(n)) => Later({Second(n)}, x)
  PROVE  Ordered'
<1>1. PICK Q : Q = {q} OBVIOUS
<1>2. \A p \in Q : p = q /\ N[p] = n BY <1>1
<1>3. n.id \in Nat BY DEF Issuing, Issues, QueueInv
<1>4. \A p \in Q : \A x \in Nodes : Conflict(x, N[p]) => Later({N[p]}, x) \/ OvertakesNext(x, N[p])
  BY <1>2
<1>5. \A p \in Q : N[p].does = "read" =>
        \A x \in Nodes : Conflict(x, Second(N[p])) => Later({Second(N[p])}, x)
  BY <1>2
<1>6. \A p, r \in Q : N[p].id < N[r].id => Later({N[r]}, N[p]) /\ N[p].does # "read" /\ N[r].does # "read"
  BY <1>2, <1>3
<1>7. Issuing(Q, N) BY <1>1
<1> QED BY <1>4, <1>5, <1>6, <1>7, IssuedOrdered

--------------------
(* The operations that the host issues. *)

LEMMA CopyIs ==
  ASSUME ops \in Nat, NEW after \in SUBSET Nat, NEW from \in Place, NEW to \in Place, NEW want \in Content,
         NEW n, n = Copy(after, from, to, want)
  PROVE  /\ n \in CopyOp /\ n \in Op /\ n.does = "copy" /\ n.id = ops + 1
         /\ n.after = after /\ n.from = from /\ n.to = to /\ n.want = want
BY DEF Copy, CopyOp, Op

LEMMA RunIs ==
  ASSUME ops \in Nat, NEW after \in SUBSET Nat, NEW place \in Place, NEW want \in Content, NEW makes \in Content,
         NEW n, n = Run(after, place, want, makes)
  PROVE  /\ n \in RunOp /\ n \in Op /\ n.does = "run" /\ n.id = ops + 1
         /\ n.after = after /\ n.from = place /\ n.to = place /\ n.want = want /\ n.makes = makes
BY DEF Run, RunOp, Op

LEMMA ReadIs ==
  ASSUME ops \in Nat, NEW after \in SUBSET Nat, NEW i \in Slice, NEW s \in Slot, NEW want \in Content,
         NEW waits \in SUBSET Nat, NEW n, n = Read(after, i, s, want, waits)
  PROVE  /\ n \in ReadOp /\ n \in Op /\ n.does = "read" /\ n.id = ops + 1
         /\ n.after = after /\ n.from = Home(i) /\ n.to = Staging(s) /\ n.want = want
         /\ n.slot = s /\ n.waits = waits
BY DEF Read, ReadOp, Op, Place

LEMMA PlaceIs ==
  \A i \in Slice, s \in Slot : Home(i) \in Place /\ InSlot(s) \in Place /\ Staging(s) \in Place
BY DEF Place

\* No slice is updated more often than there are batches.
LEMMA NowIs ==
  ASSUME HostInv, NEW i \in Slice, NEW regions \in SUBSET {"p", "b", "s"}, InBatch \/ at.call = "first"
  PROVE  /\ Now(i, regions) \in Content /\ DOMAIN Now(i, regions) = regions
         /\ \A r \in regions : Now(i, regions)[r] = <<i, latest[i][r]>>
<1>1. batch \in 0 .. NumBatches /\ batch < NumBatches /\ NumBatches \in Nat
  BY Numbers DEF HostInv, HostTypes, Control, InBatch
<1>2. \A r \in {"p", "b", "s"} : latest[i][r] \in Nat /\ latest[i][r] <= batch + 1
  BY <1>1 DEF HostInv, HostTypes, Counts
<1>3. \A r \in regions : <<i, latest[i][r]>> \in Values BY <1>1, <1>2 DEF Values
<1>4. Now(i, regions) \in [regions -> Values] /\ regions \in SUBSET Region
  BY <1>3 DEF Now, Region
<1> QED BY <1>4 DEF Now, Content

LEMMA GradientIs ==
  ASSUME HostInv, NEW i \in Slice, NEW k \in 0 .. NumBatches
  PROVE  /\ Gradient(i, k) \in Content /\ DOMAIN Gradient(i, k) = {"g"} /\ Gradient(i, k)["g"] = <<i, k>>
<1>1. <<i, k>> \in Values BY DEF Values
<1>2. Gradient(i, k) \in [{"g"} -> Values] /\ {"g"} \in SUBSET Region
  BY <1>1 DEF Gradient, Region
<1> QED BY <1>2 DEF Gradient, Content

LEMMA WithIs ==
  ASSUME NEW f \in Content, NEW g \in Content, DOMAIN f \intersect DOMAIN g = {}
  PROVE  /\ With(f, g) \in Content /\ DOMAIN With(f, g) = DOMAIN f \union DOMAIN g
         /\ \A r \in DOMAIN f : With(f, g)[r] = f[r]
         /\ \A r \in DOMAIN g : With(f, g)[r] = g[r]
<1>1. f \in [DOMAIN f -> Values] /\ g \in [DOMAIN g -> Values] /\ DOMAIN f \subseteq Region /\ DOMAIN g \subseteq Region
  BY DEF Content
<1>2. With(f, g) = [r \in DOMAIN f \union DOMAIN g |-> IF r \in DOMAIN f THEN f[r] ELSE g[r]]
  BY DEF With
<1>3. With(f, g) \in [DOMAIN f \union DOMAIN g -> Values] /\ DOMAIN f \union DOMAIN g \in SUBSET Region
  BY <1>1, <1>2
<1> QED BY <1>2, <1>3 DEF Content

--------------------
(* Compute. *)

\* The n-th operation to be issued to compute.
Computes(n, after, want, makes) ==
  /\ n = Run(after, InSlot(Own), want, makes)
  /\ Own \in Slot /\ after \in SUBSET Nat /\ want \in Content /\ makes \in Content
  /\ queue' = Issued(Compute, n) /\ ops' = ops + 1 /\ mark' = ops + 1 /\ mode' = mode

LEMMA ComputesIs ==
  ASSUME QueueInv, NEW n, NEW after, NEW want, NEW makes, Computes(n, after, want, makes)
  PROVE  /\ Issuing({Compute}, [p \in {Compute} |-> n]) /\ [p \in {Compute} |-> n][Compute] = n
         /\ n.id = ops + 1 /\ n.does = "run" /\ n.after = after /\ n.want = want /\ n.makes = makes
         /\ n.from = InSlot(Own) /\ n.to = InSlot(Own)
         /\ n \in In(Compute)' /\ n \in Nodes' /\ n \notin Nodes
         /\ \A x \in In(Compute)' : x \in In(Compute) \/ x = n
         /\ \A x \in Nodes' : x \in Nodes \/ x = n
         /\ Pending' = Pending \union {n}
<1> DEFINE N == [p \in {Compute} |-> n]
<1>1. Compute \in Queues /\ ops \in Nat BY DEF Queues, QueueInv
<1>2. /\ n \in RunOp /\ n \in Op /\ n.does = "run" /\ n.id = ops + 1
      /\ n.after = after /\ n.from = InSlot(Own) /\ n.to = InSlot(Own) /\ n.want = want /\ n.makes = makes
  BY <1>1, RunIs, PlaceIs, Numbers DEF Computes
<1>3. Kind(Compute, n) BY <1>2 DEF Kind, Computes, Compute, H2D, D2H, HostStep, Lane
<1>4. Issuing({Compute}, N) /\ N[Compute] = n BY <1>1, <1>2, <1>3, IssuingOne DEF Computes
<1> HIDE DEF N
<1>5. /\ \A p \in Queues : In(p)' = IF p \in {Compute} THEN In(p) \union {N[p]} ELSE In(p)
      /\ Pending' = Pending \union {N[p] : p \in {Compute}}
      /\ \A x \in Nodes' : x \in Nodes \/ \E p \in {Compute} : x = N[p] \/ (N[p].does = "read" /\ x = Second(N[p]))
      /\ \A p \in {Compute} : N[p] \in Nodes'
  BY <1>4, IssuedNodes
<1>6. In(Compute)' = In(Compute) \union {n} /\ Pending' = Pending \union {n} BY <1>1, <1>4, <1>5
<1>7. n \notin Nodes
  <2>1. \A x \in Nodes : x.id \in 1 .. ops BY NodeIs
  <2> QED BY <1>1, <1>2, <2>1
<1>8. \A x \in Nodes' : x \in Nodes \/ x = n BY <1>2, <1>4, <1>5
<1>9. n \in Nodes' BY <1>4, <1>5
<1> QED BY <1>2, <1>4, <1>6, <1>7, <1>8, <1>9 DEF N

\* What is common to the operations of compute: it keeps the order of the stream.
LEMMA ComputesSync ==
  ASSUME QueueInv, HostInv, SyncInv, NEW n, NEW after, NEW want, NEW makes, Computes(n, after, want, makes),
         at.call # "submit", at'.call # "submit",
         page' = page, \A t \in Slot : /\ slot'[t].page = slot[t].page /\ slot'[t].ready = slot[t].ready
                                       /\ slot'[t].free = slot[t].free /\ slot'[t].out = slot[t].out
                                       /\ slot'[t].busy <=> (t = Own \/ slot[t].busy),
         \A x \in Ins(Own) \union Outs(Own) : Later({n}, x),
         \A s \in Slot, x \in Nodes : Arrives(s, x) /\ Expected(s, x) => Awaited(x)' \/ Expected(s, x)',
         \A s \in Slot, x \in Nodes : x \in Reads(s) => Expected(s, x)'
  PROVE  SyncInv'
<1> DEFINE N == [p \in {Compute} |-> n]
<1>1. /\ Issuing({Compute}, N) /\ N[Compute] = n
      /\ n.id = ops + 1 /\ n.does = "run" /\ n.from = InSlot(Own) /\ n.to = InSlot(Own)
      /\ n \in In(Compute)' /\ n \in Nodes' /\ n \notin Nodes
      /\ \A x \in In(Compute)' : x \in In(Compute) \/ x = n
      /\ \A x \in Nodes' : x \in Nodes \/ x = n
  BY ComputesIs
<1> HIDE DEF N
<1>2. Own \in Slot /\ mode' = mode /\ mark' = n.id /\ Compute \in Queues
  BY <1>1 DEF Computes, Queues
<1>3. \A s \in Slot : /\ \A x \in Runs(s)' : x \in Runs(s) \/ (x = n /\ s = Own)
                      /\ Ins(s)' \subseteq Ins(s) /\ Reads(s)' \subseteq Reads(s) /\ Outs(s)' \subseteq Outs(s)
                      /\ \A i \in Slice : Files(s, i)' \subseteq Files(s, i)
  <2> SUFFICES ASSUME NEW s \in Slot
               PROVE  /\ \A x \in Runs(s)' : x \in Runs(s) \/ (x = n /\ s = Own)
                      /\ Ins(s)' \subseteq Ins(s) /\ Reads(s)' \subseteq Reads(s) /\ Outs(s)' \subseteq Outs(s)
                      /\ \A i \in Slice : Files(s, i)' \subseteq Files(s, i)
    OBVIOUS
  <2>1. \A x \in Runs(s)' : x \in Runs(s) \/ (x = n /\ s = Own)
    BY <1>1, <1>2, PlacesDiffer DEF Runs
  <2>2. Ins(s)' \subseteq Ins(s) /\ Reads(s)' \subseteq Reads(s) /\ Outs(s)' \subseteq Outs(s)
    BY <1>1 DEF Ins, Reads, Outs
  <2>3. \A i \in Slice : Files(s, i)' \subseteq Files(s, i) BY <1>1 DEF Files
  <2> QED BY <2>1, <2>2, <2>3
<1>4. \A i \in Slice : Steps(i)' \subseteq Steps(i) BY <1>1, PlacesDiffer DEF Steps
<1>5. Nodes \subseteq Nodes' BY <1>1, IssuedNodes
<1>6. \A x \in In(Compute) : x \in Nodes BY <1>2 DEF Nodes, Pending
<1>7. \A x \in In(Compute) : Later({n}, x)
  <2> SUFFICES ASSUME NEW x \in In(Compute) PROVE Later({n}, x)
    OBVIOUS
  <2>1. InOrder(Compute) /\ {x} \subseteq In(Compute) BY DEF InOrder, Compute, H2D
  <2>2. Follows({x}, x) BY ImpliedSelf DEF Follows
  <2> QED BY <1>1, <2>1, <2>2, LaterLine
<1>8. Later({n}, n) BY LaterSelf
<1>9. Marked'
  <2> SUFFICES ASSUME NEW x \in In(Compute)' PROVE Follows(Of(mark), x)'
    BY DEF Marked
  <2>1. Later({n}, x) BY <1>1, <1>7, <1>8
  <2> QED BY <1>1, <1>2, <2>1, NewFollows
<1>10. Freed'
  <2> SUFFICES ASSUME NEW s \in Slot, ~slot'[s].busy, NEW x \in Runs(s)' PROVE Follows(Of(slot[s].free), x)'
    BY DEF Freed
  <2>1. s # Own /\ ~slot[s].busy /\ slot'[s].free = slot[s].free /\ x \in Runs(s) BY <1>3
  <2>2. Follows(Of(slot[s].free), x) BY <2>1 DEF SyncInv, Freed
  <2> QED BY <1>1, <2>1, <2>2, OldFollows
<1>11. CopiedOut'
  <2> SUFFICES ASSUME NEW s \in Slot, NEW x \in Outs(s)' PROVE Follows(Of(slot[s].out), x)'
    BY DEF CopiedOut
  <2>1. slot'[s].out = slot[s].out /\ Follows(Of(slot[s].out), x) BY <1>3 DEF SyncInv, CopiedOut
  <2> QED BY <1>1, <2>1, OldFollows
<1>12. CopiedHome'
  <2> SUFFICES ASSUME NEW i \in Slice, NEW s \in Slot, NEW x \in Outs(s)', x.to = Home(i)
               PROVE  Follows(Of(page[i].homeEv), x)'
    BY DEF CopiedHome
  <2>1. Follows(Of(page[i].homeEv), x) BY <1>3 DEF SyncInv, CopiedHome
  <2> QED BY <1>1, <2>1, OldFollows
<1>13. Returning' BY <1>3, <1>4 DEF SyncInv, Returning
<1>14. Arriving'
  <2> SUFFICES ASSUME NEW s \in Slot, NEW x \in Nodes', Arrives(s, x)'
               PROVE  Follows(Of(slot[s].ready), x)' /\ (Awaited(x)' \/ Expected(s, x)')
    BY DEF Arriving
  <2>1. Arrives(s, x) /\ x \in Nodes
    <3>1. slot'[s].page = slot[s].page OBVIOUS
    <3>2. Arrives(s, x) BY <1>3, <3>1 DEF Arrives
    <3> QED BY <3>2 DEF Arrives, Ins, Reads, Files
  <2>2. Follows(Of(slot[s].ready), x) /\ (Awaited(x) \/ Expected(s, x)) /\ slot'[s].ready = slot[s].ready
    BY <2>1 DEF SyncInv, Arriving
  <2>3. Follows(Of(slot[s].ready), x)' BY <1>1, <2>2, OldFollows
  <2>4. Awaited(x) => Awaited(x)' BY <1>1, OldAwaited
  <2> QED BY <2>1, <2>2, <2>3, <2>4
<1>15. Leaving'
  <2> SUFFICES ASSUME NEW s \in Slot, slot'[s].busy, NEW x \in Outs(s)' PROVE Awaited(x)'
    BY DEF Leaving
  <2>1. x \in Outs(s) /\ (s = Own \/ slot[s].busy) BY <1>3
  <2>2. CASE s = Own
    <3>1. Later({n}, x) BY <2>1, <2>2
    <3> QED BY <1>1, <3>1, NewAwaited
  <2>3. CASE slot[s].busy
    <3>1. Awaited(x) BY <2>1, <2>3 DEF SyncInv, Leaving
    <3> QED BY <1>1, <3>1, OldAwaited
  <2> QED BY <2>1, <2>2, <2>3
<1>16. Staged'
  <2> SUFFICES ASSUME mode = "disk", NEW s \in Slot, NEW x \in Outs(s)'
               PROVE  \E i \in Slice : \E w \in Files(s, i)' : Follows({w}, x)'
    BY <1>2 DEF Staged
  <2>1. PICK i \in Slice : \E w \in Files(s, i) : Follows({w}, x) BY <1>3 DEF SyncInv, Staged
  <2>2. PICK w \in Files(s, i) : Follows({w}, x) BY <2>1
  <2>3. w \in Nodes BY DEF Files
  <2>4. Follows({w}, x)' BY <1>1, <2>2, <2>3, OldNeeds
  <2>5. w \in Files(s, i)' BY <1>5, <2>3 DEF Files
  <2> QED BY <2>4, <2>5
<1>17. Reading'
  <2> SUFFICES ASSUME NEW s \in Slot, NEW x \in Reads(s)'
               PROVE  x.id = slot'[s].ready /\ Expected(s, x)'
    BY DEF Reading
  <2>1. x \in Reads(s) /\ x \in Nodes /\ slot'[s].ready = slot[s].ready BY <1>3 DEF Reads
  <2> QED BY <2>1 DEF SyncInv, Reading
<1>18. Ordered'
  <2>1. ASSUME NEW x \in Nodes, Conflict(x, n) PROVE Later({n}, x)
    <3>1. x.to = InSlot(Own) \/ x.from = InSlot(Own) BY <1>1, <2>1 DEF Conflict
    <3>2. x \in In(Compute) \/ x \in Ins(Own) \/ x \in Outs(Own) BY <1>2, <3>1, ToSlot, FromSlot
    <3> QED BY <1>7, <3>2
  <2>2. \A x, y \in Nodes : ~Overtakes(x, y) BY DEF Overtakes
  <2>3. Ordered BY DEF SyncInv
  <2> QED BY <1>1, <2>1, <2>2, <2>3, OneOrdered
<1> QED BY <1>9, <1>10, <1>11, <1>12, <1>13, <1>14, <1>15, <1>16, <1>17, <1>18 DEF SyncInv

LEMMA ReturnedNone ==
  ASSUME NEW d, Returned(d), NEW p \in {HostStep} \union {Lane(s) : s \in Slot}, NEW x \in In(p)
  PROVE  x.id # d
BY DEF Returned, PendingIn, In, Elems

\* The slice that is acquired next is in another slot than the one that computes.
LEMMA TargetElsewhere ==
  ASSUME HostInv, HasTarget, at.call # "acquire"
  PROVE  /\ Target \in Slice /\ Target # at.slice /\ page[Target].slot # Own
<1>1. at.slice \in Slice /\ at.slice \in Nat /\ Target \in Slice /\ page[Target].slot \in Slot /\ InBatch
  BY HostTyped, Numbers DEF HasTarget, InBatch
<1>2. Target # at.slice BY <1>1 DEF Target
<1>3. page[at.slice].slot \in Slot /\ slot[page[at.slice].slot].page = at.slice
  BY <1>1, HostTyped
<1>4. slot[page[Target].slot].page = Target BY <1>1, Numbers DEF HostInv, Resident
<1> QED BY <1>1, <1>2, <1>3, <1>4 DEF Own

LEMMA AcquireIssues ==
  ASSUME QueueInv, HostInv, Acquire, NEW makes,
         makes = IF at.leg = "backward" THEN Gradient(at.slice, 0) ELSE Now(at.slice, {})
  PROVE  Computes(Run({slot[Own].ready, slot[Own].out}, InSlot(Own), Now(at.slice, {}), makes),
                  {slot[Own].ready, slot[Own].out}, Now(at.slice, {}), makes)
<1>1. ops \in Nat BY DEF QueueInv
<1>2. /\ Own \in Slot /\ at.call = "acquire" /\ ops' = ops + 1 /\ mark' = ops + 1 /\ mode' = mode
      /\ queue' = Issued(Compute, Run({slot[Own].ready, slot[Own].out}, InSlot(Own), Now(at.slice, {}), makes))
  BY <1>1, AcquireIs
<1>3. slot[Own].ready \in Nat /\ slot[Own].out \in Nat /\ at.slice \in Slice
  BY <1>2, HostTyped DEF SlotType
<1>4. Now(at.slice, {}) \in Content BY <1>2, <1>3, NowIs DEF InBatch
<1>5. Gradient(at.slice, 0) \in Content BY <1>3, GradientIs, Numbers
<1> QED BY <1>2, <1>3, <1>4, <1>5 DEF Computes

LEMMA AcquireSync ==
  ASSUME QueueInv, HostInv, SyncInv, Acquire
  PROVE  SyncInv'
<1> DEFINE makes == IF at.leg = "backward" THEN Gradient(at.slice, 0) ELSE Now(at.slice, {})
           after == {slot[Own].ready, slot[Own].out}
           want == Now(at.slice, {})
           n == Run(after, InSlot(Own), want, makes)
           N == [p \in {Compute} |-> n]
<1>1. Computes(n, after, want, makes) BY AcquireIssues
<1>2. ops \in Nat BY DEF QueueInv
<1>3. /\ Own \in Slot /\ at.call = "acquire" /\ at' = Goto("fetch") /\ Returned(slot[Own].ready)
      /\ SamePages /\ page' = page
      /\ \A t \in Slot : /\ slot'[t].busy <=> (t = Own \/ slot[t].busy)
                         /\ slot'[t].free = slot[t].free /\ slot'[t].out = slot[t].out
  BY <1>2, AcquireIs
<1>4. at'.call = "fetch" BY <1>3, HostTyped DEF Goto
<1> HIDE DEF n, makes, want, after
<1>5. n.after = after /\ Issuing({Compute}, N) /\ N[Compute] = n /\ n \in In(Compute)'
  BY <1>1, ComputesIs
<1> HIDE DEF N
<1>6. ASSUME NEW x, Follows(Of(slot[Own].ready), x) \/ Follows(Of(slot[Own].out), x)
      PROVE  Later({n}, x)
  <2>1. slot[Own].ready \in n.after /\ slot[Own].out \in n.after BY <1>5 DEF after
  <2> QED BY <1>5, <1>6, <2>1, LaterAfter
<1>7. \A x \in Ins(Own) : Arrives(Own, x) /\ x \in Nodes BY DEF Arrives, Ins
<1>8. \A x \in Ins(Own) \union Outs(Own) : Later({n}, x)
  BY <1>3, <1>6, <1>7 DEF SyncInv, Arriving, CopiedOut
<1>9. Target = at.slice BY <1>3 DEF Target
<1>10. ASSUME NEW s \in Slot, NEW x \in Nodes, Arrives(s, x), Expected(s, x)
       PROVE  Awaited(x)'
  <2>1. s = Own BY <1>9, <1>10 DEF Expected, Own
  <2>2. Later({n}, x) BY <1>6, <1>10, <2>1 DEF SyncInv, Arriving
  <2> QED BY <1>5, <2>2, NewAwaited
<1>11. ASSUME NEW s \in Slot, NEW x \in Nodes, x \in Reads(s)
       PROVE  FALSE
  <2>1. x.id = slot[s].ready /\ Expected(s, x) BY <1>11 DEF SyncInv, Reading
  <2>2. s = Own BY <1>9, <2>1 DEF Expected, Own
  <2>3. x \in In(Lane(s)) BY <1>11, ToStaging DEF Reads, Outs
  <2> QED BY <1>3, <2>1, <2>2, <2>3, ReturnedNone
<1>12. at.call # "submit" /\ at'.call # "submit" BY <1>3, <1>4
<1>13. \A t \in Slot : /\ slot'[t].page = slot[t].page /\ slot'[t].ready = slot[t].ready
                       /\ slot'[t].free = slot[t].free /\ slot'[t].out = slot[t].out
                       /\ slot'[t].busy <=> (t = Own \/ slot[t].busy)
  BY <1>3 DEF SamePages
<1> QED BY <1>1, <1>3, <1>8, <1>10, <1>11, <1>12, <1>13, ComputesSync

\* What a pass reads, and what it makes in the slot.
PassReads == {"p", "b"} \union IF UsesState(at.slice) THEN {"s"} ELSE {}
PassMakes == IF UsesState(at.slice) THEN Updates ELSE Updates \ {"s"}

LEMMA PassIssues ==
  ASSUME QueueInv, HostInv, Pass
  PROVE  \E makes \in Content :
           /\ Computes(Run({}, InSlot(Own), Now(at.slice, PassReads), makes), {}, Now(at.slice, PassReads), makes)
           /\ DOMAIN makes = PassMakes \union (IF at.leg = "backward" THEN {"g"} ELSE {})
           /\ \A r \in PassMakes : makes[r] = <<at.slice, latest'[at.slice][r]>>
           /\ at.leg = "backward" => makes["g"] = <<at.slice, batch + 1>>
<1> DEFINE i == at.slice
           gradient == IF at.leg = "backward" THEN Gradient(i, batch + 1) ELSE Now(i, {})
           new == Updated(i, PassMakes)
           makes == With(gradient, new)
<1>1. ops \in Nat /\ i \in Slice BY HostTyped DEF QueueInv
<1>2. /\ at.call = "run" /\ at' = Goto("release") /\ Updates \subseteq {"p", "b", "s"}
      /\ \A j \in Slice, r \in {"p", "b", "s"} :
           latest'[j][r] = IF j = at.slice /\ r \in Updates THEN latest[j][r] + 1 ELSE latest[j][r]
      /\ ops' = ops + 1 /\ mark' = ops + 1 /\ mode' = mode /\ batch' = batch
  BY PassIs
<1>3. PassMakes \subseteq {"p", "b", "s"} /\ PassReads \subseteq {"p", "b", "s"} /\ PassMakes \subseteq Updates
  BY <1>2 DEF PassMakes, PassReads
<1>4. batch \in 0 .. NumBatches /\ batch < NumBatches /\ NumBatches \in Nat
  BY <1>2, Numbers DEF HostInv, HostTypes, Control
<1>5. HostInv' BY <1>1, PassHost
<1>6. \A r \in {"p", "b", "s"} : latest'[i][r] \in Nat /\ latest'[i][r] <= batch + 1
  <2>1. latest' \in [Slice -> [{"p", "b", "s"} -> Nat]] /\ batch' = batch BY PassIs
  <2>2. /\ latest'[i]["b"] <= batch' + (IF Ran(i)' THEN 1 ELSE 0)
        /\ latest'[i]["p"] <= batch' + (IF RanBack(i)' THEN 1 ELSE 0)
        /\ latest'[i]["s"] <= batch' + (IF RanBack(i)' THEN 1 ELSE 0)
    <3>1. Counts' /\ at' = Goto("release") BY <1>2, <1>5 DEF HostInv
    <3>2. at'.slice = i BY <3>1, HostTyped DEF Goto
    <3> QED BY <1>1, <3>1, <3>2 DEF Counts
  <2>3. \A r \in {"p", "b", "s"} : latest'[i][r] \in Nat BY <1>1, <2>1
  <2> QED BY <1>4, <2>1, <2>2, <2>3
<1>7. \A r \in PassMakes : latest[i][r] + 1 = latest'[i][r] BY <1>1, <1>2, <1>3
<1>8. new \in Content /\ DOMAIN new = PassMakes /\ \A r \in PassMakes : new[r] = <<i, latest'[i][r]>>
  <2>1. \A r \in PassMakes : <<i, latest'[i][r]>> \in Values
    BY <1>1, <1>3, <1>4, <1>6 DEF Values
  <2>2. new = [r \in PassMakes |-> <<i, latest'[i][r]>>] BY <1>7 DEF Updated
  <2>3. new \in [PassMakes -> Values] /\ PassMakes \in SUBSET Region
    BY <1>3, <2>1, <2>2 DEF Region
  <2> QED BY <2>2, <2>3 DEF Content
<1>9. /\ gradient \in Content
      /\ DOMAIN gradient = IF at.leg = "backward" THEN {"g"} ELSE {}
      /\ at.leg = "backward" => gradient["g"] = <<i, batch + 1>>
  BY <1>1, <1>2, <1>4, GradientIs, NowIs DEF InBatch
<1>10. makes \in Content /\ DOMAIN makes = DOMAIN gradient \union DOMAIN new
       /\ (\A r \in DOMAIN gradient : makes[r] = gradient[r]) /\ (\A r \in DOMAIN new : makes[r] = new[r])
  <2>1. DOMAIN gradient \intersect DOMAIN new = {} BY <1>3, <1>8, <1>9
  <2> HIDE DEF gradient, new
  <2> QED BY <1>8, <1>9, <2>1, WithIs
<1>11. queue' = Issued(Compute, Run({}, InSlot(Own), Now(i, PassReads), makes))
  BY DEF Pass, Own, PassReads, PassMakes, Updates
<1>12. Own \in Slot BY <1>2, HostTyped DEF Computing, Own
<1>13. Now(i, PassReads) \in Content BY <1>1, <1>2, <1>3, NowIs DEF InBatch
<1> HIDE DEF makes, gradient, new
<1>14. Computes(Run({}, InSlot(Own), Now(i, PassReads), makes), {}, Now(i, PassReads), makes)
  BY <1>2, <1>10, <1>11, <1>12, <1>13 DEF Computes
<1>15. DOMAIN makes = PassMakes \union (IF at.leg = "backward" THEN {"g"} ELSE {})
  BY <1>8, <1>9, <1>10
<1>16. \A r \in PassMakes : makes[r] = <<i, latest'[i][r]>> BY <1>8, <1>10
<1>17. at.leg = "backward" => makes["g"] = <<i, batch + 1>> BY <1>9, <1>10
<1> QED BY <1>10, <1>14, <1>15, <1>16, <1>17

LEMMA PassSync ==
  ASSUME QueueInv, HostInv, SyncInv, Pass
  PROVE  SyncInv'
<1> DEFINE want == Now(at.slice, PassReads)
<1>1. PICK makes \in Content : Computes(Run({}, InSlot(Own), want, makes), {}, want, makes)
  BY PassIssues
<1> DEFINE n == Run({}, InSlot(Own), want, makes)
           N == [p \in {Compute} |-> n]
<1>2. Issuing({Compute}, N) /\ N[Compute] = n BY <1>1, ComputesIs
<1>3. Computes(n, {}, want, makes) BY <1>1
<1> HIDE DEF n, N, want
<1>4. at.call = "run" /\ at' = Goto("release") /\ page' = page /\ slot' = slot BY PassIs
<1>5. at'.call = "release" /\ at'.leg = at.leg /\ at'.slice = at.slice
  BY <1>4, HostTyped DEF Goto
<1>6. Own \in Slot /\ slot[Own].busy BY <1>4, HostTyped DEF Computing, Own
<1>7. ASSUME NEW x, Awaited(x)
      PROVE  Later({n}, x)
  <2>1. InOrder(Compute) BY DEF InOrder, Compute, H2D
  <2> QED BY <1>2, <1>7, <2>1, LaterLine DEF Awaited
<1>8. ASSUME NEW x, Expected(Own, x)
      PROVE  FALSE
  BY <1>4, <1>8, TargetElsewhere DEF Expected
<1>9. \A x \in Ins(Own) : Arrives(Own, x) /\ x \in Nodes BY DEF Arrives, Ins
<1>10. \A x \in Ins(Own) \union Outs(Own) : Later({n}, x)
  BY <1>6, <1>7, <1>8, <1>9 DEF SyncInv, Arriving, Leaving
<1>11. HasTarget' = HasTarget /\ Target' = Target BY <1>4, <1>5 DEF HasTarget, Target
<1>12. \A s \in Slot, x \in Nodes : Expected(s, x) => Expected(s, x)'
  BY <1>4, <1>11 DEF Expected
<1>13. \A s \in Slot, x \in Nodes : x \in Reads(s) => Expected(s, x)'
  BY <1>12 DEF SyncInv, Reading
<1>14. \A t \in Slot : /\ slot'[t].page = slot[t].page /\ slot'[t].ready = slot[t].ready
                       /\ slot'[t].free = slot[t].free /\ slot'[t].out = slot[t].out
                       /\ slot'[t].busy <=> (t = Own \/ slot[t].busy)
  BY <1>4, <1>6
<1>15. at.call # "submit" /\ at'.call # "submit" BY <1>4, <1>5
<1> QED BY <1>3, <1>4, <1>10, <1>12, <1>13, <1>14, <1>15, ComputesSync

--------------------
(* Paging in. *)

\* Where the operation n that brings slice i into slot s is issued.
PageQueue(s) == IF mode = "disk" THEN Lane(s) ELSE H2D
Brings(n, N, i, s, regions) ==
  /\ Issuing({PageQueue(s)}, N) /\ N[PageQueue(s)] = n
  /\ n.id = ops + 1 /\ n.from = Home(i) /\ n.want = Now(i, regions)
  /\ IF mode = "disk"
     THEN /\ n.does = "read" /\ n.to = Staging(s) /\ n.slot = s
          /\ n.after = {slot[s].ready} /\ n.waits = Waits(i, s)
     ELSE n.does = "copy" /\ n.to = InSlot(s) /\ n.after = Waits(i, s)

LEMMA PageInBrings ==
  ASSUME QueueInv, HostInv, NEW i \in Slice, NEW s, NEW regions, PagedIn(i, s, regions),
         mode' = mode, InBatch \/ at.call = "first"
  PROVE  \E n, N : Brings(n, N, i, s, regions)
<1>1. s \in Slot /\ regions \in SUBSET {"p", "b", "s"} /\ ops \in Nat /\ ops' = ops + 1
      /\ Sends(i, s, regions)
  BY DEF PagedIn, Idle, QueueInv
<1>2. slot[s] \in SlotType /\ page[i] \in PageType /\ mark \in Nat
  BY <1>1, HostTyped DEF HostInv, HostTypes
<1>3. Waits(i, s) \in SUBSET Nat /\ {slot[s].ready} \in SUBSET Nat
  BY <1>2 DEF Waits, SlotType, PageType
<1>4. Now(i, regions) \in Content BY <1>1, NowIs
<1>5. Home(i) \in Place /\ InSlot(s) \in Place BY <1>1, PlaceIs
<1>6. CASE mode = "disk"
  <2> PICK n : n = Read({slot[s].ready}, i, s, Now(i, regions), Waits(i, s)) OBVIOUS
  <2> PICK q : q = Lane(s) OBVIOUS
  <2> PICK N : N = [p \in {q} |-> n] OBVIOUS
  <2>1. /\ n \in ReadOp /\ n \in Op /\ n.does = "read" /\ n.id = ops + 1
        /\ n.after = {slot[s].ready} /\ n.from = Home(i) /\ n.to = Staging(s) /\ n.want = Now(i, regions)
        /\ n.slot = s /\ n.waits = Waits(i, s)
    BY <1>1, <1>3, <1>4, ReadIs
  <2>2. queue' = Issued(q, n) BY <1>1, <1>6 DEF Sends
  <2>3. q \in Queues /\ Kind(q, n)
    BY <1>1, <1>6, <2>1 DEF Queues, Kind, Compute, H2D, D2H, HostStep, Lane
  <2>4. Issuing({q}, N) /\ N[q] = n BY <1>1, <2>1, <2>2, <2>3, IssuingOne, SMTT(30)
  <2>5. Brings(n, N, i, s, regions) BY <1>6, <2>1, <2>4 DEF Brings, PageQueue
  <2> QED BY <2>5
<1>7. CASE mode # "disk"
  <2> PICK n : n = Copy(Waits(i, s), Home(i), InSlot(s), Now(i, regions)) OBVIOUS
  <2> PICK N : N = [p \in {H2D} |-> n] OBVIOUS
  <2>1. /\ n \in CopyOp /\ n \in Op /\ n.does = "copy" /\ n.id = ops + 1
        /\ n.after = Waits(i, s) /\ n.from = Home(i) /\ n.to = InSlot(s) /\ n.want = Now(i, regions)
    BY <1>1, <1>3, <1>4, <1>5, CopyIs
  <2>2. queue' = Issued(H2D, n) BY <1>1, <1>7 DEF Sends
  <2>3. H2D \in Queues /\ Kind(H2D, n)
    BY <1>1, <1>7, <2>1 DEF Queues, Kind, Compute, H2D, D2H, HostStep, Lane
  <2>4. Issuing({H2D}, N) /\ N[H2D] = n BY <1>1, <2>1, <2>2, <2>3, IssuingOne
  <2>5. Brings(n, N, i, s, regions) BY <1>7, <2>1, <2>4 DEF Brings, PageQueue
  <2> QED BY <2>5
<1> QED BY <1>6, <1>7

LEMMA BringsIs ==
  ASSUME QueueInv, NEW n, NEW N, NEW i \in Slice, NEW s \in Slot, NEW regions, Brings(n, N, i, s, regions)
  PROVE  /\ n \in Nodes' /\ n \notin Nodes
         /\ \A x \in Nodes' : x \in Nodes \/ x = n \/ (mode = "disk" /\ x = Second(n))
         /\ mode = "disk" => Second(n) \in Nodes' /\ Second(n).id = ops + 1 /\ Second(n).does = "copy"
                             /\ Second(n).from = Staging(s) /\ Second(n).to = InSlot(s)
                             /\ Second(n).want = Now(i, regions)
         /\ In(Compute)' = In(Compute)
         /\ Pending' = Pending \union {n}
<1> DEFINE q == PageQueue(s)
<1>1. q \in Queues /\ q # Compute /\ Compute \in Queues
  BY DEF PageQueue, Queues, Lane, H2D, Compute
<1>2. Issuing({q}, N) /\ N[q] = n /\ n.id = ops + 1 BY DEF Brings
<1>3. ops \in Nat /\ \A x \in Nodes : x.id \in 1 .. ops BY NodeIs DEF QueueInv
<1>4. n.does = "read" <=> mode = "disk" BY DEF Brings
<1> HIDE DEF q
<1>5. /\ \A p \in Queues : In(p)' = IF p \in {q} THEN In(p) \union {N[p]} ELSE In(p)
      /\ Pending' = Pending \union {N[p] : p \in {q}}
      /\ \A x \in Nodes' : x \in Nodes \/ \E p \in {q} : x = N[p] \/ (N[p].does = "read" /\ x = Second(N[p]))
      /\ \A p \in {q} : N[p] \in Nodes' /\ (N[p].does = "read" => Second(N[p]) \in Nodes')
  BY <1>2, IssuedNodes
<1>6. n \notin Nodes BY <1>2, <1>3
<1>7. In(Compute)' = In(Compute) /\ Pending' = Pending \union {n} BY <1>1, <1>2, <1>5
<1>8. mode = "disk" => Second(n).id = ops + 1 /\ Second(n).does = "copy"
                       /\ Second(n).from = Staging(s) /\ Second(n).to = InSlot(s)
                       /\ Second(n).want = Now(i, regions)
  BY DEF Brings, Second
<1>9. n \in Nodes' /\ (mode = "disk" => Second(n) \in Nodes') BY <1>2, <1>4, <1>5
<1>10. \A x \in Nodes' : x \in Nodes \/ x = n \/ (mode = "disk" /\ x = Second(n))
  BY <1>2, <1>4, <1>5
<1> QED BY <1>6, <1>7, <1>8, <1>9, <1>10 DEF q

LEMMA NothingReturning ==
  ASSUME QueueInv, Returning, NEW i \in Slice, Returned(page[i].homeReady)
  PROVE  Steps(i) = {} /\ \A s \in Slot : Files(s, i) = {}
<1>1. ASSUME NEW x \in Steps(i) PROVE FALSE
  <2>1. x \in In(HostStep) BY NodeKinds, PlacesDiffer DEF Runs, Steps, Ins, Outs, Files, Reads
  <2>2. x.id = page[i].homeReady BY DEF Returning
  <2> QED BY <2>1, <2>2, ReturnedNone
<1>2. ASSUME NEW s \in Slot, NEW x \in Files(s, i) PROVE FALSE
  <2>1. \E t \in Slot : x \in In(Lane(t))
    BY NodeKinds, PlacesDiffer DEF Runs, Steps, Ins, Outs, Files, Reads
  <2>2. x.id = page[i].homeReady BY DEF Returning
  <2> QED BY <2>1, <2>2, ReturnedNone
<1> QED BY <1>1, <1>2

\* The copy or read that brings slice i into slot s comes after whatever is under
\* way in this slot, in its buffer, and at home.
LEMMA BringsAfter ==
  ASSUME QueueInv, HostInv, SyncInv, NEW n, NEW N, NEW i \in Slice, NEW s \in Slot, NEW regions,
         Brings(n, N, i, s, regions), PagedIn(i, s, regions), ~HasTarget, at.call # "submit"
  PROVE  /\ Steps(i) = {} /\ (\A t \in Slot : Files(t, i) = {}) /\ (\A t \in Slot : Reads(t) = {})
         /\ \A x \in Ins(s) : Later({n}, x)
         /\ \A j \in Slice : \A x \in Files(s, j) : Later({n}, x)
         /\ \A x \in Nodes : Conflict(x, n) => Later({n}, x)
         /\ mode = "disk" => \A x \in Nodes : Conflict(x, Second(n)) => Later({Second(n)}, x)
<1> DEFINE q == PageQueue(s)
<1>1. /\ Issuing({q}, N) /\ N[q] = n /\ n.id = ops + 1 /\ n.from = Home(i) BY DEF Brings
<1>2. /\ Marked /\ Freed /\ CopiedOut /\ CopiedHome /\ Returning /\ Arriving /\ Leaving /\ Staged /\ Reading
  BY DEF SyncInv
<1>3. Returned(page[i].homeReady) /\ ~slot[s].busy BY DEF PagedIn, Idle
<1>4. Steps(i) = {} /\ \A t \in Slot : Files(t, i) = {} BY <1>2, <1>3, NothingReturning
<1>5. \A t \in Slot : Reads(t) = {} BY <1>2 DEF Reading, Expected
<1>6. slot[s].free \in Waits(i, s) /\ slot[s].out \in Waits(i, s) /\ page[i].homeEv \in Waits(i, s)
  BY DEF Waits
<1>7. \A x \in Ins(s) : x \in Nodes /\ Arrives(s, x) BY DEF Ins, Arrives
<1>8. \A x \in Ins(s) : Follows(Of(slot[s].ready), x) BY <1>2, <1>7 DEF Arriving
<1>9. \A x \in Runs(s) : Follows(Of(slot[s].free), x) BY <1>2, <1>3 DEF Freed
<1>10. \A x \in Outs(s) : Follows(Of(slot[s].out), x) BY <1>2 DEF CopiedOut
<1>11. ASSUME NEW x \in In(q), InOrder(q) PROVE Later({n}, x)
  <2>1. {x} \subseteq In(q) /\ Follows({x}, x) BY ImpliedSelf DEF Follows
  <2> HIDE DEF q
  <2> QED BY <1>1, <1>11, <2>1, LaterLine
<1>12. CASE mode = "disk"
  <2>1. /\ q = Lane(s) /\ InOrder(q) /\ n.does = "read" /\ n.to = Staging(s)
        /\ n.after = {slot[s].ready} /\ n.waits = Waits(i, s) /\ n.slot = s
    BY <1>12 DEF PageQueue, InOrder, Lane, H2D, Brings
  <2>2. Second(n).from = Staging(s) /\ Second(n).to = InSlot(s) BY <2>1 DEF Second
  <2>3. ASSUME NEW x \in Ins(s) PROVE Later({n}, x)
    <3>1. slot[s].ready \in n.after BY <2>1
    <3> HIDE DEF q
    <3> QED BY <1>1, <1>8, <3>1, LaterAfter
  <2>4. ASSUME NEW j \in Slice, NEW x \in Files(s, j) PROVE Later({n}, x)
    <3>1. x \in In(q) BY <2>1, FromStaging, PlacesDiffer DEF Files, Ins
    <3> QED BY <1>11, <2>1, <3>1
  <2>5. ASSUME NEW x \in Outs(s) PROVE Later({n}, x)
    <3>1. PICK j \in Slice : \E w \in Files(s, j) : Follows({w}, x) BY <1>2, <1>12 DEF Staged
    <3>2. PICK w \in Files(s, j) : Follows({w}, x) BY <3>1
    <3>3. w \in In(q) BY <2>1, FromStaging, PlacesDiffer DEF Files, Ins
    <3>4. {w} \subseteq In(q) BY <3>3
    <3> HIDE DEF q
    <3> QED BY <1>1, <2>1, <3>2, <3>4, LaterLine
  <2>6. ASSUME NEW x \in Nodes, x.to = Staging(s) \/ x.from = Staging(s) PROVE Later({n}, x)
    BY <1>5, <2>3, <2>4, <2>5, <2>6, ToStaging, FromStaging
  <2>7. ASSUME NEW x \in Nodes, Conflict(x, n) PROVE Later({n}, x)
    <3>1. CASE x.to = Home(i) BY <1>4, <1>12, <3>1, ToHome
    <3>2. CASE x.to = Staging(s) \/ x.from = Staging(s) BY <2>6, <3>2
    <3> QED BY <1>1, <2>1, <2>7, <3>1, <3>2 DEF Conflict
  <2>8. ASSUME NEW x, Later({n}, x) PROVE Later({Second(n)}, x)
    <3> HIDE DEF q
    <3> QED BY <1>1, <2>1, <2>8, LaterRead
  <2>9. ASSUME NEW x \in Runs(s) PROVE Later({Second(n)}, x)
    <3>1. slot[s].free \in n.waits BY <1>6, <2>1
    <3> HIDE DEF q
    <3> QED BY <1>1, <1>9, <2>1, <3>1, LaterWaits
  <2>10. ASSUME NEW x \in Nodes, Conflict(x, Second(n)) PROVE Later({Second(n)}, x)
    <3>1. CASE x.to = Staging(s) BY <2>6, <2>8, <3>1
    <3>2. CASE x.to = InSlot(s) \/ x.from = InSlot(s)
      BY <2>3, <2>5, <2>8, <2>9, <3>2, ToSlot, FromSlot
    <3> QED BY <2>2, <2>10, <3>1, <3>2 DEF Conflict
  <2> QED BY <1>4, <1>5, <2>3, <2>4, <2>7, <2>10
<1>13. CASE mode # "disk"
  <2>1. /\ q = H2D /\ InOrder(q) /\ n.does = "copy" /\ n.to = InSlot(s) /\ n.after = Waits(i, s)
    BY <1>13 DEF PageQueue, InOrder, Brings
  <2>2. ASSUME NEW x \in Ins(s) PROVE Later({n}, x)
    <3>1. x \in In(q) BY <1>13, <2>1, ToSlot DEF Ins, Runs
    <3> QED BY <1>11, <2>1, <3>1
  <2>3. ASSUME NEW x, NEW d \in Waits(i, s), Follows(Of(d), x) PROVE Later({n}, x)
    <3>1. d \in n.after BY <2>1
    <3> HIDE DEF q
    <3> QED BY <1>1, <2>3, <3>1, LaterAfter
  <2>4. ASSUME NEW x \in Nodes, Conflict(x, n) PROVE Later({n}, x)
    <3>1. CASE x.to = Home(i)
      <4>1. PICK t \in Slot : x \in Outs(t) BY <1>4, <1>13, <3>1, ToHome
      <4>2. Follows(Of(page[i].homeEv), x) BY <1>2, <3>1, <4>1 DEF CopiedHome
      <4> QED BY <1>6, <2>3, <4>2
    <3>2. CASE x.to = InSlot(s) \/ x.from = InSlot(s)
      BY <1>6, <1>9, <1>10, <2>2, <2>3, <3>2, ToSlot, FromSlot
    <3> QED BY <1>1, <2>1, <2>4, <3>1, <3>2 DEF Conflict
  <2>5. \A j \in Slice : Files(s, j) = {} BY <1>13, FromStaging DEF Files
  <2> QED BY <1>4, <1>5, <1>13, <2>2, <2>4, <2>5
<1> QED BY <1>12, <1>13

LEMMA PagedInSync ==
  ASSUME QueueInv, HostInv, SyncInv, NEW i \in Slice, NEW s, NEW regions, PagedIn(i, s, regions),
         ~HasTarget, at.call # "submit", at'.call # "submit", HasTarget', Target' = i,
         InBatch \/ at.call = "first", UNCHANGED <<mode, mark>>
  PROVE  SyncInv'
<1>1. /\ s \in Slot /\ ~slot[s].busy /\ s # None /\ PagesAfter(i, s, regions) /\ SlotsAfter(i, s)
  BY PagedInHost DEF QueueInv
<1>2. PICK n, N : Brings(n, N, i, s, regions) BY PageInBrings
<1> DEFINE q == PageQueue(s)
<1>3. Issuing({q}, N) /\ N[q] = n /\ n.id = ops + 1 /\ n.from = Home(i) BY <1>2 DEF Brings
<1>4. /\ n \in Nodes' /\ n \notin Nodes
      /\ \A x \in Nodes' : x \in Nodes \/ x = n \/ (mode = "disk" /\ x = Second(n))
      /\ mode = "disk" => Second(n) \in Nodes' /\ Second(n).id = ops + 1 /\ Second(n).does = "copy"
                          /\ Second(n).from = Staging(s) /\ Second(n).to = InSlot(s)
      /\ In(Compute)' = In(Compute)
  <2>1. s \in Slot BY <1>1
  <2> QED BY <1>2, <2>1, BringsIs
<1>5. IF mode = "disk" THEN n.does = "read" /\ n.to = Staging(s) ELSE n.does = "copy" /\ n.to = InSlot(s)
  BY <1>2 DEF Brings
<1>6. /\ Steps(i) = {} /\ (\A t \in Slot : Files(t, i) = {}) /\ (\A t \in Slot : Reads(t) = {})
      /\ \A x \in Ins(s) : Later({n}, x)
      /\ \A j \in Slice : \A x \in Files(s, j) : Later({n}, x)
      /\ \A x \in Nodes : Conflict(x, n) => Later({n}, x)
      /\ mode = "disk" => \A x \in Nodes : Conflict(x, Second(n)) => Later({Second(n)}, x)
  BY <1>1, <1>2, BringsAfter
<1> HIDE DEF q
<1>7. /\ \A t \in Slot : /\ Runs(t)' \subseteq Runs(t) /\ Outs(t)' \subseteq Outs(t)
                         /\ \A x \in Ins(t)' : x \in Ins(t) \/ (t = s /\ x \in {n, Second(n)})
                         /\ \A x \in Reads(t)' : t = s /\ x = n
                         /\ \A j \in Slice : Files(t, j)' \subseteq Files(t, j)
      /\ \A j \in Slice : Steps(j)' \subseteq Steps(j)
  <2>1. \A t \in Slot : \A x \in Reads(t)' : x = n BY <1>4, <1>5, <1>6 DEF Reads
  <2>2. \A t \in Slot : \A x \in Reads(t)' : t = s BY <1>5, <2>1, PlacesDiffer DEF Reads
  <2>3. \A t \in Slot : \A x \in Ins(t)' : x \in Ins(t) \/ (t = s /\ x \in {n, Second(n)})
    BY <1>4, <1>5, PlacesDiffer DEF Ins
  <2>4. \A t \in Slot : Runs(t)' \subseteq Runs(t) /\ Outs(t)' \subseteq Outs(t)
    BY <1>3, <1>4, <1>5, PlacesDiffer DEF Runs, Outs
  <2>5. \A t \in Slot, j \in Slice : Files(t, j)' \subseteq Files(t, j)
    BY <1>3, <1>4, <1>5, PlacesDiffer DEF Files
  <2>6. \A j \in Slice : Steps(j)' \subseteq Steps(j) BY <1>4, <1>5, PlacesDiffer DEF Steps
  <2> QED BY <2>1, <2>2, <2>3, <2>4, <2>5, <2>6
<1>8. /\ Marked /\ Freed /\ CopiedOut /\ CopiedHome /\ Returning /\ Arriving /\ Leaving /\ Staged /\ Reading
      /\ Ordered
  BY DEF SyncInv
<1>9. Marked'
  <2> SUFFICES ASSUME NEW x \in In(Compute)' PROVE Follows(Of(mark), x)'
    BY DEF Marked
  <2>1. Follows(Of(mark), x) BY <1>4, <1>8 DEF Marked
  <2> QED BY <1>3, <2>1, OldFollows
<1>10. Freed'
  <2> SUFFICES ASSUME NEW t \in Slot, ~slot'[t].busy, NEW x \in Runs(t)' PROVE Follows(Of(slot[t].free), x)'
    BY DEF Freed
  <2>1. slot'[t].free = slot[t].free /\ slot'[t].busy = slot[t].busy BY <1>1 DEF SlotsAfter
  <2>2. Follows(Of(slot[t].free), x) BY <1>7, <1>8, <2>1 DEF Freed
  <2> QED BY <1>3, <2>1, <2>2, OldFollows
<1>11. CopiedOut'
  <2> SUFFICES ASSUME NEW t \in Slot, NEW x \in Outs(t)' PROVE Follows(Of(slot[t].out), x)'
    BY DEF CopiedOut
  <2>1. slot'[t].out = slot[t].out BY <1>1 DEF SlotsAfter
  <2>2. Follows(Of(slot[t].out), x) BY <1>7, <1>8 DEF CopiedOut
  <2> QED BY <1>3, <2>1, <2>2, OldFollows
<1>12. CopiedHome'
  <2> SUFFICES ASSUME NEW j \in Slice, NEW t \in Slot, NEW x \in Outs(t)', x.to = Home(j)
               PROVE  Follows(Of(page[j].homeEv), x)'
    BY DEF CopiedHome
  <2>1. page'[j].homeEv = page[j].homeEv BY <1>1 DEF PagesAfter
  <2>2. Follows(Of(page[j].homeEv), x) BY <1>7, <1>8 DEF CopiedHome
  <2> QED BY <1>3, <2>1, <2>2, OldFollows
<1>13. Returning'
  <2> SUFFICES ASSUME NEW j \in Slice
               PROVE  /\ \A x \in Steps(j)' : x.id = page'[j].homeReady /\ page'[j].slot = None
                      /\ \A t \in Slot : \A x \in Files(t, j)' : x.id = page'[j].homeReady
    BY DEF Returning
  <2>1. CASE j = i BY <1>6, <1>7, <2>1
  <2>2. CASE j # i
    <3>1. page'[j].homeReady = page[j].homeReady /\ (page[j].slot = None => page'[j].slot = None)
      BY <1>1, <2>2 DEF PagesAfter
    <3> QED BY <1>7, <1>8, <3>1 DEF Returning
  <2> QED BY <2>1, <2>2
<1>14. page'[i].slot = s BY <1>1 DEF PagesAfter
<1>15. Arriving'
  <2> SUFFICES ASSUME NEW t \in Slot, NEW x \in Nodes', Arrives(t, x)'
               PROVE  Follows(Of(slot[t].ready), x)' /\ (Awaited(x)' \/ Expected(t, x)')
    BY DEF Arriving
  <2>1. CASE t = s
    <3>1. \/ x \in Ins(s)' \/ x \in Reads(s)'
          \/ \E j \in Slice : j # i /\ x \in Files(s, j)'
      <4>1. slot'[s].page = i BY <1>1 DEF SlotsAfter
      <4> QED BY <2>1, <4>1 DEF Arrives
    <3>2. \/ x \in Ins(s) \/ x = n \/ (mode = "disk" /\ x = Second(n))
          \/ \E j \in Slice : x \in Files(s, j)
      <4>1. x \in Reads(s)' => x = n BY <1>1, <1>7
      <4>2. x \in Ins(s)' => x \in Ins(s) \/ x = n \/ (mode = "disk" /\ x = Second(n))
        BY <1>1, <1>4, <1>7 DEF Ins
      <4>3. \A j \in Slice : x \in Files(s, j)' => x \in Files(s, j) BY <1>1, <1>7
      <4> QED BY <3>1, <4>1, <4>2, <4>3
    <3>3. slot'[s].ready = n.id BY <1>1, <1>3 DEF SlotsAfter
    <3>4. Follows(Of(slot[s].ready), x)'
      <4>1. CASE mode = "disk" /\ x = Second(n)
        <5>1. x \in Of(slot[s].ready)' BY <1>3, <1>4, <3>3, <4>1 DEF Of
        <5> QED BY <5>1, ImpliedSelf DEF Follows
      <4>2. CASE x = n
        <5>1. Later({n}, x) BY <4>2, LaterSelf
        <5> QED BY <1>4, <3>3, <5>1, NewFollows
      <4>3. CASE x \in Ins(s) \/ \E j \in Slice : x \in Files(s, j)
        <5>1. Later({n}, x) BY <1>6, <4>3
        <5> QED BY <1>4, <3>3, <5>1, NewFollows
      <4> QED BY <3>2, <4>1, <4>2, <4>3
    <3>5. Awaited(x)' \/ \A j \in Slice : x.from = Home(j) => j = i
      <4>1. CASE mode = "disk" /\ x = Second(n) BY <1>4, <4>1, PlacesDiffer
      <4>2. CASE x = n BY <1>3, <4>2, PlacesDiffer
      <4>3. CASE x \in Ins(s)
        <5>1. x \in Nodes /\ Arrives(s, x) BY <4>3 DEF Ins, Arrives
        <5>2. Awaited(x) BY <1>1, <1>8, <5>1 DEF Arriving, Expected
        <5> QED BY <1>3, <5>2, OldAwaited
      <4>4. CASE \E j \in Slice : x \in Files(s, j) BY <4>4, PlacesDiffer DEF Files
      <4> QED BY <3>2, <4>1, <4>2, <4>3, <4>4
    <3> QED BY <1>14, <2>1, <3>4, <3>5 DEF Expected
  <2>2. CASE t # s
    <3>1. slot'[t].page = slot[t].page /\ slot'[t].ready = slot[t].ready
      BY <1>1, <2>2 DEF SlotsAfter
    <3>2. Arrives(t, x) /\ x \in Nodes
      <4>1. Arrives(t, x) BY <1>7, <2>2, <3>1 DEF Arrives
      <4> QED BY <4>1 DEF Arrives, Ins, Reads, Files
    <3>3. Follows(Of(slot[t].ready), x) /\ Awaited(x) BY <1>8, <3>2 DEF Arriving, Expected
    <3> QED BY <1>3, <3>1, <3>3, OldFollows, OldAwaited
  <2> QED BY <2>1, <2>2
<1>16. Leaving'
  <2> SUFFICES ASSUME NEW t \in Slot, slot'[t].busy, NEW x \in Outs(t)' PROVE Awaited(x)'
    BY DEF Leaving
  <2>1. slot[t].busy BY <1>1 DEF SlotsAfter
  <2>2. Awaited(x) BY <1>7, <1>8, <2>1 DEF Leaving
  <2> QED BY <1>3, <2>2, OldAwaited
<1>17. Staged'
  <2> SUFFICES ASSUME mode = "disk", NEW t \in Slot, NEW x \in Outs(t)'
               PROVE  \E j \in Slice : \E w \in Files(t, j)' : Follows({w}, x)'
    BY DEF Staged
  <2>1. PICK j \in Slice : \E w \in Files(t, j) : Follows({w}, x) BY <1>7, <1>8 DEF Staged
  <2>2. PICK w \in Files(t, j) : Follows({w}, x) BY <2>1
  <2>3. w \in Nodes BY DEF Files
  <2>4. Follows({w}, x)' BY <1>3, <2>2, <2>3, OldNeeds
  <2>5. w \in Files(t, j)' BY <1>3, <2>3, IssuedNodes DEF Files
  <2> QED BY <2>4, <2>5
<1>18. Reading'
  <2> SUFFICES ASSUME NEW t \in Slot, NEW x \in Reads(t)'
               PROVE  x.id = slot'[t].ready /\ Expected(t, x)'
    BY DEF Reading
  <2>1. t = s /\ x = n BY <1>7
  <2>2. slot'[s].ready = n.id BY <1>1, <1>3 DEF SlotsAfter
  <2>3. \A j \in Slice : n.from = Home(j) => j = i BY <1>3, PlacesDiffer
  <2> QED BY <1>14, <2>1, <2>2, <2>3 DEF Expected
<1>19. Ordered'
  <2>1. \A x, y \in Nodes : ~Overtakes(x, y) BY DEF Overtakes
  <2>2. n.does = "read" => mode = "disk" BY <1>5
  <2> QED BY <1>3, <1>6, <1>8, <2>1, <2>2, OneOrdered
<1> QED BY <1>9, <1>10, <1>11, <1>12, <1>13, <1>15, <1>16, <1>17, <1>18, <1>19 DEF SyncInv

\* Nothing is issued.
LEMMA SyncKept ==
  ASSUME SyncInv, UNCHANGED <<mode, queue, mark>>, at.call # "submit", at'.call # "submit", ~HasTarget,
         \A j \in Slice : /\ page'[j].homeEv = page[j].homeEv /\ page'[j].homeReady = page[j].homeReady
                          /\ page[j].slot = None => page'[j].slot = None,
         \A t \in Slot : /\ slot'[t].ready = slot[t].ready /\ slot'[t].free = slot[t].free
                         /\ slot'[t].out = slot[t].out /\ (slot'[t].busy <=> slot[t].busy),
         \A t \in Slot, x \in Nodes : Arrives(t, x)' => Arrives(t, x)
  PROVE  SyncInv'
<1>1. Nodes' = Nodes /\ Edges' = Edges /\ \A q \in Queues : In(q)' = In(q)
  <2>1. \A q \in Queues : In(q)' = In(q) BY DEF In
  <2>2. Pending' = Pending BY <2>1 DEF Pending
  <2>3. Nodes' = Nodes BY <2>2 DEF Nodes
  <2>4. ASSUME NEW x, NEW y PROVE Needs(x, y)' = Needs(x, y)
    BY <2>1 DEF Needs, InOrder
  <2>5. Edges' = Edges BY <2>3, <2>4 DEF Edges
  <2> QED BY <2>1, <2>3, <2>5
<1>2. ASSUME NEW T, NEW x, Follows(T, x) PROVE Follows(T, x)'
  BY <1>1, <1>2 DEF Follows
<1>3. ASSUME NEW d PROVE Of(d)' = Of(d)
  BY <1>1 DEF Of
<1>4. \A x : Awaited(x) => Awaited(x)'
  <2>1. Compute \in Queues BY DEF Queues
  <2> QED BY <1>1, <2>1 DEF Awaited, Follows
<1>5. \A s \in Slot : /\ Runs(s)' = Runs(s) /\ Ins(s)' = Ins(s) /\ Reads(s)' = Reads(s) /\ Outs(s)' = Outs(s)
                      /\ \A i \in Slice : Files(s, i)' = Files(s, i)
  BY <1>1 DEF Runs, Ins, Reads, Outs, Files
<1>6. \A i \in Slice : Steps(i)' = Steps(i) BY <1>1 DEF Steps
<1>7. /\ Marked /\ Freed /\ CopiedOut /\ CopiedHome /\ Returning /\ Arriving /\ Leaving /\ Staged /\ Reading
      /\ Ordered
  BY DEF SyncInv
<1>8. ASSUME NEW d, NEW x, Follows(Of(d), x) PROVE Follows(Of(d), x)'
  BY <1>1, <1>3, <1>8 DEF Follows
<1>9. Marked'
  <2> SUFFICES ASSUME NEW x \in In(Compute)' PROVE Follows(Of(mark), x)'
    BY DEF Marked
  <2>1. x \in In(Compute) BY <1>1 DEF Queues
  <2>2. Follows(Of(mark), x) BY <1>7, <2>1 DEF Marked
  <2> QED BY <1>8, <2>2
<1>10. Freed'
  <2> SUFFICES ASSUME NEW t \in Slot, ~slot'[t].busy, NEW x \in Runs(t) PROVE Follows(Of(slot[t].free), x)'
    BY <1>5 DEF Freed
  <2>1. Follows(Of(slot[t].free), x) /\ slot'[t].free = slot[t].free BY <1>7 DEF Freed
  <2> QED BY <1>8, <2>1
<1>11. CopiedOut'
  <2> SUFFICES ASSUME NEW t \in Slot, NEW x \in Outs(t) PROVE Follows(Of(slot[t].out), x)'
    BY <1>5 DEF CopiedOut
  <2>1. Follows(Of(slot[t].out), x) /\ slot'[t].out = slot[t].out BY <1>7 DEF CopiedOut
  <2> QED BY <1>8, <2>1
<1>12. CopiedHome'
  <2> SUFFICES ASSUME NEW j \in Slice, NEW t \in Slot, NEW x \in Outs(t), x.to = Home(j)
               PROVE  Follows(Of(page[j].homeEv), x)'
    BY <1>5 DEF CopiedHome
  <2>1. Follows(Of(page[j].homeEv), x) /\ page'[j].homeEv = page[j].homeEv
    BY <1>7 DEF CopiedHome
  <2> QED BY <1>8, <2>1
<1>13. Returning' BY <1>5, <1>6, <1>7 DEF Returning
<1>14. Arriving'
  <2> SUFFICES ASSUME NEW t \in Slot, NEW x \in Nodes, Arrives(t, x)'
               PROVE  Follows(Of(slot[t].ready), x)' /\ Awaited(x)'
    BY <1>1 DEF Arriving
  <2>1. Follows(Of(slot[t].ready), x) /\ Awaited(x) /\ slot'[t].ready = slot[t].ready
    BY <1>7 DEF Arriving, Expected
  <2> QED BY <1>4, <1>8, <2>1
<1>15. Leaving' BY <1>4, <1>5, <1>7 DEF Leaving
<1>16. Staged'
  <2> SUFFICES ASSUME mode = "disk", NEW t \in Slot, NEW x \in Outs(t)
               PROVE  \E j \in Slice : \E w \in Files(t, j) : Follows({w}, x)'
    BY <1>5 DEF Staged
  <2>1. PICK j \in Slice : \E w \in Files(t, j) : Follows({w}, x) BY <1>7 DEF Staged
  <2> QED BY <1>2, <2>1
<1>17. Reading' BY <1>5, <1>7 DEF Reading, Expected
<1>18. Ordered'
  <2> SUFFICES ASSUME NEW x \in Nodes, NEW y \in Nodes, x.id < y.id, Conflict(x, y)
               PROVE  Follows({y}, x)'
    BY <1>1 DEF Ordered, Conflict
  <2>1. Follows({y}, x) BY <1>7 DEF Ordered, Overtakes
  <2> QED BY <1>2, <2>1
<1> QED BY <1>9, <1>10, <1>11, <1>12, <1>13, <1>14, <1>15, <1>16, <1>17, <1>18 DEF SyncInv

LEMMA FetchSync ==
  ASSUME QueueInv, HostInv, SyncInv, NEW i, NEW state, NEW next, Fetches(i, state, next), Fetch(i, state, next)
  PROVE  SyncInv'
<1>1. /\ at' = next /\ UNCHANGED <<mode, mark>>
      /\ \/ UNCHANGED <<page, slot, queue, ops>>
         \/ \E s \in Slot, regions \in SUBSET {"p", "b", "s"} : PagedIn(i, s, regions)
  BY FetchStep DEF config
<1>2. HasTarget' /\ Target' = i /\ at'.call \in {"acquire", "run"} BY <1>1, FetchesNext
<1>3. i \in Slice /\ at.call \in {"first", "fetch"} BY DEF Fetches
<1>4. ~HasTarget /\ at.call # "submit" /\ at'.call # "submit" /\ (InBatch \/ at.call = "first")
  BY <1>2, <1>3 DEF HasTarget, InBatch
<1>5. CASE UNCHANGED <<page, slot, queue, ops>>
  <2>1. \A t \in Slot, x \in Nodes : Arrives(t, x)' => Arrives(t, x)
    <3>1. Nodes' = Nodes BY <1>5 DEF Nodes, Pending, In
    <3> QED BY <1>5, <3>1 DEF Arrives, Ins, Reads, Files
  <2> QED BY <1>1, <1>4, <1>5, <2>1, SyncKept
<1>6. ASSUME NEW s \in Slot, NEW regions, PagedIn(i, s, regions) PROVE SyncInv'
  BY <1>1, <1>2, <1>3, <1>4, <1>6, PagedInSync
<1> QED BY <1>1, <1>5, <1>6

LEMMA NothingSync ==
  ASSUME QueueInv, HostInv, SyncInv, at.call = "fetch", at' = Goto("run"),
         UNCHANGED <<config, batch, page, slot, grown, clock, mem, queue, ops, mark, latest>>
  PROVE  SyncInv'
<1>1. at'.call = "run" /\ ~HasTarget BY HostTyped DEF Goto, HasTarget
<1>2. Nodes' = Nodes BY DEF Nodes, Pending, In
<1>3. \A t \in Slot, x \in Nodes : Arrives(t, x)' => Arrives(t, x)
  BY <1>2 DEF Arrives, Ins, Reads, Files
<1> QED BY <1>1, <1>3, SyncKept DEF config

\* When everything is drained, at most compute is under way.
LEMMA DrainedIs ==
  ASSUME QueueInv, SyncInv, Drained, ~HasTarget
  PROVE  /\ \A i \in Slice : Steps(i) = {} /\ \A s \in Slot : Files(s, i) = {}
         /\ \A s \in Slot : Reads(s) = {} /\ Outs(s) = {}
         /\ queue[Compute] = <<>> => Nodes = {}
<1>1. \A i \in Slice : Steps(i) = {} /\ \A s \in Slot : Files(s, i) = {}
  BY NothingReturning DEF SyncInv, Drained
<1>2. \A s \in Slot : Reads(s) = {} BY DEF SyncInv, Reading, Expected
<1>3. In(D2H) = {} BY DEF Drained, In, Elems
<1>4. \A s \in Slot : Outs(s) = {}
  <2> SUFFICES ASSUME NEW s \in Slot, NEW x \in Outs(s) PROVE FALSE
    OBVIOUS
  <2>1. x \in In(D2H) BY FromSlot DEF Outs, Runs
  <2> QED BY <1>3, <2>1
<1>5. ASSUME queue[Compute] = <<>>, NEW x \in Nodes PROVE FALSE
  <2>1. In(Compute) = {} BY <1>5 DEF In, Elems
  <2>2. ASSUME NEW s \in Slot, x \in Ins(s) PROVE FALSE
    <3>1. Arrives(s, x) BY <2>2 DEF Arrives
    <3>2. Awaited(x) BY <3>1 DEF SyncInv, Arriving, Expected
    <3>3. Implied(Nodes, Edges, {}, x) BY <2>1, <3>2 DEF Awaited, Follows
    <3> QED BY <3>3, ImpliedNone
  <2> QED BY <1>1, <1>2, <1>4, <2>1, <2>2, NodeKinds
<1> QED BY <1>1, <1>2, <1>4, <1>5

LEMMA EndSync ==
  ASSUME QueueInv, HostInv, SyncInv, EndBatch
  PROVE  SyncInv'
<1>1. /\ at.call = "end" /\ queue[Compute] = <<>> /\ at'.call \in {"first", "close"}
      /\ UNCHANGED <<mode, queue, mark>>
      /\ ~Grows => UNCHANGED <<page, slot>>
      /\ Grows => Drained
  BY EndIs
<1>2. ~HasTarget /\ at.call # "submit" /\ at'.call # "submit" BY <1>1 DEF HasTarget
<1>3. Nodes' = Nodes BY <1>1 DEF Nodes, Pending, In
<1>4. CASE Grows
  <2>1. Nodes' = {} BY <1>1, <1>2, <1>3, <1>4, DrainedIs
  <2>2. In(Compute)' = {} BY <2>1 DEF Nodes, Pending, Queues
  <2>3. Marked' /\ Freed' /\ CopiedOut' /\ CopiedHome' /\ Returning' /\ Arriving'
    BY <2>1, <2>2 DEF Marked, Freed, CopiedOut, CopiedHome, Returning, Arriving, Runs, Outs, Steps, Files
  <2>4. Leaving' /\ Staged' /\ Reading' /\ Ordered'
    BY <2>1 DEF Leaving, Staged, Reading, Ordered, Outs, Reads
  <2> QED BY <2>3, <2>4 DEF SyncInv
<1>5. CASE ~Grows
  <2>1. UNCHANGED <<page, slot>> BY <1>1, <1>5
  <2>2. \A t \in Slot, x \in Nodes : Arrives(t, x)' => Arrives(t, x)
    BY <1>3, <2>1 DEF Arrives, Ins, Reads, Files
  <2> QED BY <1>1, <1>2, <2>1, <2>2, SyncKept
<1> QED BY <1>4, <1>5

LEMMA CloseSync ==
  ASSUME QueueInv, HostInv, SyncInv, Close
  PROVE  SyncInv'
<1>1. /\ at.call = "close" /\ Drained /\ at' = Goto("closed")
      /\ \A j \in Slice : /\ page'[j].slot = None
                          /\ page'[j].homeReady = page[j].homeReady
                          /\ page'[j].homeEv = page[j].homeEv
      /\ \A t \in Slot : slot'[t].busy = slot[t].busy /\ slot'[t].free = slot[t].free
                         /\ slot'[t].out = slot[t].out /\ slot'[t].ready = slot[t].ready
      /\ UNCHANGED <<mode, queue, mark>>
  BY CloseIs
<1>2. at'.call = "closed" BY <1>1, HostTyped DEF Goto
<1>3. ~HasTarget /\ at.call # "submit" /\ at'.call # "submit" BY <1>1, <1>2 DEF HasTarget
<1>4. Nodes' = Nodes BY <1>1 DEF Nodes, Pending, In
<1>5. \A t \in Slot, i \in Slice : Files(t, i) = {} BY <1>1, <1>3, DrainedIs
<1>6. \A t \in Slot, x \in Nodes : Arrives(t, x)' => Arrives(t, x)
  BY <1>4, <1>5 DEF Arrives, Ins, Reads, Files
<1> QED BY <1>1, <1>3, <1>6, SyncKept

--------------------
(* Writing back. *)

\* A copy n is issued on a queue other than compute.
LEMMA CopyIssues ==
  ASSUME QueueInv, NEW q \in Queues \ {Compute}, NEW n \in CopyOp, Kind(q, n), n.id = ops + 1,
         queue' = Issued(q, n), ops' = ops + 1, mode' = mode, NEW N, N = [p \in {q} |-> n]
  PROVE  /\ Issuing({q}, N) /\ N[q] = n /\ n.does = "copy"
         /\ n \in In(q)' /\ n \in Nodes' /\ n \notin Nodes /\ Nodes \subseteq Nodes'
         /\ \A x \in Nodes' : x \in Nodes \/ x = n
         /\ In(Compute)' = In(Compute) /\ Pending' = Pending \union {n}
<1>1. ops \in Nat /\ n \in Op /\ n.does = "copy" /\ Compute \in Queues
  BY DEF QueueInv, Op, CopyOp, Queues
<1>2. Issuing({q}, N) /\ N[q] = n BY <1>1, IssuingOne
<1>3. /\ \A p \in Queues : In(p)' = IF p \in {q} THEN In(p) \union {N[p]} ELSE In(p)
      /\ Pending' = Pending \union {N[p] : p \in {q}} /\ Nodes \subseteq Nodes'
      /\ \A x \in Nodes' : x \in Nodes \/ \E p \in {q} : x = N[p] \/ (N[p].does = "read" /\ x = Second(N[p]))
      /\ \A p \in {q} : N[p] \in Nodes'
  BY <1>2, IssuedNodes
<1>4. n \notin Nodes
  <2>1. \A x \in Nodes : x.id \in 1 .. ops BY NodeIs
  <2> QED BY <1>1, <2>1
<1>5. \A x \in Nodes' : x \in Nodes \/ x = n BY <1>1, <1>2, <1>3
<1>6. n \in Nodes' /\ n \in In(q)' /\ In(Compute)' = In(Compute) /\ Pending' = Pending \union {n}
  BY <1>1, <1>2, <1>3
<1> QED BY <1>1, <1>2, <1>3, <1>4, <1>5, <1>6

\* What follows compute follows the operation that waits for the last one of it.
LEMMA MarkedIs ==
  ASSUME QueueInv, Marked, NEW Q, NEW N, Issuing(Q, N), NEW q \in Q, mark \in N[q].after,
         NEW x, x \in In(Compute) \/ Awaited(x)
  PROVE  Later({N[q]}, x)
<1>1. Awaited(x) BY ImpliedSelf DEF Awaited, Follows
<1>2. \A z \in In(Compute) : Implied(Nodes, Edges, Of(mark), z) BY DEF Marked, Follows
<1>3. Follows(Of(mark), x) BY <1>1, <1>2, ImpliedTrans DEF Awaited, Follows
<1> QED BY <1>3, LaterAfter

\* Of what arrives in the slot of the slice that computes, or of what is read from
\* its home, compute waits for all.
LEMMA OwnArrivals ==
  ASSUME HostInv, SyncInv, NEW s \in Slot, NEW x \in Nodes, Arrives(s, x), InBatch, at.call # "acquire",
         s = Own \/ x.from = Home(at.slice)
  PROVE  Awaited(x)
<1>1. Awaited(x) \/ Expected(s, x) BY DEF SyncInv, Arriving
<1>2. ~Expected(s, x)
  <2>1. HasTarget => Target # at.slice /\ page[Target].slot # Own BY TargetElsewhere
  <2>2. at.slice \in Slice BY HostTyped
  <2> QED BY <2>1, <2>2 DEF Expected
<1> QED BY <1>1, <1>2

LEMMA OwnNotRead ==
  ASSUME HostInv, SyncInv, NEW s \in Slot, NEW x \in Reads(s), InBatch, at.call # "acquire"
  PROVE  s # Own /\ x.from # Home(at.slice)
<1>1. Expected(s, x) BY DEF SyncInv, Reading
<1>2. Target # at.slice /\ page[Target].slot # Own /\ at.slice \in Slice
  BY <1>1, TargetElsewhere, HostTyped DEF Expected
<1> QED BY <1>1, <1>2 DEF Expected

LEMMA ReleaseIssues ==
  ASSUME QueueInv, HostInv, Release, NEW n,
         n = Copy({mark}, InSlot(Own), IF mode = "disk" THEN Staging(Own) ELSE Home(at.slice),
                  Now(at.slice, Changed(at.slice)))
  PROVE  /\ n \in CopyOp /\ Kind(D2H, n) /\ n.id = ops + 1 /\ D2H \in Queues \ {Compute}
         /\ n.after = {mark} /\ n.from = InSlot(Own) /\ n.want = Now(at.slice, Changed(at.slice))
         /\ n.to = IF mode = "disk" THEN Staging(Own) ELSE Home(at.slice)
         /\ queue' = Issued(D2H, n) /\ ops' = ops + 1 /\ mode' = mode
         /\ Changed(at.slice) \in SUBSET {"p", "b", "s"}
<1>1. ops \in Nat /\ mark \in Nat BY DEF QueueInv, HostInv, HostTypes
<1>2. /\ Own \in Slot /\ at.call = "release" /\ ops' = ops + 1 /\ mode' = mode
      /\ queue' = Issued(D2H, n)
  BY <1>1, ReleaseIs
<1>3. at.slice \in Slice BY HostTyped
<1>4. Changed(at.slice) \in SUBSET {"p", "b", "s"} BY DEF Changed
<1>5. Now(at.slice, Changed(at.slice)) \in Content BY <1>2, <1>3, <1>4, NowIs DEF InBatch
<1>6. /\ n \in CopyOp /\ n.id = ops + 1 /\ n.after = {mark} /\ n.from = InSlot(Own)
      /\ n.want = Now(at.slice, Changed(at.slice))
      /\ n.to = IF mode = "disk" THEN Staging(Own) ELSE Home(at.slice)
  <2>1. (IF mode = "disk" THEN Staging(Own) ELSE Home(at.slice)) \in Place /\ InSlot(Own) \in Place
    BY <1>2, <1>3, PlaceIs
  <2> QED BY <1>1, <1>5, <2>1, CopyIs
<1>7. Kind(D2H, n) BY <1>2, <1>3, <1>6 DEF Kind, Compute, H2D, D2H, HostStep, Lane
<1>8. D2H \in Queues \ {Compute} BY DEF D2H, Compute, Queues
<1> QED BY <1>2, <1>4, <1>6, <1>7, <1>8

LEMMA ReleaseSync ==
  ASSUME QueueInv, HostInv, SyncInv, Release
  PROVE  SyncInv'
<1> PICK n : n = Copy({mark}, InSlot(Own), IF mode = "disk" THEN Staging(Own) ELSE Home(at.slice),
                      Now(at.slice, Changed(at.slice)))
  OBVIOUS
<1> DEFINE N == [p \in {D2H} |-> n]
<1>1. /\ n \in CopyOp /\ Kind(D2H, n) /\ n.id = ops + 1 /\ D2H \in Queues \ {Compute}
      /\ n.after = {mark} /\ n.from = InSlot(Own) /\ n.want = Now(at.slice, Changed(at.slice))
      /\ n.to = IF mode = "disk" THEN Staging(Own) ELSE Home(at.slice)
      /\ queue' = Issued(D2H, n) /\ ops' = ops + 1 /\ mode' = mode
      /\ Changed(at.slice) \in SUBSET {"p", "b", "s"}
  BY ReleaseIssues
<1>2. /\ Issuing({D2H}, N) /\ N[D2H] = n /\ n.does = "copy"
      /\ n \in In(D2H)' /\ n \in Nodes' /\ n \notin Nodes /\ Nodes \subseteq Nodes'
      /\ \A x \in Nodes' : x \in Nodes \/ x = n
      /\ In(Compute)' = In(Compute)
  BY <1>1, CopyIssues
<1> HIDE DEF N
<1>3. ops \in Nat BY DEF QueueInv
<1>4. /\ Own \in Slot /\ at.call = "release" /\ (at.leg = "forward" \/ mode # "host")
      /\ at' = IF mode = "disk" THEN Goto("submit") ELSE NextCall
      /\ SamePages
      /\ \A t \in Slot : /\ slot'[t].busy <=> (t # Own /\ slot[t].busy)
                         /\ slot'[t].free = IF t = Own THEN mark ELSE slot[t].free
                         /\ slot'[t].out = IF t = Own THEN ops + 1 ELSE slot[t].out
      /\ \A j \in Slice : /\ page'[j].homeReady = page[j].homeReady
                          /\ page'[j].homeEv = IF j = at.slice /\ mode # "disk" THEN ops + 1 ELSE page[j].homeEv
      /\ UNCHANGED <<mode, frozen, batch, mark>>
  BY <1>3, ReleaseIs
<1>5. /\ Marked /\ Freed /\ CopiedOut /\ CopiedHome /\ Returning /\ Arriving /\ Leaving /\ Staged /\ Reading
      /\ Ordered
  BY DEF SyncInv
<1>6. at.slice \in Slice /\ slot[Own].page = at.slice /\ page[at.slice].slot = Own /\ InBatch
  BY <1>4, HostTyped DEF Own, Computing, InBatch
<1>7. \A t \in Slot : slot'[t].page = slot[t].page /\ slot'[t].ready = slot[t].ready
  BY <1>4 DEF SamePages
<1>8. \A j \in Slice : page'[j].slot = page[j].slot /\ (page'[j].stateIn <=> page[j].stateIn)
  BY <1>4 DEF SamePages
<1>9. (HasTarget' <=> HasTarget) /\ (HasTarget => Target' = Target)
  <2>1. CASE mode = "disk"
    <3>1. at'.call = "submit" /\ at'.leg = at.leg /\ at'.slice = at.slice
      BY <1>4, <2>1, HostTyped DEF Goto
    <3> QED BY <1>4, <3>1 DEF HasTarget, Target
  <2>2. CASE mode # "disk" BY <1>4, <2>2, Advances
  <2> QED BY <2>1, <2>2
<1>10. \A t \in Slot, x \in Nodes : Expected(t, x) => Expected(t, x)'
  <2>1. HasTarget => Target \in Slice BY HostTyped
  <2> QED BY <1>8, <1>9, <2>1 DEF Expected
<1>11. /\ \A t \in Slot : /\ Runs(t)' \subseteq Runs(t) /\ Ins(t)' \subseteq Ins(t) /\ Reads(t)' \subseteq Reads(t)
                          /\ \A x \in Outs(t)' : x \in Outs(t) \/ (t = Own /\ x = n)
                          /\ \A i \in Slice : Files(t, i)' = Files(t, i)
       /\ \A i \in Slice : Steps(i)' \subseteq Steps(i)
  <2>1. \A t \in Slot : Runs(t)' \subseteq Runs(t) /\ Reads(t)' \subseteq Reads(t)
    BY <1>2 DEF Runs, Reads
  <2>2. \A t \in Slot : Ins(t)' \subseteq Ins(t) BY <1>1, <1>2, PlacesDiffer DEF Ins
  <2>3. \A t \in Slot : \A x \in Outs(t)' : x \in Outs(t) \/ (t = Own /\ x = n)
    BY <1>1, <1>2, PlacesDiffer DEF Outs
  <2>4. \A t \in Slot, i \in Slice : Files(t, i)' = Files(t, i)
    BY <1>1, <1>2, PlacesDiffer DEF Files
  <2>5. \A i \in Slice : Steps(i)' \subseteq Steps(i) BY <1>2 DEF Steps
  <2> QED BY <2>1, <2>2, <2>3, <2>4, <2>5
<1>12. \A x \in Nodes : x \in In(Compute) \/ Awaited(x) => Later({n}, x)
  <2>1. mark \in N[D2H].after BY <1>1, <1>2
  <2> QED BY <1>2, <1>5, <2>1, MarkedIs
<1>13. \A x \in In(D2H) : Later({n}, x)
  <2> SUFFICES ASSUME NEW x \in In(D2H) PROVE Later({n}, x)
    OBVIOUS
  <2>1. InOrder(D2H) /\ {x} \subseteq In(D2H) BY DEF InOrder, D2H, H2D
  <2>2. Follows({x}, x) BY ImpliedSelf DEF Follows
  <2> QED BY <1>2, <2>1, <2>2, LaterLine
<1>14. \A t \in Slot : \A x \in Outs(t) : x \in In(D2H) /\ x \in Nodes
  BY FromSlot DEF Outs, Runs
<1>15. Later({n}, n) BY LaterSelf
<1>16. Marked'
  <2> SUFFICES ASSUME NEW x \in In(Compute)' PROVE Follows(Of(mark), x)'
    BY DEF Marked
  <2>1. Follows(Of(mark), x) BY <1>2, <1>5 DEF Marked
  <2> QED BY <1>2, <1>4, <2>1, OldFollows
<1>17. Freed'
  <2> SUFFICES ASSUME NEW t \in Slot, ~slot'[t].busy, NEW x \in Runs(t)' PROVE Follows(Of(slot[t].free), x)'
    BY DEF Freed
  <2>1. x \in Runs(t) /\ x \in Nodes BY <1>11 DEF Runs
  <2>2. Follows(Of(slot'[t].free), x)
    <3>1. CASE t = Own
      <4>1. x \in In(Compute) BY <2>1, ToSlot DEF Runs, Ins
      <4> QED BY <1>4, <1>5, <3>1, <4>1 DEF Marked
    <3>2. CASE t # Own BY <1>4, <1>5, <2>1, <3>2 DEF Freed
    <3> QED BY <3>1, <3>2
  <2>3. \A d : Follows(Of(d), x) => Follows(Of(d), x)' BY <1>2, OldFollows
  <2> QED BY <2>2, <2>3 DEF Follows, Of
<1>18. CopiedOut'
  <2> SUFFICES ASSUME NEW t \in Slot, NEW x \in Outs(t)' PROVE Follows(Of(slot[t].out), x)'
    BY DEF CopiedOut
  <2>1. CASE t = Own
    <3>1. Later({n}, x) BY <1>11, <1>13, <1>14, <1>15
    <3>2. n \in Nodes' /\ n.id = slot'[t].out BY <1>1, <1>2, <1>4, <2>1
    <3> QED BY <3>1, <3>2, NewFollows
  <2>2. CASE t # Own
    <3>1. slot'[t].out = slot[t].out /\ x \in Outs(t) BY <1>4, <1>11, <2>2
    <3>2. Follows(Of(slot[t].out), x) BY <1>5, <3>1 DEF CopiedOut
    <3> QED BY <1>2, <3>1, <3>2, OldFollows
  <2> QED BY <2>1, <2>2
<1>19. CopiedHome'
  <2> SUFFICES ASSUME NEW i \in Slice, NEW t \in Slot, NEW x \in Outs(t)', x.to = Home(i)
               PROVE  Follows(Of(page[i].homeEv), x)'
    BY DEF CopiedHome
  <2>1. CASE i = at.slice /\ mode # "disk"
    <3>1. Later({n}, x) BY <1>11, <1>13, <1>14, <1>15
    <3>2. n \in Nodes' /\ n.id = page'[i].homeEv BY <1>1, <1>2, <1>4, <2>1
    <3> QED BY <3>1, <3>2, NewFollows
  <2>2. CASE ~(i = at.slice /\ mode # "disk")
    <3>1. page'[i].homeEv = page[i].homeEv /\ x # n BY <1>1, <1>4, <2>2, PlacesDiffer
    <3>2. Follows(Of(page[i].homeEv), x) BY <1>5, <1>11, <3>1 DEF CopiedHome
    <3> QED BY <1>2, <3>1, <3>2, OldFollows
  <2> QED BY <2>1, <2>2
<1>20. Returning' BY <1>4, <1>5, <1>8, <1>11 DEF Returning
<1>21. Arriving'
  <2> SUFFICES ASSUME NEW t \in Slot, NEW x \in Nodes', Arrives(t, x)'
               PROVE  Follows(Of(slot[t].ready), x)' /\ (Awaited(x)' \/ Expected(t, x)')
    BY DEF Arriving
  <2>1. Arrives(t, x) /\ x \in Nodes
    <3>1. Arrives(t, x) BY <1>7, <1>11 DEF Arrives
    <3> QED BY <3>1 DEF Arrives, Ins, Reads, Files
  <2>2. Follows(Of(slot[t].ready), x) /\ (Awaited(x) \/ Expected(t, x)) /\ slot'[t].ready = slot[t].ready
    BY <1>5, <1>7, <2>1 DEF Arriving
  <2> QED BY <1>2, <1>10, <2>1, <2>2, OldFollows, OldAwaited
<1>22. Leaving'
  <2> SUFFICES ASSUME NEW t \in Slot, slot'[t].busy, NEW x \in Outs(t)' PROVE Awaited(x)'
    BY DEF Leaving
  <2>1. Awaited(x) BY <1>4, <1>5, <1>11 DEF Leaving
  <2> QED BY <1>2, <2>1, OldAwaited
<1>23. Staged'
  <2> SUFFICES ASSUME mode = "disk", NEW t \in Slot, NEW x \in Outs(t)', ~(at'.call = "submit" /\ t = Own')
               PROVE  \E i \in Slice : \E w \in Files(t, i)' : Follows({w}, x)'
    BY <1>4 DEF Staged
  <2>1. at'.call = "submit" /\ at'.slice = at.slice BY <1>4, HostTyped DEF Goto
  <2>2. Own' = Own BY <1>6, <1>8, <2>1 DEF Own
  <2>3. x \in Outs(t) BY <1>11, <2>1, <2>2
  <2>4. PICK i \in Slice : \E w \in Files(t, i) : Follows({w}, x) BY <1>4, <1>5, <2>3 DEF Staged
  <2>5. PICK w \in Files(t, i) : Follows({w}, x) BY <2>4
  <2>6. w \in Nodes BY DEF Files
  <2>7. Follows({w}, x)' BY <1>2, <2>5, <2>6, OldNeeds
  <2> QED BY <1>11, <2>5, <2>7
<1>24. Reading'
  <2> SUFFICES ASSUME NEW t \in Slot, NEW x \in Reads(t)'
               PROVE  x.id = slot'[t].ready /\ Expected(t, x)'
    BY DEF Reading
  <2>1. x \in Reads(t) /\ x \in Nodes BY <1>11 DEF Reads
  <2> QED BY <1>5, <1>7, <1>10, <2>1 DEF Reading
<1>25. ASSUME NEW x \in Nodes, Conflict(x, n) PROVE Later({n}, x) \/ OvertakesNext(x, n)
  <2>1. \A s \in Slot : Arrives(s, x) /\ (s = Own \/ x.from = Home(at.slice)) => Later({n}, x)
    BY <1>4, <1>6, <1>12, OwnArrivals
  <2>2. \A s \in Slot : x \in Reads(s) => s # Own /\ x.from # Home(at.slice)
    BY <1>4, <1>6, OwnNotRead
  <2>3. CASE x.to = InSlot(Own) BY <1>4, <1>12, <2>1, <2>3, ToSlot DEF Arrives
  <2>4. CASE mode # "disk" /\ x.to = Home(at.slice)
    <3>1. x \notin Steps(at.slice) BY <1>4, <1>5, <1>6, Numbers DEF Returning
    <3> QED BY <1>6, <1>13, <2>4, <3>1, ToHome
  <2>5. CASE mode # "disk" /\ x.from = Home(at.slice)
    <3>1. x \notin Steps(at.slice) BY <1>4, <1>5, <1>6, Numbers DEF Returning
    <3> QED BY <1>6, <2>1, <2>5, <3>1, FromHome DEF Arrives
  <2>6. CASE mode = "disk" /\ x.to = Staging(Own) BY <1>4, <1>13, <2>2, <2>6, ToStaging
  <2>7. CASE mode = "disk" /\ x.from = Staging(Own)
    <3>1. CASE x \in Files(Own, at.slice)
      <4>1. at'.call = "submit" /\ at'.slice = at.slice /\ at'.leg = at.leg
        BY <1>4, <2>7, HostTyped DEF Goto
      <4>2. Own' = Own BY <1>6, <1>8, <4>1 DEF Own
      <4>3. Changed(at.slice)' = Changed(at.slice)
        BY <1>4, <1>6, <1>8, <4>1, ZenonT(40) DEF Changed, Trains
      <4>4. x \in Files(Own, at.slice)' /\ n \in Outs(Own)'
        BY <1>1, <1>2, <3>1, <4>1, <4>2 DEF Files, Outs
      <4>5. DOMAIN n.want = Changed(at.slice) BY <1>1 DEF Now
      <4> QED
        <5>1. Overtakes(x, n)' BY <4>1, <4>3, <4>4, <4>5 DEF Overtakes
        <5> QED BY <5>1 DEF OvertakesNext
    <3>2. CASE x \notin Files(Own, at.slice)
      <4>1. x \in Ins(Own) \/ \E i \in Slice : x \in Files(Own, i) BY <1>4, <2>7, FromStaging
      <4>2. Arrives(Own, x) BY <1>6, <3>2, <4>1 DEF Arrives
      <4> QED BY <1>4, <2>1, <4>2
    <3> QED BY <3>1, <3>2
  <2> QED BY <1>1, <1>25, <2>3, <2>4, <2>5, <2>6, <2>7 DEF Conflict
<1>26. Ordered'
  <2>1. \A x, y \in Nodes : ~Overtakes(x, y) BY <1>4 DEF Overtakes
  <2> QED BY <1>2, <1>5, <1>25, <2>1, OneOrdered
<1> QED BY <1>16, <1>17, <1>18, <1>19, <1>20, <1>21, <1>22, <1>23, <1>24, <1>26 DEF SyncInv

LEMMA SubmitIssues ==
  ASSUME QueueInv, HostInv, Submit, NEW n,
         n = Copy({slot[Own].out}, Staging(Own), Home(at.slice), Now(at.slice, Changed(at.slice)))
  PROVE  /\ n \in CopyOp /\ Kind(Lane(Own), n) /\ n.id = ops + 1 /\ Lane(Own) \in Queues \ {Compute}
         /\ n.after = {slot[Own].out} /\ n.from = Staging(Own) /\ n.to = Home(at.slice)
         /\ n.want = Now(at.slice, Changed(at.slice))
         /\ queue' = Issued(Lane(Own), n) /\ ops' = ops + 1 /\ mode' = mode
         /\ Changed(at.slice) \in SUBSET {"p", "b", "s"}
<1>1. ops \in Nat BY DEF QueueInv
<1>2. /\ Own \in Slot /\ at.call = "submit" /\ mode = "disk" /\ ops' = ops + 1 /\ mode' = mode
      /\ queue' = Issued(Lane(Own), n)
  BY <1>1, SubmitIs
<1>3. at.slice \in Slice /\ slot[Own].out \in Nat BY <1>2, HostTyped DEF SlotType
<1>4. Changed(at.slice) \in SUBSET {"p", "b", "s"} BY DEF Changed
<1>5. Now(at.slice, Changed(at.slice)) \in Content BY <1>2, <1>3, <1>4, NowIs DEF InBatch
<1>6. /\ n \in CopyOp /\ n.id = ops + 1 /\ n.after = {slot[Own].out} /\ n.from = Staging(Own)
      /\ n.want = Now(at.slice, Changed(at.slice)) /\ n.to = Home(at.slice)
  <2>1. Home(at.slice) \in Place /\ Staging(Own) \in Place BY <1>2, <1>3, PlaceIs
  <2> QED BY <1>1, <1>3, <1>5, <2>1, CopyIs
<1>7. Kind(Lane(Own), n) BY <1>2, <1>3, <1>6 DEF Kind, Compute, H2D, D2H, HostStep, Lane
<1>8. Lane(Own) \in Queues \ {Compute} BY <1>2 DEF Lane, Compute, Queues
<1> QED BY <1>2, <1>4, <1>6, <1>7, <1>8

LEMMA SubmitSync ==
  ASSUME QueueInv, HostInv, SyncInv, Submit
  PROVE  SyncInv'
<1> PICK n : n = Copy({slot[Own].out}, Staging(Own), Home(at.slice), Now(at.slice, Changed(at.slice)))
  OBVIOUS
<1> PICK q : q = Lane(Own) OBVIOUS
<1> PICK N : N = [p \in {q} |-> n] OBVIOUS
<1>1. /\ n \in CopyOp /\ Kind(q, n) /\ n.id = ops + 1 /\ q \in Queues \ {Compute}
      /\ n.after = {slot[Own].out} /\ n.from = Staging(Own) /\ n.to = Home(at.slice)
      /\ queue' = Issued(q, n) /\ ops' = ops + 1 /\ mode' = mode
  BY SubmitIssues
<1>2. /\ Issuing({q}, N) /\ N[q] = n /\ n.does = "copy"
      /\ n \in Nodes' /\ n \notin Nodes /\ Nodes \subseteq Nodes'
      /\ \A x \in Nodes' : x \in Nodes \/ x = n
      /\ In(Compute)' = In(Compute)
  BY <1>1, CopyIssues
<1>3. ops \in Nat BY DEF QueueInv
<1>4. /\ Own \in Slot /\ at.call = "submit" /\ mode = "disk" /\ at' = NextCall
      /\ Returned(page[at.slice].homeReady)
      /\ SamePages /\ slot' = slot
      /\ \A j \in Slice : /\ page'[j].adopted = page[j].adopted /\ page'[j].homeEv = page[j].homeEv
                          /\ page'[j].homeReady = IF j = at.slice THEN ops + 1 ELSE page[j].homeReady
      /\ UNCHANGED <<mode, frozen, batch, mark>>
  BY <1>3, SubmitIs
<1>5. /\ Marked /\ Freed /\ CopiedOut /\ CopiedHome /\ Returning /\ Arriving /\ Leaving /\ Staged /\ Reading
      /\ Ordered
  BY DEF SyncInv
<1>6. at.slice \in Slice /\ slot[Own].page = at.slice /\ page[at.slice].slot = Own /\ InBatch
  BY <1>4, HostTyped DEF Own, InBatch
<1>7. Steps(at.slice) = {} /\ \A t \in Slot : Files(t, at.slice) = {}
  BY <1>4, <1>5, <1>6, NothingReturning
<1>8. \A j \in Slice : page'[j].slot = page[j].slot BY <1>4 DEF SamePages
<1>9. at'.call # "submit" /\ (HasTarget' <=> HasTarget) /\ (HasTarget => Target' = Target)
  BY <1>4, Advances
<1>10. \A t \in Slot, x \in Nodes : Expected(t, x) => Expected(t, x)'
  <2>1. HasTarget => Target \in Slice BY HostTyped
  <2> QED BY <1>8, <1>9, <2>1 DEF Expected
<1>11. /\ \A t \in Slot : /\ Runs(t)' \subseteq Runs(t) /\ Ins(t)' \subseteq Ins(t) /\ Reads(t)' \subseteq Reads(t)
                          /\ Outs(t)' \subseteq Outs(t)
                          /\ \A i \in Slice : \A x \in Files(t, i)' :
                               x \in Files(t, i) \/ (t = Own /\ i = at.slice /\ x = n)
       /\ \A i \in Slice : Steps(i)' \subseteq Steps(i)
  <2>1. \A t \in Slot : Runs(t)' \subseteq Runs(t) /\ Reads(t)' \subseteq Reads(t)
    BY <1>2 DEF Runs, Reads
  <2>2. \A t \in Slot : Ins(t)' \subseteq Ins(t) /\ Outs(t)' \subseteq Outs(t)
    BY <1>1, <1>2, PlacesDiffer DEF Ins, Outs
  <2>3. \A t \in Slot, i \in Slice : \A x \in Files(t, i)' :
          x \in Files(t, i) \/ (t = Own /\ i = at.slice /\ x = n)
    BY <1>1, <1>2, PlacesDiffer DEF Files
  <2>4. \A i \in Slice : Steps(i)' \subseteq Steps(i) BY <1>2 DEF Steps
  <2> QED BY <2>1, <2>2, <2>3, <2>4
<1>12. \A x \in Outs(Own) : Later({n}, x)
  <2>1. \A x \in Outs(Own) : Follows(Of(slot[Own].out), x) BY <1>4, <1>5 DEF CopiedOut
  <2>2. slot[Own].out \in N[q].after BY <1>1, <1>2
  <2> QED BY <1>2, <2>1, <2>2, LaterAfter
<1>13. Marked'
  <2> SUFFICES ASSUME NEW x \in In(Compute)' PROVE Follows(Of(mark), x)'
    BY DEF Marked
  <2>1. Follows(Of(mark), x) BY <1>2, <1>5 DEF Marked
  <2> QED BY <1>2, <1>4, <2>1, OldFollows
<1>14. Freed'
  <2> SUFFICES ASSUME NEW t \in Slot, ~slot[t].busy, NEW x \in Runs(t)' PROVE Follows(Of(slot[t].free), x)'
    BY <1>4 DEF Freed
  <2>1. Follows(Of(slot[t].free), x) BY <1>5, <1>11 DEF Freed
  <2> QED BY <1>2, <1>4, <2>1, OldFollows
<1>15. CopiedOut'
  <2> SUFFICES ASSUME NEW t \in Slot, NEW x \in Outs(t)' PROVE Follows(Of(slot[t].out), x)'
    BY DEF CopiedOut
  <2>1. Follows(Of(slot[t].out), x) BY <1>5, <1>11 DEF CopiedOut
  <2> QED BY <1>2, <1>4, <2>1, OldFollows
<1>16. CopiedHome'
  <2> SUFFICES ASSUME NEW i \in Slice, NEW t \in Slot, NEW x \in Outs(t)', x.to = Home(i)
               PROVE  Follows(Of(page[i].homeEv), x)'
    BY DEF CopiedHome
  <2>1. Follows(Of(page[i].homeEv), x) /\ page'[i].homeEv = page[i].homeEv
    BY <1>4, <1>5, <1>11 DEF CopiedHome
  <2> QED BY <1>2, <2>1, OldFollows
<1>17. Returning'
  <2> SUFFICES ASSUME NEW i \in Slice
               PROVE  /\ \A x \in Steps(i)' : x.id = page'[i].homeReady /\ page'[i].slot = None
                      /\ \A t \in Slot : \A x \in Files(t, i)' : x.id = page'[i].homeReady
    BY DEF Returning
  <2>1. CASE i = at.slice BY <1>1, <1>4, <1>7, <1>11, <2>1
  <2>2. CASE i # at.slice BY <1>4, <1>5, <1>8, <1>11, <2>2 DEF Returning
  <2> QED BY <2>1, <2>2
<1>18. Arriving'
  <2> SUFFICES ASSUME NEW t \in Slot, NEW x \in Nodes', Arrives(t, x)'
               PROVE  Follows(Of(slot[t].ready), x)' /\ (Awaited(x)' \/ Expected(t, x)')
    BY DEF Arriving
  <2>1. Arrives(t, x) /\ x \in Nodes
    <3>1. Arrives(t, x) BY <1>4, <1>6, <1>11 DEF Arrives
    <3> QED BY <3>1 DEF Arrives, Ins, Reads, Files
  <2>2. Follows(Of(slot[t].ready), x) /\ (Awaited(x) \/ Expected(t, x)) /\ slot'[t].ready = slot[t].ready
    BY <1>4, <1>5, <2>1 DEF Arriving
  <2> QED BY <1>2, <1>10, <2>1, <2>2, OldFollows, OldAwaited
<1>19. Leaving'
  <2> SUFFICES ASSUME NEW t \in Slot, slot[t].busy, NEW x \in Outs(t)' PROVE Awaited(x)'
    BY <1>4 DEF Leaving
  <2>1. Awaited(x) BY <1>5, <1>11 DEF Leaving
  <2> QED BY <1>2, <2>1, OldAwaited
<1>20. Staged'
  <2> SUFFICES ASSUME NEW t \in Slot, NEW x \in Outs(t)'
               PROVE  \E i \in Slice : \E w \in Files(t, i)' : Follows({w}, x)'
    BY DEF Staged
  <2>1. x \in Outs(t) BY <1>11
  <2>2. CASE t = Own
    <3> PICK i \in Slice : i = at.slice BY <1>6
    <3>1. n \in Files(t, i)' BY <1>1, <1>2, <2>2 DEF Files
    <3>2. Later({n}, x) BY <1>12, <2>1, <2>2
    <3>3. Follows({n}, x)' BY <3>2, NewNeeds
    <3> QED BY <3>1, <3>3
  <2>3. CASE t # Own
    <3>1. PICK i \in Slice : \E w \in Files(t, i) : Follows({w}, x)
      BY <1>4, <1>5, <2>1, <2>3 DEF Staged
    <3>2. PICK w \in Files(t, i) : Follows({w}, x) BY <3>1
    <3>3. w \in Nodes BY DEF Files
    <3>4. Follows({w}, x)' BY <1>2, <3>2, <3>3, OldNeeds
    <3>5. w \in Files(t, i)' BY <1>2, <3>3 DEF Files
    <3> QED BY <3>4, <3>5
  <2> QED BY <2>2, <2>3
<1>21. Reading'
  <2> SUFFICES ASSUME NEW t \in Slot, NEW x \in Reads(t)'
               PROVE  x.id = slot[t].ready /\ Expected(t, x)'
    BY <1>4 DEF Reading
  <2>1. x \in Reads(t) /\ x \in Nodes BY <1>11 DEF Reads
  <2> QED BY <1>5, <1>10, <2>1 DEF Reading
<1>22. ASSUME NEW x \in Nodes, Conflict(x, n) PROVE Later({n}, x)
  <2>1. \A s \in Slot : x \in Reads(s) => s # Own /\ x.from # Home(at.slice)
    BY <1>4, <1>6, OwnNotRead
  <2>2. CASE x.to = Staging(Own) BY <1>4, <1>12, <2>1, <2>2, ToStaging
  <2>3. CASE x.to = Home(at.slice) BY <1>4, <1>6, <1>7, <2>3, ToHome
  <2>4. CASE x.from = Home(at.slice) BY <1>4, <1>6, <2>1, <2>4, FromHome
  <2> QED BY <1>1, <1>22, <2>2, <2>3, <2>4 DEF Conflict
<1>23. Ordered'
  <2>1. \A x, y \in Nodes : ~Overtakes(x, y) BY <1>4, <1>7 DEF Overtakes
  <2> QED BY <1>2, <1>5, <1>22, <2>1, OneOrdered
<1> QED BY <1>13, <1>14, <1>15, <1>16, <1>17, <1>18, <1>19, <1>20, <1>21, <1>23 DEF SyncInv

\* The gradients go home, and the step on the CPU is the operation after.
Trained(r) == IF Trains(at.slice) THEN {r} ELSE {}
Stepped(n1, n2, N) ==
  /\ n1 \in CopyOp /\ n1.id = ops + 1 /\ n1.after = {mark} /\ n1.from = InSlot(Own) /\ n1.to = Home(at.slice)
  /\ DOMAIN n1.want = {"b"} \union Trained("g") /\ n1.want["b"] = <<at.slice, latest[at.slice]["b"]>>
  /\ Trains(at.slice) => n1.want["g"] = <<at.slice, batch + 1>>
  /\ n2 \in RunOp /\ n2.id = ops + 2 /\ n2.after = {ops + 1} /\ n2.from = Home(at.slice) /\ n2.to = Home(at.slice)
  /\ DOMAIN n2.want = Trained("g") \union Trained("p") /\ DOMAIN n2.makes = Trained("p")
  /\ Trains(at.slice) => /\ n2.want["g"] = <<at.slice, batch + 1>>
                         /\ n2.want["p"] = <<at.slice, latest[at.slice]["p"]>>
                         /\ n2.makes["p"] = <<at.slice, latest[at.slice]["p"] + 1>>
  /\ N = [p \in {D2H, HostStep} |-> IF p = D2H THEN n1 ELSE n2]
  /\ Issuing({D2H, HostStep}, N)

LEMMA StepIssues ==
  ASSUME QueueInv, HostInv, StepOnCpu
  PROVE  \E n1, n2, N : Stepped(n1, n2, N)
<1>1. ops \in Nat /\ mark \in Nat /\ batch \in 0 .. NumBatches /\ NumBatches \in Nat \ {0}
  BY Numbers DEF QueueInv, HostInv, HostTypes
<1>2. /\ Own \in Slot /\ at.call = "release" /\ at.leg = "backward" /\ mode = "host"
      /\ ops' = ops + 2 /\ mode' = mode
  BY <1>1, StepIs
<1> PICK i \in Slice : i = at.slice BY HostTyped
<1>3. batch + 1 \in 0 .. NumBatches BY <1>1, <1>2 DEF HostInv, Control
<1>4. \A regions \in SUBSET {"p", "b", "s"} :
        /\ Now(i, regions) \in Content /\ DOMAIN Now(i, regions) = regions
        /\ \A r \in regions : Now(i, regions)[r] = <<i, latest[i][r]>>
  BY <1>2, NowIs DEF InBatch
<1> DEFINE gradient == IF Trains(i) THEN Gradient(i, batch + 1) ELSE Now(i, {})
           steps == IF Trains(i) THEN {"p"} ELSE {}
<1>5. gradient \in Content /\ DOMAIN gradient = Trained("g") /\ (Trains(i) => gradient["g"] = <<i, batch + 1>>)
  <2>1. Gradient(i, batch + 1) \in Content /\ DOMAIN Gradient(i, batch + 1) = {"g"}
        /\ Gradient(i, batch + 1)["g"] = <<i, batch + 1>>
    BY <1>3, GradientIs
  <2>2. Now(i, {}) \in Content /\ DOMAIN Now(i, {}) = {} BY <1>4
  <2> QED BY <2>1, <2>2 DEF Trained
<1>6. steps \in SUBSET {"p", "b", "s"} /\ steps = Trained("p") BY DEF Trained
<1>7. Updated(i, steps) \in Content /\ DOMAIN Updated(i, steps) = steps
      /\ (Trains(i) => Updated(i, steps)["p"] = <<i, latest[i]["p"] + 1>>)
  <2>1. latest[i]["p"] \in Nat /\ latest[i]["p"] <= batch BY <1>2 DEF HostInv, HostTypes, Counts
  <2>2. \A r \in steps : <<i, latest[i][r] + 1>> \in Values BY <1>1, <1>3, <2>1 DEF Values
  <2>3. Updated(i, steps) \in [steps -> Values] /\ steps \in SUBSET Region
    BY <2>2 DEF Updated, Region
  <2> QED BY <2>3 DEF Content, Updated
<1> DEFINE want1 == With(gradient, Now(i, {"b"}))
           want2 == With(gradient, Now(i, steps))
<1> HIDE DEF gradient, steps
<1>8. /\ want1 \in Content /\ DOMAIN want1 = Trained("g") \union {"b"}
      /\ want1["b"] = <<i, latest[i]["b"]>> /\ (Trains(i) => want1["g"] = <<i, batch + 1>>)
  <2>1. Now(i, {"b"}) \in Content /\ DOMAIN Now(i, {"b"}) = {"b"} /\ Now(i, {"b"})["b"] = <<i, latest[i]["b"]>>
    BY <1>4
  <2>2. Trained("g") \intersect {"b"} = {} /\ (Trains(i) => "g" \in Trained("g")) BY DEF Trained
  <2>3. /\ want1 \in Content /\ DOMAIN want1 = DOMAIN gradient \union DOMAIN Now(i, {"b"})
        /\ \A r \in DOMAIN gradient : want1[r] = gradient[r]
        /\ \A r \in DOMAIN Now(i, {"b"}) : want1[r] = Now(i, {"b"})[r]
    BY <1>5, <2>1, <2>2, WithIs
  <2> QED BY <1>5, <2>1, <2>2, <2>3
<1>9. /\ want2 \in Content /\ DOMAIN want2 = Trained("g") \union Trained("p")
      /\ Trains(i) => want2["p"] = <<i, latest[i]["p"]>> /\ want2["g"] = <<i, batch + 1>>
  <2>1. Now(i, steps) \in Content /\ DOMAIN Now(i, steps) = steps
        /\ \A r \in steps : Now(i, steps)[r] = <<i, latest[i][r]>>
    BY <1>4, <1>6
  <2>2. Trained("g") \intersect Trained("p") = {} /\ (Trains(i) => "g" \in Trained("g") /\ "p" \in Trained("p"))
    BY DEF Trained
  <2>3. /\ want2 \in Content /\ DOMAIN want2 = DOMAIN gradient \union DOMAIN Now(i, steps)
        /\ \A r \in DOMAIN gradient : want2[r] = gradient[r]
        /\ \A r \in DOMAIN Now(i, steps) : want2[r] = Now(i, steps)[r]
    BY <1>5, <1>6, <2>1, <2>2, WithIs
  <2> QED BY <1>5, <1>6, <2>1, <2>2, <2>3
<1>10. /\ {mark} \in SUBSET Nat /\ {ops + 1} \in SUBSET Nat
       /\ InSlot(Own) \in Place /\ Home(i) \in Place
  BY <1>1, <1>2, PlaceIs
<1> PICK n1 : n1 = Copy({mark}, InSlot(Own), Home(i), want1) OBVIOUS
<1> PICK m2 : m2 = Run({ops + 1}, Home(i), want2, Updated(i, steps)) OBVIOUS
<1> PICK n2 : n2 = [m2 EXCEPT !.id = ops + 2] OBVIOUS
<1>11. queue' = [queue EXCEPT ![D2H] = Append(@, n1), ![HostStep] = Append(@, n2)]
  BY DEF StepOnCpu, gradient, steps, Own
<1> HIDE DEF want1, want2
<1>12. /\ n1 \in CopyOp /\ n1 \in Op /\ n1.does = "copy" /\ n1.id = ops + 1
       /\ n1.after = {mark} /\ n1.from = InSlot(Own) /\ n1.to = Home(i) /\ n1.want = want1
  BY <1>1, <1>8, <1>10, CopyIs
<1>13. /\ m2 \in RunOp /\ m2.does = "run"
       /\ m2.after = {ops + 1} /\ m2.from = Home(i) /\ m2.to = Home(i)
       /\ m2.want = want2 /\ m2.makes = Updated(i, steps)
  BY <1>1, <1>7, <1>9, <1>10, RunIs
<1>14. /\ n2 \in RunOp /\ n2 \in Op /\ n2.does = "run" /\ n2.id = ops + 2
       /\ n2.after = {ops + 1} /\ n2.from = Home(i) /\ n2.to = Home(i)
       /\ n2.want = want2 /\ n2.makes = Updated(i, steps)
  <2>1. ops + 2 \in Nat BY <1>1
  <2>2. n2 \in RunOp /\ n2.id = ops + 2 BY <1>13, <2>1 DEF RunOp
  <2>3. /\ n2.does = m2.does /\ n2.after = m2.after /\ n2.from = m2.from /\ n2.to = m2.to
        /\ n2.want = m2.want /\ n2.makes = m2.makes
    BY <1>13 DEF RunOp
  <2> QED BY <1>13, <2>2, <2>3 DEF Op
<1>15. Kind(D2H, n1) /\ Kind(HostStep, n2)
  BY <1>2, <1>12, <1>14 DEF Kind, Compute, H2D, D2H, HostStep, Lane
<1> PICK N : N = [p \in {D2H, HostStep} |-> IF p = D2H THEN n1 ELSE n2] OBVIOUS
<1>16. Issuing({D2H, HostStep}, N)
  <2>1. D2H \in Queues /\ HostStep \in Queues /\ D2H # HostStep BY DEF Queues, D2H, HostStep
  <2>2. N[D2H] = n1 /\ N[HostStep] = n2 BY <2>1
  <2>3. queue \in [Queues -> Seq(Op)] BY DEF QueueInv
  <2>4. DOMAIN queue' = Queues /\ queue' = [q \in Queues |-> queue'[q]] BY <1>11, <2>3
  <2>5. \A p \in Queues : queue'[p] = IF p \in {D2H, HostStep} THEN Append(queue[p], N[p]) ELSE queue[p]
    BY <1>11, <2>1, <2>2, <2>3
  <2>6. \A q \in {D2H, HostStep} : N[q] \in Op /\ Kind(q, N[q]) /\ N[q].id \in ops + 1 .. ops'
    <3>1. n1 \in Op /\ Kind(D2H, n1) /\ n1.id \in ops + 1 .. ops' BY <1>1, <1>2, <1>12, <1>15
    <3>2. n2 \in Op /\ Kind(HostStep, n2) /\ n2.id \in ops + 1 .. ops'
      BY <1>1, <1>2, <1>14, <1>15
    <3> QED BY <2>2, <3>1, <3>2
  <2>7. \A p, q \in {D2H, HostStep} : p # q => N[p].id # N[q].id BY <1>1, <1>12, <1>14, <2>2
  <2>8. ops' \in Nat /\ ops' >= ops BY <1>1, <1>2
  <2> QED BY <1>2, <2>1, <2>4, <2>5, <2>6, <2>7, <2>8 DEF Issuing, Issues
<1>17. Stepped(n1, n2, N) BY <1>6, <1>7, <1>8, <1>9, <1>12, <1>14, <1>16 DEF Stepped
<1> QED BY <1>17

LEMMA SteppedIs ==
  ASSUME QueueInv, NEW n1, NEW n2, NEW N, Stepped(n1, n2, N)
  PROVE  /\ Issuing({D2H, HostStep}, N) /\ N[D2H] = n1 /\ N[HostStep] = n2
         /\ n1.does = "copy" /\ n2.does = "run"
         /\ n1 \in Nodes' /\ n2 \in Nodes' /\ n1 \notin Nodes /\ n2 \notin Nodes
         /\ n1 # n2 /\ Nodes \subseteq Nodes'
         /\ \A x \in Nodes' : x \in Nodes \/ x = n1 \/ x = n2
         /\ In(Compute)' = In(Compute) /\ Pending' = Pending \union {n1, n2}
<1>1. ops \in Nat /\ D2H # HostStep /\ Compute \notin {D2H, HostStep} /\ Compute \in Queues
  BY DEF QueueInv, D2H, HostStep, Compute, Queues
<1>2. Issuing({D2H, HostStep}, N) /\ N[D2H] = n1 /\ N[HostStep] = n2 BY <1>1 DEF Stepped
<1>3. n1.does = "copy" /\ n2.does = "run" /\ n1.id = ops + 1 /\ n2.id = ops + 2
  BY DEF Stepped, CopyOp, RunOp
<1> DEFINE Q == {D2H, HostStep}
<1>4. /\ \A p \in Queues : In(p)' = IF p \in Q THEN In(p) \union {N[p]} ELSE In(p)
      /\ Pending' = Pending \union {N[p] : p \in Q} /\ Nodes \subseteq Nodes'
      /\ \A x \in Nodes' : x \in Nodes \/ \E p \in Q : x = N[p] \/ (N[p].does = "read" /\ x = Second(N[p]))
      /\ \A p \in Q : N[p] \in Nodes'
  BY <1>2, IssuedNodes
<1>5. n1 \notin Nodes /\ n2 \notin Nodes /\ n1 # n2
  <2>1. \A x \in Nodes : x.id \in 1 .. ops BY NodeIs
  <2> QED BY <1>1, <1>3, <2>1
<1>6. \A x \in Nodes' : x \in Nodes \/ x = n1 \/ x = n2 BY <1>2, <1>3, <1>4
<1>7. n1 \in Nodes' /\ n2 \in Nodes' /\ In(Compute)' = In(Compute) BY <1>1, <1>2, <1>4
<1>8. Pending' = Pending \union {n1, n2} BY <1>2, <1>4
<1> QED BY <1>2, <1>3, <1>4, <1>5, <1>6, <1>7, <1>8

LEMMA StepSync ==
  ASSUME QueueInv, HostInv, SyncInv, StepOnCpu
  PROVE  SyncInv'
<1>1. PICK n1, n2, N : Stepped(n1, n2, N) BY StepIssues
<1>2. /\ Issuing({D2H, HostStep}, N) /\ N[D2H] = n1 /\ N[HostStep] = n2
      /\ n1.does = "copy" /\ n2.does = "run"
      /\ n1 \in Nodes' /\ n2 \in Nodes' /\ n1 \notin Nodes /\ n2 \notin Nodes
      /\ n1 # n2 /\ Nodes \subseteq Nodes'
      /\ \A x \in Nodes' : x \in Nodes \/ x = n1 \/ x = n2
      /\ In(Compute)' = In(Compute)
  BY <1>1, SteppedIs
<1>3. ops \in Nat BY DEF QueueInv
<1> PICK i \in Slice : i = at.slice BY HostTyped
<1> PICK own : own = Own OBVIOUS
<1>4. /\ n1.id = ops + 1 /\ n1.after = {mark} /\ n1.from = InSlot(own) /\ n1.to = Home(i)
      /\ n2.id = ops + 2 /\ n2.after = {ops + 1} /\ n2.from = Home(i) /\ n2.to = Home(i)
  BY <1>1 DEF Stepped
<1>5. /\ own \in Slot /\ at.call = "release" /\ at.leg = "backward" /\ mode = "host" /\ at' = NextCall
      /\ \A t \in Slot : /\ slot'[t].page = IF t = own THEN None ELSE slot[t].page
                         /\ slot'[t].ready = slot[t].ready
                         /\ slot'[t].busy <=> (t # own /\ slot[t].busy)
                         /\ slot'[t].free = IF t = own THEN mark ELSE slot[t].free
                         /\ slot'[t].out = IF t = own THEN ops + 1 ELSE slot[t].out
      /\ \A j \in Slice : /\ page'[j].slot = IF j = i THEN None ELSE page[j].slot
                          /\ page'[j].homeReady = IF j = i THEN ops + 2 ELSE page[j].homeReady
                          /\ page'[j].homeEv = IF j = i THEN ops + 1 ELSE page[j].homeEv
      /\ UNCHANGED <<mode, frozen, batch, mark>>
  BY <1>3, StepIs
<1>6. /\ Marked /\ Freed /\ CopiedOut /\ CopiedHome /\ Returning /\ Arriving /\ Leaving /\ Staged /\ Reading
      /\ Ordered
  BY DEF SyncInv
<1>7. page[i].slot = own /\ InBatch /\ own # None BY <1>5, Numbers DEF Own, InBatch
<1>8. (HasTarget' <=> HasTarget) /\ (HasTarget => Target' = Target /\ Target # i /\ Target \in Slice)
  BY <1>5, Advances, TargetElsewhere
<1>9. \A t \in Slot, x \in Nodes : Expected(t, x) => Expected(t, x)' BY <1>5, <1>8 DEF Expected
<1>10. /\ \A t \in Slot : Reads(t) = {} /\ \A j \in Slice : Files(t, j) = {}
       /\ Steps(i) = {}
  <2>1. ASSUME NEW t \in Slot, NEW x \in Reads(t) PROVE FALSE
    BY <1>5, ToStaging DEF Reads
  <2>2. ASSUME NEW t \in Slot, NEW j \in Slice, NEW x \in Files(t, j) PROVE FALSE
    BY <1>5, FromStaging DEF Files
  <2>3. Steps(i) = {} BY <1>6, <1>7 DEF Returning
  <2> QED BY <2>1, <2>2, <2>3
<1>11. /\ \A t \in Slot : /\ Runs(t)' \subseteq Runs(t) /\ Ins(t)' \subseteq Ins(t) /\ Reads(t)' = {}
                          /\ \A x \in Outs(t)' : x \in Outs(t) \/ (t = own /\ x = n1)
                          /\ \A j \in Slice : Files(t, j)' = {}
       /\ \A j \in Slice : \A x \in Steps(j)' : x \in Steps(j) \/ (j = i /\ x = n2)
  <2>1. \A t \in Slot : Runs(t)' \subseteq Runs(t) BY <1>2, <1>4, PlacesDiffer DEF Runs
  <2>2. \A t \in Slot : Ins(t)' \subseteq Ins(t) BY <1>2, <1>4, PlacesDiffer DEF Ins
  <2>3. \A t \in Slot : Reads(t)' = {} BY <1>2, <1>10 DEF Reads
  <2>4. \A t \in Slot : \A x \in Outs(t)' : x \in Outs(t) \/ (t = own /\ x = n1)
    BY <1>2, <1>4, PlacesDiffer DEF Outs
  <2>5. \A t \in Slot, j \in Slice : Files(t, j)' = {}
    BY <1>2, <1>4, <1>10, PlacesDiffer DEF Files
  <2>6. \A j \in Slice : \A x \in Steps(j)' : x \in Steps(j) \/ (j = i /\ x = n2)
    BY <1>2, <1>4, PlacesDiffer DEF Steps
  <2> QED BY <2>1, <2>2, <2>3, <2>4, <2>5, <2>6
<1>12. \A x \in Nodes : x \in In(Compute) \/ Awaited(x) => Later({n1}, x)
  <2>1. mark \in N[D2H].after /\ D2H \in {D2H, HostStep} BY <1>2, <1>4
  <2> QED BY <1>2, <1>6, <2>1, MarkedIs
<1>13. \A x \in In(D2H) : Later({n1}, x)
  <2> SUFFICES ASSUME NEW x \in In(D2H) PROVE Later({n1}, x)
    OBVIOUS
  <2>1. InOrder(D2H) /\ {x} \subseteq In(D2H) /\ D2H \in {D2H, HostStep}
    BY DEF InOrder, D2H, H2D
  <2>2. Follows({x}, x) BY ImpliedSelf DEF Follows
  <2> QED BY <1>2, <2>1, <2>2, LaterLine
<1>14. \A t \in Slot : \A x \in Outs(t) : x \in In(D2H) /\ x \in Nodes
  BY FromSlot DEF Outs, Runs
<1>15. Later({n1}, n1) BY LaterSelf
<1>16. \A x : Later({n1}, x) => Later({n2}, x)
  <2>1. \A z \in {n1} : z \in Nodes' /\ Needs(z, n2)' BY <1>2, <1>4 DEF Needs
  <2> QED BY <1>2, <2>1, LaterStep
<1>17. Marked'
  <2> SUFFICES ASSUME NEW x \in In(Compute)' PROVE Follows(Of(mark), x)'
    BY DEF Marked
  <2>1. Follows(Of(mark), x) BY <1>2, <1>6 DEF Marked
  <2> QED BY <1>2, <1>5, <2>1, OldFollows
<1>18. Freed'
  <2> SUFFICES ASSUME NEW t \in Slot, ~slot'[t].busy, NEW x \in Runs(t)' PROVE Follows(Of(slot[t].free), x)'
    BY DEF Freed
  <2>1. x \in Runs(t) /\ x \in Nodes BY <1>11 DEF Runs
  <2>2. Follows(Of(slot'[t].free), x)
    <3>1. CASE t = own
      <4>1. x \in In(Compute) BY <2>1, ToSlot DEF Runs, Ins
      <4> QED BY <1>5, <1>6, <3>1, <4>1 DEF Marked
    <3>2. CASE t # own BY <1>5, <1>6, <2>1, <3>2 DEF Freed
    <3> QED BY <3>1, <3>2
  <2>3. \A d : Follows(Of(d), x) => Follows(Of(d), x)' BY <1>2, OldFollows
  <2> QED BY <2>2, <2>3 DEF Follows, Of
<1>19. CopiedOut'
  <2> SUFFICES ASSUME NEW t \in Slot, NEW x \in Outs(t)' PROVE Follows(Of(slot[t].out), x)'
    BY DEF CopiedOut
  <2>1. CASE t = own
    <3>1. Later({n1}, x) BY <1>11, <1>13, <1>14, <1>15
    <3> QED BY <1>2, <1>4, <1>5, <2>1, <3>1, NewFollows
  <2>2. CASE t # own
    <3>1. slot'[t].out = slot[t].out /\ x \in Outs(t) BY <1>5, <1>11, <2>2
    <3>2. Follows(Of(slot[t].out), x) BY <1>6, <3>1 DEF CopiedOut
    <3> QED BY <1>2, <3>1, <3>2, OldFollows
  <2> QED BY <2>1, <2>2
<1>20. CopiedHome'
  <2> SUFFICES ASSUME NEW j \in Slice, NEW t \in Slot, NEW x \in Outs(t)', x.to = Home(j)
               PROVE  Follows(Of(page[j].homeEv), x)'
    BY DEF CopiedHome
  <2>1. CASE j = i
    <3>1. Later({n1}, x) BY <1>11, <1>13, <1>14, <1>15
    <3> QED BY <1>2, <1>4, <1>5, <2>1, <3>1, NewFollows
  <2>2. CASE j # i
    <3>1. page'[j].homeEv = page[j].homeEv /\ x # n1 BY <1>4, <1>5, <2>2, PlacesDiffer
    <3>2. Follows(Of(page[j].homeEv), x) BY <1>6, <1>11, <3>1 DEF CopiedHome
    <3> QED BY <1>2, <3>1, <3>2, OldFollows
  <2> QED BY <2>1, <2>2
<1>21. Returning'
  <2> SUFFICES ASSUME NEW j \in Slice
               PROVE  /\ \A x \in Steps(j)' : x.id = page'[j].homeReady /\ page'[j].slot = None
                      /\ \A t \in Slot : \A x \in Files(t, j)' : x.id = page'[j].homeReady
    BY DEF Returning
  <2>1. CASE j = i BY <1>4, <1>5, <1>10, <1>11, <2>1
  <2>2. CASE j # i BY <1>5, <1>6, <1>11, <2>2 DEF Returning
  <2> QED BY <2>1, <2>2
<1>22. Arriving'
  <2> SUFFICES ASSUME NEW t \in Slot, NEW x \in Nodes', Arrives(t, x)'
               PROVE  Follows(Of(slot[t].ready), x)' /\ (Awaited(x)' \/ Expected(t, x)')
    BY DEF Arriving
  <2>1. Arrives(t, x) /\ x \in Nodes BY <1>11 DEF Arrives, Ins
  <2>2. Follows(Of(slot[t].ready), x) /\ (Awaited(x) \/ Expected(t, x)) /\ slot'[t].ready = slot[t].ready
    BY <1>5, <1>6, <2>1 DEF Arriving
  <2> QED BY <1>2, <1>9, <2>1, <2>2, OldFollows, OldAwaited
<1>23. Leaving'
  <2> SUFFICES ASSUME NEW t \in Slot, slot'[t].busy, NEW x \in Outs(t)' PROVE Awaited(x)'
    BY DEF Leaving
  <2>1. Awaited(x) BY <1>5, <1>6, <1>11 DEF Leaving
  <2> QED BY <1>2, <2>1, OldAwaited
<1>24. Staged' /\ Reading' BY <1>5, <1>11 DEF Staged, Reading
<1>25. ASSUME NEW x \in Nodes, Conflict(x, n1) PROVE Later({n1}, x)
  <2>1. \A s \in Slot : Arrives(s, x) /\ (s = Own \/ x.from = Home(at.slice)) => Later({n1}, x)
    BY <1>5, <1>7, <1>12, OwnArrivals
  <2>2. x \notin Steps(i) BY <1>10
  <2>3. CASE x.to = InSlot(own) BY <1>5, <1>12, <2>1, <2>3, ToSlot DEF Arrives
  <2>4. CASE x.to = Home(i)
    <3>1. mode = "host" BY <1>5
    <3>2. \E s \in Slot : x \in Outs(s) /\ x \in In(D2H) BY <2>2, <2>4, <3>1, ToHome
    <3> QED BY <1>13, <3>2
  <2>5. CASE x.from = Home(i)
    <3>1. mode = "host" BY <1>5
    <3>2. \E s \in Slot : x \in Ins(s) BY <2>2, <2>5, <3>1, FromHome
    <3> QED BY <2>1, <2>5, <3>2 DEF Arrives
  <2> QED BY <1>4, <1>25, <2>3, <2>4, <2>5 DEF Conflict
<1>26. ASSUME NEW x \in Nodes, Conflict(x, n2) PROVE Later({n2}, x)
  BY <1>4, <1>16, <1>25, <1>26 DEF Conflict
<1>27. Ordered'
  <2>1. \A x, y \in Nodes : ~Overtakes(x, y) BY <1>5 DEF Overtakes
  <2> PICK Q : Q = {D2H, HostStep} OBVIOUS
  <2>2. ASSUME NEW q \in Q, NEW x \in Nodes, Conflict(x, N[q])
        PROVE  Later({N[q]}, x) \/ OvertakesNext(x, N[q])
    <3>1. CASE q = D2H BY <1>2, <1>25, <2>2, <3>1
    <3>2. CASE q = HostStep BY <1>2, <1>26, <2>2, <3>2
    <3> QED BY <3>1, <3>2
  <2>3. \A q \in Q : N[q].does # "read" BY <1>2
  <2>4. Later({n2}, n1) BY <1>15, <1>16
  <2>5. ASSUME NEW p \in Q, NEW q \in Q, N[p].id < N[q].id
        PROVE  Later({N[q]}, N[p])
    <3>1. N[p] = n1 /\ N[q] = n2 BY <1>2, <1>3, <1>4, <2>5
    <3> QED BY <2>4, <3>1
  <2>6. \A p, q \in Q : N[p].id < N[q].id => Later({N[q]}, N[p]) /\ N[p].does # "read" /\ N[q].does # "read"
    BY <2>3, <2>5
  <2>7. Issuing(Q, N) BY <1>2
  <2> QED BY <1>6, <2>1, <2>2, <2>3, <2>6, <2>7, IssuedOrdered
<1> QED BY <1>17, <1>18, <1>19, <1>20, <1>21, <1>22, <1>23, <1>24, <1>27 DEF SyncInv

--------------------
(* What the places hold, and what they will. *)

Makes(x) == IF x.does = "run" THEN x.makes ELSE x.want
Writes(x, pl, r) == x.to = pl /\ r \in DOMAIN Makes(x)

\* What an operation with number k finds in region r of a place is v: the last one
\* before it that writes there makes it, or it is there and nothing will.
Holds(pl, r, k, v) ==
  \/ \E w \in Nodes :
       /\ Writes(w, pl, r) /\ w.id < k /\ Makes(w)[r] = v
       /\ \A u \in Nodes : Writes(u, pl, r) /\ u.id < k => u.id <= w.id
  \/ mem[pl][r] = v /\ \A u \in Nodes : Writes(u, pl, r) => u.id >= k

\* The file write of what a slice was before does not find it, when the copy of what
\* it is now overtakes it; the file will be written again.
Restaged(x, r) ==
  at.call = "submit" /\ WritesFile(x) /\ x.to = Home(at.slice) /\ r \in Changed(at.slice)

MemTyped == mem \in [Place -> [Region -> Values]]
\* Every operation finds what it should.
Planned == \A x \in Pending : \A r \in DOMAIN x.want : Restaged(x, r) \/ Holds(x.from, r, x.id, x.want[r])
\* Optimizer state moves to and from homes that have room for it.
Stated ==
  \A x \in Nodes, i \in Slice :
    /\ x.to = Home(i) /\ "s" \in DOMAIN Makes(x) => page[i].adopted
    /\ x.from = Home(i) /\ "s" \in DOMAIN x.want => page[i].adopted

\* The regions that a slice has in its slot and at home, and those that have not been
\* sent home yet.
Held(i) == {"p", "b"} \union IF page[i].stateIn THEN {"s"} ELSE {}
Homed(i) == {"p", "b"} \union IF page[i].adopted THEN {"s"} ELSE {}
Dirty(i) ==
  IF i = at.slice /\ at.call \in {"release", "submit"} THEN (IF mode = "host" THEN {"b"} ELSE Changed(i)) ELSE {}

\* When all that is under way is done, the latest values are in the slots, at home
\* and in the staging buffer that is to be written to a file.
Current(pl, i, r) == Holds(pl, r, ops + 1, <<i, latest[i][r]>>)
InSlots == \A i \in Slice : page[i].slot # None => \A r \in Held(i) : Current(InSlot(page[i].slot), i, r)
AtHome == \A i \in Slice : \A r \in Homed(i) \ Dirty(i) : Current(Home(i), i, r)
Buffered == at.call = "submit" => \A r \in Changed(at.slice) : Current(Staging(Own), at.slice, r)
WithGradient ==
  at.call = "release" /\ at.leg = "backward" =>
    Holds(InSlot(Own), "g", ops + 1, <<at.slice, batch + 1>>)

DataInv == MemTyped /\ Planned /\ Stated /\ InSlots /\ AtHome /\ Buffered /\ WithGradient

LEMMA OvertakesIs ==
  ASSUME QueueInv, HostInv, NEW x \in Nodes, NEW y \in Nodes, Overtakes(x, y)
  PROVE  /\ at.call = "submit" /\ Own \in Slot
         /\ x.does = "copy" /\ x.from = Staging(Own) /\ x.to = Home(at.slice)
         /\ y.does = "copy" /\ y.from = InSlot(Own) /\ y.to = Staging(Own) /\ DOMAIN y.want = Changed(at.slice)
<1>1. at.call = "submit" /\ x \in Files(Own, at.slice) /\ y \in Outs(Own) /\ DOMAIN y.want = Changed(at.slice)
  BY DEF Overtakes
<1>2. mode = "disk" /\ Own \in Slot BY <1>1, HostTyped DEF HostInv, Control, InBatch, Own
<1>3. y.to = Staging(Own)
  BY <1>1, <1>2, NodeKinds, PlacesDiffer DEF Outs, Runs, Steps, Ins, Files, Reads
<1> QED BY <1>1, <1>2, <1>3 DEF Files, Outs

\* Nothing that conflicts with the foremost operation of a queue comes before it.
LEMMA NoneBefore ==
  ASSUME QueueInv, Ordered, NEW q \in Queues, NEW o, Foremost(q, o),
         NEW x \in Nodes, x.id < o.id, Conflict(x, o)
  PROVE  Overtakes(x, o)
<1>1. o \in Nodes /\ \A e \in Edges : e[2] = o => e[1] = o BY ForemostAlone
<1>2. o.id \in Nat BY <1>1, NodeIs
<1>3. ~Follows({o}, x)
  <2> SUFFICES ASSUME Implied(Nodes, Edges, {o}, x) PROVE FALSE
    BY DEF Follows
  <2>1. x = o BY <1>1, ImpliedAlone
  <2> QED BY <1>2, <2>1
<1> QED BY <1>1, <1>3 DEF Ordered

\* It finds what it should.
LEMMA ForemostFinds ==
  ASSUME QueueInv, HostInv, SyncInv, DataInv, NEW q \in Queues, NEW o, Foremost(q, o),
         NEW r \in DOMAIN o.want, ~Restaged(o, r)
  PROVE  mem[o.from][r] = o.want[r]
<1>1. o \in Nodes /\ o \in Pending BY ForemostAlone
<1>2. Holds(o.from, r, o.id, o.want[r]) BY <1>1 DEF DataInv, Planned
<1>3. ASSUME NEW w \in Nodes, Writes(w, o.from, r), w.id < o.id
      PROVE  FALSE
  <2>1. w.to = o.from BY <1>3 DEF Writes
  <2>2. Overtakes(w, o) BY <1>3, <2>1, NoneBefore DEF SyncInv, Conflict
  <2> QED BY <1>1, <2>1, <2>2, OvertakesIs, PlacesDiffer
<1> QED BY <1>2, <1>3 DEF Holds

\* Two operations with one number write to different places.
LEMMA SameTo ==
  ASSUME QueueInv, NEW x \in Nodes, NEW y \in Nodes, x.id = y.id, x.to = y.to
  PROVE  x = y
<1>1. \A z \in Nodes : \E p \in Pending : /\ p.id = z.id
                                          /\ z = p \/ (p.does = "read" /\ z = Second(p))
  BY DEF Nodes, Second
<1>2. PICK p \in Pending : p.id = x.id /\ (x = p \/ (p.does = "read" /\ x = Second(p))) BY <1>1
<1>3. PICK k \in Pending : k.id = y.id /\ (y = k \/ (k.does = "read" /\ y = Second(k))) BY <1>1
<1>4. p = k BY <1>2, <1>3, SameId
<1>5. p.does = "read" => Second(p).to # p.to
  <2>1. ASSUME p.does = "read" PROVE \E s, t : p.to = Staging(s) /\ Second(p).to = InSlot(t)
    <3>1. p \in Nodes BY DEF Nodes
    <3> QED BY <2>1, <3>1, NodeKinds DEF Runs, Steps, Ins, Outs, Files, Reads, Second
  <2> QED BY <2>1, PlacesDiffer
<1> QED BY <1>2, <1>3, <1>4, <1>5

LEMMA ContentIs ==
  /\ \A c \in Content : DOMAIN c \subseteq Region /\ \A r \in DOMAIN c : c[r] \in Values
  /\ \A c, R : (R \subseteq Region /\ c \in [R -> Values]) => c \in Content
BY DEF Content

LEMMA MakesIs ==
  ASSUME QueueInv, NEW x \in Pending
  PROVE  /\ x.from \in Place /\ x.to \in Place /\ x.want \in Content /\ Makes(x) \in Content
         /\ x.does = "run" => Makes(x) = x.makes
         /\ x.does # "run" => Makes(x) = x.want
<1>1. x \in Op BY InOp DEF Pending
<1>2. x.from \in Place /\ x.to \in Place /\ x.want \in Content
  BY <1>1 DEF Op, CopyOp, RunOp, ReadOp
<1>3. x.does = "run" => x.makes \in Content BY <1>1 DEF Op, CopyOp, RunOp, ReadOp
<1> QED BY <1>2, <1>3 DEF Makes

LEMMA PutIs ==
  ASSUME MemTyped, NEW place \in Place, NEW new \in Content, NEW m, m = Put(place, new)
  PROVE  /\ m \in [Place -> [Region -> Values]]
         /\ \A pl \in Place, r \in Region :
              m[pl][r] = IF pl = place /\ r \in DOMAIN new THEN new[r] ELSE mem[pl][r]
<1>1. \A r \in Region : (IF r \in DOMAIN new THEN new[r] ELSE mem[place][r]) \in Values
  BY ContentIs DEF MemTyped
<1> DEFINE there == [r \in Region |-> IF r \in DOMAIN new THEN new[r] ELSE mem[place][r]]
<1>2. there \in [Region -> Values] BY <1>1
<1>3. m = [mem EXCEPT ![place] = there] BY DEF Put
<1>4. \A r \in Region : there[r] = IF r \in DOMAIN new THEN new[r] ELSE mem[place][r] OBVIOUS
<1> HIDE DEF there
<1> QED BY <1>2, <1>3, <1>4 DEF MemTyped

LEMMA FoundIs ==
  ASSUME QueueInv, MemTyped, NEW o \in Pending
  PROVE  /\ Found(o) \in Content /\ DOMAIN Found(o) = DOMAIN Makes(o)
         /\ \A r \in DOMAIN Makes(o) : Found(o)[r] = IF o.does = "run" THEN Makes(o)[r] ELSE mem[o.from][r]
<1>1. o.from \in Place /\ o.want \in Content /\ Makes(o) \in Content BY MakesIs
<1>2. CASE o.does = "run" BY <1>1, <1>2 DEF Found, Makes
<1>3. CASE o.does # "run"
  <2>1. Found(o) = [r \in DOMAIN o.want |-> mem[o.from][r]] /\ Makes(o) = o.want
    BY <1>3 DEF Found, Makes
  <2>2. DOMAIN o.want \subseteq Region BY <1>1, ContentIs
  <2>3. \A r \in DOMAIN o.want : mem[o.from][r] \in Values BY <1>1, <2>2 DEF MemTyped
  <2>4. Found(o) \in [DOMAIN o.want -> Values] BY <2>1, <2>3
  <2> QED BY <1>3, <2>1, <2>2, <2>4, ContentIs
<1> QED BY <1>2, <1>3

\* Execution writes what the operation makes, and nothing else.
LEMMA ExecutedMem ==
  ASSUME QueueInv, HostInv, SyncInv, DataInv, NEW q \in Queues, NEW o, Executed(q, o)
  PROVE  /\ MemTyped'
         /\ \A pl \in Place, r \in Region : ~Writes(o, pl, r) => mem'[pl][r] = mem[pl][r]
         /\ \A pl \in Place, r \in Region : Writes(o, pl, r) /\ ~Restaged(o, r) => mem'[pl][r] = Makes(o)[r]
<1>1. o \in Nodes /\ o \in Pending /\ Foremost(q, o) /\ mem' = Put(o.to, Found(o))
  BY ForemostAlone DEF Executed
<1>2. MemTyped BY DEF DataInv
<1>3. /\ Found(o) \in Content /\ DOMAIN Found(o) = DOMAIN Makes(o)
      /\ \A r \in DOMAIN Makes(o) : Found(o)[r] = IF o.does = "run" THEN Makes(o)[r] ELSE mem[o.from][r]
  BY <1>1, <1>2, FoundIs
<1>4. o.to \in Place BY <1>1, MakesIs
<1>5. /\ mem' \in [Place -> [Region -> Values]]
      /\ \A pl \in Place, r \in Region :
           mem'[pl][r] = IF pl = o.to /\ r \in DOMAIN Found(o) THEN Found(o)[r] ELSE mem[pl][r]
  BY <1>1, <1>2, <1>3, <1>4, PutIs
<1>6. \A r \in DOMAIN Makes(o) : ~Restaged(o, r) => Found(o)[r] = Makes(o)[r]
  <2> SUFFICES ASSUME NEW r \in DOMAIN Makes(o), ~Restaged(o, r), o.does # "run"
               PROVE  mem[o.from][r] = Makes(o)[r]
    BY <1>3
  <2>1. Makes(o) = o.want BY DEF Makes
  <2> QED BY <1>1, <2>1, ForemostFinds
<1> QED BY <1>3, <1>5, <1>6 DEF MemTyped, Writes

LEMMA ExecutedHolds ==
  ASSUME QueueInv, HostInv, SyncInv, DataInv, NEW q \in Queues, NEW o, Executed(q, o),
         NEW pl \in Place, NEW r \in Region, NEW k \in Nat, NEW v, Holds(pl, r, k, v),
         Writes(o, pl, r) => o.id < k /\ ~Restaged(o, r)
  PROVE  Holds(pl, r, k, v)'
<1>1. o \in Nodes /\ Nodes' = Nodes \ {o} /\ Foremost(q, o) BY ExecutedNodes DEF Executed
<1>2. /\ ~Writes(o, pl, r) => mem'[pl][r] = mem[pl][r]
      /\ Writes(o, pl, r) => mem'[pl][r] = Makes(o)[r]
  BY ExecutedMem
<1>3. o.id \in Nat /\ \A u \in Nodes : u.id \in Nat BY <1>1, NodeIs
<1>4. CASE \E w \in Nodes : /\ Writes(w, pl, r) /\ w.id < k /\ Makes(w)[r] = v
                            /\ \A u \in Nodes : Writes(u, pl, r) /\ u.id < k => u.id <= w.id
  <2>1. PICK w \in Nodes : /\ Writes(w, pl, r) /\ w.id < k /\ Makes(w)[r] = v
                           /\ \A u \in Nodes : Writes(u, pl, r) /\ u.id < k => u.id <= w.id
    BY <1>4
  <2>2. CASE w # o
    <3>1. w \in Nodes' BY <1>1, <2>2
    <3> QED BY <1>1, <2>1, <3>1 DEF Holds, Writes, Makes
  <2>3. CASE w = o
    <3>1. mem'[pl][r] = v BY <1>2, <2>1, <2>3
    <3>2. ASSUME NEW u \in Nodes', Writes(u, pl, r), u.id < k PROVE FALSE
      <4>1. u \in Nodes /\ u # o /\ u.id <= o.id /\ u.to = o.to
        BY <1>1, <2>1, <2>3, <3>2 DEF Writes
      <4>2. u.id # o.id BY <1>1, <4>1, SameTo
      <4>3. u.id < o.id BY <1>3, <4>1, <4>2
      <4>4. Overtakes(u, o) BY <1>1, <4>1, <4>3, NoneBefore DEF SyncInv, Conflict
      <4> QED BY <1>1, <4>1, <4>4, OvertakesIs, PlacesDiffer
    <3>3. \A u \in Nodes' : Writes(u, pl, r) => ~(u.id < k) BY <3>2
    <3>4. \A u \in Nodes' : Writes(u, pl, r) => u.id >= k
      <4>1. ASSUME NEW u \in Nodes', Writes(u, pl, r) PROVE u.id >= k
        <5>1. ~(u.id < k) BY <3>3, <4>1
        <5> QED BY <1>1, <1>3, <5>1
      <4> QED BY <4>1
    <3> QED BY <3>1, <3>4 DEF Holds, Writes, Makes
  <2> QED BY <2>2, <2>3
<1>5. CASE mem[pl][r] = v /\ \A u \in Nodes : Writes(u, pl, r) => u.id >= k
  <2>1. ~Writes(o, pl, r) BY <1>1, <1>3, <1>5
  <2>2. mem'[pl][r] = v BY <1>2, <1>5, <2>1
  <2> QED BY <1>1, <1>5, <2>2 DEF Holds, Writes, Makes
<1> QED BY <1>4, <1>5 DEF Holds

LEMMA ExecuteData ==
  ASSUME QueueInv, HostInv, SyncInv, DataInv, NEW q \in Queues, Execute(q)
  PROVE  DataInv'
<1>1. PICK o \in In(q) : Executed(q, o) BY ExecuteStep
<1>2. UNCHANGED <<mode, frozen, at, batch, page, slot, grown, clock, ops, mark, latest>>
  BY DEF Execute, config
<1>3. /\ o \in Nodes /\ o \in Pending /\ Nodes' = Nodes \ {o} /\ Foremost(q, o)
      /\ Pending' = (Pending \ {o}) \union (IF o.does = "read" THEN {Second(o)} ELSE {})
  BY <1>1, ExecutedNodes DEF Executed
<1>4. MemTyped' BY <1>1, ExecutedMem
<1>5. \A x, r : Restaged(x, r) <=> Restaged(x, r)'
  <2>1. Changed(at.slice)' = Changed(at.slice) BY <1>2 DEF Changed, Trains
  <2> QED BY <1>2, <2>1 DEF Restaged
<1>6. ASSUME NEW pl \in Place, NEW r \in Region, NEW k \in Nat, NEW v, Holds(pl, r, k, v),
             Writes(o, pl, r) => o.id < k /\ ~Restaged(o, r)
      PROVE  Holds(pl, r, k, v)'
  BY <1>1, <1>6, ExecutedHolds
<1>7. \A x \in Nodes : x.id \in Nat /\ x.id \in 1 .. ops BY NodeIs
<1>8. Planned'
  <2>1. ASSUME NEW x \in Pending, x # o, NEW r \in DOMAIN x.want
        PROVE  Restaged(x, r) \/ Holds(x.from, r, x.id, x.want[r])'
    <3>1. SUFFICES ASSUME ~Restaged(x, r) PROVE Holds(x.from, r, x.id, x.want[r])'
      OBVIOUS
    <3>2. Holds(x.from, r, x.id, x.want[r]) BY <2>1, <3>1 DEF DataInv, Planned
    <3>3. x \in Nodes /\ x.from \in Place /\ r \in Region /\ x.id \in Nat
      BY <1>7, <2>1, MakesIs, ContentIs DEF Nodes
    <3>4. ASSUME Writes(o, x.from, r) PROVE o.id < x.id
      <4>1. x.id # o.id BY <1>3, <2>1, SameId
      <4>2. ~(x.id < o.id)
        <5> SUFFICES ASSUME x.id < o.id PROVE FALSE
          OBVIOUS
        <5>1. Overtakes(x, o) BY <1>3, <3>3, <3>4, NoneBefore DEF Writes, Conflict, SyncInv
        <5>2. /\ at.call = "submit" /\ x.does = "copy" /\ x.from = Staging(Own) /\ x.to = Home(at.slice)
              /\ o.does = "copy" /\ DOMAIN o.want = Changed(at.slice)
          BY <1>3, <3>3, <5>1, OvertakesIs
        <5>3. r \in Changed(at.slice) BY <3>4, <5>2 DEF Writes, Makes
        <5> QED BY <3>1, <5>2, <5>3 DEF Restaged, WritesFile, Staging, Home
      <4> QED BY <1>3, <1>7, <3>3, <4>1, <4>2
    <3>5. ASSUME Writes(o, x.from, r), Restaged(o, r) PROVE FALSE
      <4>1. at.call = "submit" /\ x.from = Home(at.slice) /\ at.slice \in Slice /\ mode = "disk"
        BY <3>5, HostTyped DEF Writes, Restaged, HostInv, Control
      <4>2. \E s \in Slot : x \in Reads(s) BY <3>3, <4>1, FromHome
      <4> QED BY <4>1, <4>2, OwnNotRead DEF InBatch
    <3> QED BY <1>6, <3>2, <3>3, <3>4, <3>5
  <2>2. ASSUME o.does = "read", NEW x, x = Second(o), NEW r \in DOMAIN x.want
        PROVE  Holds(x.from, r, x.id, x.want[r])'
    <3>1. x.from = o.to /\ x.id = o.id /\ x.want = o.want /\ Makes(o) = o.want /\ r \in DOMAIN o.want
      BY <2>2 DEF Second, Makes
    <3>2. o.to \in Place /\ r \in Region BY <1>3, <3>1, MakesIs, ContentIs
    <3>3. Writes(o, o.to, r) /\ ~Restaged(o, r) BY <2>2, <3>1 DEF Writes, Restaged, WritesFile
    <3>4. mem'[o.to][r] = o.want[r] BY <1>1, <3>1, <3>2, <3>3, ExecutedMem
    <3>5. ASSUME NEW u \in Nodes', Writes(u, o.to, r) PROVE u.id >= o.id
      <4>1. u \in Nodes /\ u.to = o.to BY <1>3, <3>5 DEF Writes
      <4>2. ~(u.id < o.id)
        <5> SUFFICES ASSUME u.id < o.id PROVE FALSE
          OBVIOUS
        <5>1. Overtakes(u, o) BY <1>3, <4>1, NoneBefore DEF SyncInv, Conflict
        <5> QED BY <1>3, <2>2, <4>1, <5>1, OvertakesIs
      <4> QED BY <1>3, <1>7, <4>1, <4>2
    <3> QED BY <3>1, <3>4, <3>5 DEF Holds, Writes, Makes
  <2> SUFFICES ASSUME NEW x \in Pending', NEW r \in DOMAIN x.want
               PROVE  Restaged(x, r)' \/ Holds(x.from, r, x.id, x.want[r])'
    BY DEF Planned
  <2> QED BY <1>3, <1>5, <2>1, <2>2
<1>9. Stated' BY <1>2, <1>3 DEF DataInv, Stated, Makes
<1>10. ops \in Nat /\ ops + 1 \in Nat BY DEF QueueInv
<1>11. ASSUME NEW pl \in Place, NEW r \in Region, NEW v, Holds(pl, r, ops + 1, v),
              \A i \in Slice : pl = Home(i) => r \notin Dirty(i)
       PROVE  Holds(pl, r, ops + 1, v)'
  <2>1. o.id < ops + 1 BY <1>3, <1>7, <1>10
  <2>2. ASSUME Writes(o, pl, r), Restaged(o, r) PROVE FALSE
    <3>1. pl = Home(at.slice) /\ at.slice \in Slice /\ at.call = "submit" /\ r \in Changed(at.slice) /\ mode = "disk"
      BY <2>2, HostTyped DEF Writes, Restaged, HostInv, Control
    <3> QED BY <1>11, <3>1 DEF Dirty
  <2> PICK k \in Nat : k = ops + 1 BY <1>10
  <2>3. Holds(pl, r, k, v)' BY <1>6, <1>11, <2>1, <2>2
  <2> QED BY <1>2, <2>3
<1>12. ASSUME NEW pl \in Place, NEW i \in Slice, NEW r \in Region, Current(pl, i, r),
              \A j \in Slice : pl = Home(j) => r \notin Dirty(j)
       PROVE  Current(pl, i, r)'
  BY <1>2, <1>11, <1>12 DEF Current
<1>13. \A i \in Slice : Held(i)' = Held(i) /\ Homed(i)' = Homed(i) /\ Dirty(i)' = Dirty(i)
  BY <1>2 DEF Held, Homed, Dirty, Changed, Trains
<1>14. \A i \in Slice : /\ Held(i) \subseteq Region /\ Homed(i) \subseteq Region /\ Changed(i) \subseteq Region
                        /\ page[i].slot # None => page[i].slot \in Slot
  BY HostTyped DEF Held, Homed, Changed, Region
<1>15. InSlots'
  <2> SUFFICES ASSUME NEW i \in Slice, page[i].slot # None, NEW r \in Held(i)
               PROVE  Current(InSlot(page[i].slot), i, r)'
    BY <1>2, <1>13 DEF InSlots
  <2> PICK pl : pl = InSlot(page[i].slot) OBVIOUS
  <2>1. Current(pl, i, r) BY DEF DataInv, InSlots
  <2>2. pl \in Place /\ r \in Region /\ \A j \in Slice : pl # Home(j)
    BY <1>14, PlaceIs, PlacesDiffer
  <2>3. Current(pl, i, r)' BY <1>12, <2>1, <2>2
  <2> QED BY <1>2, <2>3
<1>16. AtHome'
  <2> SUFFICES ASSUME NEW i \in Slice, NEW r \in Homed(i) \ Dirty(i)
               PROVE  Current(Home(i), i, r)'
    BY <1>13 DEF AtHome
  <2>1. Current(Home(i), i, r) BY DEF DataInv, AtHome
  <2>2. Home(i) \in Place /\ r \in Region /\ \A j \in Slice : Home(i) = Home(j) => r \notin Dirty(j)
    BY <1>14, PlaceIs, PlacesDiffer, Numbers
  <2> QED BY <1>12, <2>1, <2>2
<1>17. Buffered'
  <2> SUFFICES ASSUME at.call = "submit", NEW r \in Changed(at.slice)
               PROVE  Current(Staging(Own), at.slice, r)'
    BY <1>2 DEF Buffered, Changed, Trains
  <2> PICK pl : pl = Staging(Own) OBVIOUS
  <2> PICK i \in Slice : i = at.slice BY HostTyped
  <2>1. Current(pl, i, r) BY DEF DataInv, Buffered
  <2>2. Own \in Slot BY HostTyped DEF InBatch, Own
  <2>3. pl \in Place /\ r \in Region /\ \A j \in Slice : pl # Home(j)
    BY <1>14, <2>2, PlaceIs, PlacesDiffer
  <2>4. Current(pl, i, r)' BY <1>12, <2>1, <2>3
  <2>5. Own' = Own BY <1>2 DEF Own
  <2> QED BY <1>2, <2>4, <2>5
<1>18. WithGradient'
  <2> SUFFICES ASSUME at.call = "release", at.leg = "backward"
               PROVE  Holds(InSlot(Own), "g", ops + 1, <<at.slice, batch + 1>>)'
    BY <1>2 DEF WithGradient
  <2> PICK pl : pl = InSlot(Own) OBVIOUS
  <2> PICK v : v = <<at.slice, batch + 1>> OBVIOUS
  <2>1. Holds(pl, "g", ops + 1, v) BY DEF DataInv, WithGradient
  <2>2. Own \in Slot BY HostTyped DEF InBatch, Own
  <2>3. pl \in Place /\ "g" \in Region /\ \A j \in Slice : pl # Home(j)
    BY <2>2, PlaceIs, PlacesDiffer, Numbers DEF Region
  <2>4. Holds(pl, "g", ops + 1, v)' BY <1>11, <2>1, <2>3
  <2>5. Own' = Own BY <1>2 DEF Own
  <2> QED BY <1>2, <2>4, <2>5
<1> QED BY <1>4, <1>8, <1>9, <1>15, <1>16, <1>17, <1>18 DEF DataInv

--------------------
(* What the operations that are issued find and make. *)

LEMMA IssuedIds ==
  ASSUME QueueInv, NEW Q, NEW N, Issuing(Q, N)
  PROVE  /\ ops \in Nat /\ ops' \in Nat /\ ops' >= ops /\ ops + 1 \in Nat /\ ops' + 1 \in Nat
         /\ \A x \in Nodes : x.id \in 1 .. ops
         /\ \A x \in Nodes' : x \in Nodes \/ x.id \in ops + 1 .. ops'
<1>1. \A x \in Nodes' : x \in Nodes \/ \E p \in Q : x = N[p] \/ (N[p].does = "read" /\ x = Second(N[p]))
  BY IssuedNodes
<1>2. \A p \in Q : N[p].id \in ops + 1 .. ops' /\ Second(N[p]).id = N[p].id
  BY DEF Issuing, Issues, Second
<1>3. \A x \in Nodes : x.id \in 1 .. ops BY NodeIs
<1> QED BY <1>1, <1>2, <1>3 DEF QueueInv, Issuing

\* What an operation finds is not changed by those that are issued after it.
LEMMA IssuedHolds ==
  ASSUME QueueInv, NEW Q, NEW N, Issuing(Q, N), NEW pl, NEW r, NEW k \in Nat, NEW m \in Nat, NEW v,
         mem'[pl][r] = mem[pl][r], m = k \/ (k = ops + 1 /\ m >= k),
         \A x \in Nodes' : Writes(x, pl, r) => x \in Nodes \/ x.id >= m,
         Holds(pl, r, k, v)
  PROVE  Holds(pl, r, m, v)'
<1>1. /\ Nodes \subseteq Nodes' /\ ops \in Nat
      /\ \A x \in Nodes : x.id \in Nat /\ x.id <= ops
      /\ \A x \in Nodes' : x.id \in Nat
  BY IssuedNodes, IssuedIds
<1>2. CASE \E w \in Nodes : /\ Writes(w, pl, r) /\ w.id < k /\ Makes(w)[r] = v
                            /\ \A u \in Nodes : Writes(u, pl, r) /\ u.id < k => u.id <= w.id
  <2>1. PICK w \in Nodes : /\ Writes(w, pl, r) /\ w.id < k /\ Makes(w)[r] = v
                           /\ \A u \in Nodes : Writes(u, pl, r) /\ u.id < k => u.id <= w.id
    BY <1>2
  <2>2. w \in Nodes' /\ w.id < m BY <1>1, <2>1
  <2>3. ASSUME NEW u \in Nodes', Writes(u, pl, r), u.id < m PROVE u.id <= w.id
    <3>1. u \in Nodes BY <1>1, <2>3
    <3>2. u.id < k BY <1>1, <2>3, <3>1
    <3> QED BY <2>1, <2>3, <3>1, <3>2
  <2> QED BY <2>1, <2>2, <2>3 DEF Holds, Writes, Makes
<1>3. CASE mem[pl][r] = v /\ \A u \in Nodes : Writes(u, pl, r) => u.id >= k
  <2>1. ASSUME NEW u \in Nodes', Writes(u, pl, r) PROVE u.id >= m
    BY <1>1, <1>3, <2>1
  <2> QED BY <1>3, <2>1 DEF Holds, Writes, Makes
<1> QED BY <1>2, <1>3 DEF Holds

LEMMA IssuedPlanned ==
  ASSUME QueueInv, DataInv, NEW Q, NEW N, Issuing(Q, N),
         \A x \in Pending : \A r \in DOMAIN x.want : mem'[x.from][r] = mem[x.from][r],
         \A x \in Pending : \A r \in DOMAIN x.want : ~Restaged(x, r),
         \A q \in Q : \A r \in DOMAIN N[q].want : Holds(N[q].from, r, N[q].id, N[q].want[r])'
  PROVE  Planned'
<1>1. Pending' = Pending \union {N[p] : p \in Q} /\ QueueInv' BY IssuedNodes
<1>2. \A x \in Nodes' : x \in Nodes \/ x.id \in ops + 1 .. ops' BY IssuedIds
<1>3. ASSUME NEW x \in Pending, NEW r \in DOMAIN x.want
      PROVE  Holds(x.from, r, x.id, x.want[r])'
  <2>1. Holds(x.from, r, x.id, x.want[r]) BY DEF DataInv, Planned
  <2>2. x \in Nodes /\ x.id \in Nat /\ x.id <= ops /\ ops \in Nat BY NodeIs DEF Nodes, QueueInv
  <2>3. \A y \in Nodes' : Writes(y, x.from, r) => y \in Nodes \/ y.id >= x.id
    <3> SUFFICES ASSUME NEW y \in Nodes', y \notin Nodes PROVE y.id >= x.id
      OBVIOUS
    <3> QED BY <1>2, <2>2
  <2> QED BY <2>1, <2>2, <2>3, IssuedHolds
<1> SUFFICES ASSUME NEW x \in Pending', NEW r \in DOMAIN x.want
             PROVE  Holds(x.from, r, x.id, x.want[r])'
  BY DEF Planned
<1> QED BY <1>1, <1>3

\* What was the latest still is.
LEMMA StillCurrent ==
  ASSUME QueueInv, NEW Q, NEW N, Issuing(Q, N), NEW pl, NEW i, NEW r,
         mem'[pl][r] = mem[pl][r], latest'[i][r] = latest[i][r],
         \A x \in Nodes' : Writes(x, pl, r) => x \in Nodes,
         Current(pl, i, r)
  PROVE  Current(pl, i, r)'
<1>1. ops \in Nat /\ ops' \in Nat /\ ops' >= ops /\ ops + 1 \in Nat /\ ops' + 1 \in Nat
  BY IssuedIds
<1> PICK v : v = <<i, latest[i][r]>> OBVIOUS
<1> PICK k \in Nat : k = ops + 1 BY <1>1
<1> PICK m \in Nat : m = ops' + 1 BY <1>1
<1>2. Holds(pl, r, k, v) BY DEF Current
<1>3. Holds(pl, r, m, v)' BY <1>1, <1>2, IssuedHolds
<1> QED BY <1>3 DEF Current

\* What a new operation makes is the latest.
LEMMA NowCurrent ==
  ASSUME QueueInv, NEW Q, NEW N, Issuing(Q, N), NEW pl, NEW i, NEW r, NEW x \in Nodes',
         x.id \in ops + 1 .. ops', Writes(x, pl, r), Makes(x)[r] = <<i, latest'[i][r]>>,
         \A u \in Nodes' : Writes(u, pl, r) => u \in Nodes \/ u.id <= x.id
  PROVE  Current(pl, i, r)'
<1>1. ops \in Nat /\ ops' \in Nat BY DEF QueueInv, Issuing
<1>2. \A u \in Nodes : u.id \in 1 .. ops BY NodeIs
<1>3. \A u \in Nodes' : Writes(u, pl, r) => u.id <= x.id BY <1>1, <1>2
<1>4. x.id < ops' + 1 BY <1>1
<1> QED BY <1>3, <1>4 DEF Current, Holds, Writes, Makes

\* Nothing is issued.
LEMMA SameHolds ==
  ASSUME UNCHANGED queue, NEW pl, NEW r, NEW k, NEW v, mem'[pl][r] = mem[pl][r], Holds(pl, r, k, v)
  PROVE  Holds(pl, r, k, v)'
<1>1. Nodes' = Nodes BY DEF Nodes, Pending, In, Queues
<1> QED BY <1>1 DEF Holds, Writes, Makes

LEMMA DataKept ==
  ASSUME HostInv, DataInv, UNCHANGED <<queue, ops, latest>>,
         at.call \notin {"release", "submit"}, at'.call \notin {"release", "submit"}, MemTyped',
         Nodes = {} \/ mem' = mem, \A i \in Slice : mem'[Home(i)] = mem[Home(i)],
         \A j \in Slice : /\ page'[j].adopted = page[j].adopted
                          /\ page'[j].slot = None \/ (mem' = mem /\ page'[j].slot = page[j].slot)
                          /\ page'[j].stateIn => page[j].stateIn
  PROVE  DataInv'
<1>1. Nodes' = Nodes /\ Pending' = Pending /\ Pending \subseteq Nodes
  BY DEF Nodes, Pending, In, Queues
<1>2. \A i \in Slice : Dirty(i) = {} /\ Dirty(i)' = {} /\ Homed(i)' = Homed(i)
  BY DEF Dirty, Homed
<1>3. ASSUME NEW pl, NEW i, NEW r, mem'[pl][r] = mem[pl][r], Current(pl, i, r)
      PROVE  Current(pl, i, r)'
  <2> PICK v : v = <<i, latest[i][r]>> OBVIOUS
  <2> PICK k : k = ops + 1 OBVIOUS
  <2>1. Holds(pl, r, k, v)' BY <1>3, SameHolds DEF Current
  <2> QED BY <2>1 DEF Current
<1>4. Planned'
  <2> SUFFICES ASSUME NEW x \in Pending, NEW r \in DOMAIN x.want PROVE Holds(x.from, r, x.id, x.want[r])'
    BY <1>1 DEF Planned
  <2>1. Holds(x.from, r, x.id, x.want[r]) BY DEF DataInv, Planned, Restaged
  <2>2. mem' = mem BY <1>1
  <2> QED BY <2>1, <2>2, SameHolds
<1>5. Stated' BY <1>1 DEF DataInv, Stated, Makes
<1>6. InSlots'
  <2> SUFFICES ASSUME NEW i \in Slice, page'[i].slot # None, NEW r \in Held(i)'
               PROVE  Current(InSlot(page[i].slot), i, r)'
    BY DEF InSlots
  <2> PICK pl : pl = InSlot(page[i].slot) OBVIOUS
  <2>1. mem' = mem /\ page'[i].slot = page[i].slot OBVIOUS
  <2>2. r \in Held(i) BY DEF Held
  <2>3. Current(pl, i, r) BY <2>1, <2>2 DEF DataInv, InSlots
  <2>4. Current(pl, i, r)' BY <1>3, <2>1, <2>3
  <2> QED BY <2>1, <2>4
<1>7. AtHome'
  <2> SUFFICES ASSUME NEW i \in Slice, NEW r \in Homed(i) PROVE Current(Home(i), i, r)'
    BY <1>2 DEF AtHome
  <2>1. Current(Home(i), i, r) BY <1>2 DEF DataInv, AtHome
  <2>2. mem'[Home(i)][r] = mem[Home(i)][r] OBVIOUS
  <2> QED BY <1>3, <2>1, <2>2
<1> QED BY <1>4, <1>5, <1>6, <1>7 DEF DataInv, Buffered, WithGradient

LEMMA CloseData ==
  ASSUME QueueInv, HostInv, SyncInv, DataInv, Close
  PROVE  DataInv'
<1>1. /\ at.call = "close" /\ at' = Goto("closed") /\ UNCHANGED <<mem, queue, ops, latest>>
      /\ \A j \in Slice : /\ page'[j].slot = None /\ page'[j].stateIn = FALSE
                          /\ page'[j].adopted = page[j].adopted
  BY CloseIs
<1>2. at'.call = "closed" BY <1>1, HostTyped DEF Goto
<1>3. MemTyped' BY <1>1 DEF DataInv, MemTyped
<1> QED BY <1>1, <1>2, <1>3, DataKept

LEMMA EndData ==
  ASSUME QueueInv, HostInv, SyncInv, DataInv, EndBatch
  PROVE  DataInv'
<1>1. /\ at.call = "end" /\ queue[Compute] = <<>>
      /\ at'.call = IF batch + 1 < NumBatches THEN "first" ELSE "close"
      /\ UNCHANGED <<queue, ops, latest>>
      /\ ~Grows => UNCHANGED <<page, slot, grown, mem>>
      /\ Grows => /\ Drained
                  /\ mem' = [place \in DOMAIN mem |-> IF place[1] = "home" THEN mem[place] ELSE Nothing]
                  /\ \A j \in Slice : /\ page'[j].slot = None /\ page'[j].stateIn = FALSE
                                      /\ page'[j].adopted = page[j].adopted
  BY EndIs
<1>2. MemTyped BY DEF DataInv
<1>3. CASE ~Grows
  <2>1. MemTyped' BY <1>1, <1>2, <1>3 DEF MemTyped
  <2> QED BY <1>1, <1>3, <2>1, DataKept
<1>4. CASE Grows
  <2>1. Nodes = {}
    <3>1. ~HasTarget BY <1>1, HostTyped, Numbers DEF HasTarget, HostInv, Control
    <3> QED BY <1>1, <1>4, <3>1, DrainedIs
  <2>2. \A i \in Slice : mem'[Home(i)] = mem[Home(i)]
    <3> SUFFICES ASSUME NEW i \in Slice PROVE mem'[Home(i)] = mem[Home(i)]
      OBVIOUS
    <3>1. Home(i) \in Place /\ Home(i)[1] = "home" BY DEF Place, Home
    <3>2. DOMAIN mem = Place BY <1>2 DEF MemTyped
    <3> QED BY <1>1, <1>4, <3>1, <3>2
  <2>3. MemTyped'
    <3>1. Nothing \in [Region -> Values] BY Numbers DEF Nothing, Values
    <3> QED BY <1>1, <1>2, <1>4, <3>1 DEF MemTyped
  <2> QED BY <1>1, <1>4, <2>1, <2>2, <2>3, DataKept
<1> QED BY <1>3, <1>4

LEMMA NothingData ==
  ASSUME HostInv, DataInv, at.call = "fetch", at' = Goto("run"),
         UNCHANGED <<config, batch, page, slot, grown, clock, mem, queue, ops, mark, latest>>
  PROVE  DataInv'
<1>1. at'.call = "run" BY HostTyped DEF Goto
<1>2. MemTyped' BY DEF DataInv, MemTyped
<1> QED BY <1>1, <1>2, DataKept

LEMMA PagedInData ==
  ASSUME QueueInv, HostInv, DataInv, NEW i \in Slice, NEW s, NEW regions, PagedIn(i, s, regions),
         at.call \in {"first", "fetch"}, at'.call \notin {"release", "submit"},
         UNCHANGED <<mode, mem, latest>>
  PROVE  DataInv'
<1>1. /\ s \in Slot /\ s # None /\ PagesAfter(i, s, regions) /\ SlotsAfter(i, s)
      /\ regions \subseteq {"p", "b", "s"} /\ (page[i].slot = None => {"p", "b"} \subseteq regions)
      /\ (page[i].slot # None => page[i].slot = s) /\ ("s" \in regions => page[i].adopted)
      /\ ops' = ops + 1
  BY PagedInHost DEF QueueInv, PagedIn
<1>2. PICK n, N : Brings(n, N, i, s, regions) BY PageInBrings DEF InBatch
<1> PICK q : q = PageQueue(s) OBVIOUS
<1> PICK b : b = IF mode = "disk" THEN Second(n) ELSE n OBVIOUS
<1>3. /\ Issuing({q}, N) /\ N[q] = n /\ n.id = ops + 1 /\ n.from = Home(i) /\ n.want = Now(i, regions)
      /\ n.does = IF mode = "disk" THEN "read" ELSE "copy"
      /\ n.to = IF mode = "disk" THEN Staging(s) ELSE InSlot(s)
  BY <1>2 DEF Brings
<1>4. /\ n \in Nodes' /\ n \notin Nodes
      /\ \A x \in Nodes' : x \in Nodes \/ x = n \/ (mode = "disk" /\ x = Second(n))
      /\ mode = "disk" => Second(n) \in Nodes' /\ Second(n).id = ops + 1 /\ Second(n).does = "copy"
                          /\ Second(n).from = Staging(s) /\ Second(n).to = InSlot(s)
                          /\ Second(n).want = Now(i, regions)
  BY <1>1, <1>2, BringsIs
<1>5. /\ DOMAIN Now(i, regions) = regions
      /\ \A r \in regions : Now(i, regions)[r] = <<i, latest[i][r]>>
  BY <1>1, NowIs DEF InBatch
<1>6. /\ b \in Nodes' /\ b.id = ops + 1 /\ b.to = InSlot(s) /\ Makes(b) = Now(i, regions)
      /\ Makes(n) = Now(i, regions)
      /\ \A x \in Nodes' : x \in Nodes \/ (x \in {n, b} /\ x.id = ops + 1)
  BY <1>3, <1>4 DEF Makes
<1>7. \A x \in Nodes' : \A pl, r : Writes(x, pl, r) =>
        x \in Nodes \/ (pl = Staging(s) /\ x = n) \/ (pl = InSlot(s) /\ r \in regions)
  BY <1>3, <1>5, <1>6 DEF Writes
<1>8. \A j \in Slice : Dirty(j) = {} /\ Dirty(j)' = {} /\ Homed(j)' = Homed(j)
  BY <1>1 DEF PagesAfter, Dirty, Homed
<1>9. ops \in Nat /\ ops' \in Nat /\ ops + 1 \in Nat /\ ops + 1 \in ops + 1 .. ops'
  BY <1>1 DEF QueueInv
<1>10. Planned'
  <2>1. ASSUME NEW r \in DOMAIN n.want PROVE Holds(n.from, r, n.id, n.want[r])'
    <3>1. r \in regions /\ r \in Homed(i) \ Dirty(i) BY <1>1, <1>3, <1>5, <1>8, <2>1 DEF Homed
    <3> PICK k \in Nat : k = ops + 1 BY <1>9
    <3> PICK v : v = <<i, latest[i][r]>> OBVIOUS
    <3>2. Holds(Home(i), r, k, v) BY <3>1 DEF DataInv, AtHome, Current
    <3>3. \A x \in Nodes' : Writes(x, Home(i), r) => x \in Nodes BY <1>7, PlacesDiffer
    <3>4. Holds(Home(i), r, k, v)' BY <1>3, <3>2, <3>3, IssuedHolds
    <3> QED BY <1>3, <1>5, <3>1, <3>4
  <2>2. \A p \in {q} : \A r \in DOMAIN N[p].want : Holds(N[p].from, r, N[p].id, N[p].want[r])'
    BY <1>3, <2>1
  <2>3. \A x, r : ~Restaged(x, r) BY DEF Restaged
  <2> PICK Q : Q = {q} OBVIOUS
  <2> QED BY <1>3, <2>2, <2>3, IssuedPlanned
<1>11. Stated'
  <2> SUFFICES ASSUME NEW x \in Nodes', NEW j \in Slice
               PROVE  /\ x.to = Home(j) /\ "s" \in DOMAIN Makes(x) => page[j].adopted
                      /\ x.from = Home(j) /\ "s" \in DOMAIN x.want => page[j].adopted
    BY <1>1 DEF Stated, PagesAfter, Makes
  <2>1. CASE x \in Nodes BY <2>1 DEF DataInv, Stated
  <2>2. CASE x \notin Nodes BY <1>1, <1>3, <1>4, <1>5, <2>2, PlacesDiffer
  <2> QED BY <2>1, <2>2
<1>12. InSlots'
  <2> SUFFICES ASSUME NEW j \in Slice, page'[j].slot # None, NEW r \in Held(j)'
               PROVE  Current(InSlot(page[j].slot), j, r)'
    BY DEF InSlots
  <2> PICK t : t = page'[j].slot OBVIOUS
  <2>1. CASE t = s /\ j = i /\ r \in regions
    <3>1. Writes(b, InSlot(s), r) /\ Makes(b)[r] = <<i, latest'[i][r]>>
      BY <1>5, <1>6, <2>1 DEF Writes
    <3>2. \A u \in Nodes' : Writes(u, InSlot(s), r) => u \in Nodes \/ u.id <= b.id BY <1>6, <1>9
    <3>3. Current(InSlot(s), i, r)' BY <1>3, <1>6, <1>9, <3>1, <3>2, NowCurrent
    <3> QED BY <2>1, <3>3
  <2>2. CASE ~(t = s /\ j = i /\ r \in regions)
    <3>1. page[j].slot = t /\ r \in Held(j) /\ (t = s => r \notin regions)
      <4>1. CASE j = i
        <5>1. t = s /\ r \notin regions BY <1>1, <2>2, <4>1 DEF PagesAfter
        <5>2. r \in {"p", "b"} \/ (r = "s" /\ page[i].stateIn)
          BY <1>1, <4>1, <5>1 DEF Held, PagesAfter
        <5>3. page[i].slot = s BY <1>1, <5>1, <5>2 DEF HostInv, Adopted
        <5> QED BY <4>1, <5>1, <5>2, <5>3 DEF Held
      <4>2. CASE j # i
        <5>1. j # slot[s].page /\ page[j].slot = t /\ (page'[j].stateIn => page[j].stateIn)
          BY <1>1, <4>2 DEF PagesAfter
        <5>2. t # s BY <5>1 DEF HostInv, Resident
        <5> QED BY <5>1, <5>2 DEF Held
      <4> QED BY <4>1, <4>2
    <3>2. Current(InSlot(t), j, r) BY <3>1 DEF DataInv, InSlots
    <3>3. \A x \in Nodes' : Writes(x, InSlot(t), r) => x \in Nodes BY <1>7, <3>1, PlacesDiffer
    <3>4. Current(InSlot(t), j, r)' BY <1>3, <3>2, <3>3, StillCurrent
    <3> QED BY <3>4
  <2> QED BY <2>1, <2>2
<1>13. AtHome'
  <2> SUFFICES ASSUME NEW j \in Slice, NEW r \in Homed(j) PROVE Current(Home(j), j, r)'
    BY <1>8 DEF AtHome
  <2>1. Current(Home(j), j, r) BY <1>8 DEF DataInv, AtHome
  <2>2. \A x \in Nodes' : Writes(x, Home(j), r) => x \in Nodes BY <1>7, PlacesDiffer
  <2> QED BY <1>3, <2>1, <2>2, StillCurrent
<1>14. MemTyped' BY DEF DataInv, MemTyped
<1> QED BY <1>10, <1>11, <1>12, <1>13, <1>14 DEF DataInv, Buffered, WithGradient

LEMMA FetchData ==
  ASSUME QueueInv, HostInv, DataInv, NEW i, NEW state, NEW next, Fetches(i, state, next), Fetch(i, state, next)
  PROVE  DataInv'
<1>1. /\ i \in Slice /\ at' = next /\ UNCHANGED <<config, batch, grown, clock, mem, mark, latest>>
      /\ \/ UNCHANGED <<page, slot, queue, ops>>
         \/ \E s \in Slot, regions \in SUBSET {"p", "b", "s"} : PagedIn(i, s, regions)
  <2>1. i \in Slice BY DEF Fetches
  <2> QED BY <2>1, FetchStep
<1>2. at'.call \in {"acquire", "run"} /\ at.call \in {"first", "fetch"}
  BY <1>1, FetchesNext DEF Fetches
<1>3. CASE UNCHANGED <<page, slot, queue, ops>>
  <2>1. MemTyped' BY <1>1 DEF DataInv, MemTyped
  <2> QED BY <1>1, <1>2, <1>3, <2>1, DataKept
<1>4. CASE \E s \in Slot, regions \in SUBSET {"p", "b", "s"} : PagedIn(i, s, regions)
  BY <1>1, <1>2, <1>4, PagedInData DEF config
<1> QED BY <1>1, <1>3, <1>4

\* What is common to the operations of compute: they read what is in the slot, and
\* make the latest of what they update.
LEMMA ComputesData ==
  ASSUME QueueInv, HostInv, DataInv, NEW n, NEW after, NEW want, NEW makes, Computes(n, after, want, makes),
         UNCHANGED <<page, mem, batch>>, at.call \notin {"release", "submit"}, at'.call # "submit", InBatch,
         at'.slice = at.slice,
         \A r \in DOMAIN want : r \in Held(at.slice) /\ want[r] = <<at.slice, latest[at.slice][r]>>,
         \A r \in Held(at.slice) : IF r \in DOMAIN makes THEN makes[r] = <<at.slice, latest'[at.slice][r]>>
                                   ELSE latest'[at.slice][r] = latest[at.slice][r],
         \A j \in Slice, r \in {"p", "b", "s"} : j # at.slice => latest'[j][r] = latest[j][r],
         \A r \in Homed(at.slice) : r \in Dirty(at.slice)' \/ latest'[at.slice][r] = latest[at.slice][r],
         at'.call = "release" /\ at'.leg = "backward" =>
           "g" \in DOMAIN makes /\ makes["g"] = <<at.slice, batch + 1>>
  PROVE  DataInv'
<1> PICK N : N = [p \in {Compute} |-> n] OBVIOUS
<1> PICK own : own = Own OBVIOUS
<1> PICK i \in Slice : i = at.slice BY HostTyped
<1>1. /\ Issuing({Compute}, N) /\ N[Compute] = n
      /\ n.id = ops + 1 /\ n.does = "run" /\ n.want = want /\ n.makes = makes
      /\ n.from = InSlot(own) /\ n.to = InSlot(own)
      /\ n \in Nodes' /\ n \notin Nodes
      /\ \A x \in Nodes' : x \in Nodes \/ x = n
  BY ComputesIs
<1>2. /\ own \in Slot /\ page[i].slot = own /\ own # None /\ Makes(n) = makes
      /\ ops \in Nat /\ ops' = ops + 1 /\ ops + 1 \in Nat /\ n.id \in ops + 1 .. ops' /\ n.id < ops' + 1
  <2>1. ops \in Nat BY DEF QueueInv
  <2>2. own \in Slot /\ ops' = ops + 1 /\ page[i].slot = own BY DEF Computes, Own
  <2> QED BY <1>1, <2>1, <2>2, Numbers DEF Makes
<1>3. \A x \in Nodes' : \A pl, r : Writes(x, pl, r) => x \in Nodes \/ (pl = InSlot(own) /\ r \in DOMAIN makes)
  BY <1>1, <1>2 DEF Writes
<1>4. \A j \in Slice : Held(j) \subseteq {"p", "b", "s"} /\ Homed(j) \subseteq {"p", "b", "s"}
  BY DEF Held, Homed
<1>5. Planned'
  <2>1. ASSUME NEW r \in DOMAIN n.want PROVE Holds(n.from, r, n.id, n.want[r])'
    <3> PICK k \in Nat : k = ops + 1 BY <1>2
    <3> PICK v : v = <<i, latest[i][r]>> OBVIOUS
    <3>1. r \in Held(i) /\ n.want[r] = v BY <1>1
    <3>2. Holds(InSlot(own), r, k, v) BY <1>2, <3>1 DEF DataInv, InSlots, Current
    <3>3. \A x \in Nodes' : Writes(x, InSlot(own), r) => x \in Nodes \/ x.id >= k BY <1>1, <1>2
    <3>4. Holds(InSlot(own), r, k, v)' BY <1>1, <3>2, <3>3, IssuedHolds
    <3> QED BY <1>1, <3>1, <3>4
  <2> PICK Q : Q = {Compute} OBVIOUS
  <2>2. \A p \in Q : \A r \in DOMAIN N[p].want : Holds(N[p].from, r, N[p].id, N[p].want[r])'
    BY <1>1, <2>1
  <2>3. \A x, r : ~Restaged(x, r) BY DEF Restaged
  <2> QED BY <1>1, <2>2, <2>3, IssuedPlanned
<1>6. Stated'
  <2> SUFFICES ASSUME NEW x \in Nodes', NEW j \in Slice
               PROVE  /\ x.to = Home(j) /\ "s" \in DOMAIN Makes(x) => page[j].adopted
                      /\ x.from = Home(j) /\ "s" \in DOMAIN x.want => page[j].adopted
    BY DEF Stated, Makes
  <2>1. CASE x \in Nodes BY <2>1 DEF DataInv, Stated
  <2>2. CASE x \notin Nodes BY <1>1, <2>2, PlacesDiffer
  <2> QED BY <2>1, <2>2
<1>7. InSlots'
  <2> SUFFICES ASSUME NEW j \in Slice, page[j].slot # None, NEW r \in Held(j)
               PROVE  Current(InSlot(page[j].slot), j, r)'
    BY DEF InSlots, Held
  <2> PICK t : t = page[j].slot OBVIOUS
  <2>1. CASE j = i /\ r \in DOMAIN makes
    <3>1. Writes(n, InSlot(own), r) /\ Makes(n)[r] = <<i, latest'[i][r]>>
      BY <1>1, <1>2, <2>1 DEF Writes
    <3>2. \A u \in Nodes' : Writes(u, InSlot(own), r) => u \in Nodes \/ u.id <= n.id
      BY <1>1, <1>2
    <3>3. Current(InSlot(own), i, r)' BY <1>1, <1>2, <3>1, <3>2, NowCurrent
    <3> QED BY <1>2, <2>1, <3>3
  <2>2. CASE ~(j = i /\ r \in DOMAIN makes)
    <3>1. latest'[j][r] = latest[j][r] BY <1>4, <2>2
    <3>2. ~(t = own /\ r \in DOMAIN makes) BY <1>2, <2>2 DEF HostInv, Resident
    <3>3. Current(InSlot(t), j, r) BY DEF DataInv, InSlots
    <3>4. \A x \in Nodes' : Writes(x, InSlot(t), r) => x \in Nodes BY <1>3, <3>2, PlacesDiffer
    <3>5. Current(InSlot(t), j, r)' BY <1>1, <3>1, <3>3, <3>4, StillCurrent
    <3> QED BY <3>5
  <2> QED BY <2>1, <2>2
<1>8. AtHome'
  <2> SUFFICES ASSUME NEW j \in Slice, NEW r \in Homed(j), r \notin Dirty(j)' PROVE Current(Home(j), j, r)'
    BY DEF AtHome, Homed
  <2>1. Current(Home(j), j, r) BY DEF DataInv, AtHome, Dirty
  <2>2. \A x \in Nodes' : Writes(x, Home(j), r) => x \in Nodes BY <1>3, PlacesDiffer
  <2>3. latest'[j][r] = latest[j][r] BY <1>4
  <2> QED BY <1>1, <2>1, <2>2, <2>3, StillCurrent
<1>9. WithGradient'
  <2> SUFFICES ASSUME at'.call = "release", at'.leg = "backward"
               PROVE  Holds(InSlot(Own), "g", ops + 1, <<at.slice, batch + 1>>)'
    BY DEF WithGradient
  <2> PICK v : v = <<i, batch + 1>> OBVIOUS
  <2>1. Writes(n, InSlot(own), "g") /\ Makes(n)["g"] = v BY <1>1, <1>2 DEF Writes
  <2>2. \A u \in Nodes' : Writes(u, InSlot(own), "g") => u.id <= n.id
    <3>1. \A u \in Nodes : u.id \in 1 .. ops BY NodeIs
    <3> QED BY <1>1, <1>2, <3>1
  <2> PICK m : m = ops' + 1 OBVIOUS
  <2>3. Holds(InSlot(own), "g", m, v)' BY <1>1, <1>2, <2>1, <2>2 DEF Holds, Writes, Makes
  <2>4. Own' = own BY <1>2 DEF Own
  <2> QED BY <2>3, <2>4
<1>10. MemTyped' BY DEF DataInv, MemTyped
<1> QED BY <1>5, <1>6, <1>7, <1>8, <1>9, <1>10 DEF DataInv, Buffered

LEMMA AcquireData ==
  ASSUME QueueInv, HostInv, DataInv, Acquire
  PROVE  DataInv'
<1> PICK makes : makes = IF at.leg = "backward" THEN Gradient(at.slice, 0) ELSE Now(at.slice, {})
  OBVIOUS
<1> PICK after : after = {slot[Own].ready, slot[Own].out} OBVIOUS
<1> PICK want : want = Now(at.slice, {}) OBVIOUS
<1> PICK n : n = Run(after, InSlot(Own), want, makes) OBVIOUS
<1>1. Computes(n, after, want, makes) BY AcquireIssues
<1>2. /\ at.call = "acquire" /\ at' = Goto("fetch") /\ UNCHANGED <<page, mem, batch, latest>>
  BY AcquireIs DEF QueueInv
<1>3. at'.call = "fetch" /\ at'.slice = at.slice BY <1>2, HostTyped DEF Goto
<1>4. DOMAIN want = {} /\ DOMAIN makes \subseteq {"g"} BY DEF Now, Gradient
<1>5. \A r \in Held(at.slice) : r \notin DOMAIN makes BY <1>4 DEF Held
<1> QED BY <1>1, <1>2, <1>3, <1>4, <1>5, ComputesData DEF InBatch

LEMMA PassData ==
  ASSUME QueueInv, HostInv, DataInv, Pass
  PROVE  DataInv'
<1> PICK i \in Slice : i = at.slice BY HostTyped
<1>1. /\ at.call = "run" /\ at' = Goto("release") /\ Updates \subseteq {"p", "b", "s"}
      /\ \A j \in Slice, r \in {"p", "b", "s"} :
           latest'[j][r] = IF j = i /\ r \in Updates THEN latest[j][r] + 1 ELSE latest[j][r]
      /\ UNCHANGED <<mode, frozen, page, mem, batch>>
  BY PassIs
<1>2. at'.call = "release" /\ at'.slice = i /\ at'.leg = at.leg /\ at.leg \in {"forward", "backward"}
  BY <1>1, HostTyped DEF Goto
<1> PICK want : want = Now(i, PassReads) OBVIOUS
<1>3. PICK makes \in Content :
        /\ Computes(Run({}, InSlot(Own), want, makes), {}, want, makes)
        /\ DOMAIN makes = PassMakes \union (IF at.leg = "backward" THEN {"g"} ELSE {})
        /\ \A r \in PassMakes : makes[r] = <<i, latest'[i][r]>>
        /\ at.leg = "backward" => makes["g"] = <<i, batch + 1>>
  BY PassIssues
<1>4. page[i].adopted /\ at.leg = "backward" => page[i].stateIn BY <1>1 DEF HostInv, Adopted
<1>5. page[i].stateIn => page[i].adopted BY DEF HostInv, Adopted
<1>6. PassReads \subseteq Held(i) /\ Held(i) \subseteq {"p", "b", "s"} /\ Homed(i) \subseteq {"p", "b", "s"}
  BY <1>4 DEF PassReads, Held, Homed, UsesState
<1>7. DOMAIN want = PassReads /\ \A r \in PassReads : want[r] = <<i, latest[i][r]>> BY DEF Now
<1>8. Updates \subseteq {"b"} \/ (at.leg = "backward" /\ StateOnDevice(i))
  BY <1>2 DEF Updates, BackwardUpdates
<1>9. ASSUME NEW r \in Held(i)
      PROVE  IF r \in DOMAIN makes THEN makes[r] = <<i, latest'[i][r]>> ELSE latest'[i][r] = latest[i][r]
  <2>1. CASE r \in PassMakes BY <1>3, <2>1
  <2>2. CASE r \notin PassMakes
    <3>1. r \notin DOMAIN makes BY <1>3, <1>6, <1>9, <2>2
    <3>2. r \notin Updates BY <1>5, <1>8, <1>9, <2>2 DEF PassMakes, UsesState, Held
    <3> QED BY <1>1, <1>6, <1>9, <3>1, <3>2
  <2> QED BY <2>1, <2>2
<1>10. ASSUME NEW r \in Homed(i) PROVE r \in Dirty(i)' \/ latest'[i][r] = latest[i][r]
  <2>1. Dirty(i)' = IF mode = "host" THEN {"b"} ELSE Changed(i)' BY <1>1, <1>2 DEF Dirty
  <2>2. {"b"} \subseteq Dirty(i)' BY <2>1 DEF Changed
  <2>3. at.leg = "backward" /\ StateOnDevice(i) => r \in Dirty(i)'
    BY <1>1, <1>2, <1>4, <1>10, <2>1 DEF Changed, StateOnDevice, Homed, Trains
  <2> QED BY <1>1, <1>6, <1>8, <1>10, <2>2, <2>3
<1> PICK n, after : n = Run({}, InSlot(Own), want, makes) /\ after = {} OBVIOUS
<1>11. Computes(n, after, want, makes) BY <1>3
<1>12. /\ UNCHANGED <<page, mem, batch>> /\ at.call \notin {"release", "submit"} /\ at'.call # "submit" /\ InBatch
       /\ at'.slice = at.slice
  BY <1>1, <1>2 DEF InBatch
<1>13. \A r \in DOMAIN want : r \in Held(at.slice) /\ want[r] = <<at.slice, latest[at.slice][r]>>
  BY <1>6, <1>7
<1>14. \A j \in Slice, r \in {"p", "b", "s"} : j # at.slice => latest'[j][r] = latest[j][r]
  BY <1>1
<1>15. at'.call = "release" /\ at'.leg = "backward" =>
         "g" \in DOMAIN makes /\ makes["g"] = <<at.slice, batch + 1>>
  BY <1>2, <1>3
<1> QED BY <1>9, <1>10, <1>11, <1>12, <1>13, <1>14, <1>15, ComputesData

--------------------
(* What is written back. *)

LEMMA ReleaseData ==
  ASSUME QueueInv, HostInv, DataInv, Release
  PROVE  DataInv'
<1> PICK i \in Slice : i = at.slice BY HostTyped
<1> PICK own : own = Own OBVIOUS
<1> PICK home : home = IF mode = "disk" THEN Staging(own) ELSE Home(i) OBVIOUS
<1> PICK changed : changed = Changed(i) OBVIOUS
<1> PICK n : n = Copy({mark}, InSlot(own), home, Now(i, changed)) OBVIOUS
<1> PICK N : N = [p \in {D2H} |-> n] OBVIOUS
<1>1. /\ own \in Slot /\ at.call = "release" /\ (at.leg = "forward" \/ mode # "host")
      /\ mem' = IF Adopts THEN Put(Home(i), Now(i, {"s"})) ELSE mem
      /\ at' = IF mode = "disk" THEN Goto("submit") ELSE NextCall
      /\ \A j \in Slice : /\ page'[j].slot = page[j].slot /\ (page'[j].stateIn <=> page[j].stateIn)
                          /\ page'[j].adopted <=> (page[j].adopted \/ (j = i /\ Adopts))
      /\ UNCHANGED <<mode, frozen, batch, latest>>
  BY ReleaseIs DEF QueueInv, SamePages
<1>2. /\ n \in CopyOp /\ Kind(D2H, n) /\ n.id = ops + 1 /\ D2H \in Queues \ {Compute}
      /\ n.from = InSlot(own) /\ n.want = Now(i, changed) /\ n.to = home
      /\ queue' = Issued(D2H, n) /\ ops' = ops + 1 /\ mode' = mode
      /\ changed \in SUBSET {"p", "b", "s"}
  BY ReleaseIssues
<1>3. /\ Issuing({D2H}, N) /\ N[D2H] = n /\ n.does = "copy"
      /\ n \in Nodes' /\ n \notin Nodes
      /\ \A x \in Nodes' : x \in Nodes \/ x = n
  BY <1>2, CopyIssues
<1>4. /\ ops \in Nat /\ ops + 1 \in Nat /\ n.id \in ops + 1 .. ops' /\ \A x \in Nodes : x.id <= n.id
  <2>1. ops \in Nat /\ \A x \in Nodes : x.id \in 1 .. ops BY NodeIs DEF QueueInv
  <2>2. n.id = ops + 1 /\ ops' = ops + 1 BY <1>2, Zenon
  <2> QED BY <2>1, <2>2
<1>5. /\ DOMAIN Now(i, changed) = changed /\ \A r \in changed : Now(i, changed)[r] = <<i, latest[i][r]>>
      /\ Makes(n) = Now(i, changed) /\ "b" \in changed
      /\ changed \subseteq Held(i) /\ ("s" \in changed => page[i].stateIn)
  BY <1>2, <1>3 DEF Now, Makes, Changed, Held
<1>6. page[i].stateIn => page[i].adopted BY DEF HostInv, Adopted
<1>7. page[i].slot = own /\ own # None BY <1>1, Numbers DEF Own
<1>8. /\ MemTyped'
      /\ \A pl \in Place, r \in Region : ~(Adopts /\ pl = Home(i) /\ r = "s") => mem'[pl][r] = mem[pl][r]
      /\ Adopts => mem'[Home(i)]["s"] = <<i, latest[i]["s"]>>
  <2>1. CASE ~Adopts BY <1>1, <2>1 DEF DataInv, MemTyped
  <2>2. CASE Adopts
    <3> PICK new : new = Now(i, {"s"}) OBVIOUS
    <3>1. new \in Content /\ DOMAIN new = {"s"} /\ new["s"] = <<i, latest[i]["s"]>>
      <4>1. {"s"} \in SUBSET {"p", "b", "s"} /\ "s" \in {"s"} OBVIOUS
      <4> QED BY <1>1, <4>1, NowIs DEF InBatch
    <3>2. Home(i) \in Place BY Numbers, PlaceIs
    <3>3. mem' = Put(Home(i), new) BY <1>1, <2>2
    <3>4. /\ mem' \in [Place -> [Region -> Values]]
          /\ \A pl \in Place, r \in Region :
               mem'[pl][r] = IF pl = Home(i) /\ r \in DOMAIN new THEN new[r] ELSE mem[pl][r]
      BY <3>1, <3>2, <3>3, PutIs DEF DataInv
    <3> QED BY <2>2, <3>1, <3>2, <3>4 DEF MemTyped, Region
  <2> QED BY <2>1, <2>2
<1>9. \A x \in Nodes' : \A pl, r : Writes(x, pl, r) => x \in Nodes \/ (x = n /\ pl = home /\ r \in changed)
  BY <1>2, <1>3, <1>5 DEF Writes
<1>10. \A s \in Slot, j \in Slice, r \in Region :
         /\ mem'[InSlot(s)][r] = mem[InSlot(s)][r]
         /\ \A x \in Nodes' : Writes(x, InSlot(s), r) => x \in Nodes
         /\ InSlot(s) \in Place /\ Home(j) \in Place
  BY <1>8, <1>9, PlacesDiffer, PlaceIs
<1>11. \A j \in Slice : Held(j)' = Held(j) /\ Held(j) \subseteq Region /\ Homed(j)' \subseteq Region
                        /\ Homed(j)' \subseteq Homed(j) \union (IF j = i /\ Adopts THEN {"s"} ELSE {})
  BY <1>1 DEF Held, Homed, Region
<1>12. Planned'
  <2>1. ASSUME NEW x \in Pending, NEW r \in DOMAIN x.want PROVE mem'[x.from][r] = mem[x.from][r]
    <3>1. x.from \in Place /\ r \in Region /\ x \in Nodes BY <2>1, MakesIs, ContentIs DEF Nodes
    <3>2. ~(Adopts /\ x.from = Home(i) /\ r = "s") BY <2>1, <3>1 DEF DataInv, Stated, Adopts
    <3> QED BY <1>8, <3>1, <3>2
  <2>2. \A x, r : ~Restaged(x, r) BY <1>1 DEF Restaged
  <2>3. ASSUME NEW r \in DOMAIN n.want PROVE Holds(n.from, r, n.id, n.want[r])'
    <3> PICK k \in Nat : k = ops + 1 BY <1>4
    <3> PICK v : v = <<i, latest[i][r]>> OBVIOUS
    <3>1. r \in changed /\ r \in Held(i) /\ r \in Region /\ n.want[r] = v
      BY <1>2, <1>5, <1>11, <2>3
    <3>2. Holds(InSlot(own), r, k, v) BY <1>7, <3>1 DEF DataInv, InSlots, Current
    <3>3. Holds(InSlot(own), r, k, v)' BY <1>1, <1>3, <1>10, <3>1, <3>2, IssuedHolds
    <3> QED BY <1>2, <3>1, <3>3
  <2> PICK Q : Q = {D2H} OBVIOUS
  <2>4. \A p \in Q : \A r \in DOMAIN N[p].want : Holds(N[p].from, r, N[p].id, N[p].want[r])'
    BY <1>3, <2>3
  <2> QED BY <1>3, <2>1, <2>2, <2>4, IssuedPlanned
<1>13. Stated'
  <2> SUFFICES ASSUME NEW x \in Nodes', NEW j \in Slice
               PROVE  /\ x.to = Home(j) /\ "s" \in DOMAIN Makes(x) => page'[j].adopted
                      /\ x.from = Home(j) /\ "s" \in DOMAIN x.want => page'[j].adopted
    BY DEF Stated, Makes
  <2>1. CASE x \in Nodes BY <1>1, <2>1 DEF DataInv, Stated
  <2>2. CASE x = n
    <3>1. n.from # Home(j) /\ (n.to = Home(j) => j = i) BY <1>2, PlacesDiffer
    <3>2. "s" \in DOMAIN Makes(n) => page[i].adopted BY <1>5, <1>6
    <3> QED BY <1>1, <2>2, <3>1, <3>2
  <2> QED BY <1>3, <2>1, <2>2
<1>14. InSlots'
  <2> SUFFICES ASSUME NEW j \in Slice, page[j].slot # None, NEW r \in Held(j)
               PROVE  Current(InSlot(page[j].slot), j, r)'
    BY <1>1, <1>11 DEF InSlots
  <2> PICK t : t = page[j].slot OBVIOUS
  <2>1. t \in Slot /\ page'[j].slot = t /\ r \in Region BY <1>1, <1>11, HostTyped
  <2>2. Current(InSlot(t), j, r) BY DEF DataInv, InSlots
  <2>3. latest'[j][r] = latest[j][r] BY <1>1
  <2>4. Current(InSlot(t), j, r)' BY <1>3, <1>10, <2>1, <2>2, <2>3, StillCurrent
  <2> QED BY <2>1, <2>4
<1>15. \A r \in changed : Current(home, i, r)'
  <2> SUFFICES ASSUME NEW r \in changed PROVE Current(home, i, r)'
    OBVIOUS
  <2>1. Writes(n, home, r) /\ Makes(n)[r] = <<i, latest'[i][r]>>
    <3>1. DOMAIN Makes(n) = changed /\ Makes(n)[r] = <<i, latest[i][r]>> BY <1>5, Zenon
    <3>2. n.to = home /\ latest' = latest BY <1>1, <1>2, Zenon
    <3> QED BY <3>1, <3>2 DEF Writes
  <2>2. \A u \in Nodes' : Writes(u, home, r) => u \in Nodes \/ u.id <= n.id BY <1>3, <1>4
  <2> QED BY <1>3, <1>4, <2>1, <2>2, NowCurrent
<1>16. AtHome'
  <2> SUFFICES ASSUME NEW j \in Slice, NEW r \in Homed(j)', r \notin Dirty(j)' PROVE Current(Home(j), j, r)'
    BY DEF AtHome
  <2>1. CASE j = i /\ Adopts /\ r = "s"
    <3> PICK v : v = <<i, latest'[i]["s"]>> OBVIOUS
    <3> PICK m : m = ops' + 1 OBVIOUS
    <3>1. mem'[Home(i)]["s"] = v BY <1>1, <1>8, <2>1
    <3>2. ~page[i].adopted BY <2>1 DEF Adopts
    <3>3. \A u \in Nodes' : ~Writes(u, Home(i), "s")
      BY <1>5, <1>6, <1>9, <3>2 DEF DataInv, Stated, Writes
    <3>4. Holds(Home(i), "s", m, v)' BY <3>1, <3>3 DEF Holds, Writes, Makes
    <3> QED BY <2>1, <3>4 DEF Current
  <2>2. CASE mode # "disk" /\ j = i /\ r \in changed BY <1>15, <2>2
  <2>3. CASE ~(j = i /\ Adopts /\ r = "s") /\ ~(mode # "disk" /\ j = i /\ r \in changed)
    <3>1. r \in Homed(j) /\ r \in Region BY <1>11, <2>3
    <3>2. r \notin Dirty(j)
      <4>1. CASE mode = "disk"
        <5>1. at'.call = "submit" /\ at'.slice = i /\ at'.leg = at.leg
          BY <1>1, <4>1, HostTyped DEF Goto
        <5>2. Changed(i)' = Changed(i) BY <1>1, <5>1 DEF Changed, Trains
        <5> QED BY <1>1, <4>1, <5>1, <5>2 DEF Dirty
      <4>2. CASE mode # "disk" BY <1>1, <1>5, <2>3, <4>2 DEF Dirty
      <4> QED BY <4>1, <4>2
    <3>3. Current(Home(j), j, r) BY <3>1, <3>2 DEF DataInv, AtHome
    <3>4. mem'[Home(j)][r] = mem[Home(j)][r] BY <1>8, <1>10, <2>3, <3>1, PlacesDiffer, Numbers
    <3>5. \A x \in Nodes' : Writes(x, Home(j), r) => x \in Nodes BY <1>9, <2>3, PlacesDiffer
    <3>6. latest'[j][r] = latest[j][r] BY <1>1
    <3> QED BY <1>3, <3>3, <3>4, <3>5, <3>6, StillCurrent
  <2> QED BY <2>1, <2>2, <2>3
<1>17. Buffered'
  <2> SUFFICES ASSUME at'.call = "submit", NEW r \in Changed(at.slice)' PROVE Current(Staging(Own), at.slice, r)'
    BY DEF Buffered
  <2>1. mode = "disk" /\ at'.slice = i /\ at'.leg = at.leg
    <3>1. CASE mode = "disk" BY <1>1, <3>1, HostTyped DEF Goto
    <3>2. CASE mode # "disk"
      <4>1. NextCall.call \in {"acquire", "end"} BY <1>1, NextCallIs
      <4> QED BY <1>1, <3>2, <4>1
    <3> QED BY <3>1, <3>2
  <2>2. Changed(i)' = changed BY <1>1, <2>1 DEF Changed, Trains
  <2>3. Own' = own BY <1>1, <1>7, <2>1 DEF Own
  <2>4. Current(Staging(own), i, r)' BY <1>15, <2>1, <2>2
  <2> QED BY <2>1, <2>3, <2>4
<1>18. at'.call # "release"
  <2>1. NextCall.call \in {"acquire", "end"} BY <1>1, NextCallIs
  <2> QED BY <1>1, <2>1, HostTyped DEF Goto
<1> QED BY <1>8, <1>12, <1>13, <1>14, <1>16, <1>17, <1>18 DEF DataInv, WithGradient

LEMMA SubmitData ==
  ASSUME QueueInv, HostInv, SyncInv, DataInv, Submit
  PROVE  DataInv'
<1> PICK i \in Slice : i = at.slice BY HostTyped
<1> PICK own : own = Own OBVIOUS
<1> PICK changed : changed = Changed(i) OBVIOUS
<1> PICK n : n = Copy({slot[own].out}, Staging(own), Home(i), Now(i, changed)) OBVIOUS
<1> PICK q : q = Lane(own) OBVIOUS
<1> PICK N : N = [p \in {q} |-> n] OBVIOUS
<1>1. /\ own \in Slot /\ at.call = "submit" /\ mode = "disk" /\ at' = NextCall
      /\ Returned(page[i].homeReady)
      /\ \A j \in Slice : /\ page'[j].slot = page[j].slot /\ (page'[j].stateIn <=> page[j].stateIn)
                          /\ page'[j].adopted = page[j].adopted
      /\ UNCHANGED <<mode, frozen, batch, mem, latest>>
  BY SubmitIs DEF QueueInv, SamePages
<1>2. /\ n \in CopyOp /\ Kind(q, n) /\ n.id = ops + 1 /\ q \in Queues \ {Compute}
      /\ n.from = Staging(own) /\ n.want = Now(i, changed) /\ n.to = Home(i)
      /\ queue' = Issued(q, n) /\ ops' = ops + 1 /\ mode' = mode
      /\ changed \in SUBSET {"p", "b", "s"}
  BY SubmitIssues
<1>3. /\ Issuing({q}, N) /\ N[q] = n /\ n.does = "copy"
      /\ n \in Nodes' /\ n \notin Nodes
      /\ \A x \in Nodes' : x \in Nodes \/ x = n
  BY <1>2, CopyIssues, SMTT(30)
<1>4. /\ ops \in Nat /\ ops + 1 \in Nat /\ n.id \in ops + 1 .. ops' /\ \A x \in Nodes : x.id <= n.id
  <2>1. ops \in Nat /\ \A x \in Nodes : x.id \in 1 .. ops BY NodeIs DEF QueueInv
  <2>2. n.id = ops + 1 /\ ops' = ops + 1 BY <1>2, Zenon
  <2> QED BY <2>1, <2>2
<1>5. /\ DOMAIN Now(i, changed) = changed /\ \A r \in changed : Now(i, changed)[r] = <<i, latest[i][r]>>
      /\ Makes(n) = Now(i, changed)
      /\ ("s" \in changed => page[i].stateIn)
  BY <1>2, <1>3 DEF Now, Makes, Changed
<1>6. page[i].stateIn => page[i].adopted BY DEF HostInv, Adopted
<1>7. page[i].slot = own BY DEF Own
<1>8. MemTyped' BY <1>1 DEF DataInv, MemTyped
<1>9. \A x \in Nodes' : \A pl, r : Writes(x, pl, r) => x \in Nodes \/ (x = n /\ pl = Home(i) /\ r \in changed)
  BY <1>2, <1>3, <1>5 DEF Writes
<1>10. at'.call \in {"acquire", "end"} BY <1>1, NextCallIs
<1>11. Planned'
  <2>1. ASSUME NEW x \in Pending, NEW r \in DOMAIN x.want PROVE ~Restaged(x, r)
    <3>1. \A s \in Slot : Files(s, i) = {} BY <1>1, NothingReturning DEF SyncInv
    <3> SUFFICES ASSUME Restaged(x, r) PROVE FALSE
      OBVIOUS
    <3>2. WritesFile(x) /\ x.to = Home(i) /\ x \in Nodes /\ x.does = "copy"
      BY DEF Restaged, Nodes, WritesFile
    <3>3. \E s \in Slot : x \in Files(s, i) BY <1>1, <3>2, ToHome
    <3> QED BY <3>1, <3>3
  <2>2. ASSUME NEW r \in DOMAIN n.want PROVE Holds(n.from, r, n.id, n.want[r])'
    <3> PICK k \in Nat : k = ops + 1 BY <1>4
    <3> PICK v : v = <<i, latest[i][r]>> OBVIOUS
    <3>1. r \in changed /\ n.want[r] = v BY <1>2, <1>5, <2>2
    <3>2. Holds(Staging(own), r, k, v) BY <1>1, <3>1 DEF DataInv, Buffered, Current
    <3>3. \A x \in Nodes' : Writes(x, Staging(own), r) => x \in Nodes BY <1>9, PlacesDiffer
    <3>4. Holds(Staging(own), r, k, v)' BY <1>1, <1>3, <3>2, <3>3, IssuedHolds
    <3> QED BY <1>2, <3>1, <3>4
  <2> PICK Q : Q = {q} OBVIOUS
  <2>3. \A p \in Q : \A r \in DOMAIN N[p].want : Holds(N[p].from, r, N[p].id, N[p].want[r])'
    BY <1>3, <2>2
  <2>4. \A x \in Pending : \A r \in DOMAIN x.want : mem'[x.from][r] = mem[x.from][r] BY <1>1
  <2>5. Issuing(Q, N) BY <1>3
  <2>6. \A x \in Pending : \A r \in DOMAIN x.want : ~Restaged(x, r) BY <2>1
  <2> QED BY <2>3, <2>4, <2>5, <2>6, IssuedPlanned
<1>12. Stated'
  <2> SUFFICES ASSUME NEW x \in Nodes', NEW j \in Slice
               PROVE  /\ x.to = Home(j) /\ "s" \in DOMAIN Makes(x) => page[j].adopted
                      /\ x.from = Home(j) /\ "s" \in DOMAIN x.want => page[j].adopted
    BY <1>1 DEF Stated, Makes
  <2>1. CASE x \in Nodes BY <2>1 DEF DataInv, Stated
  <2>2. CASE x = n
    <3>1. n.from # Home(j) /\ (n.to = Home(j) => j = i) BY <1>2, PlacesDiffer
    <3>2. "s" \in DOMAIN Makes(n) => page[i].adopted BY <1>5, <1>6
    <3> QED BY <2>2, <3>1, <3>2
  <2> QED BY <1>3, <2>1, <2>2
<1>13. InSlots'
  <2> SUFFICES ASSUME NEW j \in Slice, page[j].slot # None, NEW r \in Held(j)
               PROVE  Current(InSlot(page[j].slot), j, r)'
    BY <1>1 DEF InSlots, Held
  <2> PICK t : t = page[j].slot OBVIOUS
  <2>1. page'[j].slot = t BY <1>1
  <2>2. Current(InSlot(t), j, r) BY DEF DataInv, InSlots
  <2>3. \A x \in Nodes' : Writes(x, InSlot(t), r) => x \in Nodes BY <1>9, PlacesDiffer
  <2>4. latest'[j][r] = latest[j][r] /\ mem'[InSlot(t)][r] = mem[InSlot(t)][r] BY <1>1
  <2>5. Current(InSlot(t), j, r)' BY <1>3, <2>2, <2>3, <2>4, StillCurrent
  <2> QED BY <2>1, <2>5
<1>14. AtHome'
  <2> SUFFICES ASSUME NEW j \in Slice, NEW r \in Homed(j) PROVE Current(Home(j), j, r)'
    BY <1>1 DEF AtHome, Homed
  <2>1. CASE j = i /\ r \in changed
    <3>1. Writes(n, Home(i), r) /\ Makes(n)[r] = <<i, latest'[i][r]>>
      <4>1. DOMAIN Makes(n) = changed /\ Makes(n)[r] = <<i, latest[i][r]>> BY <1>5, <2>1, Zenon
      <4>2. n.to = Home(i) /\ latest' = latest BY <1>1, <1>2, Zenon
      <4> QED BY <2>1, <4>1, <4>2 DEF Writes
    <3>2. \A u \in Nodes' : Writes(u, Home(i), r) => u \in Nodes \/ u.id <= n.id BY <1>3, <1>4
    <3> QED BY <1>3, <1>4, <2>1, <3>1, <3>2, NowCurrent
  <2>2. CASE ~(j = i /\ r \in changed)
    <3>1. r \notin Dirty(j) BY <1>1, <2>2 DEF Dirty
    <3>2. Current(Home(j), j, r) BY <3>1 DEF DataInv, AtHome
    <3>3. \A x \in Nodes' : Writes(x, Home(j), r) => x \in Nodes BY <1>9, <2>2, PlacesDiffer
    <3>4. latest'[j][r] = latest[j][r] /\ mem'[Home(j)][r] = mem[Home(j)][r] BY <1>1
    <3> QED BY <1>3, <3>2, <3>3, <3>4, StillCurrent
  <2> QED BY <2>1, <2>2
<1> QED BY <1>8, <1>10, <1>11, <1>12, <1>13, <1>14 DEF DataInv, WithGradient, Buffered

LEMMA StepData ==
  ASSUME QueueInv, HostInv, DataInv, StepOnCpu
  PROVE  DataInv'
<1> PICK i \in Slice : i = at.slice BY HostTyped
<1> PICK own : own = Own OBVIOUS
<1>1. /\ own \in Slot /\ at.call = "release" /\ at.leg = "backward" /\ mode = "host" /\ at' = NextCall
      /\ \A j \in Slice : /\ page'[j].slot = IF j = i THEN None ELSE page[j].slot
                          /\ page'[j].stateIn <=> page[j].stateIn
                          /\ page'[j].adopted = page[j].adopted
      /\ \A j \in Slice, r \in {"p", "b", "s"} :
           latest'[j][r] = IF j = i /\ r = "p" /\ Trains(j) THEN latest[j][r] + 1 ELSE latest[j][r]
      /\ ops' = ops + 2 /\ UNCHANGED <<mode, frozen, batch, mem>>
  BY StepIs DEF QueueInv
<1>2. PICK n1, n2, N : Stepped(n1, n2, N) BY StepIssues
<1> PICK Q : Q = {D2H, HostStep} OBVIOUS
<1>3. /\ n1.id = ops + 1 /\ n1.from = InSlot(own) /\ n1.to = Home(i)
      /\ DOMAIN n1.want = {"b"} \union Trained("g") /\ n1.want["b"] = <<i, latest[i]["b"]>>
      /\ Trains(i) => n1.want["g"] = <<i, batch + 1>>
      /\ n2.id = ops + 2 /\ n2.from = Home(i) /\ n2.to = Home(i)
      /\ DOMAIN n2.want = Trained("g") \union Trained("p") /\ DOMAIN n2.makes = Trained("p")
      /\ Trains(i) => /\ n2.want["g"] = <<i, batch + 1>>
                      /\ n2.want["p"] = <<i, latest[i]["p"]>>
                      /\ n2.makes["p"] = <<i, latest[i]["p"] + 1>>
  BY <1>2 DEF Stepped
<1>4. /\ Issuing(Q, N) /\ N[D2H] = n1 /\ N[HostStep] = n2
      /\ n1.does = "copy" /\ n2.does = "run"
      /\ n1 \in Nodes' /\ n2 \in Nodes'
      /\ \A x \in Nodes' : x \in Nodes \/ x = n1 \/ x = n2
  BY <1>2, SteppedIs
<1>5. /\ Makes(n1) = n1.want /\ Makes(n2) = n2.makes
      /\ \A r : Trained(r) = IF Trains(i) THEN {r} ELSE {}
  BY <1>4 DEF Makes, Trained
<1>6. /\ ops \in Nat /\ ops + 1 \in Nat /\ ops + 2 \in Nat /\ ops + 1 <= ops + 2 /\ ops + 1 < ops + 2
      /\ n1.id \in ops + 1 .. ops' /\ n2.id \in ops + 1 .. ops'
      /\ \A x \in Nodes : x.id <= n1.id /\ x.id <= n2.id
      /\ n1.id <= n2.id /\ ~(n2.id < n2.id)
  <2>1. ops \in Nat /\ \A x \in Nodes : x.id \in 1 .. ops BY NodeIs DEF QueueInv
  <2>2. n1.id = ops + 1 /\ n2.id = ops + 2 /\ ops' = ops + 2 BY <1>1, <1>3
  <2> QED BY <2>1, <2>2
<1>7. page[i].slot = own /\ own # None BY <1>1, Numbers DEF Own
<1>8. \A j \in Slice : Held(j) = {"p", "b"} /\ Held(j)' = {"p", "b"} /\ Homed(j) = {"p", "b"} /\ Homed(j)' = {"p", "b"}
  BY <1>1 DEF HostInv, Adopted, Held, Homed
<1>9. at'.call \in {"acquire", "end"} BY <1>1, NextCallIs
<1>10. Dirty(i) = {"b"} /\ \A j \in Slice : j # i => Dirty(j) = {} BY <1>1 DEF Dirty
<1>11. \A x \in Nodes' : \A pl, r : Writes(x, pl, r) =>
         \/ x \in Nodes
         \/ x = n1 /\ pl = Home(i) /\ r \in {"b"} \union Trained("g")
         \/ x = n2 /\ pl = Home(i) /\ r \in Trained("p")
  BY <1>3, <1>4, <1>5 DEF Writes
<1>12. \A s, r : \A x \in Nodes' : Writes(x, InSlot(s), r) => x \in Nodes BY <1>11, PlacesDiffer
<1>13. MemTyped' BY <1>1 DEF DataInv, MemTyped
<1>14. Planned'
  <2>1. \A x, r : ~Restaged(x, r) BY <1>1 DEF Restaged
  <2>2. ASSUME NEW r \in DOMAIN n1.want PROVE Holds(n1.from, r, n1.id, n1.want[r])'
    <3> PICK k \in Nat : k = ops + 1 BY <1>6
    <3> PICK v : v = n1.want[r] OBVIOUS
    <3>1. Holds(InSlot(own), r, k, v)
      <4>1. CASE r = "b" BY <1>3, <1>7, <1>8, <4>1 DEF DataInv, InSlots, Current
      <4>2. CASE r = "g" /\ Trains(i) BY <1>1, <1>3, <4>2 DEF DataInv, WithGradient
      <4> QED BY <1>3, <1>5, <2>2, <4>1, <4>2
    <3>2. Holds(InSlot(own), r, k, v)' BY <1>1, <1>4, <1>12, <3>1, IssuedHolds
    <3> QED BY <1>3, <3>2
  <2>3. ASSUME NEW r \in DOMAIN n2.want PROVE Holds(n2.from, r, n2.id, n2.want[r])'
    <3> PICK m \in Nat : m = ops + 2 BY <1>6
    <3> PICK v : v = n2.want[r] OBVIOUS
    <3>1. CASE r = "g" /\ Trains(i)
      <4>1. Writes(n1, Home(i), "g") /\ Makes(n1)["g"] = v /\ n1.id < m
        BY <1>3, <1>5, <1>6, <3>1 DEF Writes
      <4>2. \A u \in Nodes' : Writes(u, Home(i), "g") /\ u.id < m => u.id <= n1.id
        BY <1>3, <1>4, <1>6
      <4>3. Holds(Home(i), "g", m, v)' BY <1>4, <4>1, <4>2 DEF Holds, Writes, Makes
      <4> QED BY <1>3, <3>1, <4>3
    <3>2. CASE r = "p" /\ Trains(i)
      <4> PICK k \in Nat : k = ops + 1 BY <1>6
      <4>1. Holds(Home(i), "p", k, v)
        <5>1. "p" \in Homed(i) \ Dirty(i) /\ v = <<i, latest[i]["p"]>>
          BY <1>3, <1>8, <1>10, <3>2
        <5> QED BY <5>1 DEF DataInv, AtHome, Current
      <4>2. \A x \in Nodes' : Writes(x, Home(i), "p") => x \in Nodes \/ x.id >= m
        BY <1>3, <1>5, <1>6, <1>11
      <4>3. m >= k BY <1>6
      <4>4. Holds(Home(i), "p", m, v)' BY <1>1, <1>4, <4>1, <4>2, <4>3, IssuedHolds
      <4> QED BY <1>3, <3>2, <4>4
    <3> QED BY <1>3, <1>5, <2>3, <3>1, <3>2
  <2>4. \A p \in Q : \A r \in DOMAIN N[p].want : Holds(N[p].from, r, N[p].id, N[p].want[r])'
    BY <1>4, <2>2, <2>3
  <2> QED BY <1>1, <1>4, <2>1, <2>4, IssuedPlanned
<1>15. Stated'
  <2> SUFFICES ASSUME NEW x \in Nodes', NEW j \in Slice
               PROVE  /\ x.to = Home(j) /\ "s" \in DOMAIN Makes(x) => page[j].adopted
                      /\ x.from = Home(j) /\ "s" \in DOMAIN x.want => page[j].adopted
    BY <1>1 DEF Stated, Makes
  <2>1. CASE x \in Nodes BY <2>1 DEF DataInv, Stated
  <2>2. CASE x \in {n1, n2} BY <1>3, <1>5, <2>2
  <2> QED BY <1>4, <2>1, <2>2
<1>16. InSlots'
  <2> SUFFICES ASSUME NEW j \in Slice, page'[j].slot # None, NEW r \in {"p", "b"}
               PROVE  Current(InSlot(page[j].slot), j, r)'
    BY <1>8 DEF InSlots
  <2> PICK t : t = page[j].slot OBVIOUS
  <2>1. j # i /\ page'[j].slot = t /\ t # None BY <1>1
  <2>2. Current(InSlot(t), j, r) BY <1>8, <2>1 DEF DataInv, InSlots
  <2>3. latest'[j][r] = latest[j][r] /\ mem'[InSlot(t)][r] = mem[InSlot(t)][r] BY <1>1, <2>1
  <2>4. Current(InSlot(t), j, r)' BY <1>4, <1>12, <2>2, <2>3, StillCurrent
  <2> QED BY <2>1, <2>4
<1>17. AtHome'
  <2> SUFFICES ASSUME NEW j \in Slice, NEW r \in {"p", "b"} PROVE Current(Home(j), j, r)'
    BY <1>8 DEF AtHome
  <2>1. CASE j = i /\ r = "b"
    <3>1. Writes(n1, Home(i), "b") /\ Makes(n1)["b"] = <<i, latest'[i]["b"]>>
      BY <1>1, <1>3, <1>5 DEF Writes
    <3>2. \A u \in Nodes' : Writes(u, Home(i), "b") => u \in Nodes \/ u.id <= n1.id
      BY <1>5, <1>6, <1>11, <1>4, <1>3
    <3> QED BY <1>4, <1>6, <2>1, <3>1, <3>2, NowCurrent
  <2>2. CASE j = i /\ r = "p" /\ Trains(i)
    <3>1. Writes(n2, Home(i), "p") /\ Makes(n2)["p"] = <<i, latest'[i]["p"]>>
      BY <1>1, <1>3, <1>5, <2>2 DEF Writes
    <3>2. \A u \in Nodes' : Writes(u, Home(i), "p") => u \in Nodes \/ u.id <= n2.id
      BY <1>3, <1>4, <1>6
    <3> QED BY <1>4, <1>6, <2>2, <3>1, <3>2, NowCurrent
  <2>3. CASE j # i \/ (r = "p" /\ ~Trains(i))
    <3>1. Current(Home(j), j, r) BY <1>8, <1>10, <2>3 DEF DataInv, AtHome
    <3>2. \A x \in Nodes' : Writes(x, Home(j), r) => x \in Nodes
      BY <1>5, <1>11, <2>3, PlacesDiffer
    <3>3. latest'[j][r] = latest[j][r] /\ mem'[Home(j)][r] = mem[Home(j)][r] BY <1>1, <2>3
    <3> QED BY <1>4, <3>1, <3>2, <3>3, StillCurrent
  <2> QED BY <2>1, <2>2, <2>3
<1> QED BY <1>9, <1>13, <1>14, <1>15, <1>16, <1>17 DEF DataInv, WithGradient, Buffered

--------------------
(* The invariant. *)

PagerInv == QueueInv /\ HostInv /\ SyncInv /\ DataInv

LEMMA InitiallyEmpty ==
  ASSUME Init
  PROVE  QueueInv /\ Nodes = {} /\ \A q \in Queues : In(q) = {}
<1>1. queue \in [Queues -> Seq(Op)] /\ \A q \in Queues : queue[q] = <<>> BY DEF Init
<1>2. \A q \in Queues : In(q) = {} BY <1>1 DEF In, Elems
<1>3. Pending = {} BY <1>2 DEF Pending
<1>4. Nodes = {} BY <1>3 DEF Nodes
<1>5. \A q \in Queues : Distinct(queue[q]) /\ Sorted(queue[q]) BY <1>1 DEF Distinct, Sorted
<1>6. mode \in {"cpu", "host", "disk"} /\ ops \in Nat BY DEF Init
<1> QED BY <1>1, <1>2, <1>4, <1>5, <1>6 DEF QueueInv

LEMMA InitiallyHeld ==
  ASSUME Init
  PROVE  /\ MemTyped
         /\ \A i \in Slice, r \in {"p", "b"} : mem[Home(i)][r] = <<i, 0>>
<1> PICK Started : Started = [i \in Slice |-> [Nothing EXCEPT !["p"] = <<i, 0>>, !["b"] = <<i, 0>>]]
  OBVIOUS
<1>1. /\ Nothing \in [Region -> Values] /\ \A i \in Slice : <<i, 0>> \in Values
  BY Numbers DEF Nothing, Values
<1>2. ASSUME NEW i \in Slice
      PROVE  /\ Started[i] \in [Region -> Values]
             /\ Started[i]["p"] = <<i, 0>> /\ Started[i]["b"] = <<i, 0>>
  BY <1>1, <1>2 DEF Region, Nothing
<1>3. \A i \in Slice : Home(i)[1] = "home" /\ Home(i)[2] = i BY DEF Home
<1>4. ASSUME NEW place \in Place, place[1] = "home" PROVE \E i \in Slice : place = Home(i)
  BY <1>4 DEF Place, Home, InSlot, Staging
<1>5. mem = [place \in Place |->
               IF place[1] = "home"
               THEN [Nothing EXCEPT !["p"] = <<place[2], 0>>, !["b"] = <<place[2], 0>>]
               ELSE Nothing]
  BY DEF Init
<1>6. \A i \in Slice : Home(i) \in Place BY DEF Place
<1>7. \A i \in Slice : mem[Home(i)] = Started[i] BY <1>3, <1>5, <1>6
<1>8. ASSUME NEW place \in Place PROVE mem[place] \in [Region -> Values]
  <2>1. CASE place[1] = "home"
    <3>1. PICK i \in Slice : place = Home(i) BY <1>4, <2>1
    <3>2. mem[Home(i)] = Started[i] /\ Started[i] \in [Region -> Values] BY <1>2, <1>7
    <3> QED BY <3>1, <3>2
  <2>2. CASE place[1] # "home" BY <1>1, <1>5, <2>2
  <2> QED BY <2>1, <2>2
<1>9. MemTyped BY <1>5, <1>8 DEF MemTyped
<1> QED BY <1>2, <1>7, <1>9

LEMMA Initially ==
  Init => PagerInv
<1> SUFFICES ASSUME Init PROVE PagerInv
  OBVIOUS
<1>1. QueueInv /\ Nodes = {} /\ \A q \in Queues : In(q) = {} BY InitiallyEmpty
<1>2. SyncInv
  <2>1. \A s \in Slot, i \in Slice :
          Runs(s) = {} /\ Ins(s) = {} /\ Reads(s) = {} /\ Outs(s) = {} /\ Files(s, i) = {} /\ Steps(i) = {}
    BY <1>1 DEF Runs, Ins, Reads, Outs, Files, Steps
  <2>2. Compute \in Queues BY DEF Queues
  <2>3. Marked /\ Freed BY <1>1, <2>1, <2>2, Numbers DEF Marked, Freed
  <2>4. CopiedOut /\ CopiedHome BY <1>1, <2>1, <2>2, Numbers DEF CopiedOut, CopiedHome
  <2>5. Returning BY <2>1, Numbers DEF Returning
  <2>6. Arriving BY <1>1 DEF Arriving
  <2>7. Leaving /\ Staged BY <2>1, Numbers DEF Leaving, Staged
  <2>8. Reading BY <2>1, Numbers DEF Reading
  <2>9. Ordered BY <1>1 DEF Ordered
  <2> QED BY <2>3, <2>4, <2>5, <2>6, <2>7, <2>8, <2>9 DEF SyncInv
<1>3. /\ at.call = "first"
      /\ \A i \in Slice : page[i].slot = None /\ page[i].adopted = FALSE
      /\ \A i \in Slice, r \in {"p", "b", "s"} : latest[i][r] = 0
  BY DEF Init
<1>4. Planned BY <1>1 DEF Planned, Nodes
<1>5. AtHome
  <2> SUFFICES ASSUME NEW i \in Slice, NEW r \in Homed(i) PROVE Current(Home(i), i, r)
    BY DEF AtHome
  <2>1. r \in {"p", "b"} BY <1>3 DEF Homed
  <2>2. mem[Home(i)][r] = <<i, latest[i][r]>> BY <1>3, <2>1, InitiallyHeld
  <2> QED BY <1>1, <2>2 DEF Current, Holds
<1>6. Stated /\ InSlots /\ Buffered /\ WithGradient
  BY <1>1, <1>3 DEF Stated, InSlots, Buffered, WithGradient
<1>7. DataInv BY <1>4, <1>5, <1>6, InitiallyHeld DEF DataInv
<1> QED BY <1>1, <1>2, <1>7, HostInitially DEF PagerInv

LEMMA Prefetches ==
  ASSUME HostInv, FetchFirst \/ Prefetch
  PROVE  \/ \E i, state, next : Fetches(i, state, next) /\ Fetch(i, state, next)
         \/ /\ at.call = "fetch" /\ at.leg = "backward" /\ at.slice = 1 /\ at' = Goto("run")
            /\ UNCHANGED <<config, batch, page, slot, grown, clock, mem, queue, ops, mark, latest>>
<1>1. /\ at.slice \in 1 .. NumSlices /\ at.leg \in {"forward", "backward"}
      /\ at.call = "fetch" /\ at.leg = "forward" => at.slice < NumSlices
  BY Numbers DEF HostInv, HostTypes, Control, InBatch
<1>2. CASE FetchFirst
  <2>1. Fetches(1, Last = 1, FirstCall) /\ Fetch(1, Last = 1, FirstCall)
    BY <1>2, Numbers DEF FetchFirst, Fetches
  <2> QED BY <2>1
<1>3. CASE Prefetch /\ at.leg = "forward"
  <2> PICK i : i = at.slice + 1 OBVIOUS
  <2> PICK next : next = Goto("run") OBVIOUS
  <2>1. i \in Slice BY <1>1, <1>3, Numbers DEF Prefetch
  <2>2. Fetches(i, i = Last, next) BY <1>3, <2>1 DEF Prefetch, Fetches
  <2>3. Fetch(i, i = Last, next) BY <1>3 DEF Prefetch
  <2> QED BY <2>2, <2>3
<1>4. CASE Prefetch /\ at.leg = "backward" /\ at.slice > 1
  <2> PICK i : i = at.slice - 1 OBVIOUS
  <2> PICK next : next = Goto("run") OBVIOUS
  <2>1. i \in Slice BY <1>1, <1>4, Numbers
  <2>2. Fetches(i, TRUE, next) BY <1>4, <2>1 DEF Prefetch, Fetches
  <2>3. Fetch(i, TRUE, next) BY <1>4 DEF Prefetch
  <2> QED BY <2>2, <2>3
<1>5. CASE Prefetch /\ at.leg = "backward" /\ at.slice = 1 BY <1>5 DEF Prefetch
<1> QED BY <1>1, <1>2, <1>3, <1>4, <1>5

LEMMA SameQueues ==
  ASSUME QueueInv, UNCHANGED <<mode, ops, queue>>
  PROVE  QueueInv'
BY DEF QueueInv, In, Elems, Kind, Distinct, Sorted, InOrder

LEMMA FetchQueues ==
  ASSUME QueueInv, HostInv, NEW i, NEW state, NEW next, Fetches(i, state, next), Fetch(i, state, next)
  PROVE  QueueInv'
<1>1. i \in Slice BY DEF Fetches
<1>2. /\ UNCHANGED config
      /\ \/ UNCHANGED <<page, slot, queue, ops>>
         \/ \E s \in Slot, regions \in SUBSET {"p", "b", "s"} : PagedIn(i, s, regions)
  BY <1>1, FetchStep
<1>3. CASE UNCHANGED <<page, slot, queue, ops>> BY <1>2, <1>3, SameQueues DEF config
<1>4. ASSUME NEW s \in Slot, NEW regions \in SUBSET {"p", "b", "s"}, PagedIn(i, s, regions) PROVE QueueInv'
  <2>1. InBatch \/ at.call = "first" BY DEF Fetches, InBatch
  <2>2. PICK n, N : Brings(n, N, i, s, regions)
    BY <1>1, <1>2, <1>4, <2>1, PageInBrings DEF config
  <2>3. Issuing({PageQueue(s)}, N) BY <2>2 DEF Brings
  <2> QED BY <2>3, IssuedNodes
<1> QED BY <1>2, <1>3, <1>4

\* Every step of the program.
LEMMA HostKeeps ==
  ASSUME PagerInv, Host
  PROVE  PagerInv'
<1>1. QueueInv /\ HostInv /\ SyncInv /\ DataInv /\ ops \in Nat BY DEF PagerInv, QueueInv
<1>2. CASE FetchFirst \/ Prefetch
  <2>1. CASE \E i, state, next : Fetches(i, state, next) /\ Fetch(i, state, next)
    <3>1. PICK i, state, next : Fetches(i, state, next) /\ Fetch(i, state, next) BY <2>1
    <3>2. QueueInv' BY <1>1, <3>1, FetchQueues
    <3>3. HostInv' BY <1>1, <3>1, FetchHost
    <3>4. SyncInv' /\ DataInv' BY <1>1, <3>1, FetchSync, FetchData
    <3> QED BY <3>2, <3>3, <3>4 DEF PagerInv
  <2>2. CASE /\ at.call = "fetch" /\ at.leg = "backward" /\ at.slice = 1 /\ at' = Goto("run")
             /\ UNCHANGED <<config, batch, page, slot, grown, clock, mem, queue, ops, mark, latest>>
    <3>1. QueueInv' BY <1>1, <2>2, SameQueues DEF config
    <3>2. HostInv' /\ SyncInv' /\ DataInv'
      BY <1>1, <2>2, PrefetchNothing, NothingSync, NothingData
    <3> QED BY <3>1, <3>2 DEF PagerInv
  <2> QED BY <1>1, <1>2, <2>1, <2>2, Prefetches
<1>3. CASE Acquire
  <2>1. QueueInv'
    <3> PICK makes : makes = IF at.leg = "backward" THEN Gradient(at.slice, 0) ELSE Now(at.slice, {})
      OBVIOUS
    <3>1. \E n, after, want : Computes(n, after, want, makes) BY <1>1, <1>3, AcquireIssues
    <3>2. \E N : Issuing({Compute}, N) BY <1>1, <3>1, ComputesIs
    <3> QED BY <1>1, <3>2, IssuedNodes
  <2> QED BY <1>1, <1>3, <2>1, AcquireHost, AcquireSync, AcquireData DEF PagerInv
<1>4. CASE Pass
  <2>1. QueueInv'
    <3>1. \E n, after, want, makes : Computes(n, after, want, makes) BY <1>1, <1>4, PassIssues
    <3>2. \E N : Issuing({Compute}, N) BY <1>1, <3>1, ComputesIs
    <3> QED BY <1>1, <3>2, IssuedNodes
  <2> QED BY <1>1, <1>4, <2>1, PassHost, PassSync, PassData DEF PagerInv
<1>5. CASE Release
  <2>1. QueueInv'
    <3> PICK n : n = Copy({mark}, InSlot(Own), IF mode = "disk" THEN Staging(Own) ELSE Home(at.slice),
                          Now(at.slice, Changed(at.slice)))
      OBVIOUS
    <3> PICK N : N = [p \in {D2H} |-> n] OBVIOUS
    <3>1. /\ n \in CopyOp /\ Kind(D2H, n) /\ n.id = ops + 1 /\ D2H \in Queues \ {Compute}
          /\ queue' = Issued(D2H, n) /\ ops' = ops + 1 /\ mode' = mode
      BY <1>1, <1>5, ReleaseIssues
    <3>2. Issuing({D2H}, N) BY <1>1, <3>1, CopyIssues
    <3> QED BY <1>1, <3>2, IssuedNodes
  <2> QED BY <1>1, <1>5, <2>1, ReleaseHost, ReleaseSync, ReleaseData DEF PagerInv
<1>6. CASE Submit
  <2>1. QueueInv'
    <3> PICK n : n = Copy({slot[Own].out}, Staging(Own), Home(at.slice), Now(at.slice, Changed(at.slice)))
      OBVIOUS
    <3> PICK q : q = Lane(Own) OBVIOUS
    <3> PICK N : N = [p \in {q} |-> n] OBVIOUS
    <3>1. /\ n \in CopyOp /\ Kind(q, n) /\ n.id = ops + 1 /\ q \in Queues \ {Compute}
          /\ queue' = Issued(q, n) /\ ops' = ops + 1 /\ mode' = mode
      BY <1>1, <1>6, SubmitIssues
    <3>2. Issuing({q}, N) BY <1>1, <3>1, CopyIssues
    <3> QED BY <1>1, <3>2, IssuedNodes
  <2> QED BY <1>1, <1>6, <2>1, SubmitHost, SubmitSync, SubmitData DEF PagerInv
<1>7. CASE StepOnCpu
  <2>1. QueueInv'
    <3>1. PICK n1, n2, N : Stepped(n1, n2, N) BY <1>1, <1>7, StepIssues
    <3>2. Issuing({D2H, HostStep}, N) BY <3>1 DEF Stepped
    <3> QED BY <1>1, <3>2, IssuedNodes
  <2> QED BY <1>1, <1>7, <2>1, StepHost, StepSync, StepData DEF PagerInv
<1>8. CASE EndBatch
  <2>1. QueueInv' BY <1>1, <1>8, EndIs, SameQueues
  <2> QED BY <1>1, <1>8, <2>1, EndHost, EndSync, EndData DEF PagerInv
<1>9. CASE Close
  <2>1. QueueInv' BY <1>1, <1>9, CloseIs, SameQueues
  <2> QED BY <1>1, <1>9, <2>1, CloseHost, CloseSync, CloseData DEF PagerInv
<1> QED BY <1>2, <1>3, <1>4, <1>5, <1>6, <1>7, <1>8, <1>9 DEF Host

LEMMA SameHost ==
  ASSUME HostInv, UNCHANGED <<config, at, batch, page, slot, grown, clock, mark, latest>>
  PROVE  HostInv'
<1>1. HostTypes' /\ Control' BY DEF HostInv, HostTypes, Control, InBatch, config
<1>2. Resident' BY DEF HostInv, Resident, InBatch, HasTarget, Target, Computing, config
<1>3. Adopted' BY DEF HostInv, Adopted, HasTarget, Target, config
<1>4. Counts' BY DEF HostInv, Counts, Ran, RanBack, config
<1> QED BY <1>1, <1>2, <1>3, <1>4 DEF HostInv

LEMMA ExecuteKeeps ==
  ASSUME PagerInv, NEW q \in Queues, Execute(q)
  PROVE  PagerInv'
<1>1. QueueInv' BY ExecuteStep DEF PagerInv
<1>2. HostInv' BY SameHost DEF PagerInv, Execute
<1>3. SyncInv' /\ DataInv' BY ExecuteSync, ExecuteData DEF PagerInv
<1> QED BY <1>1, <1>2, <1>3 DEF PagerInv

LEMMA SameNodes ==
  ASSUME UNCHANGED <<mode, queue>>
  PROVE  /\ Nodes' = Nodes /\ Pending' = Pending /\ Edges' = Edges /\ \A q : In(q)' = In(q)
         /\ \A T, x : Follows(T, x)' <=> Follows(T, x)
         /\ \A d : Of(d)' = Of(d)
<1>1. \A q : In(q)' = In(q) BY DEF In, Elems
<1>2. Pending' = Pending BY <1>1 DEF Pending
<1>3. Nodes' = Nodes BY <1>2 DEF Nodes, Second
<1>4. \A x, y : Needs(x, y)' <=> Needs(x, y) BY <1>1 DEF Needs, InOrder, Second
<1>5. Edges' = Edges BY <1>3, <1>4 DEF Edges
<1>6. \A T, x : Follows(T, x)' <=> Follows(T, x) BY <1>3, <1>5 DEF Follows, Implied
<1>7. \A d : Of(d)' = Of(d) BY <1>3 DEF Of
<1> QED BY <1>1, <1>2, <1>3, <1>5, <1>6, <1>7

LEMMA SameSync ==
  ASSUME SyncInv, UNCHANGED vars
  PROVE  SyncInv'
<1>1. /\ Nodes' = Nodes /\ \A q : In(q)' = In(q)
      /\ \A T, x : Follows(T, x)' <=> Follows(T, x)
      /\ \A d : Of(d)' = Of(d)
  BY SameNodes DEF vars, config
<1>2. /\ mode' = mode /\ frozen' = frozen /\ at' = at /\ page' = page /\ slot' = slot /\ mark' = mark
  BY DEF vars, config
<1>3. Marked' /\ Freed' BY <1>1, <1>2 DEF SyncInv, Marked, Freed, Runs
<1>4. CopiedOut' /\ CopiedHome' BY <1>1, <1>2 DEF SyncInv, CopiedOut, CopiedHome, Outs
<1>5. Returning' BY <1>1, <1>2 DEF SyncInv, Returning, Steps, Files
<1>6. Arriving' /\ Leaving'
  BY <1>1, <1>2 DEF SyncInv, Arriving, Leaving, Arrives, Ins, Reads, Files, Outs, Awaited, Expected, HasTarget, Target
<1>7. /\ \A s : Outs(s)' = Outs(s) /\ Reads(s)' = Reads(s)
      /\ \A s, i : Files(s, i)' = Files(s, i)
      /\ Own' = Own /\ \A s, x : Expected(s, x)' <=> Expected(s, x)
  BY <1>1, <1>2 DEF Outs, Reads, Files, Own, Expected, HasTarget, Target
<1>8. Staged' /\ Reading' BY <1>1, <1>2, <1>7 DEF SyncInv, Staged, Reading
<1>9. Ordered' BY <1>1, <1>2 DEF SyncInv, Ordered, Overtakes, Files, Outs, Own, Changed, Trains
<1> QED BY <1>3, <1>4, <1>5, <1>6, <1>8, <1>9 DEF SyncInv

LEMMA SameData ==
  ASSUME DataInv, UNCHANGED vars
  PROVE  DataInv'
<1>1. /\ mode' = mode /\ frozen' = frozen /\ at' = at /\ page' = page /\ mem' = mem /\ queue' = queue
      /\ ops' = ops /\ latest' = latest /\ batch' = batch
  BY DEF vars, config
<1>2. Nodes' = Nodes /\ Pending' = Pending BY <1>1, SameNodes
<1>3. \A pl, r, k, v : Holds(pl, r, k, v)' <=> Holds(pl, r, k, v)
  BY <1>1, <1>2 DEF Holds, Writes, Makes
<1>4. \A x, r : Restaged(x, r)' <=> Restaged(x, r)
  BY <1>1 DEF Restaged, Changed, Trains, WritesFile
<1>5. MemTyped' /\ Stated' BY <1>1, <1>2 DEF DataInv, MemTyped, Stated, Makes
<1>6. Planned' BY <1>1, <1>2, <1>3, <1>4 DEF DataInv, Planned
<1>7. InSlots' /\ AtHome'
  BY <1>1, <1>3 DEF DataInv, InSlots, AtHome, Held, Homed, Dirty, Current, Changed, Trains
<1>8. Buffered' /\ WithGradient'
  BY <1>1, <1>3 DEF DataInv, Buffered, WithGradient, Current, Changed, Trains, Own
<1> QED BY <1>5, <1>6, <1>7, <1>8 DEF DataInv

LEMMA Keeps ==
  PagerInv /\ [Next]_vars => PagerInv'
<1> SUFFICES ASSUME PagerInv, [Next]_vars PROVE PagerInv'
  OBVIOUS
<1>1. CASE Host BY <1>1, HostKeeps
<1>2. CASE \E q \in Queues : Execute(q) BY <1>2, ExecuteKeeps
<1>3. CASE UNCHANGED vars
  <2>1. QueueInv' /\ HostInv' BY <1>3, SameQueues, SameHost DEF PagerInv, vars, config
  <2>2. SyncInv' /\ DataInv' BY <1>3, SameSync, SameData DEF PagerInv
  <2> QED BY <2>1, <2>2 DEF PagerInv
<1> QED BY <1>1, <1>2, <1>3 DEF Next, Over

--------------------
(* What follows from the invariant. *)

LEMMA Typed ==
  ASSUME PagerInv
  PROVE  TypeOK
<1>1. /\ mode \in {"cpu", "host", "disk"} /\ frozen \subseteq MayFreeze
      /\ at.leg \in {"forward", "backward"} /\ at.slice \in Slice
      /\ batch \in 0 .. NumBatches
      /\ page \in [Slice -> PageType] /\ slot \in [Slot -> SlotType]
  BY HostTyped DEF PagerInv, QueueInv, HostInv, HostTypes
<1>2. /\ \A i \in Slice : page[i].slot \in Slot \union {None}
      /\ \A s \in Slot : slot[s].page \in Slice \union {None}
  BY <1>1 DEF PageType, SlotType
<1>3. ASSUME NEW i \in Slice, NEW r \in {"p", "b", "s"} PROVE latest[i][r] \in 0 .. batch + 1
  <2>1. latest[i][r] \in Nat /\ batch \in Nat
    <3>1. latest \in [Slice -> [{"p", "b", "s"} -> Nat]] BY DEF PagerInv, HostInv, HostTypes
    <3>2. latest[i][r] \in Nat BY <3>1
    <3>3. batch \in Nat BY <1>1, Numbers
    <3> QED BY <3>2, <3>3
  <2>2. latest[i][r] <= batch + (IF Ran(i) THEN 1 ELSE 0) \/ latest[i][r] <= batch + (IF RanBack(i) THEN 1 ELSE 0)
    BY DEF PagerInv, HostInv, Counts
  <2> QED BY <2>1, <2>2
<1>4. \A place \in DOMAIN mem, r \in Region : mem[place][r] \in (Slice \union {0}) \X (0 .. NumBatches)
  BY DEF PagerInv, DataInv, MemTyped, Values
<1> QED BY <1>1, <1>2, <1>3, <1>4 DEF TypeOK

LEMMA Computed ==
  ASSUME PagerInv
  PROVE  ComputesOnLatest
<1> SUFFICES ASSUME NEW q \in Queues, Ready(q), ~WritesFile(Head(queue[q])),
                    NEW r \in DOMAIN Head(queue[q]).want
             PROVE  mem[Head(queue[q]).from][r] = Head(queue[q]).want[r]
  BY DEF ComputesOnLatest
<1> PICK o : o = Head(queue[q]) OBVIOUS
<1>1. Foremost(q, o) BY ReadyStep DEF PagerInv
<1>2. ~Restaged(o, r) BY DEF Restaged
<1> QED BY <1>1, <1>2, ForemostFinds DEF PagerInv

LEMMA DoneNone ==
  ASSUME QueueInv, NEW d, Done(d)
  PROVE  Of(d) = {} /\ \A x \in Pending : x.id # d
<1>1. \A x \in Pending : x.id # d BY DEF Done, PendingIn, Pending, In, Elems
<1>2. ASSUME NEW x \in Nodes PROVE x.id # d
  BY <1>1 DEF Nodes, Second
<1> QED BY <1>1, <1>2 DEF Of

LEMMA CaughtUp ==
  ASSUME PagerInv
  PROVE  HomesCatchUp
<1> SUFFICES ASSUME NEW i \in Slice, page[i].slot = None, Done(page[i].homeEv), Done(page[i].homeReady),
                    NEW r \in Homed(i)
             PROVE  mem[Home(i)][r] = <<i, latest[i][r]>>
  BY DEF HomesCatchUp, Latest, Homed
<1>1. QueueInv /\ HostInv /\ SyncInv /\ DataInv BY DEF PagerInv
<1>2. ASSUME NEW x \in Nodes, x.to = Home(i) PROVE FALSE
  <2>1. Of(page[i].homeEv) = {} /\ Of(page[i].homeReady) = {} BY <1>1, DoneNone
  <2>2. CASE x \in Steps(i) BY <1>1, <2>1, <2>2 DEF SyncInv, Returning, Of
  <2>3. CASE \E s \in Slot : x \in Outs(s)
    <3>1. Follows(Of(page[i].homeEv), x) BY <1>1, <1>2, <2>3 DEF SyncInv, CopiedHome
    <3> QED BY <2>1, <3>1, ImpliedNone DEF Follows
  <2>4. CASE \E s \in Slot : x \in Files(s, i) BY <1>1, <2>1, <2>4 DEF SyncInv, Returning, Of
  <2> QED BY <1>1, <1>2, <2>2, <2>3, <2>4, ToHome
<1>3. Dirty(i) = {} BY <1>1 DEF HostInv, Resident, InBatch, Dirty
<1>4. Current(Home(i), i, r) BY <1>1, <1>3 DEF DataInv, AtHome
<1> QED BY <1>2, <1>4 DEF Current, Holds, Writes

LEMMA Ahead ==
  ASSUME PagerInv
  PROVE  FetchesAhead
BY HostTyped DEF PagerInv, HostInv, Resident, InBatch, FetchesAhead, Calls

\* In every execution the four parts of the invariant hold: the queues are well
\* formed and in the order of the program, pages and slots agree, whatever conflicts
\* is kept in order by the events and futures of SlicePager, and every operation
\* finds, when its turn comes, what it should.
THEOREM PagerInvariant == Spec => []PagerInv
<1>1. Init => PagerInv BY Initially
<1>2. PagerInv /\ [Next]_vars => PagerInv' BY Keeps
<1> QED BY <1>1, <1>2, PTL DEF Spec

\* For any number of slices, slots and batches, on every stream and thread: a pass,
\* a copy, a read and a step on the CPU find the latest values there are in the
\* order of the program, a slice that is paged out is at home with them as soon as
\* what its page waits for is done, and no fetch() raises (SlicePager.fetch,
\* acquire, release, evict, step_on_cpu, drain).
THEOREM PagesStayLatest == Spec => []PagesAreLatest
<1>1. PagerInv => PagesAreLatest BY Typed, Computed, CaughtUp, Ahead DEF PagesAreLatest
<1> QED BY <1>1, PagerInvariant, PTL
=============================================================================
