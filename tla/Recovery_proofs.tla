---------------------------- MODULE Recovery_proofs ----------------------------
(***************************************************************************)
(* Proofs about modules FailureDetection, for any number of workers,       *)
(* batches, retries and failures, and CheckpointRecovery, for any model,   *)
(* any number of workers and epochs, any cuts and any failures of saves    *)
(* and workers.                                                            *)
(***************************************************************************)
EXTENDS FailureDetection, CheckpointRecovery, FiniteSetTheorems, SequenceTheorems, TLAPS

--------------------
(* The survivors of a failure. *)

ChainType == proxies \in Seq(Worker) /\ proxies # <<>> /\ Len(proxies) <= NumWorkers

LEMMA IndexType ==
  ASSUME ChainType
  PROVE  /\ DOMAIN proxies = 1 .. Len(proxies) /\ Len(proxies) \in Nat \ {0}
         /\ DOMAIN proxies \subseteq Worker
         /\ \A i \in DOMAIN proxies : proxies[i] \in Worker
<1>1. DOMAIN proxies = 1 .. Len(proxies) /\ Len(proxies) \in Nat BY DEF ChainType
<1>2. Len(proxies) # 0 BY EmptySeq DEF ChainType
<1> QED BY <1>1, <1>2, FailureAssumption DEF ChainType, Worker

LEMMA SurvivorsFinite ==
  ASSUME ChainType
  PROVE  /\ Survivors \subseteq Nat /\ IsFiniteSet(Survivors) /\ Cardinality(Survivors) \in Nat
         /\ Cardinality(Survivors) <= Len(proxies)
<1>1. /\ IsFiniteSet(1 .. Len(proxies)) /\ Cardinality(1 .. Len(proxies)) = Len(proxies)
      /\ Len(proxies) \in Nat
  BY IndexType, FS_Interval
<1>2. Survivors \subseteq 1 .. Len(proxies) BY IndexType DEF Survivors
<1>3. Survivors \subseteq Nat BY <1>2
<1>4. IsFiniteSet(Survivors) /\ Cardinality(Survivors) <= Cardinality(1 .. Len(proxies))
  BY <1>1, <1>2, FS_Subset
<1>5. Cardinality(Survivors) \in Nat BY <1>4, FS_CardinalityType
<1> QED BY <1>1, <1>3, <1>4, <1>5

\* The new indices are those of a chain of that many workers, one each.
LEMMA NewIndexType ==
  ASSUME ChainType, NEW i \in Survivors
  PROVE  NewIndex(i) \in 1 .. Cardinality(Survivors)
<1> DEFINE upTo == {j \in Survivors : j <= i}
<1>1. upTo \subseteq Survivors /\ i \in upTo BY SurvivorsFinite
<1>2. IsFiniteSet(upTo) /\ Cardinality(upTo) \in Nat /\ Cardinality(upTo) <= Cardinality(Survivors)
  BY <1>1, SurvivorsFinite, FS_Subset, FS_CardinalityType
<1>3. Cardinality(upTo) # 0 BY <1>1, <1>2, FS_EmptySet
<1> QED BY <1>2, <1>3, SurvivorsFinite DEF NewIndex

LEMMA NewIndexOrder ==
  ASSUME ChainType, NEW i \in Survivors, NEW j \in Survivors, i < j
  PROVE  NewIndex(i) < NewIndex(j)
<1> DEFINE upTo(k) == {l \in Survivors : l <= k}
<1>1. i \in Int /\ j \in Int /\ \A l \in Survivors : l \in Int BY SurvivorsFinite
<1>2. upTo(i) \subseteq upTo(j) /\ j \in upTo(j) /\ j \notin upTo(i) /\ upTo(j) \subseteq Survivors
  <2>1. ASSUME NEW l \in Survivors, l <= i PROVE l <= j
    BY <1>1, <2>1
  <2>2. j <= j /\ ~(j <= i) BY <1>1
  <2> QED BY <2>1, <2>2
<1>3. IsFiniteSet(upTo(j)) BY <1>2, SurvivorsFinite, FS_Subset
<1> HIDE DEF upTo
<1>4. Cardinality(upTo(i)) <= Cardinality(upTo(j)) /\ Cardinality(upTo(i)) # Cardinality(upTo(j))
  BY <1>2, <1>3, FS_Subset
<1>5. Cardinality(upTo(i)) \in Nat /\ Cardinality(upTo(j)) \in Nat
  BY <1>2, <1>3, FS_Subset, FS_CardinalityType
<1> QED BY <1>4, <1>5 DEF NewIndex, upTo

\* Each new index is somebody's.
LEMMA NewIndexOnto ==
  ASSUME ChainType, NEW n \in 1 .. Cardinality(Survivors)
  PROVE  \E i \in Survivors : NewIndex(i) = n
<1> DEFINE T == 1 .. Cardinality(Survivors)
           f == [i \in Survivors |-> NewIndex(i)]
<1>1. f \in [Survivors -> T] BY NewIndexType
<1>2. \A i, j \in Survivors : f[i] = f[j] => i = j
  <2> SUFFICES ASSUME NEW i \in Survivors, NEW j \in Survivors, i # j PROVE f[i] # f[j]
    OBVIOUS
  <2>1. i \in Int /\ j \in Int /\ NewIndex(i) \in Int /\ NewIndex(j) \in Int
    BY SurvivorsFinite, NewIndexType
  <2> QED BY <2>1, NewIndexOrder
<1>3. f \in Injection(Survivors, T) BY <1>1, <1>2 DEF Injection, IsInjective
<1>4. IsFiniteSet(T) /\ Cardinality(T) = Cardinality(Survivors) BY SurvivorsFinite, FS_Interval
<1>5. f \in Surjection(Survivors, T) BY <1>3, <1>4, FS_Injection
<1> QED BY <1>5 DEF Surjection

LEMMA NewChainType ==
  ASSUME ChainType, Survivors # {}
  PROVE  /\ NewChain \in Seq(Worker) /\ NewChain # <<>> /\ Len(NewChain) <= NumWorkers
         /\ DOMAIN NewChain = 1 .. Cardinality(Survivors)
         /\ \A n \in DOMAIN NewChain : \E i \in Survivors : NewIndex(i) = n /\ NewChain[n] = proxies[i]
         /\ \A i \in Survivors : \E n \in DOMAIN NewChain : NewChain[n] = proxies[i]
<1> DEFINE c == Cardinality(Survivors)
           At(n) == CHOOSE i \in Survivors : NewIndex(i) = n
<1>1. c \in Nat /\ c # 0 /\ c <= NumWorkers /\ NumWorkers \in Nat
  <2>1. c \in Nat /\ c <= Len(proxies) /\ c # 0 BY SurvivorsFinite, FS_EmptySet
  <2> QED BY <2>1, IndexType, FailureAssumption DEF ChainType
<1>2. \A n \in 1 .. c : At(n) \in Survivors /\ NewIndex(At(n)) = n BY NewIndexOnto
<1>3. \A i \in Survivors : proxies[i] \in Worker BY IndexType DEF Survivors
<1>4. NewChain = [n \in 1 .. c |-> proxies[At(n)]] BY DEF NewChain
<1> HIDE DEF c, At
<1>5. NewChain \in [1 .. c -> Worker] BY <1>2, <1>3, <1>4
<1>6. NewChain \in Seq(Worker) /\ Len(NewChain) = c BY <1>1, <1>5, IsASeq, LenProperties
<1>7. \A n \in 1 .. c : NewChain[n] = proxies[At(n)] BY <1>4
<1>8. ASSUME NEW i \in Survivors PROVE NewIndex(i) \in 1 .. c /\ NewChain[NewIndex(i)] = proxies[i]
  <2>1. NewIndex(i) \in 1 .. c BY NewIndexType DEF c
  <2>2. At(NewIndex(i)) \in Survivors /\ NewIndex(At(NewIndex(i))) = NewIndex(i) BY <1>2, <2>1
  <2>3. i \in Int /\ At(NewIndex(i)) \in Int /\ NewIndex(i) \in Int
    BY <2>1, <2>2, SurvivorsFinite
  <2>4. At(NewIndex(i)) = i BY <2>2, <2>3, NewIndexOrder
  <2> QED BY <1>7, <2>1, <2>4
<1>9. DOMAIN NewChain = 1 .. c /\ NewChain # <<>> BY <1>1, <1>5, <1>6, EmptySeq
<1> QED BY <1>1, <1>2, <1>6, <1>7, <1>8, <1>9 DEF c

--------------------
(* Types. *)

TypeInv ==
  /\ TypeOK
  /\ Len(proxies) <= NumWorkers
  /\ phase = "init" => initNext \in DOMAIN proxies

Thread == [round : Nat, idx : Worker, worker : Worker, at : ThreadAt]
ReportCall == [idx : Worker, worker : Worker, at : ReportAt]

LEMMA TypeInvInit == Init => TypeInv
<1> SUFFICES ASSUME Init PROVE TypeInv
  OBVIOUS
<1>1. proxies \in [1 .. NumWorkers -> Worker] /\ NumWorkers \in Nat \ {0}
  BY FailureAssumption DEF Init, Worker
<1>2. proxies \in Seq(Worker) /\ Len(proxies) = NumWorkers /\ proxies # <<>>
  BY <1>1, IsASeq, LenProperties, EmptySeq
<1>3. threads \subseteq Thread
  BY <1>1 DEF Init, HeartbeatsOf, HeartbeatThread, Thread, ThreadAt, Worker
<1>4. myIndex \in [Worker -> Worker] BY DEF Init
<1>5. NumWorkers <= NumWorkers /\ phase # "init" /\ phase \in Phases /\ faults \in 0 .. MaxFaults
  BY <1>1, FailureAssumption DEF Init, Phases
<1>6. /\ up \subseteq Worker /\ fatal \subseteq Worker /\ dying \subseteq Worker
      /\ failed \subseteq Worker /\ reports \subseteq ReportCall /\ blamed \subseteq Worker
      /\ round \in Nat /\ batch \in Nat /\ attempt \in Nat /\ initNext \in Nat
      /\ event \in BOOLEAN /\ batchDone \in BOOLEAN /\ stop \in BOOLEAN
      /\ ran \in BOOLEAN /\ phantom \in BOOLEAN
  BY DEF Init
<1> QED BY <1>2, <1>3, <1>4, <1>5, <1>6 DEF TypeInv, TypeOK, Thread, ReportCall

LEMMA MovedType ==
  ASSUME NEW t \in Thread, NEW r \in ReportCall, TypeOK
  PROVE  /\ \A to \in ThreadAt : Moved(threads, t, to) \subseteq Thread
         /\ \A to \in ReportAt : Moved(reports, r, to) \subseteq ReportCall
BY DEF Moved, TypeOK, Thread, ReportCall

LEMMA HeartbeatType ==
  ASSUME TypeInv, NEW t \in threads, Heartbeat(t)
  PROVE  TypeInv'
<1> USE DEF workerVars, threadVars, loopVars, flagVars
<1>1. t \in Thread /\ t.idx \in Worker /\ t.worker \in Worker /\ TypeOK
  BY DEF TypeInv, TypeOK, Thread
<1>2. threads' \subseteq Thread /\ failed' \subseteq Worker /\ blamed' \subseteq Worker
      /\ event' \in BOOLEAN /\ batchDone' \in BOOLEAN
  <2>1. \A to \in ThreadAt : Moved(threads, t, to) \subseteq Thread
    BY <1>1 DEF Moved, TypeOK, Thread
  <2>2. /\ threads \subseteq Thread /\ threads \ {t} \subseteq Thread
        /\ {"sleep", "probe", "confirm", "suspect", "setDone", "setEvent"} = ThreadAt
    BY <1>1 DEF TypeOK, Thread, ThreadAt
  <2>3. CASE HeartbeatTick(t) BY <1>1, <2>1, <2>2, <2>3 DEF HeartbeatTick, TypeOK
  <2>4. CASE HeartbeatAnswer(t) BY <1>1, <2>1, <2>2, <2>4 DEF HeartbeatAnswer, TypeOK
  <2>5. CASE HeartbeatUnavailable(t) BY <1>1, <2>1, <2>2, <2>5 DEF HeartbeatUnavailable, TypeOK
  <2>6. CASE HeartbeatTimeout(t) BY <1>1, <2>1, <2>2, <2>6 DEF HeartbeatTimeout, TypeOK
  <2>7. CASE HeartbeatSuspect(t) BY <1>1, <2>1, <2>2, <2>7 DEF HeartbeatSuspect, Mark, TypeOK
  <2>8. CASE HeartbeatSignal(t)
    BY <1>1, <2>1, <2>2, <2>8 DEF HeartbeatSignal, SetDone, SetEvent, TypeOK
  <2> QED BY <2>3, <2>4, <2>5, <2>6, <2>7, <2>8 DEF Heartbeat
<1>3. UNCHANGED <<workerVars, stop, round, reports, loopVars, proxies>>
  BY DEF Heartbeat, HeartbeatTick, HeartbeatAnswer, HeartbeatUnavailable, HeartbeatTimeout,
     HeartbeatSuspect, HeartbeatSignal
<1> QED BY <1>1, <1>2, <1>3 DEF TypeInv, TypeOK, Thread

LEMMA ReportType ==
  ASSUME TypeInv, NEW r \in reports, Report(r)
  PROVE  TypeInv'
<1> USE DEF workerVars, threadVars, loopVars, flagVars
<1>1. /\ r \in ReportCall /\ r.idx \in Worker /\ TypeOK
      /\ \A i \in DOMAIN proxies : proxies[i] \in Worker
  BY IndexType DEF TypeInv, TypeOK, ReportCall, ChainType
<1>2. reports' \subseteq ReportCall /\ failed' \subseteq Worker /\ blamed' \subseteq Worker
      /\ event' \in BOOLEAN /\ batchDone' \in BOOLEAN
  <2>1. \A to \in ReportAt : Moved(reports, r, to) \subseteq ReportCall
    BY <1>1 DEF Moved, TypeOK, ReportCall
  <2>2. /\ reports \subseteq ReportCall /\ reports \ {r} \subseteq ReportCall
        /\ {"received", "confirmed", "setDone", "setEvent"} = ReportAt
    BY <1>1 DEF TypeOK, ReportCall, ReportAt
  <2>3. CASE ReportProbe(r) BY <1>1, <2>1, <2>2, <2>3 DEF ReportProbe, Confirmed, TypeOK
  <2>4. CASE ReportMark(r) BY <1>1, <2>1, <2>2, <2>4 DEF ReportMark, Mark, TypeOK
  <2>5. CASE ReportSignal(r)
    BY <1>1, <2>1, <2>2, <2>5 DEF ReportSignal, SetDone, SetEvent, TypeOK
  <2> QED BY <2>3, <2>4, <2>5 DEF Report
<1>3. UNCHANGED <<workerVars, stop, round, threads, loopVars, proxies>>
  BY DEF Report, ReportProbe, ReportMark, ReportSignal
<1> QED BY <1>1, <1>2, <1>3 DEF TypeInv, TypeOK, ReportCall

LEMMA WorkerType ==
  ASSUME TypeInv, NEW w \in Worker, Crash(w) \/ FatalError(w) \/ StopServer(w)
  PROVE  TypeInv'
<1> USE DEF workerVars, threadVars, loopVars, flagVars
<1>1. TypeOK /\ MaxFaults \in Nat BY FailureAssumption DEF TypeInv
<1>2. CASE Crash(w) BY <1>1, <1>2 DEF Crash, TypeInv, TypeOK
<1>3. CASE FatalError(w)
  <2>1. [idx |-> myIndex[w], worker |-> w, at |-> "received"] \in ReportCall
    BY <1>1 DEF TypeOK, ReportCall, ReportAt
  <2> QED BY <1>1, <1>3, <2>1 DEF FatalError, TypeInv, TypeOK, ReportCall
<1>4. CASE StopServer(w) BY <1>1, <1>4 DEF StopServer, TypeInv, TypeOK
<1> QED BY <1>2, <1>3, <1>4

LEMMA Successor ==
  /\ \A n \in Nat : n + 1 \in Nat
  /\ \A n \in Nat : \A k \in 1 .. n : k # n => k + 1 \in 1 .. n
OBVIOUS

LEMMA LoopType ==
  ASSUME TypeInv, Loop
  PROVE  TypeInv'
<1> USE DEF workerVars, threadVars, loopVars, flagVars, Phases
<1>1. TypeOK /\ NumBatches \in Nat /\ ChainType
  BY FailureAssumption DEF TypeInv, TypeOK, ChainType
<1>2. CASE StartBatch \/ SendBatch \/ Wake \/ GraceEnds
  BY <1>1, <1>2 DEF StartBatch, SendBatch, Wake, GraceEnds, RaiseFailure, TypeInv, TypeOK
<1>3. CASE Check
  <2>1. /\ UNCHANGED <<workerVars, flagVars, threadVars, ran, attempt, initNext, proxies, blamed>>
        /\ phase' \in {"start", "raised", "aborted"}
        /\ batch' \in {batch, batch + 1} /\ phantom' \in {phantom, phantom \/ ~ran}
    BY <1>3 DEF Check, RaiseFailure
  <2>2. batch \in Nat /\ phantom \in BOOLEAN BY <1>1 DEF TypeOK
  <2>3. batch' \in Nat BY <2>1, <2>2, Successor
  <2>4. phantom' \in BOOLEAN BY <2>1, <2>2
  <2>5. phase' \in Phases /\ phase' # "init" BY <2>1
  <2> QED BY <1>1, <2>1, <2>3, <2>4, <2>5 DEF TypeInv, TypeOK
<1>4. CASE Retry \/ JoinHeartbeats
  <2>1. /\ UNCHANGED <<workerVars, flagVars, round, threads, reports, batch, ran, phantom, initNext, proxies, blamed>>
        /\ phase' \in {"joining", "gaveUp", "reslice"} /\ stop' \in {stop, TRUE}
        /\ attempt' \in {attempt, attempt + 1}
    BY <1>4 DEF Retry, JoinHeartbeats
  <2>2. attempt \in Nat /\ stop \in BOOLEAN BY <1>1 DEF TypeOK
  <2>3. attempt' \in Nat BY <2>1, <2>2, Successor
  <2>4. stop' \in BOOLEAN BY <2>1, <2>2
  <2>5. phase' \in Phases /\ phase' # "init" BY <2>1
  <2> QED BY <1>1, <2>1, <2>3, <2>4, <2>5 DEF TypeInv, TypeOK
<1>5. CASE Reslice
  <2>1. CASE Survivors = {} BY <1>1, <1>5, <2>1 DEF Reslice, TypeInv, TypeOK
  <2>2. CASE Survivors # {}
    <3>1. /\ proxies' \in Seq(Worker) /\ proxies' # <<>> /\ Len(proxies') <= NumWorkers
          /\ initNext' = 1 /\ initNext' \in DOMAIN proxies'
      <4>1. proxies' = NewChain /\ initNext' = 1 BY <1>5, <2>2 DEF Reslice
      <4>2. Cardinality(Survivors) \in Nat /\ Cardinality(Survivors) # 0
        BY <1>1, <2>2, SurvivorsFinite, FS_EmptySet
      <4> QED BY <1>1, <2>2, <4>1, <4>2, NewChainType
    <3> QED BY <1>1, <1>5, <2>2, <3>1 DEF Reslice, TypeInv, TypeOK
  <2> QED BY <2>1, <2>2
<1>6. CASE InitSlice
  <2>1. phase = "init" /\ initNext \in 1 .. Len(proxies) /\ Len(proxies) \in Nat /\ initNext \in Worker
        /\ DOMAIN proxies = 1 .. Len(proxies) /\ proxies[initNext] \in Worker
    BY <1>1, <1>6, IndexType DEF InitSlice, TypeInv
  <2>2. CASE proxies[initNext] \in up
    <3>1. /\ myIndex' = [myIndex EXCEPT ![proxies[initNext]] = initNext]
          /\ fatal' = fatal \ {proxies[initNext]}
          /\ initNext' = initNext + 1
          /\ phase' = IF initNext = Len(proxies) THEN "clear" ELSE "init"
          /\ UNCHANGED <<up, dying, faults, flagVars, threadVars, batch, ran, phantom, attempt, proxies, blamed>>
      BY <1>6, <2>2 DEF InitSlice, GiveIndex
    <3>2. myIndex' \in [Worker -> Worker] BY <1>1, <2>1, <3>1 DEF TypeOK
    <3>3. ASSUME phase' = "init" PROVE initNext' \in DOMAIN proxies'
      <4>1. initNext # Len(proxies) /\ proxies' = proxies BY <3>1, <3>3
      <4>2. initNext + 1 \in 1 .. Len(proxies) BY <2>1, <4>1, Successor
      <4> QED BY <2>1, <3>1, <4>1, <4>2
    <3>4. initNext' \in Nat BY <1>1, <3>1, Successor DEF TypeOK
    <3>5. phase' \in Phases /\ fatal' \subseteq Worker BY <1>1, <3>1 DEF TypeOK
    <3> QED BY <1>1, <3>1, <3>2, <3>3, <3>4, <3>5 DEF TypeInv, TypeOK
  <2>3. CASE proxies[initNext] \notin up BY <1>1, <1>6, <2>3 DEF InitSlice, TypeInv, TypeOK
  <2> QED BY <2>2, <2>3
<1>7. CASE ClearFailed \/ ClearEvent \/ ClearDone
  BY <1>1, <1>7 DEF ClearFailed, ClearEvent, ClearDone, TypeInv, TypeOK
<1>8. CASE StartHeartbeats
  <2>1. HeartbeatsOf(round + 1, proxies) \subseteq Thread
    BY <1>1, IndexType DEF HeartbeatsOf, HeartbeatThread, Thread, ThreadAt, TypeOK
  <2>4. round' \in Nat /\ batch' \in Nat BY <1>1, <1>8, Successor DEF StartHeartbeats, TypeOK
  <2>5. threads' \subseteq Thread BY <1>1, <1>8, <2>1 DEF StartHeartbeats, TypeOK, Thread
  <2>2. /\ phantom' \in BOOLEAN /\ stop' \in BOOLEAN /\ phase' \in Phases /\ phase' # "init"
    BY <1>8 DEF StartHeartbeats
  <2>3. UNCHANGED <<workerVars, flagVars, reports, ran, attempt, initNext, proxies, blamed>>
    BY <1>8 DEF StartHeartbeats
  <2> QED BY <1>1, <2>2, <2>3, <2>4, <2>5 DEF TypeInv, TypeOK, Thread
<1> QED BY <1>2, <1>3, <1>4, <1>5, <1>6, <1>7, <1>8 DEF Loop, Recover

LEMMA TypeInvNext == TypeInv /\ [Next]_vars => TypeInv'
<1> SUFFICES ASSUME TypeInv, [Next]_vars PROVE TypeInv'
  OBVIOUS
<1> USE DEF workerVars, threadVars, loopVars, flagVars
<1>1. CASE RunBatch BY <1>1 DEF RunBatch, TypeInv, TypeOK
<1>2. CASE UNCHANGED vars BY <1>2 DEF vars, TypeInv, TypeOK
<1> QED BY <1>1, <1>2, WorkerType, HeartbeatType, ReportType, LoopType DEF Next, RunOver

LEMMA TypeInvariance == Spec => []TypeInv
BY TypeInvInit, TypeInvNext, PTL DEF Spec

\* Every variable keeps its type: recover() never leaves an index outside the chain,
\* nor a thread or a report with one that no worker was ever given.
THEOREM TypeCorrect == Spec => []TypeOK
<1>1. TypeInv => TypeOK BY DEF TypeInv
<1> QED BY <1>1, TypeInvariance, PTL

--------------------
(* Every worker knows its place. *)

ChainIsDistinct == \A i, j \in DOMAIN proxies : proxies[i] = proxies[j] => i = j

\* recover() has told the workers before initNext their new index.
InitInOrder ==
  phase = "init" => \A i \in DOMAIN proxies : i < initNext => myIndex[proxies[i]] = i

IndexInv == TypeInv /\ ChainIsDistinct /\ IndicesAgree /\ InitInOrder

LEMMA IndexInvInit == Init => IndexInv
<1> SUFFICES ASSUME Init PROVE IndexInv
  OBVIOUS
<1>1. DOMAIN proxies = Worker /\ \A i \in Worker : proxies[i] = i /\ myIndex[i] = i BY DEF Init
<1>2. phase = "start" BY DEF Init
<1> QED BY <1>1, <1>2, TypeInvInit DEF IndexInv, ChainIsDistinct, IndicesAgree, InitInOrder

LEMMA NewChainIsDistinct ==
  ASSUME ChainType, ChainIsDistinct, Survivors # {}
  PROVE  \A m, n \in DOMAIN NewChain : NewChain[m] = NewChain[n] => m = n
<1> SUFFICES ASSUME NEW m \in DOMAIN NewChain, NEW n \in DOMAIN NewChain, NewChain[m] = NewChain[n]
             PROVE  m = n
  OBVIOUS
<1>1. PICK i \in Survivors : NewIndex(i) = m /\ NewChain[m] = proxies[i] BY NewChainType
<1>2. PICK j \in Survivors : NewIndex(j) = n /\ NewChain[n] = proxies[j] BY NewChainType
<1>3. i = j BY <1>1, <1>2 DEF Survivors, ChainIsDistinct
<1> QED BY <1>1, <1>2, <1>3

\* Only recover() moves the chain and tells workers their index.
LEMMA IndexStep ==
  ASSUME TypeInv, [Next]_vars
  PROVE  \/ Reslice
         \/ InitSlice
         \/ /\ UNCHANGED <<proxies, myIndex>>
            /\ \/ UNCHANGED <<phase, initNext>>
               \/ phase' # "init" /\ phase \notin {"init", "aborted"}
<1> USE DEF workerVars, threadVars, loopVars, flagVars
<1>1. ASSUME NEW w \in Worker, Crash(w) \/ FatalError(w) \/ StopServer(w)
      PROVE  UNCHANGED <<proxies, myIndex, phase, initNext>>
  BY <1>1 DEF Crash, FatalError, StopServer
<1>2. ASSUME NEW t \in threads, Heartbeat(t) PROVE UNCHANGED <<proxies, myIndex, phase, initNext>>
  BY <1>2 DEF Heartbeat, HeartbeatTick, HeartbeatAnswer, HeartbeatUnavailable, HeartbeatTimeout,
     HeartbeatSuspect, HeartbeatSignal
<1>3. ASSUME NEW r \in reports, Report(r) PROVE UNCHANGED <<proxies, myIndex, phase, initNext>>
  BY <1>3 DEF Report, ReportProbe, ReportMark, ReportSignal
<1>4. CASE RunBatch \/ UNCHANGED vars BY <1>4 DEF RunBatch, vars
<1>5. ASSUME StartBatch \/ SendBatch \/ Wake \/ Check \/ GraceEnds \/ Retry
      PROVE  /\ UNCHANGED <<proxies, myIndex>>
             /\ phase' # "init" /\ phase \notin {"init", "aborted"}
  BY <1>5 DEF StartBatch, SendBatch, Wake, Check, GraceEnds, Retry, RaiseFailure
<1>6. ASSUME JoinHeartbeats \/ ClearFailed \/ ClearEvent \/ ClearDone \/ StartHeartbeats
      PROVE  /\ UNCHANGED <<proxies, myIndex>>
             /\ phase' # "init" /\ phase \notin {"init", "aborted"}
  BY <1>6 DEF JoinHeartbeats, ClearFailed, ClearEvent, ClearDone, StartHeartbeats
<1> QED BY <1>1, <1>2, <1>3, <1>4, <1>5, <1>6 DEF Next, Loop, Recover, RunOver

LEMMA IndexInvNext == IndexInv /\ [Next]_vars => IndexInv'
<1> SUFFICES ASSUME IndexInv, [Next]_vars PROVE IndexInv'
  OBVIOUS
<1> USE DEF workerVars, threadVars, loopVars, flagVars
<1>1. TypeInv /\ TypeInv' /\ ChainType BY TypeInvNext DEF IndexInv, TypeInv, TypeOK, ChainType
<1>2. CASE Reslice
  <2>1. CASE Survivors = {}
    <3>1. phase' = "aborted" /\ proxies' = proxies BY <1>2, <2>1 DEF Reslice
    <3> QED BY <1>1, <3>1 DEF IndexInv, ChainIsDistinct, IndicesAgree, InitInOrder
  <2>2. CASE Survivors # {}
    <3>1. phase' = "init" /\ proxies' = NewChain /\ initNext' = 1 BY <1>2, <2>2 DEF Reslice
    <3>2. ChainIsDistinct' BY <1>1, <2>2, <3>1, NewChainIsDistinct DEF IndexInv, ChainIsDistinct
    <3>3. \A i \in DOMAIN NewChain : ~(i < 1) BY <1>1, <2>2, NewChainType, SurvivorsFinite
    <3> QED BY <1>1, <3>1, <3>2, <3>3 DEF IndexInv, IndicesAgree, InitInOrder
  <2> QED BY <2>1, <2>2
<1>3. CASE InitSlice
  <2>1. /\ phase = "init" /\ initNext \in DOMAIN proxies /\ proxies' = proxies
        /\ DOMAIN proxies = 1 .. Len(proxies) /\ Len(proxies) \in Nat
        /\ \A i \in DOMAIN proxies : proxies[i] \in Worker
    BY <1>1, <1>3, IndexType DEF InitSlice, TypeInv
  <2>2. CASE proxies[initNext] \in up
    <3>1. /\ myIndex' = [myIndex EXCEPT ![proxies[initNext]] = initNext]
          /\ initNext' = initNext + 1
          /\ phase' = IF initNext = Len(proxies) THEN "clear" ELSE "init"
      BY <1>3, <2>2 DEF InitSlice, GiveIndex
    <3>2. myIndex \in [Worker -> Worker] BY <1>1 DEF TypeInv, TypeOK
    <3>3. ASSUME NEW i \in DOMAIN proxies, i < initNext + 1 PROVE myIndex'[proxies[i]] = i
      <4>1. CASE i = initNext BY <2>1, <3>1, <3>2, <4>1
      <4>2. CASE i # initNext
        <5>1. proxies[i] # proxies[initNext] /\ i < initNext
          BY <2>1, <3>3, <4>2 DEF IndexInv, ChainIsDistinct
        <5> QED BY <2>1, <3>1, <3>2, <5>1 DEF IndexInv, InitInOrder
      <4> QED BY <4>1, <4>2
    <3>4. ASSUME initNext = Len(proxies), NEW i \in DOMAIN proxies PROVE i < initNext + 1
      BY <2>1, <3>4
    <3>5. CASE initNext = Len(proxies)
      BY <1>1, <2>1, <3>1, <3>3, <3>4, <3>5
      DEF IndexInv, ChainIsDistinct, IndicesAgree, InitInOrder
    <3>6. CASE initNext # Len(proxies)
      BY <1>1, <2>1, <3>1, <3>3, <3>6 DEF IndexInv, ChainIsDistinct, IndicesAgree, InitInOrder
    <3> QED BY <3>5, <3>6
  <2>3. CASE proxies[initNext] \notin up
    <3>1. phase' = "aborted" BY <1>3, <2>3 DEF InitSlice
    <3> QED BY <1>1, <2>1, <3>1 DEF IndexInv, ChainIsDistinct, IndicesAgree, InitInOrder
  <2> QED BY <2>2, <2>3
<1>4. CASE UNCHANGED <<proxies, myIndex, phase, initNext>>
  BY <1>1, <1>4 DEF IndexInv, ChainIsDistinct, IndicesAgree, InitInOrder
<1>5. CASE UNCHANGED <<proxies, myIndex>> /\ phase' # "init" /\ phase \notin {"init", "aborted"}
  BY <1>1, <1>5 DEF IndexInv, ChainIsDistinct, IndicesAgree, InitInOrder
<1> QED BY <1>1, <1>2, <1>3, <1>4, <1>5, IndexStep

\* Whoever is lost and however often the chain is renumbered, outside recover() the
\* index a worker reports under is its own (_init_worker, _report_confirmed).
THEOREM IndicesCorrect == Spec => []IndicesAgree
<1>1. IndexInv => IndicesAgree BY DEF IndexInv
<1> QED BY <1>1, IndexInvInit, IndexInvNext, PTL DEF Spec

--------------------
(* The first recovery removes whom it must. *)

\* The chain is still the one of setup(): nobody has been renumbered.
Original == attempt = 0 \/ (attempt = 1 /\ phase \in {"joining", "reslice"})

Recovering == {"joining", "reslice", "init", "clear", "clearEvent", "clearDone", "heartbeats"}

\* On the first chain an index is a worker, and whatever names one has blamed it; a
\* thread that was stopped before it could ask again is believed by nobody.
OriginalIsBlamed ==
  Original =>
    /\ proxies = [i \in Worker |-> i]
    /\ failed \subseteq blamed
    /\ \A t \in threads : t.idx = t.worker /\ (t.at = "suspect" => t.worker \in blamed \/ stop)
    /\ \A r \in reports : r.at = "confirmed" => r.idx \in blamed

FirstInv ==
  /\ TypeInv
  /\ phase \in Recovering => attempt >= 1
  /\ OriginalIsBlamed
  /\ FirstRecoveryIsRight

LEMMA FirstInvInit == Init => FirstInv
<1> SUFFICES ASSUME Init PROVE FirstInv
  OBVIOUS
<1>1. /\ proxies = [i \in Worker |-> i] /\ failed = {} /\ reports = {} /\ attempt = 0
      /\ phase = "start" /\ threads = HeartbeatsOf(1, proxies)
  BY DEF Init
<1>2. \A t \in threads : t.idx = t.worker /\ t.at = "sleep"
  BY <1>1 DEF HeartbeatsOf, HeartbeatThread
<1>3. Worker \ Chain = {} BY <1>1 DEF Chain
<1> QED
  BY <1>1, <1>2, <1>3, TypeInvInit
  DEF FirstInv, OriginalIsBlamed, FirstRecoveryIsRight, Recovering

LEMMA FirstInvHeartbeat ==
  ASSUME FirstInv, NEW t \in threads, Heartbeat(t)
  PROVE  OriginalIsBlamed' /\ UNCHANGED <<phase, attempt, proxies>> /\ blamed \subseteq blamed'
<1> USE DEF workerVars, threadVars, loopVars, flagVars
<1>1. UNCHANGED <<phase, attempt, proxies, reports, stop>> /\ blamed \subseteq blamed'
  BY DEF Heartbeat, HeartbeatTick, HeartbeatAnswer, HeartbeatUnavailable, HeartbeatTimeout,
     HeartbeatSuspect, HeartbeatSignal
<1>2. t \in Thread BY DEF FirstInv, TypeInv, TypeOK, Thread
<1> SUFFICES ASSUME Original PROVE
       /\ failed' \subseteq blamed'
       /\ \A u \in threads' : u.idx = u.worker /\ (u.at = "suspect" => u.worker \in blamed' \/ stop)
  BY <1>1 DEF FirstInv, OriginalIsBlamed, Original
<1>3. /\ failed \subseteq blamed /\ t.idx = t.worker
      /\ t.at = "suspect" => t.worker \in blamed \/ stop
      /\ \A u \in threads : u.idx = u.worker /\ (u.at = "suspect" => u.worker \in blamed' \/ stop)
  BY <1>1 DEF FirstInv, OriginalIsBlamed
<1>4. ASSUME NEW to \in ThreadAt, to = "suspect" => t.worker \in blamed' \/ stop
      PROVE  \A u \in Moved(threads, t, to) :
               u.idx = u.worker /\ (u.at = "suspect" => u.worker \in blamed' \/ stop)
  <2>1. /\ [t EXCEPT !.at = to].idx = t.idx /\ [t EXCEPT !.at = to].worker = t.worker
        /\ [t EXCEPT !.at = to].at = to
    BY <1>2 DEF Thread
  <2> QED BY <1>3, <1>4, <2>1 DEF Moved
<1>5. {"sleep", "probe", "confirm", "suspect", "setDone", "setEvent"} = ThreadAt BY DEF ThreadAt
<1>6. CASE HeartbeatTick(t) \/ HeartbeatAnswer(t)
  BY <1>3, <1>4, <1>5, <1>6 DEF HeartbeatTick, HeartbeatAnswer
<1>7. CASE HeartbeatUnavailable(t) BY <1>3, <1>4, <1>5, <1>7 DEF HeartbeatUnavailable
<1>8. CASE HeartbeatTimeout(t) BY <1>3, <1>4, <1>5, <1>8 DEF HeartbeatTimeout
<1>9. CASE HeartbeatSuspect(t) BY <1>3, <1>4, <1>5, <1>9 DEF HeartbeatSuspect, Mark
<1>10. CASE HeartbeatSignal(t) BY <1>3, <1>4, <1>5, <1>10 DEF HeartbeatSignal, SetDone, SetEvent
<1> QED BY <1>6, <1>7, <1>8, <1>9, <1>10 DEF Heartbeat

LEMMA FirstInvReport ==
  ASSUME FirstInv, NEW r \in reports, Report(r)
  PROVE  OriginalIsBlamed' /\ UNCHANGED <<phase, attempt, proxies>> /\ blamed \subseteq blamed'
<1> USE DEF workerVars, threadVars, loopVars, flagVars
<1>1. UNCHANGED <<phase, attempt, proxies, threads, stop>> /\ blamed \subseteq blamed'
  BY DEF Report, ReportProbe, ReportMark, ReportSignal
<1>2. r \in ReportCall BY DEF FirstInv, TypeInv, TypeOK, ReportCall
<1> SUFFICES ASSUME Original PROVE
       /\ failed' \subseteq blamed'
       /\ \A q \in reports' : q.at = "confirmed" => q.idx \in blamed'
  BY <1>1 DEF FirstInv, OriginalIsBlamed, Original
<1>3. /\ proxies = [i \in Worker |-> i] /\ failed \subseteq blamed
      /\ \A q \in reports : q.at = "confirmed" => q.idx \in blamed'
      /\ r.at = "confirmed" => r.idx \in blamed
      /\ r.idx \in Worker
  BY <1>1, <1>2 DEF FirstInv, OriginalIsBlamed, ReportCall
<1>4. ASSUME NEW to \in ReportAt, to = "confirmed" => r.idx \in blamed'
      PROVE  \A q \in Moved(reports, r, to) : q.at = "confirmed" => q.idx \in blamed'
  <2>1. [r EXCEPT !.at = to].idx = r.idx /\ [r EXCEPT !.at = to].at = to BY <1>2 DEF ReportCall
  <2> QED BY <1>3, <1>4, <2>1 DEF Moved
<1>5. {"received", "confirmed", "setDone", "setEvent"} = ReportAt BY DEF ReportAt
<1>6. CASE ReportProbe(r)
  <2>1. proxies[r.idx] = r.idx BY <1>3
  <2> QED BY <1>3, <1>4, <1>5, <1>6, <2>1 DEF ReportProbe, Confirmed
<1>7. CASE ReportMark(r) BY <1>3, <1>4, <1>5, <1>7 DEF ReportMark, Mark
<1>8. CASE ReportSignal(r) BY <1>3, <1>4, <1>5, <1>8 DEF ReportSignal, SetDone, SetEvent
<1> QED BY <1>6, <1>7, <1>8 DEF Report

LEMMA FirstInvReslice ==
  ASSUME FirstInv, Reslice
  PROVE  FirstRecoveryIsRight' /\ OriginalIsBlamed' /\ (phase' \in Recovering => attempt' >= 1)
<1> USE DEF workerVars, threadVars, loopVars, flagVars
<1>1. ChainType /\ attempt \in Nat /\ phase = "reslice" /\ attempt >= 1 /\ attempt' = attempt
      /\ blamed' = blamed /\ phase' \in {"aborted", "init"}
  BY DEF FirstInv, TypeInv, TypeOK, ChainType, Reslice, Recovering
<1>2. ~Original' BY <1>1 DEF Original
<1>3. CASE Survivors = {}
  BY <1>1, <1>2, <1>3 DEF FirstInv, FirstRecoveryIsRight, OriginalIsBlamed, Reslice, Chain
<1>4. CASE Survivors # {} /\ attempt <= 1
  <2>1. Original /\ proxies' = NewChain BY <1>1, <1>4 DEF Original, Reslice
  <2>2. proxies = [i \in Worker |-> i] /\ failed \subseteq blamed
    BY <2>1 DEF FirstInv, OriginalIsBlamed
  <2>3. ASSUME NEW w \in Worker, w \notin blamed PROVE w \in Chain'
    <3>1. w \in Survivors /\ proxies[w] = w BY <2>2, <2>3 DEF Survivors
    <3> QED BY <1>1, <1>4, <2>1, <3>1, NewChainType DEF Chain
  <2> QED BY <1>1, <1>2, <2>3 DEF FirstRecoveryIsRight, OriginalIsBlamed
<1>5. CASE ~(attempt <= 1) BY <1>1, <1>2, <1>5 DEF FirstRecoveryIsRight, OriginalIsBlamed
<1> QED BY <1>3, <1>4, <1>5

\* The other steps of the training thread leave the chain and what names its workers.
LEMMA FirstInvLoop ==
  ASSUME FirstInv, Loop, ~Reslice
  PROVE  FirstRecoveryIsRight' /\ OriginalIsBlamed' /\ (phase' \in Recovering => attempt' >= 1)
<1> USE DEF workerVars, threadVars, loopVars, flagVars
<1>1. attempt \in Nat BY DEF FirstInv, TypeInv, TypeOK
<1>2. CASE StartBatch \/ SendBatch \/ Wake \/ Check \/ GraceEnds
  <2>1. /\ UNCHANGED <<failed, stop, threads, reports, attempt, proxies, blamed>>
        /\ phase' \notin Recovering /\ phase \notin Recovering
    BY <1>2 DEF StartBatch, SendBatch, Wake, Check, GraceEnds, RaiseFailure, Recovering
  <2>2. Original' => Original BY <2>1 DEF Original, Recovering
  <2> QED BY <2>1, <2>2 DEF FirstInv, OriginalIsBlamed, FirstRecoveryIsRight, Chain
<1>3. CASE Retry
  <2>1. /\ UNCHANGED <<failed, threads, reports, proxies, blamed>> /\ phase = "raised"
        /\ stop => stop'
        /\ attempt' \in {attempt, attempt + 1}
        /\ phase' \in Recovering => attempt' = attempt + 1
        /\ phase' \notin Recovering => attempt' = attempt
    BY <1>3 DEF Retry, Recovering
  <2>2. (Original' => Original) /\ (attempt' <= 1 => attempt <= 1)
    <3>1. CASE attempt' = attempt /\ phase' \notin Recovering BY <3>1 DEF Original, Recovering
    <3>2. CASE attempt' = attempt + 1 BY <1>1, <3>2 DEF Original
    <3> QED BY <2>1, <3>1, <3>2
  <2> QED BY <1>1, <2>1, <2>2 DEF FirstInv, OriginalIsBlamed, FirstRecoveryIsRight, Chain
<1>4. CASE JoinHeartbeats
  <2>1. /\ UNCHANGED <<failed, stop, threads, reports, attempt, proxies, blamed>>
        /\ phase = "joining" /\ phase' = "reslice"
    BY <1>4 DEF JoinHeartbeats
  <2> QED
    BY <2>1 DEF FirstInv, OriginalIsBlamed, Original, FirstRecoveryIsRight, Chain, Recovering
<1>5. CASE InitSlice \/ ClearFailed \/ ClearEvent \/ ClearDone \/ StartHeartbeats
  <2>1. /\ UNCHANGED <<attempt, proxies, blamed>> /\ phase \in Recovering
        /\ phase' \notin {"joining", "reslice"}
    BY <1>5 DEF InitSlice, ClearFailed, ClearEvent, ClearDone, StartHeartbeats, Recovering
  <2>2. attempt >= 1 BY <2>1 DEF FirstInv
  <2>3. ~Original' BY <1>1, <2>1, <2>2 DEF Original
  <2> QED BY <2>1, <2>2, <2>3 DEF FirstInv, OriginalIsBlamed, FirstRecoveryIsRight, Chain
<1> QED BY <1>2, <1>3, <1>4, <1>5 DEF Loop, Recover

LEMMA FirstInvWorker ==
  ASSUME FirstInv, NEW w \in Worker, Crash(w) \/ FatalError(w) \/ StopServer(w)
  PROVE  OriginalIsBlamed' /\ UNCHANGED <<phase, attempt, proxies, blamed>>
<1> USE DEF workerVars, threadVars, loopVars, flagVars
<1>1. UNCHANGED <<phase, attempt, proxies, blamed, failed, threads, stop>>
  BY DEF Crash, FatalError, StopServer
<1>2. \A r \in reports' : r \in reports \/ r.at = "received"
  BY DEF Crash, FatalError, StopServer
<1> QED BY <1>1, <1>2 DEF FirstInv, OriginalIsBlamed, Original

LEMMA FirstInvNext == FirstInv /\ [Next]_vars => FirstInv'
<1> SUFFICES ASSUME FirstInv, [Next]_vars PROVE FirstInv'
  OBVIOUS
<1> USE DEF workerVars, threadVars, loopVars, flagVars
<1>1. TypeInv' BY TypeInvNext DEF FirstInv
<1>2. ASSUME OriginalIsBlamed', UNCHANGED <<phase, attempt, proxies>>, blamed \subseteq blamed'
      PROVE  FirstInv'
  BY <1>1, <1>2 DEF FirstInv, FirstRecoveryIsRight, Chain
<1>3. CASE RunBatch \/ UNCHANGED vars
  <2>1. UNCHANGED <<phase, attempt, proxies, blamed, failed, threads, stop, reports>>
    BY <1>3 DEF RunBatch, vars
  <2> QED BY <1>2, <2>1 DEF FirstInv, OriginalIsBlamed, Original
<1>4. CASE Loop BY <1>1, <1>4, FirstInvReslice, FirstInvLoop DEF FirstInv
<1>5. ASSUME NEW w \in Worker, Crash(w) \/ FatalError(w) \/ StopServer(w) PROVE FirstInv'
  BY <1>2, <1>5, FirstInvWorker
<1>6. ASSUME NEW t \in threads, Heartbeat(t) PROVE FirstInv'
  BY <1>2, <1>6, FirstInvHeartbeat
<1>7. ASSUME NEW r \in reports, Report(r) PROVE FirstInv'
  BY <1>2, <1>7, FirstInvReport
<1> QED BY <1>3, <1>4, <1>5, <1>6, <1>7 DEF Next, RunOver

\* The first recovery of an epoch drops nobody who answered: whichever heartbeat
\* thread or report named an index, the worker that lost its place had failed its
\* probes or held a fatal error (_heartbeat_loop, _report_confirmed, recover).
THEOREM FirstRecoveryCorrect == Spec => []FirstRecoveryIsRight
<1>1. FirstInv => FirstRecoveryIsRight BY DEF FirstInv
<1> QED BY <1>1, FirstInvInit, FirstInvNext, PTL DEF Spec

--------------------
(* What credits a batch that nobody ran. *)

\* The loop wakes for a reason, and one that is not the end of the batch is a failure told.
ToldInv ==
  /\ TypeInv
  /\ phase = "woken" => batchDone \/ event
  /\ UnrunBatchesAreTold

LEMMA ToldInvInit == Init => ToldInv
  BY TypeInvInit DEF Init, ToldInv, UnrunBatchesAreTold

\* A step of the loop other than those of recover() that clear the flags keeps what is told.
LEMMA ToldLoop ==
  ASSUME ToldInv, Loop
  PROVE  (phase' = "woken" => batchDone' \/ event') /\ UnrunBatchesAreTold'
<1> USE DEF workerVars, threadVars, loopVars, flagVars
<1> USE DEF ToldInv
<1>1. CASE StartBatch BY <1>1 DEF StartBatch, UnrunBatchesAreTold, Told
<1>2. CASE SendBatch BY <1>2 DEF SendBatch, UnrunBatchesAreTold, Told
<1>3. CASE Wake BY <1>3 DEF Wake, UnrunBatchesAreTold, Told
<1>4. CASE Check
  <2>1. CASE event BY <1>4, <2>1 DEF Check, RaiseFailure, UnrunBatchesAreTold, Told
  <2>2. CASE ~event
    <3>1. /\ phase = "woken" /\ phase' = "start" /\ phantom' = (phantom \/ ~ran)
          /\ UNCHANGED <<event, threads, reports>> /\ batchDone
      BY <1>4, <2>2 DEF Check
    <3>2. phantom' => Told BY <3>1 DEF UnrunBatchesAreTold
    <3>3. Told' = Told BY <3>1 DEF Told
    <3> QED BY <3>1, <3>2, <3>3 DEF UnrunBatchesAreTold
  <2> QED BY <2>1, <2>2
<1>5. CASE GraceEnds BY <1>5 DEF GraceEnds, RaiseFailure, UnrunBatchesAreTold, Told
<1>6. CASE Retry \/ JoinHeartbeats \/ Reslice \/ InitSlice \/ ClearFailed
  <2>1. /\ UNCHANGED <<event, threads, reports, phantom>>
        /\ phase \notin {"clearDone", "heartbeats"}
        /\ phase' \in {"joining", "gaveUp", "reslice", "init", "aborted", "clear", "clearEvent"}
    BY <1>6 DEF Retry, JoinHeartbeats, Reslice, InitSlice, ClearFailed
  <2>2. Told' = Told BY <2>1 DEF Told
  <2> QED BY <2>1, <2>2 DEF UnrunBatchesAreTold
<1>7. CASE ClearEvent \/ ClearDone BY <1>7 DEF ClearEvent, ClearDone, UnrunBatchesAreTold
<1>8. CASE StartHeartbeats BY <1>8 DEF StartHeartbeats, UnrunBatchesAreTold
<1> QED BY <1>1, <1>2, <1>3, <1>4, <1>5, <1>6, <1>7, <1>8 DEF Loop, Recover

\* One step of a handler: it wakes the loop only to tell it of the failure next, and ends
\* only when it has.
LEMMA ToldHandler ==
  ASSUME ToldInv, NEW t \in threads \union reports,
         UNCHANGED <<phase, ran, phantom>>,
         \A u \in threads \union reports : u # t => u \in threads' \union reports',
         event' = event \/ (event' /\ t.at = "setEvent"),
         t.at = "setEvent" => event',
         \/ UNCHANGED batchDone
         \/ batchDone' /\ [t EXCEPT !.at = "setEvent"] \in threads' \union reports'
  PROVE  (phase' = "woken" => batchDone' \/ event') /\ UnrunBatchesAreTold'
<1>1. event => event' OBVIOUS
<1>2. Told => Told' BY <1>1 DEF Told
<1>3. CASE UNCHANGED batchDone BY <1>1, <1>2, <1>3 DEF ToldInv, UnrunBatchesAreTold
<1>4. CASE batchDone' /\ [t EXCEPT !.at = "setEvent"] \in threads' \union reports'
  <2>1. t \in Thread \/ t \in ReportCall BY DEF ToldInv, TypeInv, TypeOK, Thread, ReportCall
  <2>2. [t EXCEPT !.at = "setEvent"].at = "setEvent" BY <2>1 DEF Thread, ReportCall
  <2>3. Told' BY <1>4, <2>2 DEF Told
  <2> QED BY <1>4, <2>3 DEF UnrunBatchesAreTold
<1> QED BY <1>3, <1>4

LEMMA ToldInvNext == ToldInv /\ [Next]_vars => ToldInv'
<1> SUFFICES ASSUME ToldInv, [Next]_vars PROVE ToldInv'
  OBVIOUS
<1> USE DEF workerVars, threadVars, loopVars, flagVars
<1>1. TypeInv' BY TypeInvNext DEF ToldInv
<1> SUFFICES (phase' = "woken" => batchDone' \/ event') /\ UnrunBatchesAreTold'
  BY <1>1 DEF ToldInv
<1>2. ASSUME NEW w \in Worker, Crash(w) \/ FatalError(w) \/ StopServer(w)
      PROVE  (phase' = "woken" => batchDone' \/ event') /\ UnrunBatchesAreTold'
  <2>1. UNCHANGED <<event, batchDone, phase, ran, phantom, threads>> /\ reports \subseteq reports'
    BY <1>2 DEF Crash, FatalError, StopServer
  <2>2. Told => Told' BY <2>1 DEF Told
  <2> QED BY <2>1, <2>2 DEF ToldInv, UnrunBatchesAreTold
<1>3. ASSUME NEW t \in threads, Heartbeat(t)
      PROVE  (phase' = "woken" => batchDone' \/ event') /\ UnrunBatchesAreTold'
  <2>1. UNCHANGED <<phase, ran, phantom, reports>>
    BY <1>3 DEF Heartbeat, HeartbeatTick, HeartbeatAnswer, HeartbeatUnavailable, HeartbeatTimeout,
       HeartbeatSuspect, HeartbeatSignal
  <2>2. \A u \in threads : u # t => u \in threads'
    BY <1>3 DEF Heartbeat, HeartbeatTick, HeartbeatAnswer, HeartbeatUnavailable, HeartbeatTimeout,
       HeartbeatSuspect, HeartbeatSignal, Mark, Moved, SetDone, SetEvent
  <2>3. CASE HeartbeatSignal(t)
    <3>1. CASE SetDone(threads, t) /\ UNCHANGED event
      <4>1. t.at = "setDone" /\ batchDone' /\ event' = event
            /\ [t EXCEPT !.at = "setEvent"] \in threads' \union reports'
        BY <3>1 DEF SetDone, Moved
      <4> QED BY <2>1, <2>2, <4>1, ToldHandler
    <3>2. CASE SetEvent(threads, t) /\ UNCHANGED batchDone
      <4>1. t.at = "setEvent" /\ event' /\ batchDone' = batchDone BY <3>2 DEF SetEvent
      <4> QED BY <2>1, <2>2, <4>1, ToldHandler
    <3> QED BY <2>3, <3>1, <3>2 DEF HeartbeatSignal
  <2>4. CASE ~HeartbeatSignal(t)
    <3>1. UNCHANGED <<event, batchDone>> /\ t.at # "setEvent"
      BY <1>3, <2>4 DEF Heartbeat, HeartbeatTick, HeartbeatAnswer, HeartbeatUnavailable,
         HeartbeatTimeout, HeartbeatSuspect
    <3> QED BY <2>1, <2>2, <3>1, ToldHandler
  <2> QED BY <2>3, <2>4
<1>4. ASSUME NEW r \in reports, Report(r)
      PROVE  (phase' = "woken" => batchDone' \/ event') /\ UnrunBatchesAreTold'
  <2>1. UNCHANGED <<phase, ran, phantom, threads>>
    BY <1>4 DEF Report, ReportProbe, ReportMark, ReportSignal
  <2>2. \A u \in reports : u # r => u \in reports'
    BY <1>4 DEF Report, ReportProbe, ReportMark, ReportSignal, Mark, Moved, SetDone, SetEvent
  <2>3. CASE ReportSignal(r)
    <3>1. CASE SetDone(reports, r) /\ UNCHANGED event
      <4>1. r.at = "setDone" /\ batchDone' /\ event' = event
            /\ [r EXCEPT !.at = "setEvent"] \in threads' \union reports'
        BY <3>1 DEF SetDone, Moved
      <4> QED BY <2>1, <2>2, <4>1, ToldHandler
    <3>2. CASE SetEvent(reports, r) /\ UNCHANGED batchDone
      <4>1. r.at = "setEvent" /\ event' /\ batchDone' = batchDone BY <3>2 DEF SetEvent
      <4> QED BY <2>1, <2>2, <4>1, ToldHandler
    <3> QED BY <2>3, <3>1, <3>2 DEF ReportSignal
  <2>4. CASE ~ReportSignal(r)
    <3>1. UNCHANGED <<event, batchDone>> /\ r.at # "setEvent"
      BY <1>4, <2>4 DEF Report, ReportProbe, ReportMark
    <3> QED BY <2>1, <2>2, <3>1, ToldHandler
  <2> QED BY <2>3, <2>4
<1>5. CASE RunBatch BY <1>5 DEF RunBatch, ToldInv, UnrunBatchesAreTold, Told
<1>6. CASE Loop BY <1>6, ToldLoop
<1>7. CASE UNCHANGED vars BY <1>7 DEF vars, ToldInv, UnrunBatchesAreTold, Told
<1> QED BY <1>2, <1>3, <1>4, <1>5, <1>6, <1>7 DEF Next, RunOver

\* However many workers fail: a batch that nobody ran is credited only between the two steps
\* of a handler that tells of a failure, and from then on the failure is told, or is told
\* next, until recover() clears the flags and repeats the epoch (train_epoch, batch_done and
\* _failure_event).
THEOREM UnrunCorrect == Spec => []UnrunBatchesAreTold
<1>1. ToldInv => UnrunBatchesAreTold BY DEF ToldInv
<1> QED BY <1>1, ToldInvInit, ToldInvNext, PTL DEF Spec

--------------------
(* Slices. *)

\* What holds at 0 and goes on from i to i + 1 holds at n: else moving the
\* places where it holds one up would map them into fewer.
LEMMA Climb ==
  ASSUME NEW n \in Nat, NEW S \in SUBSET (0 .. n), 0 \in S,
         \A i \in S : i < n => i + 1 \in S
  PROVE  n \in S
<1> SUFFICES ASSUME n \notin S PROVE FALSE
  OBVIOUS
<1> DEFINE T == S \ {0}
           shift == [i \in S |-> i + 1]
<1>1. IsFiniteSet(S)
  <2>1. IsFiniteSet(0 .. n) BY FS_Interval
  <2> QED BY <2>1, FS_Subset
<1>2. IsFiniteSet(T) /\ Cardinality(T) = Cardinality(S) - 1 BY <1>1, FS_RemoveElement
<1>3. Cardinality(S) \in Nat BY <1>1, FS_CardinalityType
<1>4. \A i \in S : i \in Nat /\ i < n OBVIOUS
<1>5. shift \in [S -> T] BY <1>4
<1>6. PICK i, j \in S : i # j /\ shift[i] = shift[j]
  <2> HIDE DEF shift, T
  <2>1. Cardinality(T) < Cardinality(S) BY <1>2, <1>3
  <2> QED BY <1>1, <1>2, <1>5, <2>1, FS_PigeonHole, Zenon
<1> QED BY <1>4, <1>6

LEMMA FunctionIsSeq ==
  ASSUME NEW S, NEW n \in Nat, NEW s \in [1 .. n -> S]
  PROVE  s \in Seq(S) /\ Len(s) = n
OBVIOUS

\* A cut of the layers: every layer has one place in one slice.
Whole(p) ==
  /\ p \in Seq(Seq(Layer)) /\ Len(p) \in Nat \ {0}
  /\ \A i, j \in DOMAIN p : \A k \in DOMAIN p[i], m \in DOMAIN p[j] :
       p[i][k] = p[j][m] => i = j /\ k = m
  /\ \A l \in Layer : \E i \in DOMAIN p : \E k \in DOMAIN p[i] : p[i][k] = l

LEMMA LayerIsNat == NumLayers \in Nat \ {0} /\ \A l \in Layer : l \in Nat /\ 1 <= l /\ l <= NumLayers
BY CheckpointAssumption DEF Layer

LEMMA EndsFacts ==
  ASSUME NEW n \in Nat \ {0}, NEW last \in Ends(n)
  PROVE  /\ last \in [1 .. n -> Layer] /\ last[n] = NumLayers
         /\ \A i, j \in 1 .. n : i < j => last[i] < last[j]
         /\ \A i \in 1 .. n : /\ Before(last, i) \in 0 .. last[i] - 1
                              /\ \A j \in 1 .. n : j < i => last[j] <= Before(last, i)
<1>1. last \in [1 .. n -> Layer] /\ last[n] = NumLayers /\ \A i, j \in 1 .. n : i < j => last[i] < last[j]
  BY DEF Ends
<1>2. ASSUME NEW i \in 1 .. n PROVE Before(last, i) \in 0 .. last[i] - 1
  <2>1. last[i] \in Nat /\ 1 <= last[i] BY <1>1, LayerIsNat
  <2>2. CASE i = 1 BY <2>1, <2>2 DEF Before
  <2>3. CASE i # 1
    <3>1. i - 1 \in 1 .. n BY <2>3
    <3>2. last[i - 1] \in Nat /\ last[i - 1] < last[i] BY <3>1, <1>1, LayerIsNat
    <3> QED BY <2>1, <2>3, <3>2 DEF Before
  <2> QED BY <2>2, <2>3
<1>3. ASSUME NEW i \in 1 .. n, NEW j \in 1 .. n, j < i PROVE last[j] <= Before(last, i)
  <2>1. i # 1 /\ i - 1 \in 1 .. n /\ Before(last, i) = last[i - 1] BY <1>3 DEF Before
  <2>2. last[j] \in Nat /\ last[i - 1] \in Nat BY <1>1, <2>1, LayerIsNat
  <2> QED BY <1>1, <1>3, <2>1, <2>2
<1> QED BY <1>1, <1>2, <1>3

\* The slice of a layer: the first that ends at it or after it.
LEMMA SliceExists ==
  ASSUME NEW n \in Nat \ {0}, NEW last \in Ends(n), NEW l \in Layer
  PROVE  \E i \in 1 .. n : Before(last, i) < l /\ l <= last[i]
<1> SUFFICES ASSUME \A i \in 1 .. n : ~(Before(last, i) < l /\ l <= last[i]) PROVE FALSE
  OBVIOUS
<1> DEFINE S == {i \in 0 .. n : i = 0 \/ last[i] < l}
<1>1. ASSUME NEW i \in S, i < n PROVE i + 1 \in S
  <2>1. i + 1 \in 1 .. n BY <1>1
  <2>2. Before(last, i + 1) < l BY <1>1, <2>1, LayerIsNat DEF Before
  <2>3. last[i + 1] \in Nat /\ l \in Nat BY <2>1, EndsFacts, LayerIsNat
  <2> QED BY <2>1, <2>2, <2>3
<1>2. 0 \in S /\ S \in SUBSET (0 .. n) OBVIOUS
<1>3. n \in S
  <2> HIDE DEF S
  <2> QED BY <1>1, <1>2, Climb
<1> QED BY <1>3, EndsFacts, LayerIsNat

LEMMA SlicesToPlaces ==
  ASSUME NEW n \in Nat \ {0}, NEW last \in Ends(n)
  PROVE  LET p == SlicesTo(last)
         IN  /\ p \in Seq(Seq(Layer)) /\ Len(p) = n
             /\ \A i \in 1 .. n : /\ DOMAIN p[i] = 1 .. last[i] - Before(last, i)
                                  /\ \A k \in DOMAIN p[i] : p[i][k] = Before(last, i) + k
<1> DEFINE p == SlicesTo(last)
<1>1. p = [i \in 1 .. n |-> [k \in 1 .. last[i] - Before(last, i) |-> Before(last, i) + k]]
  BY EndsFacts DEF SlicesTo
<1>2. ASSUME NEW i \in 1 .. n PROVE p[i] \in Seq(Layer)
  <2>1. last[i] \in Layer /\ Before(last, i) \in 0 .. last[i] - 1 BY EndsFacts
  <2>2. last[i] - Before(last, i) \in Nat BY <2>1, LayerIsNat
  <2>3. \A k \in 1 .. last[i] - Before(last, i) : Before(last, i) + k \in Layer
    BY <2>1, LayerIsNat DEF Layer
  <2> QED BY <1>1, <2>2, <2>3, FunctionIsSeq
<1>3. p \in Seq(Seq(Layer)) /\ Len(p) = n BY <1>1, <1>2, FunctionIsSeq
<1> QED BY <1>1, <1>3

LEMMA PartitionIsWhole ==
  ASSUME NEW n \in Nat \ {0}, NEW p \in Partitions(n)
  PROVE  Whole(p) /\ Len(p) = n
<1>1. PICK last \in Ends(n) : p = SlicesTo(last) BY DEF Partitions
<1>2. p \in Seq(Seq(Layer)) /\ Len(p) = n /\ DOMAIN p = 1 .. n BY <1>1, SlicesToPlaces
<1>3. \A i \in 1 .. n : /\ DOMAIN p[i] = 1 .. last[i] - Before(last, i)
                        /\ \A k \in DOMAIN p[i] : p[i][k] = Before(last, i) + k
  BY <1>1, SlicesToPlaces
<1>4. ASSUME NEW i \in 1 .. n, NEW j \in 1 .. n, NEW k \in DOMAIN p[i], NEW m \in DOMAIN p[j],
             p[i][k] = p[j][m]
      PROVE  i = j /\ k = m
  <2>1. /\ k \in Nat /\ m \in Nat
        /\ Before(last, i) + k <= last[i] /\ Before(last, j) + m <= last[j] /\ 1 <= k /\ 1 <= m
        /\ Before(last, i) + k = Before(last, j) + m
        /\ Before(last, i) \in Nat /\ Before(last, j) \in Nat /\ last[i] \in Nat /\ last[j] \in Nat
    <3>1. /\ Before(last, i) \in 0 .. last[i] - 1 /\ Before(last, j) \in 0 .. last[j] - 1
          /\ last[i] \in Nat /\ last[j] \in Nat
      BY EndsFacts, LayerIsNat
    <3>2. /\ k \in 1 .. last[i] - Before(last, i) /\ p[i][k] = Before(last, i) + k
          /\ m \in 1 .. last[j] - Before(last, j) /\ p[j][m] = Before(last, j) + m
      BY <1>3
    <3>3. Before(last, i) + k = Before(last, j) + m BY <1>4, <3>2, Zenon
    <3>4. k \in Nat /\ 1 <= k /\ Before(last, i) + k <= last[i] BY <3>1, <3>2
    <3>5. m \in Nat /\ 1 <= m /\ Before(last, j) + m <= last[j] BY <3>1, <3>2
    <3> QED BY <3>1, <3>3, <3>4, <3>5
  <2>2. ~(i < j) BY <2>1, EndsFacts
  <2>3. ~(j < i) BY <2>1, EndsFacts
  <2> QED BY <2>1, <2>2, <2>3
<1>5. ASSUME NEW l \in Layer PROVE \E i \in 1 .. n : \E k \in DOMAIN p[i] : p[i][k] = l
  <2>1. PICK i \in 1 .. n : Before(last, i) < l /\ l <= last[i] BY SliceExists
  <2>2. Before(last, i) \in Nat /\ last[i] \in Nat /\ l \in Nat BY EndsFacts, LayerIsNat
  <2>3. l - Before(last, i) \in DOMAIN p[i] /\ p[i][l - Before(last, i)] = l BY <1>3, <2>1, <2>2
  <2> QED BY <2>3
<1> QED BY <1>2, <1>4, <1>5 DEF Whole

\* The slice that LET i == CHOOSE ... finds.
LEMMA SliceOfLayer ==
  ASSUME NEW p, Whole(p), NEW i \in DOMAIN p, NEW k \in DOMAIN p[i], NEW l, p[i][k] = l
  PROVE  /\ l \in Layer
         /\ (CHOOSE j \in DOMAIN p : l \in ToSet(p[j])) = i
         /\ (CHOOSE m \in DOMAIN p[i] : p[i][m] = l) = k
<1>1. p[i] \in Seq(Layer) /\ l \in Layer BY DEF Whole
<1>2. l \in ToSet(p[i]) BY DEF ToSet
<1>3. \A j \in DOMAIN p : l \in ToSet(p[j]) => j = i BY DEF Whole, ToSet
<1>4. \A m \in DOMAIN p[i] : p[i][m] = l => m = k BY DEF Whole
<1> QED BY <1>1, <1>2, <1>3, <1>4

LEMMA PlaceOfLayer ==
  ASSUME NEW p, Whole(p), NEW l \in Layer
  PROVE  \E i \in DOMAIN p : \E k \in DOMAIN p[i] : p[i][k] = l
BY DEF Whole

\* What a layer has after a file was loaded into its slice.
LEMMA LoadedLayer ==
  ASSUME NEW p, Whole(p), NEW i \in DOMAIN p, NEW k \in DOMAIN p[i], NEW l, p[i][k] = l
  PROVE  \A params, file :
           LoadInto(params, p[i], file)[l]
             = IF Fits(p[i], file, k) THEN file.weights[k] ELSE params[l]
<1> SUFFICES ASSUME NEW params, NEW file
             PROVE  LoadInto(params, p[i], file)[l]
                      = IF Fits(p[i], file, k) THEN file.weights[k] ELSE params[l]
  OBVIOUS
<1>1. l \in Layer /\ (CHOOSE m \in DOMAIN p[i] : p[i][m] = l) = k BY SliceOfLayer
<1>2. \A m \in DOMAIN p[i] : p[i][m] = l => m = k BY DEF Whole
<1>3. (\E m \in DOMAIN p[i] : p[i][m] = l /\ Fits(p[i], file, m)) <=> Fits(p[i], file, k)
  BY <1>2
<1> QED BY <1>1, <1>3 DEF LoadInto

--------------------
(* Two cuts of the same layers whose slices name the same parameters, as   *)
(* load_state_dict asks of a file. *)

LEMMA Least ==
  ASSUME NEW S \in SUBSET Nat, NEW k \in S
  PROVE  \E m \in S : \A x \in S : m <= x
<1> SUFFICES ASSUME \A m \in S : \E x \in S : x < m PROVE FALSE
  OBVIOUS
<1> DEFINE U == {i \in 0 .. k : \A x \in S : i <= x}
<1>1. 0 \in U /\ U \in SUBSET (0 .. k) OBVIOUS
<1>2. ASSUME NEW i \in U, i < k PROVE i + 1 \in U
  <2>1. i \notin S OBVIOUS
  <2> QED BY <1>2, <2>1
<1>3. k \in U
  <2> HIDE DEF U
  <2> QED BY <1>1, <1>2, Climb
<1> QED BY <1>3

\* One slice of each cut, from after b up to e.
LEMMA SameStart ==
  ASSUME NEW T \in SUBSET Nat, NEW bp \in Nat, NEW ep \in Nat, NEW bq \in Nat, NEW eq \in Nat,
         bp <= ep, bq <= eq, \A l \in T : l <= bp <=> l <= bq,
         \A k \in Nat \ {0} : bp + k <= ep /\ bp + k \in T <=> bq + k <= eq /\ bq + k \in T
  PROVE  /\ \A l \in T : l <= ep <=> l <= eq
         /\ \A l \in T : bp < l /\ l <= ep => bp = bq
<1> DEFINE S == {k \in Nat \ {0} : bp + k <= ep /\ bp + k \in T}
<1>1. S = {k \in Nat \ {0} : bq + k <= eq /\ bq + k \in T} OBVIOUS
<1>2. ASSUME NEW k \in S PROVE bp = bq
  <2>1. PICK m \in S : \A x \in S : m <= x
    <3> HIDE DEF S
    <3> S \in SUBSET Nat BY DEF S
    <3> QED BY <1>2, Least
  <2>2. CASE bp < bq
    <3>1. bp + m > bq OBVIOUS
    <3>2. bp + m - bq \in S
      <4>1. bp + m - bq \in Nat \ {0} /\ bq + (bp + m - bq) = bp + m BY <3>1
      <4>2. bq + m <= eq /\ bp + m \in T BY <1>1, <2>1
      <4> QED BY <1>1, <2>2, <4>1, <4>2
    <3> QED BY <2>1, <2>2, <3>2
  <2>3. CASE bq < bp
    <3>1. bq + m > bp BY <1>1, <2>1
    <3>2. bq + m - bp \in S
      <4>1. bq + m - bp \in Nat \ {0} /\ bp + (bq + m - bp) = bq + m BY <3>1
      <4>2. bp + m <= ep /\ bq + m \in T BY <1>1, <2>1
      <4> QED BY <2>3, <4>1, <4>2
    <3> QED BY <2>1, <2>3, <3>2
  <2> QED BY <2>2, <2>3
<1>3. ASSUME NEW l \in T PROVE /\ bp < l /\ l <= ep <=> l - bp \in S
                               /\ bq < l /\ l <= eq <=> l - bq \in S
  <2>1. bp < l /\ l <= ep <=> l - bp \in S OBVIOUS
  <2>2. bq < l /\ l <= eq <=> l - bq \in S BY <1>1
  <2> QED BY <2>1, <2>2
<1> HIDE DEF S
<1>4. CASE S = {} BY <1>3, <1>4
<1>5. CASE S # {} BY <1>2, <1>3, <1>5
<1> QED BY <1>4, <1>5

\* Slice by slice, the layers of T have the same places.
SamePlacesOf(T, m, n, last, old) ==
  \A i \in 1 .. m : i <= n => \A k \in Nat \ {0} :
    Before(last, i) + k <= last[i] /\ Before(last, i) + k \in T
      <=> Before(old, i) + k <= old[i] /\ Before(old, i) + k \in T

LEMMA SameSlices ==
  ASSUME NEW m \in Nat \ {0}, NEW n \in Nat \ {0}, NEW last \in Ends(m), NEW old \in Ends(n),
         NEW T \in SUBSET Layer, SamePlacesOf(T, m, n, last, old)
  PROVE  \A i \in 1 .. m : \A l \in T :
           Before(last, i) < l /\ l <= last[i] => i <= n /\ Before(last, i) = Before(old, i)
<1> DEFINE At(ends, i) == IF i = 0 THEN 0 ELSE ends[i]
           Agreed(i) == \A l \in T : l <= At(last, i) <=> l <= At(old, i)
<1>0. T \in SUBSET Nat BY LayerIsNat
<1>1. \A i \in 1 .. m : /\ last[i] \in Nat /\ Before(last, i) \in Nat /\ Before(last, i) <= last[i]
                        /\ Before(last, i) = At(last, i - 1)
  BY EndsFacts, LayerIsNat DEF Before
<1>2. \A i \in 1 .. n : /\ old[i] \in Nat /\ Before(old, i) \in Nat /\ Before(old, i) <= old[i]
                        /\ Before(old, i) = At(old, i - 1)
  BY EndsFacts, LayerIsNat DEF Before
<1>3. ASSUME NEW i \in 1 .. m, i <= n, Agreed(i - 1)
      PROVE  /\ Agreed(i)
             /\ \A l \in T : Before(last, i) < l /\ l <= last[i] => Before(last, i) = Before(old, i)
  <2>1. \A l \in T : l <= Before(last, i) <=> l <= Before(old, i) BY <1>1, <1>2, <1>3
  <2>2. /\ \A l \in T : l <= last[i] <=> l <= old[i]
        /\ \A l \in T : Before(last, i) < l /\ l <= last[i] => Before(last, i) = Before(old, i)
    <3>1. /\ last[i] \in Nat /\ Before(last, i) \in Nat /\ Before(last, i) <= last[i]
          /\ old[i] \in Nat /\ Before(old, i) \in Nat /\ Before(old, i) <= old[i]
      BY <1>1, <1>2, <1>3
    <3>2. \A k \in Nat \ {0} : Before(last, i) + k <= last[i] /\ Before(last, i) + k \in T
                                 <=> Before(old, i) + k <= old[i] /\ Before(old, i) + k \in T
      BY <1>3 DEF SamePlacesOf
    <3> DEFINE bp == Before(last, i)
               bq == Before(old, i)
               ep == last[i]
               eq == old[i]
    <3>3. bp \in Nat /\ bq \in Nat /\ ep \in Nat /\ eq \in Nat /\ bp <= ep /\ bq <= eq BY <3>1
    <3>4. \A l \in T : l <= bp <=> l <= bq BY <2>1
    <3>5. \A k \in Nat \ {0} : bp + k <= ep /\ bp + k \in T <=> bq + k <= eq /\ bq + k \in T
      BY <3>2
    <3> HIDE DEF bp, bq, ep, eq
    <3>6. /\ \A l \in T : l <= ep <=> l <= eq
          /\ \A l \in T : bp < l /\ l <= ep => bp = bq
      BY ONLY <1>0, <3>3, <3>4, <3>5, SameStart
    <3> QED BY <3>6 DEF bp, bq, ep, eq
  <2> QED BY <2>2
<1>4. ASSUME NEW c \in Nat, c <= m, c <= n PROVE Agreed(c)
  <2> DEFINE S == {i \in 0 .. c : Agreed(i)}
  <2>1. 0 \in S /\ S \in SUBSET (0 .. c) OBVIOUS
  <2>2. ASSUME NEW i \in S, i < c PROVE i + 1 \in S
    <3>1. i + 1 \in 1 .. m /\ i + 1 <= n /\ Agreed(i) /\ (i + 1) - 1 = i /\ i + 1 \in 0 .. c
      BY <1>4, <2>2
    <3> HIDE DEF Agreed
    <3> QED BY <1>3, <3>1
  <2>3. c \in S
    <3> HIDE DEF S
    <3> QED BY <2>1, <2>2, Climb
  <2> QED BY <2>3
<1>5. ASSUME NEW i \in 1 .. m, NEW l \in T, Before(last, i) < l, l <= last[i]
      PROVE  i <= n /\ Before(last, i) = Before(old, i)
  <2>1. CASE i <= n
    <3>1. Agreed(i - 1)
      <4> HIDE DEF Agreed
      <4> QED BY <1>4, <2>1
    <3> QED BY <1>3, <1>5, <2>1, <3>1
  <2>2. CASE n < i
    <3>1. Agreed(n) /\ n \in 1 .. m
      <4> HIDE DEF Agreed
      <4> QED BY <1>4, <2>2
    <3>2. l <= old[n] BY EndsFacts, LayerIsNat
    <3>3. l <= last[n] BY <3>1, <3>2
    <3>4. last[n] <= Before(last, i) BY <2>2, <3>1, EndsFacts
    <3> QED BY <1>0, <1>1, <1>5, <3>1, <3>3, <3>4
  <2> QED BY <2>1, <2>2
<1> QED BY <1>5

\* The trainable layers of a cut, if its slices name what those of another do,
\* are at the places they have there.
LEMMA SamePlaces ==
  ASSUME NEW m \in Nat \ {0}, NEW n \in Nat \ {0}, NEW p \in Partitions(m), NEW q \in Partitions(n),
         \A i \in 1 .. m : i <= n =>
            {k \in DOMAIN p[i] : p[i][k] \in Trainable} = {k \in DOMAIN q[i] : q[i][k] \in Trainable}
  PROVE  \A i \in 1 .. m : \A k \in DOMAIN p[i] :
           p[i][k] \in Trainable => i <= n /\ k \in DOMAIN q[i] /\ q[i][k] = p[i][k]
<1>1. PICK last \in Ends(m) : p = SlicesTo(last) BY DEF Partitions
<1>2. PICK old \in Ends(n) : q = SlicesTo(old) BY DEF Partitions
<1>3. \A i \in 1 .. m : /\ DOMAIN p[i] = 1 .. last[i] - Before(last, i)
                        /\ \A k \in DOMAIN p[i] : p[i][k] = Before(last, i) + k
  BY <1>1, SlicesToPlaces
<1>4. \A i \in 1 .. n : /\ DOMAIN q[i] = 1 .. old[i] - Before(old, i)
                        /\ \A k \in DOMAIN q[i] : q[i][k] = Before(old, i) + k
  BY <1>2, SlicesToPlaces
<1>5. /\ \A i \in 1 .. m : last[i] \in Nat /\ Before(last, i) \in Nat
      /\ \A i \in 1 .. n : old[i] \in Nat /\ Before(old, i) \in Nat
  BY EndsFacts, LayerIsNat
<1>6. ASSUME NEW i \in 1 .. m, i <= n, NEW k \in Nat \ {0}
      PROVE  Before(last, i) + k <= last[i] /\ Before(last, i) + k \in Trainable
               <=> Before(old, i) + k <= old[i] /\ Before(old, i) + k \in Trainable
  <2>1. i \in 1 .. n BY <1>6
  <2>2. Before(last, i) + k <= last[i] /\ Before(last, i) + k \in Trainable
          <=> k \in {x \in DOMAIN p[i] : p[i][x] \in Trainable}
    <3>0. last[i] \in Nat /\ Before(last, i) \in Nat /\ DOMAIN p[i] = 1 .. last[i] - Before(last, i)
      BY <1>3, <1>5
    <3>1. Before(last, i) + k <= last[i] <=> k \in DOMAIN p[i] BY <3>0
    <3>2. k \in DOMAIN p[i] => p[i][k] = Before(last, i) + k BY <1>3
    <3> QED BY <3>1, <3>2, Zenon
  <2>3. Before(old, i) + k <= old[i] /\ Before(old, i) + k \in Trainable
          <=> k \in {x \in DOMAIN q[i] : q[i][x] \in Trainable}
    <3>1. Before(old, i) + k <= old[i] <=> k \in DOMAIN q[i] BY <1>4, <1>5, <2>1
    <3>2. k \in DOMAIN q[i] => q[i][k] = Before(old, i) + k BY <1>4, <2>1
    <3> QED BY <3>1, <3>2, Zenon
  <2> QED BY <1>6, <2>2, <2>3, Zenon
<1>7. Trainable \in SUBSET Layer BY DEF Trainable
<1>8. \A i \in 1 .. m : \A l \in Trainable :
        Before(last, i) < l /\ l <= last[i] => i <= n /\ Before(last, i) = Before(old, i)
  <2>1. SamePlacesOf(Trainable, m, n, last, old) BY <1>6 DEF SamePlacesOf
  <2> QED BY <1>7, <2>1, SameSlices
<1>9. ASSUME NEW i \in 1 .. m, NEW k \in DOMAIN p[i], p[i][k] \in Trainable
      PROVE  i <= n /\ k \in DOMAIN q[i] /\ q[i][k] = p[i][k]
  <2>0. last[i] \in Nat /\ Before(last, i) \in Nat /\ DOMAIN p[i] = 1 .. last[i] - Before(last, i)
    BY <1>3, <1>5
  <2>1. k \in Nat \ {0} /\ p[i][k] = Before(last, i) + k /\ Before(last, i) + k <= last[i]
    BY <1>3, <2>0
  <2>2. i <= n /\ Before(last, i) = Before(old, i) BY <1>5, <1>8, <1>9, <2>1
  <2>3. k \in {x \in DOMAIN q[i] : q[i][x] \in Trainable} BY <1>9, <2>2
  <2> QED BY <1>4, <2>1, <2>2, <2>3
<1> QED BY <1>9

--------------------
(* The inductive invariant. *)

File == [state : {"missing", "torn", "whole"}, weights : Seq(Weights)]

Types ==
  /\ reliable \in BOOLEAN /\ again \in BOOLEAN
  /\ stage \in {"training", "failed", "gaveUp", "trained", "done", "resumed", "refused"}
  /\ epoch \in Epoch
  /\ tries \in 0 .. Retries + 1
  /\ Len(parts) \in 1 .. NumSlices /\ parts \in Partitions(Len(parts))
  /\ stored \in [Layer -> Weights]
  /\ live \in [Layer -> Weights]
  /\ files \in [1 .. NumSlices -> [Epoch -> File]]
  /\ layouts \in [Epoch -> Seq(Seq(Layer))]
  /\ \A e \in Epoch : \/ layouts[e] = <<>>
                      \/ Len(layouts[e]) \in 1 .. NumSlices /\ layouts[e] \in Partitions(Len(layouts[e]))
  /\ ended \in [0 .. NumEpochs -> [Layer -> Weights]]

\* Retries are counted from the first failure; the coordinator's copy is never
\* ahead of the epoch it starts, and no epoch ends ahead of itself.
Counted ==
  /\ stage = "training" => tries <= Retries
  /\ stage = "failed" => tries \in 1 .. Retries
  /\ stage \notin {"training", "failed", "gaveUp"} => epoch = NumEpochs
  /\ \A l \in Layer : stored[l].epochs < epoch
  /\ stage = "training" => \A l \in Layer : live[l].epochs < epoch
  /\ \A e \in 0 .. NumEpochs : \A l \in Layer : ended[e][l].epochs <= e

\* A layer only ever takes the parameters of a layer like it.
SameKinds(params) == \A l \in Layer : Kind[params[l].of] = Kind[l]
Alike == SameKinds(stored) /\ SameKinds(live) /\ \A e \in 0 .. NumEpochs : SameKinds(ended[e])

\* A file that can be read holds what its slice of that epoch ended with.
FilesAreOfTheirEpoch ==
  \A e \in Epoch : \A i \in 1 .. NumSlices :
    files[i][e] # Missing =>
      /\ i \in DOMAIN layouts[e]
      /\ files[i][e] # Torn => files[i][e] = SliceOf(ended[e], layouts[e][i])

OnlyFinishedEpochs ==
  /\ \A e \in Epoch \ Finished : layouts[e] = <<>>
  /\ \A e \in Finished : layouts[e] # <<>>

AllSaved ==
  reliable => \A e \in Epoch : \A i \in DOMAIN layouts[e] : files[i][e].state = "whole"

\* The slices of the last checkpoint are those the run still has, until the
\* first recovery of the epoch, and at the end of the run.
LastCut ==
  /\ epoch > 1 /\ ((stage = "training" /\ tries = 0) \/ (stage = "failed" /\ tries = 1))
       => parts = layouts[epoch - 1]
  /\ stage \in {"trained", "done"} => live = ended[NumEpochs] /\ parts = layouts[NumEpochs]

Own(params) == \A l \in Trainable : params[l].of = l /\ ~params[l].partial
Placed ==
  ~again => /\ Own(stored) /\ (stage = "training" => Own(live))
            /\ \A e \in 0 .. NumEpochs : Own(ended[e])

FirstEpoch == ended[0] = Fresh /\ (epoch = 1 => stored = Fresh)

IInv ==
  /\ Types /\ Counted /\ Alike /\ FilesAreOfTheirEpoch /\ OnlyFinishedEpochs /\ AllSaved
  /\ LastCut /\ Placed /\ FirstEpoch /\ AttemptsStartFromLastEpoch /\ ResumeIsWhole

--------------------
(* What is saved, loaded and restored. *)

LEMMA Cuts ==
  ASSUME Types
  PROVE  /\ Whole(parts) /\ parts # <<>> /\ Len(parts) \in 1 .. NumSlices
         /\ DOMAIN parts = 1 .. Len(parts) /\ DOMAIN parts \subseteq 1 .. NumSlices
         /\ \A e \in Epoch : layouts[e] # <<>> <=> DOMAIN layouts[e] # {}
         /\ \A e \in Epoch : layouts[e] # <<>> =>
              /\ Whole(layouts[e]) /\ DOMAIN layouts[e] \subseteq 1 .. NumSlices
<1>1. \A p : Len(p) \in 1 .. NumSlices /\ p \in Partitions(Len(p)) => Whole(p)
  BY PartitionIsWhole, CheckpointAssumption
<1>2. \A p : Whole(p) => DOMAIN p = 1 .. Len(p) /\ p # <<>> /\ DOMAIN p # {} BY DEF Whole
<1> QED BY <1>1, <1>2, CheckpointAssumption DEF Types

LEMMA SliceType ==
  ASSUME NEW params \in [Layer -> Weights], NEW p, Whole(p), NEW i \in DOMAIN p
  PROVE  /\ SliceOf(params, p[i]) \in File
         /\ SliceOf(params, p[i]).state = "whole"
         /\ DOMAIN SliceOf(params, p[i]).weights = DOMAIN p[i]
         /\ \A k \in DOMAIN p[i] : /\ p[i][k] \in Layer
                                    /\ SliceOf(params, p[i]).weights[k] = params[p[i][k]]
<1>1. p[i] \in Seq(Layer) BY DEF Whole
<1>2. Len(p[i]) \in Nat /\ DOMAIN p[i] = 1 .. Len(p[i]) /\ \A k \in DOMAIN p[i] : p[i][k] \in Layer
  BY <1>1
<1>3. [k \in DOMAIN p[i] |-> params[p[i][k]]] \in Seq(Weights) BY <1>2, FunctionIsSeq
<1> QED BY <1>2, <1>3 DEF SliceOf, File

LEMMA NoFile ==
  /\ Missing \in File /\ Torn \in File /\ Missing # Torn
  /\ DOMAIN Missing.weights = {} /\ DOMAIN Torn.weights = {}
  /\ Missing.state # "whole" /\ Torn.state # "whole"
BY EmptySeq DEF Missing, Torn, File

LEMMA FunctionTypes ==
  ASSUME Types
  PROVE  /\ stored \in [Layer -> Weights] /\ live \in [Layer -> Weights]
         /\ \A e \in Epoch : e \in 0 .. NumEpochs
         /\ \A e \in 0 .. NumEpochs : ended[e] \in [Layer -> Weights]
         /\ \A e \in Epoch : \A i \in 1 .. NumSlices : files[i][e] \in File
<1>1. ended \in [0 .. NumEpochs -> [Layer -> Weights]] BY DEF Types
<1>2. files \in [1 .. NumSlices -> [Epoch -> File]] BY DEF Types
<1>3. stored \in [Layer -> Weights] /\ live \in [Layer -> Weights] BY DEF Types
<1>4. \A e \in Epoch : e \in 0 .. NumEpochs BY CheckpointAssumption DEF Epoch
<1>5. \A e \in Epoch : \A i \in 1 .. NumSlices : files[i][e] \in File BY <1>2
<1>6. \A e \in 0 .. NumEpochs : ended[e] \in [Layer -> Weights] BY <1>1
<1> QED BY <1>3, <1>4, <1>5, <1>6

LEMMA SavedFiles ==
  ASSUME Types, NEW e \in Epoch, NEW params \in [Layer -> Weights], Save(e, params)
  PROVE  /\ layouts' = [layouts EXCEPT ![e] = parts]
         /\ files' \in [1 .. NumSlices -> [Epoch -> File]]
         /\ \A i \in 1 .. NumSlices : \A x \in Epoch :
              x # e \/ i \notin DOMAIN parts => files'[i][x] = files[i][x]
         /\ \A i \in DOMAIN parts :
              files'[i][e] \in {SliceOf(params, parts[i]), Torn, files[i][e]}
         /\ reliable => \A i \in DOMAIN parts : files'[i][e] = SliceOf(params, parts[i])
<1>1. layouts' = [layouts EXCEPT ![e] = parts] BY DEF Save, SaveLayout
<1>2. PICK outcome \in [DOMAIN parts -> SaveOutcomes] :
        files' = [i \in DOMAIN files |->
                  IF i \notin DOMAIN parts THEN files[i]
                  ELSE [files[i] EXCEPT ![e] =
                          CASE outcome[i] = "saved"  -> SliceOf(params, parts[i])
                            [] outcome[i] = "raised" -> @
                            [] outcome[i] = "cut"    -> Torn]]
  BY DEF Save
<1> DEFINE kept(i) == CASE outcome[i] = "saved"  -> SliceOf(params, parts[i])
                        [] outcome[i] = "raised" -> files[i][e]
                        [] outcome[i] = "cut"    -> Torn
<1>3. files \in [1 .. NumSlices -> [Epoch -> File]] BY DEF Types
<1>4. files' = [i \in 1 .. NumSlices |->
                  IF i \notin DOMAIN parts THEN files[i] ELSE [files[i] EXCEPT ![e] = kept(i)]]
  BY <1>2, <1>3
<1>5. ASSUME NEW i \in DOMAIN parts
      PROVE  /\ kept(i) \in {SliceOf(params, parts[i]), Torn, files[i][e]}
             /\ reliable => kept(i) = SliceOf(params, parts[i])
  BY DEF SaveOutcomes
<1>6. ASSUME NEW i \in DOMAIN parts PROVE i \in 1 .. NumSlices /\ kept(i) \in File
  <2>1. i \in 1 .. NumSlices BY Cuts
  <2>2. files[i][e] \in File BY <2>1, FunctionTypes
  <2>3. SliceOf(params, parts[i]) \in File BY Cuts, SliceType
  <2> QED BY <1>5, <2>1, <2>2, <2>3, NoFile
<1> HIDE DEF kept
<1>7. files' \in [1 .. NumSlices -> [Epoch -> File]] BY <1>3, <1>4, <1>6
<1>8. \A i \in DOMAIN parts : files'[i][e] = kept(i) BY <1>3, <1>4, <1>6
<1>9. ASSUME NEW i \in 1 .. NumSlices, NEW x \in Epoch, x # e \/ i \notin DOMAIN parts
      PROVE  files'[i][x] = files[i][x]
  BY <1>3, <1>4, <1>9
<1> QED BY <1>1, <1>5, <1>7, <1>8, <1>9

\* What is in the files of an epoch.
LEMMA FileContents ==
  ASSUME Types, FilesAreOfTheirEpoch, NEW e \in Epoch, NEW i \in 1 .. NumSlices,
         NEW k \in DOMAIN files[i][e].weights
  PROVE  /\ i \in DOMAIN layouts[e] /\ k \in DOMAIN layouts[e][i]
         /\ layouts[e][i][k] \in Layer
         /\ files[i][e].weights[k] = ended[e][layouts[e][i][k]]
<1>1. files[i][e] # Missing /\ files[i][e] # Torn BY NoFile
<1>2. i \in DOMAIN layouts[e] BY <1>1 DEF FilesAreOfTheirEpoch
<1>3. files[i][e] = SliceOf(ended[e], layouts[e][i]) BY <1>1 DEF FilesAreOfTheirEpoch
<1>4. layouts[e] # <<>> /\ Whole(layouts[e]) BY <1>2, Cuts
<1>5. ended[e] \in [Layer -> Weights] BY FunctionTypes
<1>6. /\ DOMAIN SliceOf(ended[e], layouts[e][i]).weights = DOMAIN layouts[e][i]
      /\ \A m \in DOMAIN layouts[e][i] :
           /\ layouts[e][i][m] \in Layer
           /\ SliceOf(ended[e], layouts[e][i]).weights[m] = ended[e][layouts[e][i][m]]
  BY <1>2, <1>4, <1>5, SliceType
<1> QED BY <1>2, <1>3, <1>6

LEMMA LoadedSlices ==
  ASSUME Types, Alike, FilesAreOfTheirEpoch, NEW e \in Epoch, NEW l \in Layer
  PROVE  \/ LoadAllSlices(e)[l] = stored[l]
         \/ \E m \in Layer : /\ Kind[ended[e][m].of] = Kind[l]
                             /\ LoadAllSlices(e)[l] = ended[e][m]
                             /\ parts = layouts[e] => m = l
<1> DEFINE tried == {i \in DOMAIN parts : \A j \in 1 .. i - 1 : ~SliceFails(j, e)}
<1>0. Whole(parts) /\ DOMAIN parts \subseteq 1 .. NumSlices BY Cuts
<1>1. PICK i \in DOMAIN parts : \E k \in DOMAIN parts[i] : parts[i][k] = l BY <1>0, PlaceOfLayer
<1>2. PICK k \in DOMAIN parts[i] : parts[i][k] = l BY <1>1
<1>3. LoadAllSlices(e)[l] = IF i \in tried THEN LoadInto(stored, parts[i], files[i][e])[l] ELSE stored[l]
  <2>1. (CHOOSE j \in DOMAIN parts : l \in ToSet(parts[j])) = i BY <1>0, <1>2, SliceOfLayer
  <2>2. LoadAllSlices(e) =
          [m \in Layer |->
             IF (CHOOSE j \in DOMAIN parts : m \in ToSet(parts[j])) \in tried
             THEN LoadInto(stored, parts[CHOOSE j \in DOMAIN parts : m \in ToSet(parts[j])],
                           files[CHOOSE j \in DOMAIN parts : m \in ToSet(parts[j])][e])[m]
             ELSE stored[m]]
    BY DEF LoadAllSlices
  <2> HIDE DEF tried
  <2> QED BY <2>1, <2>2, Zenon
<1>4. LoadInto(stored, parts[i], files[i][e])[l]
        = IF Fits(parts[i], files[i][e], k) THEN files[i][e].weights[k] ELSE stored[l]
  <2>1. \A file : LoadInto(stored, parts[i], file)[l]
                     = IF Fits(parts[i], file, k) THEN file.weights[k] ELSE stored[l]
    BY <1>0, <1>2, LoadedLayer
  <2> QED BY <2>1
<1>5. CASE i \in tried /\ Fits(parts[i], files[i][e], k)
  <2>1. k \in DOMAIN files[i][e].weights /\ Kind[l] = Kind[files[i][e].weights[k].of]
    BY <1>2, <1>5 DEF Fits
  <2>2. /\ layouts[e][i][k] \in Layer
        /\ files[i][e].weights[k] = ended[e][layouts[e][i][k]]
    BY <1>0, <2>1, FileContents
  <2>3. LoadAllSlices(e)[l] = ended[e][layouts[e][i][k]] BY <1>3, <1>4, <1>5, <2>2
  <2> QED BY <1>2, <2>1, <2>2, <2>3
<1> QED BY <1>3, <1>4, <1>5

LEMMA LoadedReliably ==
  ASSUME Types, Alike, FilesAreOfTheirEpoch, AllSaved, reliable,
         NEW e \in Epoch, parts = layouts[e], NEW l \in Layer
  PROVE  LoadAllSlices(e)[l] = ended[e][l]
<1>1. Whole(parts) /\ DOMAIN parts \subseteq 1 .. NumSlices BY Cuts
<1>2. ended[e] \in [Layer -> Weights] /\ SameKinds(ended[e]) BY FunctionTypes DEF Alike
<1>3. ASSUME NEW i \in DOMAIN parts
      PROVE  files[i][e].state = "whole" /\ files[i][e] = SliceOf(ended[e], parts[i])
  <2>1. files[i][e].state = "whole" BY DEF AllSaved
  <2>2. i \in 1 .. NumSlices /\ files[i][e] # Missing /\ files[i][e] # Torn
    BY <1>1, <2>1, NoFile
  <2> QED BY <2>1, <2>2 DEF FilesAreOfTheirEpoch
<1>4. ASSUME NEW i \in DOMAIN parts, NEW k \in DOMAIN parts[i]
      PROVE  /\ parts[i][k] \in Layer /\ k \in DOMAIN files[i][e].weights
             /\ files[i][e].weights[k] = ended[e][parts[i][k]]
             /\ Kind[files[i][e].weights[k].of] = Kind[parts[i][k]]
  <2>1. /\ DOMAIN SliceOf(ended[e], parts[i]).weights = DOMAIN parts[i]
        /\ parts[i][k] \in Layer
        /\ SliceOf(ended[e], parts[i]).weights[k] = ended[e][parts[i][k]]
    BY <1>1, <1>2, SliceType
  <2> QED BY <1>2, <1>3, <2>1 DEF SameKinds
<1>5. ASSUME NEW i \in DOMAIN parts PROVE ~SliceFails(i, e)
  BY <1>3, <1>4 DEF SliceFails, ShapesClash
<1>6. PICK i \in DOMAIN parts : \E k \in DOMAIN parts[i] : parts[i][k] = l BY <1>1, PlaceOfLayer
<1>7. PICK k \in DOMAIN parts[i] : parts[i][k] = l BY <1>6
<1>8. LoadAllSlices(e)[l] = LoadInto(stored, parts[i], files[i][e])[l]
  <2>1. \A j \in 1 .. i - 1 : j \in DOMAIN parts BY Cuts
  <2>2. (CHOOSE j \in DOMAIN parts : l \in ToSet(parts[j])) = i BY <1>1, <1>7, SliceOfLayer
  <2> QED BY <1>5, <2>1, <2>2 DEF LoadAllSlices
<1>9. Fits(parts[i], files[i][e], k) BY <1>4 DEF Fits
<1>10. LoadInto(stored, parts[i], files[i][e])[l]
         = IF Fits(parts[i], files[i][e], k) THEN files[i][e].weights[k] ELSE stored[l]
  <2>1. \A file : LoadInto(stored, parts[i], file)[l]
                     = IF Fits(parts[i], file, k) THEN file.weights[k] ELSE stored[l]
    BY <1>1, <1>7, LoadedLayer
  <2> QED BY <2>1
<1> QED BY <1>4, <1>7, <1>8, <1>9, <1>10

\* A save keeps every file true, if the epoch has no files yet or they are of
\* the same slices and weights.
LEMMA SaveKeeps ==
  ASSUME Types, FilesAreOfTheirEpoch, AllSaved,
         NEW e \in Epoch, NEW params \in [Layer -> Weights], Save(e, params),
         layouts[e] = <<>> \/ (layouts[e] = parts /\ ended[e] = params),
         ended'[e] = params, \A x \in Epoch : x # e => ended'[x] = ended[x],
         UNCHANGED reliable
  PROVE  FilesAreOfTheirEpoch' /\ AllSaved'
<1>1. layouts' = [layouts EXCEPT ![e] = parts] /\ layouts \in [Epoch -> Seq(Seq(Layer))]
  BY SavedFiles DEF Types
<1>2. \A x \in Epoch : layouts'[x] = IF x = e THEN parts ELSE layouts[x] BY <1>1
<1>3. /\ \A i \in 1 .. NumSlices : \A x \in Epoch :
           x # e \/ i \notin DOMAIN parts => files'[i][x] = files[i][x]
      /\ \A i \in DOMAIN parts :
           files'[i][e] \in {SliceOf(params, parts[i]), Torn, files[i][e]}
      /\ reliable => \A i \in DOMAIN parts : files'[i][e] = SliceOf(params, parts[i])
  BY SavedFiles
<1>4. Whole(parts) /\ DOMAIN parts \subseteq 1 .. NumSlices BY Cuts
<1>5. ASSUME NEW x \in Epoch, NEW i \in 1 .. NumSlices, files'[i][x] # Missing
      PROVE  /\ i \in DOMAIN layouts'[x]
             /\ files'[i][x] # Torn => files'[i][x] = SliceOf(ended'[x], layouts'[x][i])
  <2>1. CASE x # e BY <1>2, <1>3, <1>5, <2>1 DEF FilesAreOfTheirEpoch
  <2>2. CASE x = e /\ i \notin DOMAIN parts
    <3>1. files'[i][x] = files[i][x] BY <1>3, <2>2
    <3>2. i \in DOMAIN layouts[x] BY <1>5, <3>1 DEF FilesAreOfTheirEpoch
    <3> QED BY <2>2, <3>2
  <2>3. CASE x = e /\ i \in DOMAIN parts
    <3>1. layouts'[x] = parts /\ ended'[x] = params BY <1>2, <2>3
    <3>2. files'[i][x] \in {SliceOf(params, parts[i]), Torn, files[i][x]} BY <1>3, <2>3
    <3>3. CASE files'[i][x] = files[i][x]
      <4>1. /\ i \in DOMAIN layouts[x]
            /\ files[i][x] # Torn => files[i][x] = SliceOf(ended[x], layouts[x][i])
        BY <1>5, <3>3 DEF FilesAreOfTheirEpoch
      <4>2. layouts[x] = parts /\ ended[x] = params BY <2>3, <4>1
      <4> QED BY <2>3, <3>1, <3>3, <4>1, <4>2
    <3> QED BY <2>3, <3>1, <3>2, <3>3
  <2> QED BY <2>1, <2>2, <2>3
<1>6. ASSUME reliable, NEW x \in Epoch, NEW i \in DOMAIN layouts'[x]
      PROVE  files'[i][x].state = "whole"
  <2>1. CASE x # e
    <3>1. i \in DOMAIN layouts[x] BY <1>2, <2>1
    <3>2. i \in 1 .. NumSlices BY <3>1, Cuts
    <3> QED BY <1>3, <1>6, <2>1, <3>1, <3>2 DEF AllSaved
  <2>2. CASE x = e
    <3>1. i \in DOMAIN parts /\ files'[i][x] = SliceOf(params, parts[i])
      BY <1>2, <1>3, <1>6, <2>2
    <3> QED BY <1>4, <3>1, SliceType
  <2> QED BY <2>1, <2>2
<1> QED BY <1>5, <1>6 DEF FilesAreOfTheirEpoch, AllSaved

--------------------
(* The invariant, action by action. *)

LEMMA PartsType ==
  ASSUME NEW p, NEW n \in 1 .. NumSlices, p \in Partitions(n)
  PROVE  Len(p) \in 1 .. NumSlices /\ p \in Partitions(Len(p)) /\ p \in Seq(Seq(Layer)) /\ p # <<>>
<1>1. n \in Nat \ {0} BY CheckpointAssumption
<1>2. Whole(p) /\ Len(p) = n BY <1>1, PartitionIsWhole
<1> QED BY <1>1, <1>2 DEF Whole

LEMMA FreshFacts ==
  /\ Fresh \in [Layer -> Weights] /\ SameKinds(Fresh) /\ Own(Fresh)
  /\ \A l \in Layer : Fresh[l].epochs = 0
<1>1. 0 \in 0 .. NumEpochs BY CheckpointAssumption
<1>2. \A l \in Layer : Fresh[l] = [of |-> l, epochs |-> 0, partial |-> FALSE] BY DEF Fresh
<1>3. Fresh \in [Layer -> Weights] BY <1>1 DEF Fresh, Weights
<1> QED BY <1>2, <1>3 DEF SameKinds, Own, Trainable

LEMMA Initial == CheckpointInit => IInv
<1> SUFFICES ASSUME CheckpointInit PROVE IInv
  OBVIOUS
<1>0. /\ NumSlices \in 1 .. NumSlices /\ 1 \in Epoch /\ 0 \in 0 .. NumEpochs
      /\ Epoch \subseteq 0 .. NumEpochs /\ <<>> \in Seq(Seq(Layer)) /\ DOMAIN <<>> = {}
  BY CheckpointAssumption, EmptySeq DEF Epoch
<1>1. Finished = {} BY DEF CheckpointInit, Finished
<1>2. /\ \A i \in 1 .. NumSlices, e \in Epoch : files[i][e] = Missing
      /\ \A e \in Epoch : layouts[e] = <<>>
      /\ \A e \in 0 .. NumEpochs : ended[e] = Fresh
  BY DEF CheckpointInit
<1>3. Types
  <2>1. Len(parts) \in 1 .. NumSlices /\ parts \in Partitions(Len(parts))
    BY <1>0, PartsType DEF CheckpointInit
  <2>2. files \in [1 .. NumSlices -> [Epoch -> File]] BY NoFile DEF CheckpointInit
  <2>3. layouts \in [Epoch -> Seq(Seq(Layer))] BY <1>0 DEF CheckpointInit
  <2>4. ended \in [0 .. NumEpochs -> [Layer -> Weights]] BY FreshFacts DEF CheckpointInit
  <2>5. tries \in 0 .. Retries + 1 BY CheckpointAssumption DEF CheckpointInit
  <2> QED BY <1>0, <1>2, <2>1, <2>2, <2>3, <2>4, <2>5, FreshFacts DEF CheckpointInit, Types
<1>4. Counted BY <1>2, FreshFacts, CheckpointAssumption DEF CheckpointInit, Counted
<1>5. Alike BY <1>2, FreshFacts DEF CheckpointInit, Alike
<1>6. FilesAreOfTheirEpoch /\ OnlyFinishedEpochs /\ AllSaved
  BY <1>0, <1>1, <1>2 DEF FilesAreOfTheirEpoch, OnlyFinishedEpochs, AllSaved
<1>7. LastCut /\ Placed /\ FirstEpoch
  BY <1>0, <1>2, FreshFacts DEF CheckpointInit, LastCut, Placed, FirstEpoch
<1>8. AttemptsStartFromLastEpoch /\ ResumeIsWhole
  BY <1>0, <1>2 DEF CheckpointInit, AttemptsStartFromLastEpoch, ResumeIsWhole, Agree
<1> QED BY <1>3, <1>4, <1>5, <1>6, <1>7, <1>8 DEF IInv

LEMMA EpochFacts ==
  ASSUME Types
  PROVE  /\ epoch \in Nat /\ 1 <= epoch /\ epoch <= NumEpochs /\ NumEpochs \in Nat
         /\ \A e \in Epoch : e \in Nat /\ 1 <= e /\ e <= NumEpochs
         /\ \A e : e \in Finished => e \in Epoch
         /\ stage \in {"training", "failed", "gaveUp"} => Finished = 1 .. epoch - 1
         /\ stage \notin {"training", "failed", "gaveUp"} => Finished = (1 .. epoch - 1) \cup {NumEpochs}
BY CheckpointAssumption DEF Types, Epoch, Finished

LEMMA TrainEpochKeeps == IInv /\ TrainEpoch => IInv'
<1> SUFFICES ASSUME IInv, TrainEpoch PROVE IInv'
  OBVIOUS
<1>0. /\ Types /\ Counted /\ Alike /\ FilesAreOfTheirEpoch /\ OnlyFinishedEpochs /\ AllSaved
      /\ LastCut /\ Placed /\ FirstEpoch /\ AttemptsStartFromLastEpoch /\ ResumeIsWhole
  BY DEF IInv
<1>1. /\ stage = "training" /\ live' = Trained /\ ended' = [ended EXCEPT ![epoch] = Trained]
      /\ Save(epoch, Trained) /\ tries' = 0
      /\ reliable' = reliable /\ parts' = parts /\ stored' = stored /\ again' = again
  BY DEF TrainEpoch
<1>2. \/ epoch < NumEpochs /\ epoch' = epoch + 1 /\ stage' = "training"
      \/ epoch = NumEpochs /\ epoch' = epoch /\ stage' = "trained"
  BY <1>0, EpochFacts DEF TrainEpoch
<1>3. epoch \in Nat /\ 1 <= epoch /\ epoch <= NumEpochs /\ NumEpochs \in Nat /\ epoch \in Epoch
  BY <1>0, EpochFacts DEF Types
<1>4. ASSUME NEW l \in Layer
      PROVE  /\ Trained[l] \in Weights /\ Trained[l].of = live[l].of /\ Trained[l].partial = live[l].partial
             /\ Trained[l].epochs = live[l].epochs + 1 /\ Trained[l].epochs <= epoch
  <2>1. live[l] \in [of : Layer, epochs : 0 .. NumEpochs, partial : BOOLEAN] /\ live[l].epochs < epoch
    BY <1>0, <1>1 DEF Types, Weights, Counted
  <2>2. Trained[l] = [live[l] EXCEPT !.epochs = live[l].epochs + 1] BY DEF Trained
  <2>3. live[l].epochs \in Nat /\ live[l].epochs + 1 \in 0 .. NumEpochs /\ live[l].epochs + 1 <= epoch
    BY <1>3, <2>1
  <2> QED BY <2>1, <2>2, <2>3 DEF Weights
<1>5. Trained \in [Layer -> Weights] BY <1>4 DEF Trained
<1>6. ended \in [0 .. NumEpochs -> [Layer -> Weights]] BY <1>0 DEF Types
<1>7. ended'[epoch] = Trained /\ \A e \in 0 .. NumEpochs : e # epoch => ended'[e] = ended[e]
  BY <1>1, <1>3, <1>6
<1>8. Finished = 1 .. epoch - 1 /\ Finished' = 1 .. epoch
  BY <1>0, <1>1, <1>2, <1>3, EpochFacts DEF Finished
<1>9. layouts' = [layouts EXCEPT ![epoch] = parts] /\ layouts \in [Epoch -> Seq(Seq(Layer))]
  BY <1>0, <1>1, <1>3, <1>5, SavedFiles DEF Types
<1>10. /\ layouts[epoch] = <<>>
       /\ \A e \in Epoch : layouts'[e] = IF e = epoch THEN parts ELSE layouts[e]
  BY <1>0, <1>3, <1>8, <1>9 DEF OnlyFinishedEpochs
<1>11. parts # <<>> BY <1>0, Cuts
<1>12. Types'
  <2>1. files' \in [1 .. NumSlices -> [Epoch -> File]] BY <1>0, <1>1, <1>3, <1>5, SavedFiles
  <2>2. parts \in Seq(Seq(Layer)) /\ Len(parts) \in 1 .. NumSlices /\ parts \in Partitions(Len(parts))
    BY <1>0, Cuts DEF Types, Whole
  <2>3. layouts' \in [Epoch -> Seq(Seq(Layer))] BY <1>9, <2>2
  <2>4. ended' \in [0 .. NumEpochs -> [Layer -> Weights]] BY <1>1, <1>5, <1>6
  <2>5. epoch' \in Epoch /\ tries' \in 0 .. Retries + 1
    BY <1>1, <1>2, <1>3, CheckpointAssumption DEF Epoch
  <2>6. \A e \in Epoch : \/ layouts'[e] = <<>>
                         \/ Len(layouts'[e]) \in 1 .. NumSlices /\ layouts'[e] \in Partitions(Len(layouts'[e]))
    BY <1>0, <1>10, <2>2 DEF Types
  <2> QED BY <1>0, <1>1, <1>2, <1>5, <2>1, <2>2, <2>3, <2>4, <2>5, <2>6 DEF Types
<1>13. Counted'
  <2>1. \A e \in 0 .. NumEpochs : \A l \in Layer : ended'[e][l].epochs <= e
    BY <1>0, <1>4, <1>7 DEF Counted
  <2>2. \A l \in Layer : stored'[l].epochs < epoch' /\ (stage' = "training" => live'[l].epochs < epoch')
    <3> SUFFICES ASSUME NEW l \in Layer
                 PROVE  stored[l].epochs < epoch' /\ (stage' = "training" => Trained[l].epochs < epoch')
      BY <1>1
    <3>1. stored[l].epochs < epoch /\ stored[l].epochs \in Nat
      BY <1>0 DEF Counted, Types, Weights
    <3>2. Trained[l].epochs <= epoch /\ Trained[l].epochs \in Nat BY <1>4 DEF Weights
    <3> QED BY <1>2, <1>3, <3>1, <3>2
  <2> QED BY <1>1, <1>2, <2>1, <2>2, CheckpointAssumption DEF Counted
<1>14. Alike'
  <2>1. SameKinds(Trained) BY <1>0, <1>4 DEF Alike, SameKinds
  <2>2. \A e \in 0 .. NumEpochs : SameKinds(ended'[e]) BY <1>0, <1>7, <2>1 DEF Alike
  <2> QED BY <1>0, <1>1, <2>1, <2>2 DEF Alike, SameKinds
<1>15. FilesAreOfTheirEpoch' /\ AllSaved'
  <2>1. \A x \in Epoch : x # epoch => ended'[x] = ended[x] BY <1>0, <1>7, FunctionTypes
  <2> QED BY <1>0, <1>1, <1>3, <1>5, <1>7, <1>10, <2>1, SaveKeeps
<1>16. OnlyFinishedEpochs' BY <1>0, <1>3, <1>8, <1>10, <1>11, EpochFacts DEF OnlyFinishedEpochs
<1>17. LastCut' BY <1>1, <1>2, <1>3, <1>7, <1>10 DEF LastCut
<1>18. Placed'
  <2>1. Own(live) => Own(Trained) BY <1>4 DEF Own, Trainable
  <2>2. ~again => Own(stored) /\ Own(Trained) /\ \A e \in 0 .. NumEpochs : Own(ended'[e])
    BY <1>0, <1>1, <1>7, <2>1 DEF Placed
  <2> QED BY <1>1, <2>2 DEF Placed, Own
<1>19. FirstEpoch'
  <2>1. ended'[0] = ended[0] BY <1>3, <1>7
  <2> QED BY <1>0, <1>1, <1>2, <1>3, <2>1 DEF FirstEpoch
<1>20. AttemptsStartFromLastEpoch'
  <2>1. stage' = "training" => live' = ended'[epoch' - 1] BY <1>1, <1>2, <1>3, <1>7
  <2> QED BY <2>1 DEF AttemptsStartFromLastEpoch, Agree
<1>21. ResumeIsWhole' BY <1>2 DEF ResumeIsWhole
<1> QED BY <1>12, <1>13, <1>14, <1>15, <1>16, <1>17, <1>18, <1>19, <1>20, <1>21 DEF IInv

LEMMA FailEpochKeeps == IInv /\ FailEpoch => IInv'
<1> SUFFICES ASSUME IInv, FailEpoch PROVE IInv'
  OBVIOUS
<1>0. /\ Types /\ Counted /\ Alike /\ FilesAreOfTheirEpoch /\ OnlyFinishedEpochs /\ AllSaved
      /\ LastCut /\ Placed /\ FirstEpoch /\ AttemptsStartFromLastEpoch /\ ResumeIsWhole
  BY DEF IInv
<1>1. /\ stage = "training" /\ live' = [l \in Layer |-> [live[l] EXCEPT !.partial = TRUE]]
      /\ tries' = tries + 1
      /\ UNCHANGED <<reliable, epoch, parts, stored, files, layouts, ended, again>>
  BY DEF FailEpoch
<1>2. \/ stage' = "failed" /\ tries' \in 1 .. Retries
      \/ stage' = "gaveUp" /\ tries' = Retries + 1
  <2>1. tries \in Nat /\ tries <= Retries /\ Retries \in Nat
    BY <1>0, <1>1, CheckpointAssumption DEF Types, Counted
  <2> QED BY <1>1, <2>1 DEF FailEpoch
<1>3. Types'
  <2>1. live' \in [Layer -> Weights]
    <3>1. ASSUME NEW w \in Weights PROVE [w EXCEPT !.partial = TRUE] \in Weights
      BY DEF Weights
    <3>2. \A l \in Layer : live[l] \in Weights BY <1>0 DEF Types
    <3> QED BY <1>1, <3>1, <3>2
  <2>2. tries' \in 0 .. Retries + 1 BY <1>2, CheckpointAssumption
  <2> QED BY <1>0, <1>1, <1>2, <2>1, <2>2 DEF Types
<1>4. Counted' BY <1>0, <1>1, <1>2 DEF Counted
<1>5. Alike'
  <2>1. \A l \in Layer : live'[l].of = live[l].of
    <3>1. live \in [Layer -> [of : Layer, epochs : 0 .. NumEpochs, partial : BOOLEAN]]
      BY <1>0 DEF Types, Weights
    <3> QED BY <1>1, <3>1
  <2>2. SameKinds(live') BY <1>0, <2>1 DEF Alike, SameKinds
  <2> QED BY <1>0, <1>1, <2>2 DEF Alike, SameKinds
<1>6. FilesAreOfTheirEpoch' /\ AllSaved' BY <1>0, <1>1 DEF FilesAreOfTheirEpoch, AllSaved
<1>7. OnlyFinishedEpochs' BY <1>0, <1>1, <1>2 DEF OnlyFinishedEpochs, Finished
<1>8. LastCut'
  <2>1. tries \in Nat BY <1>0, CheckpointAssumption DEF Types
  <2> QED BY <1>0, <1>1, <1>2, <2>1 DEF LastCut
<1>9. Placed' BY <1>0, <1>1, <1>2 DEF Placed, Own
<1>10. FirstEpoch' /\ AttemptsStartFromLastEpoch' /\ ResumeIsWhole'
  BY <1>0, <1>1, <1>2 DEF FirstEpoch, AttemptsStartFromLastEpoch, ResumeIsWhole
<1> QED BY <1>3, <1>4, <1>5, <1>6, <1>7, <1>8, <1>9, <1>10 DEF IInv

LEMMA RecoverKeeps == IInv /\ RecoverLayers => IInv'
<1> SUFFICES ASSUME IInv, RecoverLayers PROVE IInv'
  OBVIOUS
<1>0. /\ Types /\ Counted /\ Alike /\ FilesAreOfTheirEpoch /\ OnlyFinishedEpochs /\ AllSaved
      /\ LastCut /\ Placed /\ FirstEpoch /\ AttemptsStartFromLastEpoch /\ ResumeIsWhole
  BY DEF IInv
<1>1. /\ stage = "failed" /\ stage' = "training" /\ live' = stored'
      /\ stored' = IF epoch > 1 THEN LoadAllSlices(epoch - 1) ELSE stored
      /\ again' = (again \/ (epoch > 1 /\ tries > 1))
      /\ UNCHANGED <<reliable, epoch, tries, files, layouts, ended>>
      /\ \E survivors \in 1 .. Len(parts) - 1 : parts' \in Partitions(survivors)
  BY DEF RecoverLayers
<1>2. /\ epoch \in Nat /\ 1 <= epoch /\ epoch <= NumEpochs /\ NumEpochs \in Nat
      /\ tries \in Nat /\ 1 <= tries /\ tries <= Retries
      /\ epoch > 1 => epoch - 1 \in Epoch
      /\ epoch - 1 \in 0 .. NumEpochs
  <2>1. epoch \in Nat /\ 1 <= epoch /\ epoch <= NumEpochs /\ NumEpochs \in Nat
    BY <1>0, EpochFacts
  <2>2. tries \in Nat /\ 1 <= tries /\ tries <= Retries
    BY <1>0, <1>1, CheckpointAssumption DEF Counted
  <2> QED BY <2>1, <2>2 DEF Epoch
<1>once. ~again' => ~again /\ (epoch > 1 => tries = 1)
  <2>1. ~again' => ~again /\ ~(epoch > 1 /\ tries > 1) BY <1>1, Zenon
  <2> QED BY <1>2, <2>1
<1>3. PICK survivors \in 1 .. NumSlices : parts' \in Partitions(survivors)
  <2>1. Len(parts) \in 1 .. NumSlices BY <1>0 DEF Types
  <2>2. \A n \in 1 .. Len(parts) - 1 : n \in 1 .. NumSlices BY <2>1, CheckpointAssumption
  <2> QED BY <1>1, <2>2
<1>4. /\ stored \in [Layer -> Weights]
      /\ \A e \in 0 .. NumEpochs : ended[e] \in [Layer -> Weights]
  BY <1>0, FunctionTypes
\* What the coordinator's copy of a layer becomes.
<1>5. ASSUME NEW l \in Layer
      PROVE  \/ stored'[l] = stored[l]
             \/ /\ epoch > 1
                /\ \E m \in Layer : /\ Kind[ended[epoch - 1][m].of] = Kind[l]
                                    /\ stored'[l] = ended[epoch - 1][m]
                                    /\ tries = 1 => m = l
  <2>1. CASE epoch > 1
    <3>1. tries = 1 => parts = layouts[epoch - 1] BY <1>0, <1>1, <2>1 DEF LastCut
    <3>2. \/ LoadAllSlices(epoch - 1)[l] = stored[l]
          \/ \E m \in Layer : /\ Kind[ended[epoch - 1][m].of] = Kind[l]
                              /\ LoadAllSlices(epoch - 1)[l] = ended[epoch - 1][m]
                              /\ parts = layouts[epoch - 1] => m = l
      BY <1>0, <1>2, <2>1, LoadedSlices
    <3> QED BY <1>1, <2>1, <3>1, <3>2
  <2> QED BY <1>1, <2>1
<1>6. stored' \in [Layer -> Weights]
  <2>0. \A e : LoadAllSlices(e) = [l \in Layer |-> LoadAllSlices(e)[l]] BY DEF LoadAllSlices
  <2>1. stored' = [l \in Layer |-> stored'[l]]
    <3>1. stored' = stored \/ stored' = LoadAllSlices(epoch - 1) BY <1>1
    <3> QED BY <1>4, <2>0, <3>1
  <2>2. \A l \in Layer : stored'[l] \in Weights BY <1>2, <1>4, <1>5
  <2> QED BY <2>1, <2>2
<1>7. Types'
  <2>1. Len(parts') \in 1 .. NumSlices /\ parts' \in Partitions(Len(parts')) BY <1>3, PartsType
  <2>2. again' \in BOOLEAN BY <1>1
  <2> QED BY <1>0, <1>1, <1>6, <2>1, <2>2 DEF Types
<1>8. Counted'
  <2>1. \A l \in Layer : stored'[l].epochs < epoch
    <3> SUFFICES ASSUME NEW l \in Layer PROVE stored'[l].epochs < epoch
      OBVIOUS
    <3>1. stored[l].epochs < epoch BY <1>0 DEF Counted
    <3>2. \A m \in Layer : ended[epoch - 1][m].epochs \in Nat /\ ended[epoch - 1][m].epochs <= epoch - 1
      BY <1>0, <1>2, <1>4 DEF Counted, Weights
    <3> QED BY <1>2, <1>5, <3>1, <3>2
  <2> QED BY <1>0, <1>1, <1>2, <2>1 DEF Counted
<1>9. Alike'
  <2>1. SameKinds(stored') BY <1>0, <1>5 DEF Alike, SameKinds
  <2> QED BY <1>0, <1>1, <2>1 DEF Alike, SameKinds
<1>10. FilesAreOfTheirEpoch' /\ AllSaved' BY <1>0, <1>1 DEF FilesAreOfTheirEpoch, AllSaved
<1>11. OnlyFinishedEpochs' BY <1>0, <1>1 DEF OnlyFinishedEpochs, Finished
<1>12. LastCut' BY <1>1, <1>2 DEF LastCut
<1>13. Placed'
  <2> SUFFICES ASSUME ~again' PROVE Own(stored') /\ \A e \in 0 .. NumEpochs : Own(ended[e])
    BY <1>1 DEF Placed, Own
  <2>1. ~again /\ (epoch > 1 => tries = 1) BY <1>once
  <2>2. Own(stored) /\ \A e \in 0 .. NumEpochs : Own(ended[e]) BY <1>0, <2>1 DEF Placed
  <2>3. \A l \in Layer : stored'[l] = stored[l] \/ stored'[l] = ended[epoch - 1][l]
    BY <1>5, <2>1
  <2> QED BY <1>2, <2>2, <2>3 DEF Own, Trainable
<1>14. FirstEpoch' BY <1>0, <1>1 DEF FirstEpoch
<1>15. AttemptsStartFromLastEpoch'
  <2> SUFFICES ASSUME reliable, ~again', NEW l \in Layer PROVE stored'[l] = ended[epoch - 1][l]
    BY <1>1 DEF AttemptsStartFromLastEpoch, Agree, Trainable
  <2>1. CASE epoch > 1
    <3>1. parts = layouts[epoch - 1] BY <1>0, <1>1, <1>once, <2>1 DEF LastCut
    <3>2. LoadAllSlices(epoch - 1)[l] = ended[epoch - 1][l]
      BY <1>0, <1>2, <2>1, <3>1, LoadedReliably
    <3> QED BY <1>1, <2>1, <3>2
  <2>2. CASE epoch = 1 BY <1>0, <1>1, <2>2 DEF FirstEpoch
  <2> QED BY <1>2, <2>1, <2>2
<1>16. ResumeIsWhole' BY <1>1 DEF ResumeIsWhole
<1> QED BY <1>7, <1>8, <1>9, <1>10, <1>11, <1>12, <1>13, <1>14, <1>15, <1>16 DEF IInv

LEMMA NobodyLeftKeeps == IInv /\ NobodyLeft => IInv'
<1> SUFFICES ASSUME IInv, NobodyLeft PROVE IInv'
  OBVIOUS
<1>0. /\ Types /\ Counted /\ Alike /\ FilesAreOfTheirEpoch /\ OnlyFinishedEpochs /\ AllSaved
      /\ LastCut /\ Placed /\ FirstEpoch /\ AttemptsStartFromLastEpoch /\ ResumeIsWhole
  BY DEF IInv
<1>1. /\ stage = "failed" /\ stage' = "gaveUp"
      /\ UNCHANGED <<reliable, epoch, tries, parts, stored, live, files, layouts, ended, again>>
  BY DEF NobodyLeft
<1>2. Types' /\ Counted' BY <1>0, <1>1 DEF Types, Counted
<1>3. Alike' /\ FilesAreOfTheirEpoch' /\ AllSaved'
  BY <1>0, <1>1 DEF Alike, SameKinds, FilesAreOfTheirEpoch, AllSaved
<1>4. OnlyFinishedEpochs' BY <1>0, <1>1 DEF OnlyFinishedEpochs, Finished
<1>5. LastCut' /\ Placed' /\ FirstEpoch' /\ AttemptsStartFromLastEpoch' /\ ResumeIsWhole'
  BY <1>0, <1>1 DEF LastCut, Placed, Own, FirstEpoch, AttemptsStartFromLastEpoch, ResumeIsWhole
<1> QED BY <1>2, <1>3, <1>4, <1>5 DEF IInv

LEMMA TeardownKeeps == IInv /\ Teardown => IInv'
<1> SUFFICES ASSUME IInv, Teardown PROVE IInv'
  OBVIOUS
<1>0. /\ Types /\ Counted /\ Alike /\ FilesAreOfTheirEpoch /\ OnlyFinishedEpochs /\ AllSaved
      /\ LastCut /\ Placed /\ FirstEpoch /\ AttemptsStartFromLastEpoch /\ ResumeIsWhole
  BY DEF IInv
<1>1. /\ stage = "trained" /\ stage' = "done" /\ Save(NumEpochs, live)
      /\ UNCHANGED <<reliable, epoch, tries, parts, stored, live, ended, again>>
  BY DEF Teardown
<1>2. NumEpochs \in Epoch BY CheckpointAssumption DEF Epoch
<1>3. live = ended[NumEpochs] /\ parts = layouts[NumEpochs] /\ live \in [Layer -> Weights]
  BY <1>0, <1>1, FunctionTypes DEF LastCut
<1>4. layouts' = layouts
  <2>1. layouts' = [layouts EXCEPT ![NumEpochs] = parts] /\ layouts \in [Epoch -> Seq(Seq(Layer))]
    BY <1>0, <1>1, <1>2, <1>3, SavedFiles DEF Types
  <2> QED BY <1>3, <2>1
<1>5. FilesAreOfTheirEpoch' /\ AllSaved' BY <1>0, <1>1, <1>2, <1>3, SaveKeeps
<1>6. Types'
  <2>1. files' \in [1 .. NumSlices -> [Epoch -> File]] BY <1>0, <1>1, <1>2, <1>3, SavedFiles
  <2> QED BY <1>0, <1>1, <1>4, <2>1 DEF Types
<1>7. Counted' /\ Alike' BY <1>0, <1>1 DEF Counted, Alike, SameKinds
<1>8. OnlyFinishedEpochs' BY <1>0, <1>1, <1>4 DEF OnlyFinishedEpochs, Finished
<1>9. LastCut' /\ Placed' /\ FirstEpoch' /\ AttemptsStartFromLastEpoch' /\ ResumeIsWhole'
  BY <1>0, <1>1, <1>4 DEF LastCut, Placed, Own, FirstEpoch, AttemptsStartFromLastEpoch, ResumeIsWhole
<1> QED BY <1>5, <1>6, <1>7, <1>8, <1>9 DEF IInv

\* What a run that resumes loads into a layer.
LEMMA ResumedLayer ==
  ASSUME Types, Alike, FilesAreOfTheirEpoch, NEW p, Whole(p), DOMAIN p \subseteq 1 .. NumSlices,
         NEW i \in DOMAIN p, NEW k \in DOMAIN p[i], NEW l \in Layer, p[i][k] = l, NEW e \in Epoch
  PROVE  /\ LoadInto(Fresh, p[i], files[i][e])[l] \in Weights
         /\ Kind[LoadInto(Fresh, p[i], files[i][e])[l].of] = Kind[l]
<1>1. LoadInto(Fresh, p[i], files[i][e])[l]
        = IF Fits(p[i], files[i][e], k) THEN files[i][e].weights[k] ELSE Fresh[l]
  <2>1. \A file : LoadInto(Fresh, p[i], file)[l]
                    = IF Fits(p[i], file, k) THEN file.weights[k] ELSE Fresh[l]
    BY LoadedLayer
  <2> QED BY <2>1
<1>2. CASE Fits(p[i], files[i][e], k)
  <2>1. k \in DOMAIN files[i][e].weights /\ Kind[l] = Kind[files[i][e].weights[k].of]
    BY <1>2 DEF Fits
  <2>2. layouts[e][i][k] \in Layer /\ files[i][e].weights[k] = ended[e][layouts[e][i][k]]
    BY <2>1, FileContents
  <2>3. ended[e] \in [Layer -> Weights] BY FunctionTypes
  <2> QED BY <1>1, <1>2, <2>1, <2>2, <2>3
<1>3. CASE ~Fits(p[i], files[i][e], k) BY <1>1, <1>3, FreshFacts DEF SameKinds
<1> QED BY <1>2, <1>3

\* The file of a slice, when no save failed.
LEMMA ReliableFile ==
  ASSUME Types, Alike, FilesAreOfTheirEpoch, AllSaved, reliable,
         NEW e \in Epoch, NEW i \in DOMAIN layouts[e]
  PROVE  /\ i \in 1 .. NumSlices /\ Whole(layouts[e])
         /\ files[i][e].state = "whole" /\ HasFile(i, e)
         /\ DOMAIN files[i][e].weights = DOMAIN layouts[e][i]
         /\ \A k \in DOMAIN layouts[e][i] :
              /\ layouts[e][i][k] \in Layer
              /\ files[i][e].weights[k] = ended[e][layouts[e][i][k]]
              /\ Kind[files[i][e].weights[k].of] = Kind[layouts[e][i][k]]
<1>1. i \in 1 .. NumSlices /\ Whole(layouts[e]) BY Cuts
<1>2. files[i][e].state = "whole" BY DEF AllSaved
<1>3. files[i][e] # Missing /\ files[i][e] # Torn BY <1>2, NoFile
<1>4. files[i][e] = SliceOf(ended[e], layouts[e][i]) BY <1>1, <1>3 DEF FilesAreOfTheirEpoch
<1>5. ended[e] \in [Layer -> Weights] /\ SameKinds(ended[e]) BY FunctionTypes DEF Alike
<1>6. /\ DOMAIN SliceOf(ended[e], layouts[e][i]).weights = DOMAIN layouts[e][i]
      /\ \A k \in DOMAIN layouts[e][i] :
           /\ layouts[e][i][k] \in Layer
           /\ SliceOf(ended[e], layouts[e][i]).weights[k] = ended[e][layouts[e][i][k]]
  BY <1>1, <1>5, SliceType
<1>7. \A k \in DOMAIN layouts[e][i] : Kind[ended[e][layouts[e][i][k]].of] = Kind[layouts[e][i][k]]
  BY <1>5, <1>6 DEF SameKinds
<1> QED BY <1>1, <1>2, <1>4, <1>6, <1>7 DEF HasFile

LEMMA ResumeKeeps == IInv /\ Resume => IInv'
<1> SUFFICES ASSUME IInv, Resume PROVE IInv'
  OBVIOUS
<1>0. /\ Types /\ Counted /\ Alike /\ FilesAreOfTheirEpoch /\ OnlyFinishedEpochs /\ AllSaved
      /\ LastCut /\ Placed /\ FirstEpoch /\ AttemptsStartFromLastEpoch /\ ResumeIsWhole
  BY DEF IInv
<1> DEFINE p == parts'
           e == NumEpochs
           toLoad == {i \in DOMAIN parts' : HasFile(i, NumEpochs)}
<1>1. /\ stage = "done" /\ UNCHANGED <<reliable, epoch, tries, stored, files, layouts, ended, again>>
      /\ \/ /\ \A i \in toLoad : LoadsStrictly(p[i], files[i][e])
            /\ stage' = "resumed"
            /\ live' = [l \in Layer |->
                          IF (CHOOSE i \in DOMAIN p : l \in ToSet(p[i])) \in toLoad
                          THEN LoadInto(Fresh, p[CHOOSE i \in DOMAIN p : l \in ToSet(p[i])],
                                        files[CHOOSE i \in DOMAIN p : l \in ToSet(p[i])][e])[l]
                          ELSE Fresh[l]]
         \/ stage' = "refused" /\ live' = live
  BY DEF Resume
<1>2. PICK m \in 1 .. NumSlices : p \in Partitions(m) BY DEF Resume
<1>3. /\ Whole(p) /\ Len(p) = m /\ DOMAIN p = 1 .. m /\ m \in Nat \ {0}
      /\ DOMAIN p \subseteq 1 .. NumSlices /\ e \in Epoch
      /\ Len(p) \in 1 .. NumSlices /\ p \in Partitions(Len(p))
  <2>1. m \in Nat \ {0} /\ NumEpochs \in Epoch /\ 1 .. m \subseteq 1 .. NumSlices
    BY CheckpointAssumption DEF Epoch
  <2>2. Whole(p) /\ Len(p) = m BY <1>2, <2>1, PartitionIsWhole
  <2> QED BY <1>2, <2>1, <2>2 DEF Whole
<1>4. ASSUME stage' = "resumed", NEW i \in DOMAIN p, NEW k \in DOMAIN p[i], NEW l \in Layer, p[i][k] = l
      PROVE  live'[l] = IF i \in toLoad THEN LoadInto(Fresh, p[i], files[i][e])[l] ELSE Fresh[l]
  <2> DEFINE slice(x) == CHOOSE j \in DOMAIN p : x \in ToSet(p[j])
  <2>1. slice(l) = i BY <1>3, <1>4, SliceOfLayer
  <2>2. live' = [x \in Layer |-> IF slice(x) \in toLoad
                                 THEN LoadInto(Fresh, p[slice(x)], files[slice(x)][e])[x]
                                 ELSE Fresh[x]]
    BY <1>1, <1>4
  <2> HIDE DEF slice, p, e, toLoad
  <2>3. live'[l] = IF slice(l) \in toLoad
                   THEN LoadInto(Fresh, p[slice(l)], files[slice(l)][e])[l] ELSE Fresh[l]
    BY <2>2, Zenon
  <2> QED BY <2>1, <2>3, Zenon
<1> HIDE DEF p, e, toLoad
<1>5. ASSUME stage' = "resumed", NEW l \in Layer
      PROVE  live'[l] \in Weights /\ Kind[live'[l].of] = Kind[l]
  <2>1. PICK i \in DOMAIN p : \E k \in DOMAIN p[i] : p[i][k] = l BY <1>3, PlaceOfLayer
  <2>2. PICK k \in DOMAIN p[i] : p[i][k] = l BY <2>1
  <2>3. /\ LoadInto(Fresh, p[i], files[i][e])[l] \in Weights
        /\ Kind[LoadInto(Fresh, p[i], files[i][e])[l].of] = Kind[l]
    BY <1>0, <1>3, <2>2, ResumedLayer
  <2>4. Fresh[l] \in Weights /\ Kind[Fresh[l].of] = Kind[l] BY FreshFacts DEF SameKinds
  <2> QED BY <1>4, <1>5, <2>2, <2>3, <2>4
<1>6. live' \in [Layer -> Weights] /\ SameKinds(live')
  <2>1. CASE stage' = "resumed"
    <3>1. live' = [l \in Layer |-> live'[l]] BY <1>1, <2>1
    <3> QED BY <1>5, <2>1, <3>1 DEF SameKinds
  <2>2. CASE stage' # "resumed" BY <1>0, <1>1, <2>2 DEF Types, Alike
  <2> QED BY <2>1, <2>2
<1>7. Types'
  <2>1. Len(parts') \in 1 .. NumSlices /\ parts' \in Partitions(Len(parts')) BY <1>3 DEF p
  <2> QED BY <1>0, <1>1, <1>6, <2>1 DEF Types
<1>8. Counted' BY <1>0, <1>1 DEF Counted
<1>9. Alike' BY <1>0, <1>1, <1>6 DEF Alike, SameKinds
<1>10. FilesAreOfTheirEpoch' /\ AllSaved' BY <1>0, <1>1 DEF FilesAreOfTheirEpoch, AllSaved
<1>11. OnlyFinishedEpochs' BY <1>0, <1>1 DEF OnlyFinishedEpochs, Finished
<1>12. LastCut' /\ Placed' /\ FirstEpoch' /\ AttemptsStartFromLastEpoch'
  BY <1>0, <1>1 DEF LastCut, Placed, Own, FirstEpoch, AttemptsStartFromLastEpoch
<1>13. ResumeIsWhole'
  <2> SUFFICES ASSUME reliable, stage' = "resumed", NEW l \in Trainable
               PROVE  live'[l] = ended[e][l]
    BY <1>1 DEF ResumeIsWhole, Agree, e
  <2> DEFINE q == layouts[e]
  <2>1. q # <<>> /\ Whole(q) /\ Len(q) \in Nat \ {0} /\ q \in Partitions(Len(q)) /\ DOMAIN q = 1 .. Len(q)
    <3>1. q # <<>> BY <1>0, <1>1, <1>3, EpochFacts DEF OnlyFinishedEpochs, e
    <3>2. Len(q) \in 1 .. NumSlices /\ q \in Partitions(Len(q)) BY <1>0, <1>3, <3>1 DEF Types
    <3>3. Whole(q) BY <1>0, <1>3, <3>1, Cuts
    <3> QED BY <3>1, <3>2, <3>3 DEF Whole
  <2>2. ASSUME NEW i \in DOMAIN p, i \in DOMAIN q
        PROVE  /\ i \in toLoad /\ LoadsStrictly(p[i], files[i][e])
               /\ {k \in DOMAIN p[i] : p[i][k] \in Trainable} = {k \in DOMAIN q[i] : q[i][k] \in Trainable}
    <3>1. /\ HasFile(i, e) /\ DOMAIN files[i][e].weights = DOMAIN q[i]
          /\ \A k \in DOMAIN q[i] : /\ q[i][k] \in Layer
                                    /\ Kind[files[i][e].weights[k].of] = Kind[q[i][k]]
      BY <1>0, <1>3, <2>2, ReliableFile
    <3>2. i \in toLoad /\ LoadsStrictly(p[i], files[i][e]) BY <1>1, <3>1 DEF toLoad, p, e
    <3>3. {k \in DOMAIN p[i] : Kind[p[i][k]] # Blank} = {k \in DOMAIN q[i] : Kind[q[i][k]] # Blank}
      BY <3>1, <3>2 DEF LoadsStrictly, SameNames
    <3>4. \A k \in DOMAIN p[i] : p[i][k] \in Layer BY <1>3 DEF Whole
    <3> QED BY <3>1, <3>2, <3>3, <3>4 DEF Trainable
  <2>3. \A i \in 1 .. m : i <= Len(q) =>
          {k \in DOMAIN p[i] : p[i][k] \in Trainable} = {k \in DOMAIN q[i] : q[i][k] \in Trainable}
    BY <1>3, <2>1, <2>2
  <2>4. \A i \in 1 .. m : \A k \in DOMAIN p[i] :
          p[i][k] \in Trainable => i <= Len(q) /\ k \in DOMAIN q[i] /\ q[i][k] = p[i][k]
    <3> HIDE DEF q
    <3> p \in Partitions(m) BY <1>2
    <3> QED BY <1>3, <2>1, <2>3, SamePlaces
  <2>5. l \in Layer BY DEF Trainable
  <2>6. PICK i \in DOMAIN p : \E k \in DOMAIN p[i] : p[i][k] = l BY <1>3, <2>5, PlaceOfLayer
  <2>7. PICK k \in DOMAIN p[i] : p[i][k] = l BY <2>6
  <2>8. i \in DOMAIN q /\ k \in DOMAIN q[i] /\ q[i][k] = l BY <1>3, <2>1, <2>4, <2>7
  <2>9. i \in toLoad BY <2>2, <2>8
  <2>10. /\ k \in DOMAIN files[i][e].weights /\ files[i][e].weights[k] = ended[e][l]
         /\ Kind[files[i][e].weights[k].of] = Kind[l]
    BY <1>0, <1>3, <2>8, ReliableFile
  <2>11. Fits(p[i], files[i][e], k) BY <2>7, <2>10 DEF Fits
  <2>12. LoadInto(Fresh, p[i], files[i][e])[l]
           = IF Fits(p[i], files[i][e], k) THEN files[i][e].weights[k] ELSE Fresh[l]
    <3>1. \A file : LoadInto(Fresh, p[i], file)[l]
                      = IF Fits(p[i], file, k) THEN file.weights[k] ELSE Fresh[l]
      BY <1>3, <2>7, LoadedLayer
    <3> QED BY <3>1
  <2> QED BY <1>4, <2>5, <2>7, <2>9, <2>10, <2>11, <2>12
<1> QED BY <1>7, <1>8, <1>9, <1>10, <1>11, <1>12, <1>13 DEF IInv

--------------------
(* What the invariant says of the files, and the theorems. *)

\* A checkpoint that restores gives every layer with parameters what its
\* epoch ended with: a file that is read is a slice of that epoch.
LEMMA ExactRestore == IInv => RestoreIsExact
<1> SUFFICES ASSUME IInv, NEW e \in Epoch, RestoreSucceeds(e), NEW l \in Trainable
             PROVE  Restored(e)[l] = ended[e][l]
  BY DEF RestoreIsExact, Agree
<1> DEFINE q == layouts[e]
<1>0. Types /\ Alike /\ FilesAreOfTheirEpoch /\ l \in Layer BY DEF IInv, Trainable
<1>1. /\ q # <<>> /\ Whole(q) /\ DOMAIN q \subseteq 1 .. NumSlices
      /\ \A i \in DOMAIN q : files[i][e].state = "whole"
  <2>1. q # <<>> /\ \A i \in DOMAIN q : files[i][e].state = "whole"
    BY DEF RestoreSucceeds, Restorable, HasLayout, LoadsStrictly
  <2> QED BY <1>0, <2>1, Cuts
<1>2. ended[e] \in [Layer -> Weights] /\ SameKinds(ended[e]) BY <1>0, FunctionTypes DEF Alike
<1>3. PICK i \in DOMAIN q : \E k \in DOMAIN q[i] : q[i][k] = l
  <2> HIDE DEF q
  <2> QED BY <1>0, <1>1, PlaceOfLayer
<1>4. PICK k \in DOMAIN q[i] : q[i][k] = l BY <1>3
<1>5. files[i][e] = SliceOf(ended[e], q[i])
  <2>1. files[i][e] # Missing /\ files[i][e] # Torn /\ i \in 1 .. NumSlices BY <1>1, NoFile
  <2> QED BY <1>0, <2>1 DEF FilesAreOfTheirEpoch
<1>6. k \in DOMAIN files[i][e].weights /\ files[i][e].weights[k] = ended[e][l]
  <2> HIDE DEF q
  <2>1. /\ DOMAIN SliceOf(ended[e], q[i]).weights = DOMAIN q[i]
        /\ \A x \in DOMAIN q[i] : SliceOf(ended[e], q[i]).weights[x] = ended[e][q[i][x]]
    BY <1>1, <1>2, SliceType
  <2> QED BY <1>4, <1>5, <2>1
<1>7. Fits(q[i], files[i][e], k) BY <1>0, <1>2, <1>4, <1>6 DEF Fits, SameKinds
<1>8. LoadInto(Fresh, q[i], files[i][e])[l]
        = IF Fits(q[i], files[i][e], k) THEN files[i][e].weights[k] ELSE Fresh[l]
  <2> HIDE DEF q
  <2>1. \A file : LoadInto(Fresh, q[i], file)[l]
                    = IF Fits(q[i], file, k) THEN file.weights[k] ELSE Fresh[l]
    BY <1>1, <1>4, LoadedLayer
  <2> QED BY <2>1
<1>9. Restored(e)[l] = LoadInto(Fresh, q[i], files[i][e])[l]
  <2> DEFINE slice(x) == CHOOSE j \in DOMAIN q : x \in ToSet(q[j])
  <2>1. slice(l) = i
    <3> HIDE DEF q
    <3> QED BY <1>1, <1>4, SliceOfLayer
  <2>2. Restored(e) = [x \in Layer |-> LoadInto(Fresh, q[slice(x)], files[slice(x)][e])[x]]
    BY DEF Restored
  <2> HIDE DEF slice, q
  <2>3. Restored(e)[l] = LoadInto(Fresh, q[slice(l)], files[slice(l)][e])[l]
    BY <1>0, <2>2, Zenon
  <2> QED BY <2>1, <2>3, Zenon
<1> QED BY <1>6, <1>7, <1>8, <1>9

\* When no save fails every slice of a finished epoch has its file, with the
\* names and shapes of that slice.
LEMMA RestoresWhenFinished == IInv => FinishedEpochsRestore
<1> SUFFICES ASSUME IInv, reliable, NEW e \in Finished PROVE RestoreSucceeds(e)
  BY DEF FinishedEpochsRestore
<1>1. Types /\ Alike /\ FilesAreOfTheirEpoch /\ AllSaved /\ OnlyFinishedEpochs /\ e \in Epoch
  BY EpochFacts DEF IInv
<1>2. HasLayout(e) BY <1>1 DEF OnlyFinishedEpochs, HasLayout
<1>3. ASSUME NEW i \in DOMAIN layouts[e]
      PROVE  HasFile(i, e) /\ LoadsStrictly(layouts[e][i], files[i][e])
  <2>1. /\ files[i][e].state = "whole" /\ HasFile(i, e)
        /\ DOMAIN files[i][e].weights = DOMAIN layouts[e][i]
        /\ \A k \in DOMAIN layouts[e][i] : Kind[files[i][e].weights[k].of] = Kind[layouts[e][i][k]]
    BY <1>1, ReliableFile
  <2>2. SameNames(layouts[e][i], files[i][e]) /\ ~ShapesClash(layouts[e][i], files[i][e])
    BY <2>1 DEF SameNames, ShapesClash
  <2> QED BY <2>1, <2>2 DEF LoadsStrictly
<1> QED BY <1>2, <1>3 DEF RestoreSucceeds, Restorable

LEMMA RightTypes == Types => CheckpointTypeOK
<1> SUFFICES ASSUME Types PROVE CheckpointTypeOK
  OBVIOUS
<1>1. ASSUME NEW i \in 1 .. NumSlices, NEW e \in Epoch
      PROVE  /\ files[i][e].state \in {"missing", "torn", "whole"}
             /\ ToSet(files[i][e].weights) \subseteq Weights
  <2>1. files[i][e] \in File BY FunctionTypes
  <2>2. files[i][e].weights \in Seq(Weights) /\ files[i][e].state \in {"missing", "torn", "whole"}
    BY <2>1 DEF File
  <2>3. \A w \in Seq(Weights) : ToSet(w) \subseteq Weights BY DEF ToSet
  <2> QED BY <2>2, <2>3
<1>2. \A e \in 0 .. NumEpochs : ended[e] \in [Layer -> Weights] BY FunctionTypes
<1> QED BY <1>1, <1>2 DEF Types, CheckpointTypeOK

LEMMA Steps == IInv /\ [CheckpointNext]_checkpointVars => IInv'
<1> SUFFICES ASSUME IInv, [CheckpointNext]_checkpointVars PROVE IInv'
  OBVIOUS
<1>1. CASE TrainEpoch BY <1>1, TrainEpochKeeps
<1>2. CASE FailEpoch BY <1>2, FailEpochKeeps
<1>3. CASE RecoverLayers BY <1>3, RecoverKeeps
<1>4. CASE NobodyLeft BY <1>4, NobodyLeftKeeps
<1>5. CASE Teardown BY <1>5, TeardownKeeps
<1>6. CASE Resume BY <1>6, ResumeKeeps
<1>7. CASE UNCHANGED checkpointVars
  <2>1. UNCHANGED <<reliable, stage, epoch, tries, parts, stored, live, files, layouts, ended, again>>
    BY <1>7 DEF checkpointVars
  <2>2. /\ Types /\ Counted /\ Alike /\ FilesAreOfTheirEpoch /\ OnlyFinishedEpochs /\ AllSaved
        /\ LastCut /\ Placed /\ FirstEpoch /\ AttemptsStartFromLastEpoch /\ ResumeIsWhole
    BY DEF IInv
  <2>3. Types' /\ Counted' /\ Alike' BY <2>1, <2>2 DEF Types, Counted, Alike, SameKinds
  <2>4. FilesAreOfTheirEpoch' /\ OnlyFinishedEpochs' /\ AllSaved' /\ LastCut'
    BY <2>1, <2>2 DEF FilesAreOfTheirEpoch, OnlyFinishedEpochs, Finished, AllSaved, LastCut
  <2>5. Placed' /\ FirstEpoch' /\ AttemptsStartFromLastEpoch' /\ ResumeIsWhole'
    BY <2>1, <2>2 DEF Placed, Own, FirstEpoch, AttemptsStartFromLastEpoch, ResumeIsWhole, Agree
  <2> QED BY <2>3, <2>4, <2>5 DEF IInv
<1> QED BY <1>1, <1>2, <1>3, <1>4, <1>5, <1>6, <1>7 DEF CheckpointNext

\* The inductive invariant holds in every behaviour.
THEOREM Invariance == CheckpointSpec => []IInv
<1>1. CheckpointInit => IInv BY Initial
<1>2. IInv /\ [CheckpointNext]_checkpointVars => IInv' BY Steps
<1> QED BY <1>1, <1>2, PTL DEF CheckpointSpec

\* An attempt at an epoch starts from what the previous epoch ended with: the
\* slices of the last checkpoint are those the run still has at the first
\* recovery of the epoch, so every file is loaded into the layers it was
\* written for.
THEOREM AttemptsAreSafe == CheckpointSpec => []AttemptsStartFromLastEpoch
<1>1. IInv => AttemptsStartFromLastEpoch BY DEF IInv
<1> QED BY <1>1, Invariance, PTL

\* A layer is never trained with the weights of another layer, nor with what a
\* failed attempt had trained, whatever saves fail.
THEOREM LayersAreSafe == CheckpointSpec => []LayersKeepTheirPlace
<1>1. IInv => LayersKeepTheirPlace BY DEF IInv, Placed, Own, LayersKeepTheirPlace
<1> QED BY <1>1, Invariance, PTL

\* What restore_model_from_run() rebuilds is exact, every finished epoch can be
\* rebuilt when no save failed, and a run that resumes over any other cut of the
\* layers refuses or goes on from the weights the old one ended with.
THEOREM CheckpointsAreSafe == CheckpointSpec => []CheckpointsRestore
<1>1. IInv => CheckpointsRestore
  BY ExactRestore, RestoresWhenFinished, RightTypes DEF IInv, CheckpointsRestore
<1> QED BY <1>1, Invariance, PTL
=============================================================================
