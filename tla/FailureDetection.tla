-------------------------- MODULE FailureDetection --------------------------
(***************************************************************************)
(* How the coordinator notices failed workers and goes on without them:    *)
(* heartbeat threads, reports of fatal errors, the training loop they      *)
(* interrupt and recover(), which renumbers the survivors.                 *)
(* executors/distributed.py, SlicedModel.train in __init__.py.             *)
(*                                                                         *)
(* The batch protocol is one step (module Pipeline); the weights recover() *)
(* restores are in module CheckpointRecovery.  Workers are known by the    *)
(* index the code uses, counted from 1 here.                               *)
(***************************************************************************)
EXTENDS Integers, Sequences, FiniteSets, SequencesExt

CONSTANTS
  NumWorkers,    \* workers at setup
  NumBatches,    \* batches per epoch
  MaxRetries,    \* fault_tolerance.max_retries (0 when it is disabled)
  MaxFaults,     \* bound on crashes and fatal errors
  Slow           \* workers whose liveness probes may time out though they live

Worker == 1 .. NumWorkers

ASSUME FailureAssumption ==
  /\ NumWorkers \in Nat \ {0}
  /\ NumBatches \in Nat \ {0}
  /\ MaxRetries \in Nat
  /\ MaxFaults \in Nat
  /\ Slow \subseteq Worker

VARIABLES
  up,          \* workers whose server answers
  fatal,       \* workers holding a fatal error
  dying,       \* workers whose server stops once their report is out
  faults,      \* crashes and fatal errors so far (bounded)
  myIndex,     \* the index each worker was given by its last init
  proxies,     \* the chain: the worker at each index
  failed,      \* _failed_workers: indices
  event,       \* _failure_event
  batchDone,   \* _batch_done
  stop,        \* _heartbeat_stop, shared by every round of heartbeat threads
  round,       \* how many times heartbeats were started
  threads,     \* heartbeat threads that have not ended
  reports,     \* report_worker_error calls that have not ended
  phase,       \* where the training thread is
  batch,       \* batches of the epoch credited so far in this attempt
  ran,         \* the chain really ran the current batch (history)
  phantom,     \* a batch of this attempt was credited without being run (history)
  attempt,     \* failed attempts at the epoch
  initNext,    \* recover(): next index to initialise
  blamed       \* workers that failed their probe or hold an error (history)

workerVars == <<up, fatal, dying, faults, myIndex>>
flagVars == <<failed, event, batchDone>>
threadVars == <<stop, round, threads, reports>>
loopVars == <<phase, batch, ran, phantom, attempt, initNext>>
vars == <<workerVars, flagVars, threadVars, loopVars, proxies, blamed>>

Phases == {"start", "sending", "grace", "waiting", "woken", "raised", "joining",
           "reslice", "init", "clear", "clearEvent", "clearDone", "heartbeats",
           "finished", "gaveUp", "aborted"}
Ended == {"finished", "gaveUp", "aborted"}

Chain == {proxies[i] : i \in DOMAIN proxies}

-----------------------------------------------------------------------------
HeartbeatThread(r, i, w, at) == [round |-> r, idx |-> i, worker |-> w, at |-> at]
HeartbeatsOf(r, chain) == {HeartbeatThread(r, i, chain[i], "sleep") : i \in DOMAIN chain}

Init ==
  /\ up = Worker
  /\ fatal = {}
  /\ dying = {}
  /\ faults = 0
  /\ myIndex = [w \in Worker |-> w]
  /\ proxies = [i \in Worker |-> i]
  /\ failed = {}
  /\ event = FALSE
  /\ batchDone = FALSE
  /\ stop = FALSE
  /\ round = 1
  /\ threads = HeartbeatsOf(1, proxies)
  /\ reports = {}
  /\ phase = "start"
  /\ batch = 0
  /\ ran = FALSE
  /\ phantom = FALSE
  /\ attempt = 0
  /\ initNext = 1
  /\ blamed = {}

-----------------------------------------------------------------------------
(* The workers. *)

Crash(w) ==
  /\ w \in up
  /\ faults < MaxFaults
  /\ up' = up \ {w}
  /\ faults' = faults + 1
  /\ UNCHANGED <<fatal, dying, myIndex, flagVars, threadVars, loopVars, proxies, blamed>>

\* A task of the batch fails on the worker: it keeps the error, reports it under its
\* index and stops its server when the report call is over.
FatalError(w) ==
  /\ w \in up \ (fatal \union dying)
  /\ w \in Chain
  /\ phase = "waiting"
  /\ faults < MaxFaults
  /\ faults' = faults + 1
  /\ fatal' = fatal \union {w}
  /\ dying' = dying \union {w}
  /\ reports' = reports \union {[idx |-> myIndex[w], worker |-> w, at |-> "received"]}
  /\ UNCHANGED <<up, myIndex, flagVars, stop, round, threads, loopVars, proxies, blamed>>

StopServer(w) ==
  /\ w \in up \intersect dying
  /\ \A r \in reports : r.worker # w
  /\ up' = up \ {w}
  /\ UNCHANGED <<fatal, dying, faults, myIndex, flagVars, threadVars, loopVars, proxies, blamed>>

-----------------------------------------------------------------------------
(* Marking a failure: three steps of the calling thread, for heartbeat threads *)
(* (in "threads") and report handlers (in "reports") alike. *)

Moved(set, t, to) == (set \ {t}) \union {[t EXCEPT !.at = to]}

\* Mutant: the index is recorded and the training loop never told.
MarkSilently(set, t) == set' = set \ {t} /\ failed' = failed \union {t.idx}

\* Under the lock: the first to name an index wins.
Mark(set, t) ==
  IF t.idx \in failed
    THEN set' = set \ {t} /\ UNCHANGED failed
    ELSE set' = Moved(set, t, "setDone") /\ failed' = failed \union {t.idx}

SetDone(set, t) ==
  /\ t.at = "setDone"
  /\ set' = Moved(set, t, "setEvent")
  /\ batchDone' = TRUE

SetEvent(set, t) ==
  /\ t.at = "setEvent"
  /\ set' = set \ {t}
  /\ event' = TRUE

-----------------------------------------------------------------------------
(* A heartbeat thread: sleep, probe, confirm a timeout with a longer probe. *)

HeartbeatTick(t) ==
  /\ t.at = "sleep"
  /\ threads' = IF stop THEN threads \ {t} ELSE Moved(threads, t, "probe")
  /\ UNCHANGED <<workerVars, flagVars, stop, round, reports, loopVars, proxies, blamed>>

HeartbeatAnswer(t) ==
  /\ t.at \in {"probe", "confirm"}
  /\ t.worker \in up
  /\ threads' = Moved(threads, t, "sleep")
  /\ UNCHANGED <<workerVars, flagVars, stop, round, reports, loopVars, proxies, blamed>>

HeartbeatUnavailable(t) ==
  /\ t.at \in {"probe", "confirm"}
  /\ t.worker \notin up
  /\ threads' = Moved(threads, t, "suspect")
  /\ blamed' = blamed \union {t.worker}
  /\ UNCHANGED <<workerVars, flagVars, stop, round, reports, loopVars, proxies>>

\* Mutant: the first timeout is taken for a failure.
TimeoutUnconfirmed(t) ==
  /\ t.worker \in Slow
  /\ t.at = "probe"
  /\ threads' = Moved(threads, t, "suspect")
  /\ UNCHANGED <<workerVars, flagVars, stop, round, reports, loopVars, proxies, blamed>>

HeartbeatTimeout(t) ==
  /\ t.worker \in Slow
  /\ \/ /\ t.at = "probe"
        /\ threads' = Moved(threads, t, IF stop THEN "suspect" ELSE "confirm")
        /\ UNCHANGED blamed
     \/ /\ t.at = "confirm"
        /\ threads' = Moved(threads, t, "suspect")
        /\ blamed' = blamed \union {t.worker}
  /\ UNCHANGED <<workerVars, flagVars, stop, round, reports, loopVars, proxies>>

HeartbeatSuspect(t) ==
  /\ t.at = "suspect"
  /\ IF stop
       THEN threads' = threads \ {t} /\ UNCHANGED failed
       ELSE Mark(threads, t)
  /\ UNCHANGED <<workerVars, event, batchDone, stop, round, reports, loopVars, proxies, blamed>>

HeartbeatSignal(t) ==
  /\ \/ SetDone(threads, t) /\ UNCHANGED event
     \/ SetEvent(threads, t) /\ UNCHANGED batchDone
  /\ UNCHANGED <<workerVars, failed, stop, round, reports, loopVars, proxies, blamed>>

Heartbeat(t) ==
  \/ HeartbeatTick(t)
  \/ HeartbeatAnswer(t)
  \/ HeartbeatUnavailable(t)
  \/ HeartbeatTimeout(t)
  \/ HeartbeatSuspect(t)
  \/ HeartbeatSignal(t)

-----------------------------------------------------------------------------
(* A fatal-error report: the worker it names is asked before it is believed. *)

Healthy == up \ fatal

\* _report_confirmed, verify_reports on.
Confirmed(idx) == idx \in DOMAIN proxies /\ proxies[idx] \notin Healthy

\* A slow worker may fail this probe, the only one it gets.
ReportProbe(r) ==
  /\ r.at = "received"
  /\ \/ /\ Confirmed(r.idx)
        /\ reports' = Moved(reports, r, "confirmed")
        /\ blamed' = blamed \union ({proxies[r.idx]} \ Healthy)
     \/ /\ ~Confirmed(r.idx)
        /\ reports' = reports \ {r}
        /\ UNCHANGED blamed
     \/ /\ r.idx \in DOMAIN proxies
        /\ proxies[r.idx] \in Slow
        /\ reports' = Moved(reports, r, "confirmed")
        /\ blamed' = blamed \union {proxies[r.idx]}
  /\ UNCHANGED <<workerVars, flagVars, stop, round, threads, loopVars, proxies>>

ReportMark(r) ==
  /\ r.at = "confirmed"
  /\ Mark(reports, r)
  /\ UNCHANGED <<workerVars, event, batchDone, stop, round, threads, loopVars, proxies, blamed>>

ReportSignal(r) ==
  /\ \/ SetDone(reports, r) /\ UNCHANGED event
     \/ SetEvent(reports, r) /\ UNCHANGED batchDone
  /\ UNCHANGED <<workerVars, failed, stop, round, threads, loopVars, proxies, blamed>>

Report(r) == ReportProbe(r) \/ ReportMark(r) \/ ReportSignal(r)

-----------------------------------------------------------------------------
(* train_epoch() *)

\* Mutant: batch_done is not cleared.
StartBatchUncleared ==
  /\ phase = "start"
  /\ IF batch < NumBatches
       THEN ran' = FALSE /\ phase' = "sending" /\ UNCHANGED batchDone
       ELSE phase' = "finished" /\ UNCHANGED <<batchDone, ran>>
  /\ UNCHANGED <<workerVars, failed, event, threadVars, batch, phantom, attempt, initNext, proxies, blamed>>

StartBatch ==
  /\ phase = "start"
  /\ IF batch < NumBatches
       THEN batchDone' = FALSE /\ ran' = FALSE /\ phase' = "sending"
       ELSE phase' = "finished" /\ UNCHANGED <<batchDone, ran>>
  /\ UNCHANGED <<workerVars, failed, event, threadVars, batch, phantom, attempt, initNext, proxies, blamed>>

\* Labels go to the last worker and inputs to the first: only these calls can fail.
SendBatch ==
  /\ phase = "sending"
  /\ phase' = IF {proxies[1], Last(proxies)} \subseteq up THEN "waiting" ELSE "grace"
  /\ UNCHANGED <<workerVars, flagVars, threadVars, batch, ran, phantom, attempt, initNext, proxies, blamed>>

\* The chain completes the batch; batch_done wakes the loop.
RunBatch ==
  /\ phase = "waiting"
  /\ ~ran
  /\ Chain \subseteq up \ fatal
  /\ ran' = TRUE
  /\ batchDone' = TRUE
  /\ UNCHANGED <<workerVars, failed, event, threadVars, phase, batch, phantom, attempt, initNext, proxies, blamed>>

\* while not _batch_done.wait(1.0): if _failure_event.is_set(): break
Wake ==
  /\ phase = "waiting"
  /\ batchDone \/ event
  /\ phase' = "woken"
  /\ UNCHANGED <<workerVars, flagVars, threadVars, batch, ran, phantom, attempt, initNext, proxies, blamed>>

\* WorkerFailureError names an element of _failed_workers; with none, next(iter())
\* raises StopIteration, which nothing catches.
RaiseFailure == IF failed # {} THEN "raised" ELSE "aborted"

Check ==
  /\ phase = "woken"
  /\ IF event
       THEN phase' = RaiseFailure /\ UNCHANGED <<batch, phantom>>
       ELSE /\ phase' = "start"
            /\ batch' = batch + 1
            /\ phantom' = (phantom \/ ~ran)
  /\ UNCHANGED <<workerVars, flagVars, threadVars, ran, attempt, initNext, proxies, blamed>>

\* A failed send waits five seconds for the heartbeat to name the worker; without
\* an answer the gRPC error ends the run.
GraceEnds ==
  /\ phase = "grace"
  /\ phase' = IF event THEN RaiseFailure ELSE "aborted"
  /\ UNCHANGED <<workerVars, flagVars, threadVars, batch, ran, phantom, attempt, initNext, proxies, blamed>>

-----------------------------------------------------------------------------
(* SlicedModel.train and recover() *)

Retry ==
  /\ phase = "raised"
  /\ IF attempt < MaxRetries
       THEN phase' = "joining" /\ stop' = TRUE /\ attempt' = attempt + 1
       ELSE phase' = "gaveUp" /\ UNCHANGED <<stop, attempt>>
  /\ UNCHANGED <<workerVars, flagVars, round, threads, reports, batch, ran, phantom, initNext, proxies, blamed>>

\* Each thread is joined for two seconds; one with a probe in flight may outlive it.
JoinHeartbeats ==
  /\ phase = "joining"
  /\ \A t \in threads : t.round = round => t.at \in {"probe", "confirm"}
  /\ phase' = "reslice"
  /\ UNCHANGED <<workerVars, flagVars, threadVars, batch, ran, phantom, attempt, initNext, proxies, blamed>>

\* Mutant: the failed workers are kept and the others dropped.
FailedKept == DOMAIN proxies \intersect failed
Survivors == DOMAIN proxies \ failed

\* They move up in the chain and keep their order.
NewIndex(i) == Cardinality({j \in Survivors : j <= i})
NewChain == [n \in 1 .. Cardinality(Survivors) |-> proxies[CHOOSE i \in Survivors : NewIndex(i) = n]]

Reslice ==
  /\ phase = "reslice"
  /\ IF Survivors = {}
       THEN phase' = "aborted" /\ UNCHANGED <<proxies, initNext>>
       ELSE /\ proxies' = NewChain
            /\ initNext' = 1
            /\ phase' = "init"
  /\ UNCHANGED <<workerVars, flagVars, threadVars, batch, ran, phantom, attempt, blamed>>

\* Mutant: a worker that is initialised again keeps the index it had.
KeepIndex(w, i) == UNCHANGED myIndex
GiveIndex(w, i) == myIndex' = [myIndex EXCEPT ![w] = i]

\* One worker after the other; one that cannot be initialised ends the run.
InitSlice ==
  /\ phase = "init"
  /\ LET w == proxies[initNext]
     IN IF w \in up
          THEN /\ GiveIndex(w, initNext)
               /\ fatal' = fatal \ {w}
               /\ initNext' = initNext + 1
               /\ phase' = IF initNext = Len(proxies) THEN "clear" ELSE "init"
          ELSE phase' = "aborted" /\ UNCHANGED <<myIndex, fatal, initNext>>
  /\ UNCHANGED <<up, dying, faults, flagVars, threadVars, batch, ran, phantom, attempt, proxies, blamed>>

ClearFailed ==
  /\ phase = "clear"
  /\ failed' = {}
  /\ phase' = "clearEvent"
  /\ UNCHANGED <<workerVars, event, batchDone, threadVars, batch, ran, phantom, attempt, initNext, proxies, blamed>>

ClearEvent ==
  /\ phase = "clearEvent"
  /\ event' = FALSE
  /\ phase' = "clearDone"
  /\ UNCHANGED <<workerVars, failed, batchDone, threadVars, batch, ran, phantom, attempt, initNext, proxies, blamed>>

ClearDone ==
  /\ phase = "clearDone"
  /\ batchDone' = FALSE
  /\ phase' = "heartbeats"
  /\ UNCHANGED <<workerVars, failed, event, threadVars, batch, ran, phantom, attempt, initNext, proxies, blamed>>

\* The stop flag is cleared for the new threads, and so for old ones still alive.
StartHeartbeats ==
  /\ phase = "heartbeats"
  /\ stop' = FALSE
  /\ round' = round + 1
  /\ threads' = threads \union HeartbeatsOf(round + 1, proxies)
  /\ phase' = "start"
  /\ batch' = 0
  /\ phantom' = FALSE
  /\ UNCHANGED <<workerVars, flagVars, reports, ran, attempt, initNext, proxies, blamed>>

Recover == JoinHeartbeats \/ Reslice \/ InitSlice \/ ClearFailed \/ ClearEvent
             \/ ClearDone \/ StartHeartbeats

Loop == StartBatch \/ SendBatch \/ Wake \/ Check \/ GraceEnds \/ Retry \/ Recover

RunOver == phase \in Ended /\ UNCHANGED vars

Next ==
  \/ \E w \in Worker : Crash(w) \/ FatalError(w) \/ StopServer(w)
  \/ \E t \in threads : Heartbeat(t)
  \/ \E r \in reports : Report(r)
  \/ RunBatch
  \/ Loop
  \/ RunOver

\* Threads of the coordinator keep running; a chain of live workers completes its
\* batch; a worker with a fatal error stops its server.
HeartbeatOf(r, i) == \E t \in threads : t.round = r /\ t.idx = i /\ Heartbeat(t)
Fairness ==
  /\ WF_vars(Loop)
  /\ WF_vars(RunBatch)
  /\ \A r \in 1 .. MaxRetries + 1, i \in Worker : WF_vars(HeartbeatOf(r, i))
  /\ WF_vars(\E r \in reports : Report(r))
  /\ \A w \in Worker : WF_vars(StopServer(w))

Spec == Init /\ [][Next]_vars /\ Fairness

-----------------------------------------------------------------------------
(* Properties. *)

ThreadAt == {"sleep", "probe", "confirm", "suspect", "setDone", "setEvent"}
ReportAt == {"received", "confirmed", "setDone", "setEvent"}

\* Every variable has its type.
TypeOK ==
  /\ up \subseteq Worker /\ fatal \subseteq Worker /\ dying \subseteq Worker
  /\ faults \in 0 .. MaxFaults
  /\ myIndex \in [Worker -> Worker]
  /\ proxies \in Seq(Worker) /\ proxies # <<>>
  /\ failed \subseteq Worker
  /\ event \in BOOLEAN /\ batchDone \in BOOLEAN /\ stop \in BOOLEAN
  /\ round \in Nat
  /\ threads \subseteq [round : Nat, idx : Worker, worker : Worker, at : ThreadAt]
  /\ reports \subseteq [idx : Worker, worker : Worker, at : ReportAt]
  /\ phase \in Phases
  /\ batch \in Nat /\ attempt \in Nat /\ initNext \in Nat
  /\ ran \in BOOLEAN /\ phantom \in BOOLEAN
  /\ blamed \subseteq Worker

\* The first recovery of an epoch removes no healthy worker: whoever is no longer in
\* the chain failed its probes or held a fatal error, whatever threads are around.
FirstRecoveryIsRight == attempt <= 1 => Worker \ Chain \subseteq blamed

\* Outside recover() each worker of the chain knows its place in it, so what it
\* reports under that index is about itself.
IndicesAgree ==
  phase \notin {"init", "aborted"} => \A i \in DOMAIN proxies : myIndex[proxies[i]] = i

\* A failure is told: the event is set, or a thread that has woken the loop sets it next.
Told == event \/ \E t \in threads \union reports : t.at = "setEvent"

\* However many workers fail and in whatever order: what wakes the loop for a batch that
\* nobody ran is a failure on its way to the loop ("Poll with 1s timeout so a worker
\* failure interrupts the wait").  The loop may check too early, between a handler's two
\* steps, and credit the batch unrun (it does: phantom is reached); but then the event
\* is still set, so the epoch does not go on unnoticed until recover() repeats it.
UnrunBatchesAreTold ==
  /\ phase \in {"sending", "grace", "waiting", "woken"} /\ batchDone /\ ~ran => Told
  /\ phantom /\ phase \notin {"clearDone", "heartbeats"} => Told

\* The epoch ends, trained or given up, as long as at most one worker is ever blamed:
\* whatever it was doing, whoever reported it and when, nobody is waited for for ever.
\* (With a second one it may hang: a failure marked while recover() clears its flags
\* is forgotten.)
RunEndsAfterOneFailure == [](Cardinality(blamed) <= 1) => <>(phase \in Ended)

=============================================================================
