------------------------- MODULE CheckpointRecovery -------------------------
(***************************************************************************)
(* Which weights a run trains: the per-slice checkpoint files written at   *)
(* the end of each epoch, what recover() loads back into the coordinator's *)
(* copy of the layers before it re-slices them over the survivors, what    *)
(* `checkpoint.resume' loads into the slices of a new run, and what        *)
(* restore_model_from_run() makes of the files.                            *)
(* executors/distributed.py, executors/worker.py, checkpoint_utils.py.     *)
(*                                                                         *)
(* A layer's parameters are one value: the layer they were trained for and *)
(* the number of epochs they went through.  How failures are noticed is in *)
(* module FailureDetection.  Workers and coordinator share the directory.  *)
(***************************************************************************)
EXTENDS Integers, Sequences, FiniteSets, SequencesExt

CONSTANTS
  NumLayers,   \* layers of the model
  NumSlices,   \* workers at setup
  NumEpochs,   \* epochs of the run
  Retries,     \* fault_tolerance.max_retries
  Kind,        \* Kind[l]: the names and shapes of the parameters of layer l
  Blank        \* the kind of a layer that has no parameters

Layer == 1 .. NumLayers
Epoch == 1 .. NumEpochs

ASSUME CheckpointAssumption ==
  /\ NumSlices \in Nat \ {0}
  /\ NumLayers \in Nat /\ NumLayers >= NumSlices
  /\ NumEpochs \in Nat \ {0}
  /\ Retries \in Nat
  /\ DOMAIN Kind = Layer

VARIABLES
  reliable, \* no save of this run fails (it never changes)
  stage,    \* where the run is
  epoch,    \* the epoch being trained
  tries,    \* failed attempts at it
  parts,    \* _stored_partition_indices: the layers of each slice, in order
  stored,   \* _stored_layers: the coordinator's copy of the parameters
  live,     \* the parameters the workers hold
  files,    \* files[i][e]: worker_i_epoch_e.pt
  layouts,  \* layouts[e]: the partitions checkpoint_layouts.json has for e
  ended,    \* ended[e]: live when epoch e ended (history)
  again     \* an epoch was recovered a second time from files (history)

checkpointVars ==
  <<reliable, stage, epoch, tries, parts, stored, live, files, layouts, ended, again>>

Trainable == {l \in Layer : Kind[l] # Blank}

Weights == [of : Layer, epochs : 0 .. NumEpochs, partial : BOOLEAN]
Fresh == [l \in Layer |-> [of |-> l, epochs |-> 0, partial |-> FALSE]]

Missing == [state |-> "missing", weights |-> <<>>]
Torn == [state |-> "torn", weights |-> <<>>]
SliceOf(params, indices) ==
  [state |-> "whole", weights |-> [k \in DOMAIN indices |-> params[indices[k]]]]

\* Where n consecutive, nonempty slices may end.
Ends(n) ==
  {last \in [1 .. n -> Layer] :
     last[n] = NumLayers /\ \A i, j \in 1 .. n : i < j => last[i] < last[j]}

Before(last, i) == IF i = 1 THEN 0 ELSE last[i - 1]
SlicesTo(last) ==
  [i \in DOMAIN last |-> [k \in 1 .. last[i] - Before(last, i) |-> Before(last, i) + k]]

\* Every way to cut the layers into n slices.
Partitions(n) == {SlicesTo(last) : last \in Ends(n)}

CheckpointInit ==
  /\ reliable \in BOOLEAN
  /\ stage = "training" /\ epoch = 1 /\ tries = 0
  /\ parts \in Partitions(NumSlices)
  /\ stored = Fresh
  /\ live = Fresh
  /\ files = [i \in 1 .. NumSlices |-> [e \in Epoch |-> Missing]]
  /\ layouts = [e \in Epoch |-> <<>>]
  /\ ended = [e \in 0 .. NumEpochs |-> Fresh]
  /\ again = FALSE

-----------------------------------------------------------------------------
(* Saving.  The coordinator writes the layout, then asks every worker for  *)
(* its slice; a save that raises is logged and the old file, if any, stays.*)

\* A save may also be cut short by the end of its worker.
SaveOutcomes == IF reliable THEN {"saved"} ELSE {"saved", "raised", "cut"}

\* Mutant: the layout of the run's start is kept.
SaveStaleLayout(e, params) ==
  /\ layouts' = [layouts EXCEPT ![e] = IF e = 1 THEN parts ELSE layouts[e - 1]]
  /\ files' = [i \in DOMAIN files |->
                IF i \notin DOMAIN parts THEN files[i]
                ELSE [files[i] EXCEPT ![e] = SliceOf(params, parts[i])]]

\* The layouts of the other epochs are read back and kept.
SaveLayout(e) == layouts' = [layouts EXCEPT ![e] = parts]

Save(e, params) ==
  /\ SaveLayout(e)
  /\ \E outcome \in [DOMAIN parts -> SaveOutcomes] :
       files' = [i \in DOMAIN files |->
                  IF i \notin DOMAIN parts THEN files[i]
                  ELSE [files[i] EXCEPT ![e] =
                          CASE outcome[i] = "saved"  -> SliceOf(params, parts[i])
                            [] outcome[i] = "raised" -> @
                            [] outcome[i] = "cut"    -> Torn]]

-----------------------------------------------------------------------------
(* Training. *)

Trained == [l \in Layer |-> [live[l] EXCEPT !.epochs = @ + 1]]

TrainEpoch ==
  /\ stage = "training"
  /\ live' = Trained
  /\ ended' = [ended EXCEPT ![epoch] = Trained]
  /\ Save(epoch, Trained)
  /\ tries' = 0
  /\ IF epoch < NumEpochs
     THEN epoch' = epoch + 1 /\ stage' = "training"
     ELSE epoch' = epoch /\ stage' = "trained"
  /\ UNCHANGED <<reliable, parts, stored, again>>

\* A worker fails: the others keep what they had trained of the epoch.
FailEpoch ==
  /\ stage = "training"
  /\ live' = [l \in Layer |-> [live[l] EXCEPT !.partial = TRUE]]
  /\ stage' = IF tries < Retries THEN "failed" ELSE "gaveUp"
  /\ tries' = tries + 1
  /\ UNCHANGED <<reliable, epoch, parts, stored, files, layouts, ended, again>>

-----------------------------------------------------------------------------
(* Recovery.  A slice's parameters are named by their place in the slice. *)

\* load_state_dict of a file into the layers of a slice: the layer at place k
\* takes the k-th entry if it has the same names and shapes.
Fits(indices, file, k) ==
  k \in DOMAIN indices \cap DOMAIN file.weights
    /\ Kind[indices[k]] = Kind[file.weights[k].of]

LoadInto(params, indices, file) ==
  [l \in Layer |->
     IF \E k \in DOMAIN indices : indices[k] = l /\ Fits(indices, file, k)
     THEN file.weights[CHOOSE k \in DOMAIN indices : indices[k] = l]
     ELSE params[l]]

\* strict=False: extra and absent names are let through, another shape raises.
ShapesClash(indices, file) ==
  \E k \in DOMAIN indices \cap DOMAIN file.weights :
    /\ Kind[indices[k]] # Kind[file.weights[k].of]
    /\ Blank \notin {Kind[indices[k]], Kind[file.weights[k].of]}

SliceFails(i, e) == files[i][e].state # "whole" \/ ShapesClash(parts[i], files[i][e])

\* Mutant: an epoch is counted twice.
LoadOutOfRange(e) == [l \in Layer |-> [stored[l] EXCEPT !.epochs = NumEpochs]]

\* Mutant: only the first slice's file is loaded.
LoadFirstSlice(e) ==
  LoadInto(stored, parts[1], files[1][e])

\* _load_all_slices works in place and gives up at the first slice that fails.
LoadAllSlices(e) ==
  LET tried == {i \in DOMAIN parts : \A j \in 1 .. i - 1 : ~SliceFails(j, e)}
  IN  [l \in Layer |->
         LET i == CHOOSE i \in DOMAIN parts : l \in ToSet(parts[i])
         IN  IF i \in tried THEN LoadInto(stored, parts[i], files[i][e])[l] ELSE stored[l]]

\* Mutant: the survivors are not given the restored layers.
RecoverInPlace ==
  /\ stage = "failed"
  /\ \E survivors \in 1 .. Len(parts) - 1 : parts' \in Partitions(survivors)
  /\ stored' = IF epoch > 1 THEN LoadAllSlices(epoch - 1) ELSE stored
  /\ stage' = "training"
  /\ again' = (again \/ (epoch > 1 /\ tries > 1))
  /\ UNCHANGED <<reliable, epoch, tries, live, files, layouts, ended>>

RecoverLayers ==
  /\ stage = "failed"
  /\ \E survivors \in 1 .. Len(parts) - 1 : parts' \in Partitions(survivors)
  /\ stored' = IF epoch > 1 THEN LoadAllSlices(epoch - 1) ELSE stored
  /\ live' = stored'
  /\ stage' = "training"
  /\ again' = (again \/ (epoch > 1 /\ tries > 1))
  /\ UNCHANGED <<reliable, epoch, tries, files, layouts, ended>>

NobodyLeft ==
  /\ stage = "failed"
  /\ stage' = "gaveUp"
  /\ UNCHANGED <<reliable, epoch, tries, parts, stored, live, files, layouts, ended, again>>

-----------------------------------------------------------------------------
(* The end of the run, and a run that resumes from it. *)

Teardown ==
  /\ stage = "trained"
  /\ Save(NumEpochs, live)
  /\ stage' = "done"
  /\ UNCHANGED <<reliable, epoch, tries, parts, stored, live, ended, again>>

\* strict=True: the names must agree as well.
SameNames(indices, file) ==
  {k \in DOMAIN indices : Kind[indices[k]] # Blank}
    = {k \in DOMAIN file.weights : Kind[file.weights[k].of] # Blank}

\* Mutant: strict=False.
LoadsLoosely(indices, file) ==
  file.state = "whole" /\ ~ShapesClash(indices, file)

LoadsStrictly(indices, file) ==
  file.state = "whole" /\ SameNames(indices, file) /\ ~ShapesClash(indices, file)

\* The file is there, whatever is in it.
HasFile(i, e) == files[i][e].state # "missing"

\* A slice without a file starts with the layers the new run was given.
Resume ==
  /\ stage = "done"
  /\ \E workers \in 1 .. NumSlices : parts' \in Partitions(workers)
  /\ LET toLoad == {i \in DOMAIN parts' : HasFile(i, NumEpochs)}
     IN  IF \A i \in toLoad : LoadsStrictly(parts'[i], files[i][NumEpochs])
         THEN /\ stage' = "resumed"
              /\ live' = [l \in Layer |->
                            LET i == CHOOSE i \in DOMAIN parts' : l \in ToSet(parts'[i])
                            IN  IF i \in toLoad
                                THEN LoadInto(Fresh, parts'[i], files[i][NumEpochs])[l]
                                ELSE Fresh[l]]
         ELSE stage' = "refused" /\ UNCHANGED live
  /\ UNCHANGED <<reliable, epoch, tries, stored, files, layouts, ended, again>>

CheckpointNext == TrainEpoch \/ FailEpoch \/ RecoverLayers \/ NobodyLeft \/ Teardown \/ Resume

CheckpointSpec == CheckpointInit /\ [][CheckpointNext]_checkpointVars

-----------------------------------------------------------------------------
(* restore_model_from_run(), on the files of the run. *)

\* The epochs checkpoint_layouts.json knows. A save writes the file, so the slices
\* of the manifest, the fallback where there is none, are never asked for.
HasLayout(e) == layouts[e] # <<>>

\* resolve_checkpoint_epoch: the layout of the epoch is known, its files exist.
Restorable(e) == HasLayout(e) /\ \A i \in DOMAIN layouts[e] : HasFile(i, e)

RestoreSucceeds(e) ==
  Restorable(e) /\ \A i \in DOMAIN layouts[e] : LoadsStrictly(layouts[e][i], files[i][e])

\* Mutant: the slices of the run, not those of the epoch.
RestoredByPlan(e) ==
  [l \in Layer |->
     LET i == CHOOSE i \in DOMAIN parts : l \in ToSet(parts[i])
     IN  LoadInto(Fresh, parts[i], files[i][e])[l]]

Restored(e) ==
  [l \in Layer |->
     LET i == CHOOSE i \in DOMAIN layouts[e] : l \in ToSet(layouts[e][i])
     IN  LoadInto(Fresh, layouts[e][i], files[i][e])[l]]

-----------------------------------------------------------------------------
Finished ==
  1 .. epoch - 1 \cup IF stage \in {"training", "failed", "gaveUp"} THEN {} ELSE {NumEpochs}

Agree(params, others) == \A l \in Trainable : params[l] = others[l]

\* The values of every variable.
CheckpointTypeOK ==
  /\ reliable \in BOOLEAN /\ again \in BOOLEAN
  /\ stage \in {"training", "failed", "gaveUp", "trained", "done", "resumed", "refused"}
  /\ epoch \in Epoch
  /\ tries \in 0 .. Retries + 1
  /\ Len(parts) \in 1 .. NumSlices /\ parts \in Partitions(Len(parts))
  /\ stored \in [Layer -> Weights]
  /\ live \in [Layer -> Weights]
  /\ \A i \in 1 .. NumSlices, e \in Epoch :
       /\ files[i][e].state \in {"missing", "torn", "whole"}
       /\ ToSet(files[i][e].weights) \subseteq Weights
  /\ \A e \in Epoch : layouts[e] = <<>> \/ layouts[e] \in Partitions(Len(layouts[e]))
  /\ \A e \in 0 .. NumEpochs : ended[e] \in [Layer -> Weights]

\* Every attempt at an epoch, the first one and the ones after a recovery,
\* starts from the weights the previous epoch ended with: recover() neither
\* loses an epoch nor keeps what the failed attempt had trained.
AttemptsStartFromLastEpoch ==
  reliable /\ ~again /\ stage = "training" => Agree(live, ended[epoch - 1])

\* However saves and recoveries end, a layer is trained with its own weights,
\* never with those of another layer, and never with the remains of a failed
\* attempt.
LayersKeepTheirPlace ==
  ~again /\ stage = "training" => \A l \in Trainable : live[l].of = l /\ ~live[l].partial

\* What restore_model_from_run() rebuilds for an epoch, when it does not raise,
\* is the model as that epoch ended, whatever slices it was trained in and
\* whichever saves failed.
RestoreIsExact == \A e \in Epoch : RestoreSucceeds(e) => Agree(Restored(e), ended[e])

\* When no save failed, the checkpoint of every finished epoch can be restored.
FinishedEpochsRestore == reliable => \A e \in Finished : RestoreSucceeds(e)

\* A new run that resumes, over any number of workers and any slices, either
\* refuses or holds the model the old run ended with.
ResumeIsWhole == reliable /\ stage = "resumed" => Agree(live, ended[NumEpochs])

(* What is on the disk is enough: a checkpoint that restores is exact,     *)
(* finished epochs restore, and a run that resumes goes on from the last   *)
(* one (restore_model_from_run, _restore_for_resume). *)
CheckpointsRestore ==
  CheckpointTypeOK /\ RestoreIsExact /\ FinishedEpochsRestore /\ ResumeIsWhole
=============================================================================
