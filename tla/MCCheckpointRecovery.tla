------------------------ MODULE MCCheckpointRecovery ------------------------
(***************************************************************************)
(* Five layers for TLC: three alike (1, 3 and 4), one that has no          *)
(* parameters (2) and one with parameters of other shapes (5).             *)
(***************************************************************************)
EXTENDS CheckpointRecovery

MCKind == <<"linear", "relu", "linear", "linear", "head">>
=============================================================================
