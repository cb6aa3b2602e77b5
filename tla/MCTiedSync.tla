----------------------------- MODULE MCTiedSync -----------------------------
(***************************************************************************)
(* Three tied groups over three slices: an embedding used by all of them,  *)
(* a frozen one, and one whose owner is in the middle of the chain.        *)
(***************************************************************************)
EXTENDS TiedSync

SharedGroups == <<{0, 1, 2}, {0, 2}, {1, 2}, {1}>>
FrozenGroups == {2}
=============================================================================
