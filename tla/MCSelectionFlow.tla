--------------------------- MODULE MCSelectionFlow ---------------------------
(***************************************************************************)
(* Instances of SelectionFlow for TLC.                                     *)
(***************************************************************************)
EXTENDS SelectionFlow, TLC

Symmetric == Permutations(Users) \cup Permutations(Clicks) \cup Permutations(Workers)
=============================================================================
