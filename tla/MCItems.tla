------------------------------ MODULE MCItems -------------------------------
(* Instances of Items for TLC. *)
EXTENDS Items

\* Cells are alike: an item is where malloc puts it.
AnyCell == Permutations(Cells)
=============================================================================
