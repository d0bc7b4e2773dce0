------------------------------ MODULE MCVector ------------------------------
(* Instances of Vector for TLC. *)
EXTENDS Vector

\* Positions before, in and after every vector of up to Cap + 1 entries.
AllPositions == -1 .. Cap + 1

\* Vectors of up to two entries.
ShortSources == SeqOf(Entries, 2)
=============================================================================
