---------------------------- MODULE MCChildRuns -----------------------------
(***************************************************************************)
(* Small instances of ChildRuns for TLC.                                   *)
(***************************************************************************)
EXTENDS ChildRuns, TLC

\* Runs other than the root, and slots, are interchangeable.
Symmetry == Permutations(Runs \ {Root}) \cup Permutations(Slots)
=============================================================================
