---------------------------- MODULE MCSuperstep -----------------------------
(***************************************************************************)
(* Small instances of Superstep for TLC.                                   *)
(***************************************************************************)
EXTENDS Superstep, TLC

\* Identities are interchangeable: the code compares them and no more.
Symmetry ==
    Permutations(Attempts) \cup Permutations(Checkpoints) \cup Permutations(Workers)
        \cup Permutations(Nodes) \cup Permutations(Invocations)
=============================================================================
