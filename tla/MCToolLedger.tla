---------------------------- MODULE MCToolLedger ----------------------------
(***************************************************************************)
(* Small instances of ToolLedger for TLC.                                  *)
(***************************************************************************)
EXTENDS ToolLedger, TLC

Symmetry == Permutations(Workers) \cup Permutations(Attempts)
=============================================================================
