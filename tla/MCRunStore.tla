---------------------------- MODULE MCRunStore ----------------------------
(* RunStore on small instances. *)
EXTENDS RunStore, TLC

CONSTANTS e1, e2, e3, w1, w2, p1, q1

\* Event identities and attempts are only compared for equality.
Symmetry == Permutations(EventIds) \cup Permutations(Attempts)
===========================================================================
