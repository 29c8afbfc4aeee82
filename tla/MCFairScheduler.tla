-------------------------- MODULE MCFairScheduler ---------------------------
(***************************************************************************)
(* Small instances of FairScheduler for TLC.                               *)
(***************************************************************************)
EXTENDS FairScheduler, TLC

\* Two deployments of three tenants.
TwoPolicies == {<<2, 1, 1>>, <<1, 1, 1>>}

\* Replicas are interchangeable.
Symmetry == Permutations(Replicas)
=============================================================================
