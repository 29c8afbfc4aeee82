------------------------------ MODULE MCOutbox ------------------------------
(***************************************************************************)
(* TLC instances of Outbox.  Attempt identities are more than deliveries   *)
(* can use, so that a poll with a fresh identity is always possible.       *)
(***************************************************************************)
EXTENDS Outbox, TLC

Symmetry == Permutations(Attempts) \cup Permutations(Deliveries)
=============================================================================
