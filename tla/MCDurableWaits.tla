--------------------------- MODULE MCDurableWaits ---------------------------
(***************************************************************************)
(* Small instances of DurableWaits for TLC.                                *)
(***************************************************************************)
EXTENDS DurableWaits

timer(w, t) == [wait |-> w, kind |-> "timer", at |-> t]
interrupt(w, t) == [wait |-> w, kind |-> "interrupt", at |-> t]

\* Two timers and an interrupt at one instant.
TiedIntents == {timer(1, 1), timer(2, 1), interrupt(3, 1)}
=============================================================================
