----------------------------- MODULE MCResetButton -----------------------------
(* Instances of ResetButton for TLC.                                       *)
EXTENDS ResetButton

(* Deadlines of 3 and 6 before the clock wraps, of 8 in its last moments,   *)
(* and of 2 after it has wrapped.                                          *)
MCTicks == {0, 3, 5, 8}
=============================================================================
