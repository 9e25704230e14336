------------------------------- MODULE MCHalt -------------------------------
(* Three governed calls on a thread, nested or one after the other.        *)
EXTENDS Halt

CONSTANTS r1, r2, r3

ThreeRuns == {r1, r2, r3}
=============================================================================
