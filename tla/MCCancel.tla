------------------------------ MODULE MCCancel ------------------------------
(* Two async functions and a stream on one task, in any nesting.           *)
EXTENDS Cancel

CONSTANTS r1, r2, s

ThreeRuns == {r1, r2, s}
OneStream == {s}
=============================================================================
