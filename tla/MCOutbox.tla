------------------------------ MODULE MCOutbox ------------------------------
(* Two runs, and a queue of three.                                         *)
EXTENDS Outbox

CONSTANTS r1, r2

TwoRuns == {r1, r2}
=============================================================================
