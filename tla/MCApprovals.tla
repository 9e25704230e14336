---------------------------- MODULE MCApprovals ----------------------------
(* Two requests of one run, asked by parallel calls.                       *)
EXTENDS Approvals, TLC

CONSTANTS r1, r2

TwoRequests == {r1, r2}
=============================================================================
