------------------------------ MODULE MCLedger ------------------------------
(* A run with two model calls and a guarded tool call.                     *)
EXTENDS Ledger

CONSTANTS m1, m2, t1

Models == {m1, m2}
OneTool == {t1}
OneModel == {m1}
None == {}
=============================================================================
