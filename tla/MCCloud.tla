------------------------------ MODULE MCCloud ------------------------------
(* Two model calls and a guarded tool, beside another process.             *)
EXTENDS Cloud, TLC

CONSTANTS m1, m2, t1

TwoModels == {m1, m2}
OneTool == {t1}
SomeBudgets == {1, NoBudget}
ModelsAlike == Permutations(TwoModels)
=============================================================================
