----------------------------- MODULE MCHandler -----------------------------
(* A graph, a chain in it, two model calls and a tool.                     *)
EXTENDS Handler, TLC

CONSTANTS c1, c2, m1, m2, t1

TwoChains == {c1, c2}
TwoModels == {m1, m2}
OneTool == {t1}
Alike == Permutations(TwoChains) \cup Permutations(TwoModels)
=============================================================================
