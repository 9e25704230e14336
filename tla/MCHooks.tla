------------------------------ MODULE MCHooks ------------------------------
(* Three model calls of an agent and a sub-agent, at a flat price with a   *)
(* dearer cache write, or one with a long-context tier.                    *)
EXTENDS Hooks, TLC

CONSTANTS c1, c2, c3, s1, s2

ThreeCalls == {c1, c2, c3}
TwoSlots == {s1, s2}
TwoPrices == {
    [rates |-> [in |-> 1, out |-> 1, cache_read |-> 0, cache_write |-> 2], above |-> 0, tier |-> <<>>],
    [rates |-> [in |-> 1, out |-> 1], above |-> 1, tier |-> [in |-> 2, out |-> 2]]}
Alike == Permutations(ThreeCalls) \cup Permutations(TwoSlots)
=============================================================================
