------------------------------ MODULE Pricing ------------------------------
(***************************************************************************)
(* What a model call costs (pricing.py), and the most it could cost, known *)
(* before it is sent (precheck.py).  A price has rates per token for "in"  *)
(* and "out", and for "cache_read" and "cache_write" where they differ     *)
(* from "in"; above a number of prompt tokens the rates of its tier, where *)
(* it has any, take their place.  Prices and token counts are naturals.    *)
(***************************************************************************)
EXTENDS Integers

Kinds == {"in", "out", "cache_read", "cache_write"}

IsPrice(p) ==
    /\ p.above \in Nat
    /\ {"in", "out"} \subseteq DOMAIN p.rates
    /\ \A rates \in {p.rates, p.tier} :
        DOMAIN rates \subseteq Kinds /\ \A kind \in DOMAIN rates : rates[kind] \in Nat

(* The rates with those of the tier in their place, dict(p, **p["tier"]).  *)
Tiered(p) ==
    [kind \in DOMAIN p.rates \cup DOMAIN p.tier |->
        IF kind \in DOMAIN p.tier THEN p.tier[kind] ELSE p.rates[kind]]

Rates(p, prompt) == IF prompt > p.above THEN Tiered(p) ELSE p.rates
RateOf(rates, kind) == IF kind \in DOMAIN rates THEN rates[kind] ELSE rates["in"]

(* The dearest rate of an input token.                                     *)
InputRate(rates) == IF RateOf(rates, "cache_write") > rates["in"] THEN RateOf(rates, "cache_write") ELSE rates["in"]

(* Mutant: input is priced as if nothing were written to a cache.          *)
WorstCaseUncached(p, size, cap) == LET rates == Rates(p, size) IN size * rates["in"] + cap * rates["out"]

(* worst_case_usd: size is the input's estimate, cap the output's bound.   *)
WorstCase(p, size, cap) == LET rates == Rates(p, size) IN size * InputRate(rates) + cap * rates["out"]

Clamp(n) == IF n < 0 THEN 0 ELSE n

(* read_usage and the clamping in cost_of: the input total of OpenAI,      *)
(* Gemini and LangChain includes cache reads and writes, Anthropic's not.  *)
Tokens(u) ==
    [input |-> Clamp(IF u.inclusive THEN u.total - u.read - u.write ELSE u.total),
     read |-> Clamp(u.read), write |-> Clamp(u.write), output |-> Clamp(u.output)]

Prompt(t) == t.input + t.read + t.write

TokenCost(t, p) ==
    LET rates == Rates(p, Prompt(t))
    IN  t.input * rates["in"] + t.read * RateOf(rates, "cache_read")
            + t.write * RateOf(rates, "cache_write") + t.output * rates["out"]

(* cost_of: the cost a gateway reports, if not negative, is the cost.      *)
CostOf(u, p) == IF u.reported >= 0 THEN u.reported ELSE TokenCost(Tokens(u), p)

(* What holds of the prices the SDK comes with: reading from a cache is no *)
(* dearer than the dearest other input, nor is a tier cheaper than what    *)
(* comes before it.                                                        *)
Consistent(p) ==
    LET tier == Tiered(p)
    IN  /\ RateOf(p.rates, "cache_read") <= InputRate(p.rates)
        /\ RateOf(tier, "cache_read") <= InputRate(tier)
        /\ InputRate(p.rates) <= InputRate(tier)
        /\ p.rates["out"] <= tier["out"]
=============================================================================
