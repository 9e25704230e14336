---------------------------- MODULE HooksProofs -----------------------------
(***************************************************************************)
(* The worst case of a model call covers what it may cost, at any prices   *)
(* and for any tokens; and so the hooks keep a run within its budget, for  *)
(* any number of calls and agents.  And in LangChain, in any graph of      *)
(* chains, calls and tools, a run is open for as long as its root goes on. *)
(***************************************************************************)
EXTENDS Hooks, AmountsProofs

(* Prices.                                                                 *)

(* Each rate is a number, and none of the input is dearer than InputRate.  *)
LEMMA RatesType ==
  ASSUME NEW p, IsPrice(p), Consistent(p), NEW prompt \in Nat
  PROVE  LET rates == Rates(p, prompt)
         IN  /\ rates["in"] \in Nat /\ rates["out"] \in Nat
             /\ RateOf(rates, "cache_read") \in Nat
             /\ RateOf(rates, "cache_write") \in Nat
             /\ InputRate(rates) \in Nat
             /\ rates["in"] <= InputRate(rates)
             /\ RateOf(rates, "cache_read") <= InputRate(rates)
             /\ RateOf(rates, "cache_write") <= InputRate(rates)
<1> DEFINE Good(rates) ==
             /\ rates["in"] \in Nat /\ rates["out"] \in Nat
             /\ RateOf(rates, "cache_read") \in Nat
             /\ RateOf(rates, "cache_write") \in Nat
<1>1. Good(p.rates)
  BY DEF IsPrice, Kinds, RateOf
<1>2. Good(Tiered(p))
  <2>1. /\ {"in", "out"} \subseteq DOMAIN Tiered(p)
        /\ \A kind \in DOMAIN Tiered(p) : Tiered(p)[kind] \in Nat
    BY DEF IsPrice, Tiered
  <2> HIDE DEF Tiered
  <2> QED BY <2>1 DEF RateOf
<1>3. RateOf(Rates(p, prompt), "cache_read") <= InputRate(Rates(p, prompt))
  BY DEF Rates, Consistent
<1>4. Good(Rates(p, prompt))
  BY <1>1, <1>2 DEF Rates
<1> QED BY <1>3, <1>4 DEF InputRate

(* More tokens are priced no lower.                                        *)
LEMMA RatesGrow ==
  ASSUME NEW p, IsPrice(p), Consistent(p), NEW few \in Nat, NEW many \in Nat, few <= many
  PROVE  /\ InputRate(Rates(p, few)) <= InputRate(Rates(p, many))
         /\ Rates(p, few)["out"] <= Rates(p, many)["out"]
<1>1. /\ InputRate(Rates(p, few)) \in Nat /\ Rates(p, few)["out"] \in Nat
  BY RatesType
<1>2. CASE Rates(p, few) = Rates(p, many)
  BY <1>1, <1>2
<1>3. CASE Rates(p, few) # Rates(p, many)
  <2>1. Rates(p, few) = p.rates /\ Rates(p, many) = Tiered(p)
    BY <1>3 DEF Rates, IsPrice
  <2> QED BY <2>1 DEF Consistent
<1> QED BY <1>2, <1>3

LEMMA ProductGrows ==
  ASSUME NEW m \in Nat, NEW n \in Nat, NEW r \in Nat, NEW s \in Nat, m <= n, r <= s
  PROVE  m * r \in Nat /\ n * s \in Nat /\ m * r <= n * s
OBVIOUS

(* Input tokens of three kinds cost at most what all would at a rate that  *)
(* is above theirs.                                                        *)
LEMMA Blend ==
  ASSUME NEW a \in Nat, NEW b \in Nat, NEW c \in Nat,
         NEW r \in Nat, NEW s \in Nat, NEW t \in Nat, NEW top \in Nat,
         r <= top, s <= top, t <= top
  PROVE  a * r + b * s + c * t <= (a + b + c) * top
<1>1. /\ a * r \in Nat /\ a * top \in Nat /\ a * r <= a * top
      /\ b * s \in Nat /\ b * top \in Nat /\ b * s <= b * top
      /\ c * t \in Nat /\ c * top \in Nat /\ c * t <= c * top
  BY ProductGrows
<1>2. (a + b + c) * top = a * top + b * top + c * top
  OBVIOUS
<1> QED BY <1>1, <1>2

TokenCounts == [input : Nat, read : Nat, write : Nat, output : Nat]

(* What worst_case_usd promises: a call that takes no more input than it   *)
(* was estimated to, and no more output than its bound, costs no more,     *)
(* whatever part of its input was read from a cache or written to one and  *)
(* whichever side of the long-context tier it falls on.                    *)
THEOREM WorstCaseCovers ==
  ASSUME NEW p, IsPrice(p), Consistent(p), NEW size \in Nat, NEW cap \in Nat,
         NEW t \in TokenCounts, Prompt(t) <= size, t.output <= cap
  PROVE  /\ TokenCost(t, p) \in Nat
         /\ WorstCase(p, size, cap) \in Nat
         /\ TokenCost(t, p) <= WorstCase(p, size, cap)
<1> DEFINE rates == Rates(p, Prompt(t))
           dear == Rates(p, size)
<1>1. /\ t.input \in Nat /\ t.read \in Nat /\ t.write \in Nat /\ t.output \in Nat
      /\ Prompt(t) \in Nat /\ Prompt(t) = t.input + t.read + t.write
  BY DEF TokenCounts, Prompt
<1>2. /\ rates["in"] \in Nat /\ rates["out"] \in Nat
      /\ RateOf(rates, "cache_read") \in Nat /\ RateOf(rates, "cache_write") \in Nat
      /\ InputRate(rates) \in Nat
      /\ rates["in"] <= InputRate(rates)
      /\ RateOf(rates, "cache_read") <= InputRate(rates)
      /\ RateOf(rates, "cache_write") <= InputRate(rates)
  BY <1>1, RatesType
<1>3. /\ dear["out"] \in Nat /\ InputRate(dear) \in Nat
      /\ InputRate(rates) <= InputRate(dear) /\ rates["out"] <= dear["out"]
  BY <1>1, RatesType, RatesGrow
<1>4. TokenCost(t, p) = (t.input * rates["in"] + t.read * RateOf(rates, "cache_read")
                           + t.write * RateOf(rates, "cache_write")) + t.output * rates["out"]
  BY DEF TokenCost
<1>5. WorstCase(p, size, cap) = size * InputRate(dear) + cap * dear["out"]
  BY DEF WorstCase
<1> HIDE DEF rates, dear
<1>6. t.input * rates["in"] + t.read * RateOf(rates, "cache_read")
        + t.write * RateOf(rates, "cache_write") <= Prompt(t) * InputRate(rates)
  BY <1>1, <1>2, Blend
<1>7. /\ Prompt(t) * InputRate(rates) \in Nat /\ size * InputRate(dear) \in Nat
      /\ Prompt(t) * InputRate(rates) <= size * InputRate(dear)
      /\ t.output * rates["out"] \in Nat /\ cap * dear["out"] \in Nat
      /\ t.output * rates["out"] <= cap * dear["out"]
  BY <1>1, <1>2, <1>3, ProductGrows
<1>8. /\ t.input * rates["in"] \in Nat /\ t.read * RateOf(rates, "cache_read") \in Nat
      /\ t.write * RateOf(rates, "cache_write") \in Nat
  BY <1>1, <1>2, ProductGrows
<1> QED BY <1>4, <1>5, <1>6, <1>7, <1>8

-----------------------------------------------------------------------------
(* The run.                                                                *)

Requests == [price : Prices, size : 1 .. MaxTokens, cap : 0 .. MaxOutput]

(* What on_llm_start held for a call it let through.                       *)
Cover(c) == WorstCase(request[c].price, request[c].size, request[c].cap)

Types ==
    /\ cost \in Nat /\ reserved \in Int
    /\ amount \in [Calls -> Nat]
    /\ entry \in [Slots -> SUBSET Calls]
    /\ at \in [Calls -> {"idle", "inflight", "failed", "refused", "over"}]
    /\ slot \in [Calls -> Slots]
    /\ request \in [Calls -> Requests \cup {NoRequest}]
    /\ \A c \in Calls : at[c] # "idle" => request[c] \in Requests

(* Where the holds are: each in the slot of its call, and a call in flight *)
(* still has its own, for all it may cost, unless another one took it.     *)
Placed ==
    /\ \A s \in Slots : \A c \in entry[s] : slot[c] = s
    /\ \A c \in Calls : amount[c] > 0 => at[c] \in {"inflight", "failed"} /\ entry[slot[c]] = {c}
    /\ \A c \in Calls : at[c] = "inflight" /\ slot[c] \notin crossed =>
        amount[c] = Cover(c) /\ entry[slot[c]] = {c}

(* What was spent is what the calls that ended were billed.                *)
Bills ==
    /\ billed \in [Calls -> Nat] /\ cost = Total(billed)
    /\ \A c \in Calls : at[c] # "over" => billed[c] = 0

Inv ==
    /\ Types
    /\ Placed
    /\ Bills
    /\ reserved = Total(amount)
    /\ crossed = {} => cost + reserved <= Budget

(* A request is one that worst_case_usd can price.                         *)
LEMMA RequestType ==
  ASSUME NEW r \in Requests
  PROVE  /\ IsPrice(r.price) /\ Consistent(r.price) /\ r.size \in Nat /\ r.cap \in Nat
         /\ WorstCase(r.price, r.size, r.cap) \in Nat
<1>1. IsPrice(r.price) /\ Consistent(r.price) /\ r.size \in Nat /\ r.cap \in Nat
  BY HooksAssumption DEF Requests
<1>2. [input |-> 0, read |-> 0, write |-> 0, output |-> 0] \in TokenCounts
  BY DEF TokenCounts
<1> QED BY <1>1, <1>2, WorstCaseCovers DEF Prompt

(* A response costs no more than was held for its request.                 *)
LEMMA UsageCovered ==
  ASSUME NEW c \in Calls, request[c] \in Requests, NEW u \in Usages(c)
  PROVE  CostOf(u, request[c].price) \in Nat /\ CostOf(u, request[c].price) <= Cover(c)
<1>1. /\ IsPrice(request[c].price) /\ Consistent(request[c].price)
      /\ request[c].size \in Nat /\ request[c].cap \in Nat /\ Cover(c) \in Nat
  BY RequestType DEF Cover
<1>2. /\ u.total \in Nat /\ u.read \in Nat /\ u.write \in Nat /\ u.output \in 0 .. request[c].cap
      /\ u.reported \in {-1, Cover(c)} /\ Prompt(Tokens(u)) <= request[c].size
  BY HooksAssumption DEF Usages, Count, Cover
<1>3. CASE u.reported >= 0
  BY <1>1, <1>2, <1>3 DEF CostOf
<1>4. CASE ~(u.reported >= 0)
  <2>1. Tokens(u) \in TokenCounts /\ Tokens(u).output <= request[c].cap
    BY <1>1, <1>2 DEF Tokens, TokenCounts, Clamp
  <2> QED BY <1>1, <1>2, <1>4, <2>1, WorstCaseCovers DEF CostOf, Cover
<1> QED BY <1>3, <1>4

LEMMA InitInv == Init => Inv
<1> SUFFICES ASSUME Init PROVE Inv
  OBVIOUS
<1>1. Types /\ Placed
  BY DEF Init, Types, Placed
<1>2. Total(amount) = 0
  BY HooksAssumption, TotalZero DEF Init
<1>3. Bills
  BY <1>2 DEF Init, Bills
<1> QED BY <1>1, <1>2, <1>3, HooksAssumption DEF Init, Inv

(* on_llm_start: what a failed call left behind goes, and what is held in  *)
(* its place fits.                                                         *)
LEMMA StartInv ==
  ASSUME Inv, NEW c \in Calls, NEW p \in Prices, NEW size \in 1 .. MaxTokens,
         NEW cap \in 0 .. MaxOutput, Start(c, p, size, cap)
  PROVE  Inv'
<1> DEFINE w == WorstCase(p, size, cap)
           E == entry[slot[c]]
           left == Total(Within(amount, E))
           fits == cost + reserved - left + w <= Budget
           r == [price |-> p, size |-> size, cap |-> cap]
<1> USE DEF Inv
<1>1. r \in Requests /\ w \in Nat
  <2>1. r \in Requests
    BY DEF Requests
  <2> QED BY <2>1, RequestType
<1>2. /\ at[c] = "idle"
      /\ at' = [at EXCEPT ![c] = IF fits THEN "inflight" ELSE "refused"]
      /\ entry' = [entry EXCEPT ![slot[c]] = IF fits THEN {c} ELSE {}]
      /\ amount' = [d \in Calls |-> IF d = c /\ fits THEN w ELSE IF d \in E THEN 0 ELSE amount[d]]
      /\ reserved' = reserved - left + IF fits THEN w ELSE 0
      /\ request' = [request EXCEPT ![c] = r]
      /\ crossed' = IF \E d \in E : at[d] = "inflight" THEN crossed \cup {slot[c]} ELSE crossed
      /\ cost' = cost /\ slot' = slot /\ billed' = billed
  BY DEF Start, LeftIn
<1>3. amount \in [Calls -> Nat] /\ amount[c] = 0
  BY <1>2 DEF Types, Placed
<1>4. left \in Nat /\ Total(Without(amount, E)) \in Nat
      /\ reserved = Total(Without(amount, E)) + left
  <2>1. Within(amount, E) \in [Calls -> Nat] /\ Without(amount, E) \in [Calls -> Nat]
    BY <1>3 DEF Within, Without
  <2> QED BY <1>3, <2>1, HooksAssumption, TotalSplit, TotalType
<1> HIDE DEF w, left
<1>5. Types'
  BY <1>1, <1>2, <1>4 DEF Types
<1>6. Placed'
  <2> HIDE DEF fits
  <2>1. (\A s \in Slots : \A d \in entry[s] : slot[d] = s)'
    BY <1>2 DEF Types, Placed
  <2>2. ASSUME NEW d \in Calls, amount'[d] > 0
        PROVE  at'[d] \in {"inflight", "failed"} /\ entry'[slot'[d]] = {d}
    BY <1>2, <1>3, <2>2 DEF Types, Placed
  <2>3. ASSUME NEW d \in Calls, at'[d] = "inflight", slot'[d] \notin crossed'
        PROVE  amount'[d] = Cover(d)' /\ entry'[slot'[d]] = {d}
    <3>1. CASE d = c
      BY <1>2, <2>3, <3>1 DEF Types, Placed, Cover, w
    <3>2. CASE d # c
      <4>1. at[d] = "inflight" /\ slot[d] \notin crossed /\ request'[d] = request[d]
        BY <1>2, <2>3, <3>2 DEF Types
      <4>2. amount[d] = Cover(d) /\ entry[slot[d]] = {d}
        BY <4>1 DEF Placed
      <4>3. slot[d] # slot[c]
        BY <1>2, <2>3, <4>1, <4>2 DEF Types
      <4>4. d \notin E
        BY <4>3 DEF Types, Placed
      <4> QED BY <1>2, <3>2, <4>1, <4>2, <4>3, <4>4 DEF Types, Cover
    <3> QED BY <3>1, <3>2
  <2> QED BY <2>1, <2>2, <2>3 DEF Placed
<1>7. reserved' = Total(amount)'
  <2> DEFINE f == Without(amount, E)
             g == amount'
  <2>1. /\ f \in [Calls -> Nat] /\ g \in [Calls -> Nat] /\ f[c] = 0
        /\ g[c] = IF fits THEN w ELSE 0
        /\ \A d \in Calls \ {c} : f[d] = g[d]
    BY <1>1, <1>2, <1>3 DEF Without
  <2> HIDE DEF f, g
  <2>2. Total(g) + f[c] = Total(f) + g[c]
    BY <2>1, HooksAssumption, TotalUpdate
  <2>3. Total(g) \in Nat /\ Total(f) \in Nat
    BY <2>1, HooksAssumption, TotalType
  <2>4. Total(g) = Total(f) + IF fits THEN w ELSE 0
    BY <1>1, <2>1, <2>2, <2>3
  <2>5. Total(f) = reserved - left
    BY <1>4 DEF f, Types
  <2> QED BY <1>2, <2>4, <2>5 DEF g
<1>8. crossed' = {} => cost' + reserved' <= Budget
  BY <1>1, <1>2, <1>4, HooksAssumption DEF Types
<1>9. Bills'
  BY <1>2 DEF Types, Bills
<1> QED BY <1>5, <1>6, <1>7, <1>8, <1>9

(* on_llm_end: the response costs no more than the slot held for it.       *)
LEMMA EndInv ==
  ASSUME Inv, NEW c \in Calls, NEW u \in Usages(c), End(c, u)
  PROVE  Inv'
<1> DEFINE E == entry[slot[c]]
           k == CostOf(u, request[c].price)
<1> USE DEF Inv
<1>1. /\ at[c] = "inflight"
      /\ at' = [at EXCEPT ![c] = "over"]
      /\ cost' = cost + k
      /\ reserved' = reserved - Total(Within(amount, E))
      /\ amount' = Without(amount, E)
      /\ entry' = [entry EXCEPT ![slot[c]] = {}]
      /\ slot' = slot /\ request' = request /\ crossed' = crossed
      /\ billed' = [billed EXCEPT ![c] = k]
  BY DEF End
<1>2. k \in Nat /\ k <= Cover(c)
  BY <1>1, UsageCovered DEF Types
<1>3. /\ Total(Without(amount, E)) \in Nat /\ Total(Within(amount, E)) \in Nat
      /\ reserved = Total(Without(amount, E)) + Total(Within(amount, E))
  <2>1. Within(amount, E) \in [Calls -> Nat] /\ Without(amount, E) \in [Calls -> Nat]
    BY DEF Types, Within, Without
  <2> QED BY <2>1, HooksAssumption, TotalSplit, TotalType DEF Types
<1>4. crossed = {} => Total(Within(amount, E)) = Cover(c)
  <2> SUFFICES ASSUME crossed = {} PROVE Total(Within(amount, E)) = Cover(c)
    OBVIOUS
  <2>1. E = {c} /\ amount[c] = Cover(c)
    BY <1>1 DEF Placed
  <2> DEFINE f == Within(amount, E)
  <2>2. f \in [Calls -> Nat] /\ f[c] = Cover(c) /\ \A d \in Calls \ {c} : f[d] = 0
    BY <2>1 DEF Types, Within
  <2> HIDE DEF f
  <2>3. Total(f) = f[c]
    BY <2>2, HooksAssumption, TotalSingle
  <2> QED BY <2>2, <2>3 DEF f
<1> HIDE DEF k
<1>5. Types'
  BY <1>1, <1>2, <1>3 DEF Types, Without
<1>6. Placed'
  BY <1>1 DEF Types, Placed, Without, Cover
<1>7. reserved' = Total(amount)'
  BY <1>1, <1>3
<1>8. crossed' = {} => cost' + reserved' <= Budget
  BY <1>1, <1>2, <1>3, <1>4, HooksAssumption DEF Types
<1>9. Bills'
  <2>1. /\ billed' \in [Calls -> Nat] /\ billed[c] = 0 /\ billed'[c] = k
        /\ \A d \in Calls \ {c} : billed[d] = billed'[d]
    BY <1>1, <1>2 DEF Bills
  <2>2. Total(billed') + 0 = Total(billed) + k
    BY <2>1, HooksAssumption, TotalUpdate DEF Bills
  <2>3. Total(billed') \in Nat
    BY <2>1, HooksAssumption, TotalType
  <2>4. cost' = Total(billed')
    BY <1>1, <1>2, <2>2, <2>3 DEF Bills, Types
  <2>5. \A d \in Calls : at'[d] # "over" => billed'[d] = 0
    BY <1>1, <2>1 DEF Bills, Types
  <2> QED BY <2>1, <2>4, <2>5 DEF Bills
<1> QED BY <1>5, <1>6, <1>7, <1>8, <1>9

(* A call fails, and its hold stays in the slot.                           *)
LEMMA FailInv ==
  ASSUME Inv, NEW c \in Calls, Fail(c)
  PROVE  Inv'
<1>1. Types' /\ Placed'
  BY DEF Inv, Types, Placed, Cover, Fail
<1>2. Bills'
  BY DEF Inv, Types, Bills, Fail
<1> QED BY <1>1, <1>2 DEF Inv, Fail

LEMMA NextInv == Inv /\ [Next]_vars => Inv'
<1> SUFFICES ASSUME Inv, [Next]_vars PROVE Inv'
  OBVIOUS
<1>1. CASE vars' = vars
  BY <1>1 DEF Inv, Types, Placed, Cover, Bills, vars
<1> QED BY <1>1, StartInv, EndInv, FailInv DEF Next

(* What is reserved is what the holds sum to, each in the slot of its      *)
(* call, and with what was spent it stays within the budget.               *)
THEOREM HooksInv == Spec => []Inv
BY InitInv, NextInv, PTL DEF Spec

(* A run the hooks govern never overspends, unless two calls of one agent  *)
(* were in flight at once (on_llm_start, on_llm_end).                      *)
THEOREM HooksNoOverspend == Spec => []NoOverspend
<1>1. ASSUME Inv PROVE NoOverspend
  <2>1. reserved \in Nat
    BY <1>1, HooksAssumption, TotalType DEF Inv, Types
  <2> QED BY <1>1, <2>1, HooksAssumption DEF Inv, Types, NoOverspend
<1> QED BY <1>1, HooksInv, PTL

(* Room is only ever held by a call in flight, or by the last one of a     *)
(* slot if it failed (the _holds of a hooks object).                       *)
THEOREM HooksOnlyFailedLeft == Spec => []OnlyFailedLeft
<1>1. Inv => OnlyFailedLeft
  BY DEF Inv, Placed, OnlyFailedLeft
<1> QED BY <1>1, HooksInv, PTL

-----------------------------------------------------------------------------
(* The hooks implement Fence.                                              *)

LEMMA PromiseTotal == Promise!Total(owed) = Total(owed)
BY DEF Promise!Total, Promise!Units, Promise!Cardinality, Total, Units, Cardinality

(* What all calls owe, once those in D no longer hold, is within what the  *)
(* run spent and still reserves: a failed call's hold is room to spare.    *)
LEMMA OwedWithin ==
  ASSUME Inv, NEW D, \A d \in D : at[d] # "inflight"
  PROVE  /\ owed \in [Calls -> Nat] /\ Total(owed) \in Nat
         /\ Total(owed) <= cost + reserved - Total(Within(amount, D))
<1> DEFINE rest == Without(amount, D)
           both == [c \in Calls |-> IF at[c] = "over" THEN billed[c] ELSE rest[c]]
<1>1. /\ amount \in [Calls -> Nat] /\ billed \in [Calls -> Nat] /\ IsFiniteSet(Calls)
      /\ \A c \in Calls : at[c] # "over" => billed[c] = 0
      /\ \A c \in Calls : at[c] = "over" => amount[c] = 0
      /\ cost = Total(billed) /\ reserved = Total(amount)
  BY HooksAssumption DEF Inv, Types, Placed, Bills
<1>2. owed \in [Calls -> Nat]
  BY <1>1 DEF owed
<1>3. rest \in [Calls -> Nat] /\ \A c \in Calls : rest[c] = IF c \in D THEN 0 ELSE amount[c]
  BY <1>1 DEF Without
<1> HIDE DEF rest
<1>4. /\ both \in [Calls -> Nat]
      /\ \A c \in Calls : (both[c] = billed[c] /\ rest[c] = 0) \/ (both[c] = rest[c] /\ billed[c] = 0)
      /\ \A c \in Calls : owed[c] <= both[c]
  BY <1>1, <1>3 DEF owed
<1> HIDE DEF both
<1>5. Total(both) = Total(billed) + Total(rest)
  BY <1>1, <1>3, <1>4, TotalDisjoint
<1>6. Total(owed) <= Total(both)
  BY <1>1, <1>2, <1>4, TotalMonotone
<1>7. Total(amount) = Total(rest) + Total(Within(amount, D))
  BY <1>1, TotalSplit DEF rest
<1>8. /\ Total(owed) \in Nat /\ Total(both) \in Nat /\ Total(rest) \in Nat
      /\ Total(Within(amount, D)) \in Nat /\ Total(billed) \in Nat /\ Total(amount) \in Nat
  <2>1. Within(amount, D) \in [Calls -> Nat]
    BY <1>1 DEF Within
  <2> QED BY <1>1, <1>2, <1>3, <1>4, <2>1, TotalType
<1> QED BY <1>1, <1>2, <1>5, <1>6, <1>7, <1>8

(* Only the call a step is about owes another amount.                      *)
LEMMA OwedMove ==
  ASSUME NEW c \in Calls, NEW w, owed'[c] = w, \A d \in Calls \ {c} : owed'[d] = owed[d]
  PROVE  owed' = [owed EXCEPT ![c] = w]
<1>1. owed = [d \in Calls |-> owed[d]] /\ owed' = [d \in Calls |-> owed'[d]]
  BY DEF owed
<1> QED BY <1>1

(* Until an agent's calls cross, a step of the hooks is one of Fence's, or *)
(* changes nothing Fence knows of.                                         *)
LEMMA FenceStep ==
  ASSUME Inv, Next, crossed' = {}
  PROVE  [Promise!Next]_(Promise!vars)
<1>1. /\ amount \in [Calls -> Nat] /\ billed \in [Calls -> Nat] /\ Budget \in Nat
      /\ cost \in Nat /\ reserved \in Int /\ DOMAIN at = Calls /\ slot \in [Calls -> Slots]
      /\ \A c \in Calls : at[c] # "over" => billed[c] = 0
  BY HooksAssumption DEF Inv, Types, Bills
<1>2. ASSUME NEW c \in Calls, NEW p \in Prices, NEW size \in 1 .. MaxTokens,
             NEW cap \in 0 .. MaxOutput, Start(c, p, size, cap)
      PROVE  [Promise!Next]_(Promise!vars)
  <2> DEFINE w == WorstCase(p, size, cap)
             E == entry[slot[c]]
             left == Total(Within(amount, E))
             fits == cost + reserved - left + w <= Budget
  <2>1. /\ at[c] = "idle" /\ billed' = billed
        /\ at' = [at EXCEPT ![c] = IF fits THEN "inflight" ELSE "refused"]
        /\ amount' = [d \in Calls |-> IF d = c /\ fits THEN w ELSE IF d \in E THEN 0 ELSE amount[d]]
        /\ \A d \in E : at[d] # "inflight"
    BY <1>2 DEF Start, LeftIn
  <2>2. w \in Nat
    <3>1. [price |-> p, size |-> size, cap |-> cap] \in Requests
      BY DEF Requests
    <3> QED BY <3>1, RequestType
  <2>3. Total(owed) \in Nat /\ Total(owed) <= cost + reserved - left
    BY <2>1, OwedWithin
  <2>4. left \in Nat
    <3>1. Within(amount, E) \in [Calls -> Nat]
      BY <1>1 DEF Within
    <3> QED BY <3>1, HooksAssumption, TotalType
  <2> HIDE DEF w, left
  <2>5. \A d \in Calls \ {c} : owed'[d] = owed[d]
    BY <1>1, <2>1 DEF owed
  <2>6. CASE fits
    <3>1. owed' = [owed EXCEPT ![c] = w]
      <4>1. owed'[c] = w
        BY <1>1, <2>1, <2>6 DEF owed
      <4> QED BY <2>5, <4>1, OwedMove
    <3>2. c \notin admitted /\ admitted' = admitted \cup {c}
      BY <1>1, <2>1, <2>6 DEF admitted
    <3>3. Total(owed) + 0 + w <= Budget /\ w \in 0 .. Budget
      BY <1>1, <2>2, <2>3, <2>4, <2>6
    <3> QED BY <3>1, <3>2, <3>3, PromiseTotal DEF Promise!Admit, Promise!Next
  <2>7. CASE ~fits
    <3>1. owed'[c] = owed[c]
      BY <1>1, <2>1, <2>7 DEF owed
    <3>2. owed' = owed
      BY <2>5, <3>1 DEF owed
    <3>3. admitted' = admitted
      BY <1>1, <2>1, <2>7 DEF admitted
    <3> QED BY <3>2, <3>3 DEF Promise!vars
  <2> QED BY <2>6, <2>7
<1>3. ASSUME NEW c \in Calls, NEW u \in Usages(c), End(c, u)
      PROVE  Promise!Next
  <2> DEFINE k == CostOf(u, request[c].price)
  <2>1. /\ at[c] = "inflight" /\ at' = [at EXCEPT ![c] = "over"]
        /\ amount' = Without(amount, entry[slot[c]])
        /\ billed' = [billed EXCEPT ![c] = k] /\ crossed' = crossed
    BY <1>3 DEF End
  <2>2. entry[slot[c]] = {c} /\ amount[c] = Cover(c)
    BY <1>1, <2>1 DEF Inv, Placed
  <2>3. k \in Nat /\ k <= owed[c]
    BY <2>1, <2>2, UsageCovered DEF Inv, Types, owed
  <2> HIDE DEF k
  <2>4. owed'[c] = k /\ \A d \in Calls \ {c} : owed'[d] = owed[d]
    BY <1>1, <2>1, <2>2 DEF owed, Without
  <2>5. owed' = [owed EXCEPT ![c] = k]
    BY <2>4, OwedMove
  <2>6. c \in admitted /\ admitted' = admitted
    BY <1>1, <2>1 DEF admitted
  <2>7. owed[c] \in Nat
    BY <1>1 DEF owed
  <2>8. Promise!Resolve(c, k)
    BY <2>3, <2>5, <2>6 DEF Promise!Resolve
  <2> QED BY <2>3, <2>7, <2>8 DEF Promise!Next
<1>4. ASSUME NEW c \in Calls, Fail(c)
      PROVE  Promise!Next
  <2>1. /\ at[c] = "inflight" /\ at' = [at EXCEPT ![c] = "failed"]
        /\ amount' = amount /\ billed' = billed
    BY <1>4 DEF Fail
  <2>2. owed'[c] = 0 /\ \A d \in Calls \ {c} : owed'[d] = owed[d]
    BY <1>1, <2>1 DEF owed
  <2>3. owed' = [owed EXCEPT ![c] = 0]
    BY <2>2, OwedMove
  <2>4. c \in admitted /\ admitted' = admitted
    BY <1>1, <2>1 DEF admitted
  <2>5. owed[c] \in Nat /\ 0 \in 0 .. owed[c]
    BY <1>1 DEF owed
  <2>6. Promise!Resolve(c, 0)
    BY <2>3, <2>4, <2>5 DEF Promise!Resolve
  <2> QED BY <2>5, <2>6 DEF Promise!Next
<1> QED BY <1>2, <1>3, <1>4 DEF Next

(* The hooks keep Fence's promise, of admitting a call only if its worst   *)
(* case fits beside all that others owe, until two calls of one agent are  *)
(* in flight under one hooks object (the single slot of _holds).           *)
THEOREM HooksImplementFence == Spec => FenceUntilCrossed
<1>1. Init => Promise!Init
  BY DEF Init, Promise!Init, owed, admitted
<1>2. Inv /\ [Next]_vars => [crossed' = {} => [Promise!Next]_(Promise!vars)]_vars
  <2>1. CASE vars' = vars
    BY <2>1
  <2> QED BY <2>1, FenceStep
<1> QED BY <1>1, <1>2, HooksInv, PTL DEF Spec, FenceUntilCrossed

-----------------------------------------------------------------------------
(* The other integration, LangChain's handler: Handler, with constants and *)
(* variables of its own.                                                   *)

CONSTANTS Chains, Models, Tools, Foreign
VARIABLES lc, joined, root, runs, started, holds, fences, room, owner, unseen

Lang == INSTANCE Handler

Nodes == Chains \cup Models \cup Tools
Outcomes == {"new", "starting", "running", "ending", "over"}

(* Who is in _root was seen to start, and so was its root, unless that is  *)
(* unknown here; and who has a run is a root.                              *)
Roots ==
    /\ \A n \in DOMAIN root : lc[n] # "new" /\ (root[n] = Foreign \/ lc[root[n]] # "new")
    /\ \A n \in DOMAIN runs :
          n \in DOMAIN root /\ root[n] = n /\ runs[n] = IF joined THEN "outer" ELSE "own"

(* The runs that are open are those started here and not forgotten.        *)
Opened ==
    /\ \A n \in Nodes : fences[n] = "open" <=> n \in DOMAIN runs /\ runs[n] = "own"
    /\ joined => \A n \in Nodes : fences[n] = "none"
    /\ \A n \in Nodes : lc[n] = "new" => fences[n] = "none"
    /\ \A n \in Chains \cup Models : fences[n] = "open" => lc[n] # "over"
    /\ \A n \in Nodes : fences[n] = "over" => lc[n] = "over"

(* The run a call has room in is its own for as long as it has one.        *)
RoomOf(m) ==
    /\ lc[m] \in {"new", "starting"} => room[m] = "none"
    /\ lc[m] = "running" /\ room[m] # "none" =>
          /\ room[m] = "held" /\ owner[m] \in Nodes \cup {"outer"}
          /\ \/ Lang!RunOf(m) = owner[m]
             \/ /\ Lang!RunOf(m) = "none"
                /\ owner[m] = "outer" \/ fences[owner[m]] = "over"
    /\ lc[m] = "ending" => room[m] # "held"
    /\ lc[m] = "over" /\ room[m] # "none" =>
          \/ owner[m] = "outer" /\ m \in unseen
          \/ owner[m] \in Nodes /\ fences[owner[m]] = "over"

Rooms == \A m \in Models : RoomOf(m)

LangInv == Lang!TypeOK /\ Roots /\ Opened /\ Rooms

LEMMA LangInitInv ==
  ASSUME Lang!Init
  PROVE  LangInv
<1>1. /\ lc = [n \in Nodes |-> "new"] /\ joined \in BOOLEAN /\ DOMAIN root = {} /\ DOMAIN runs = {}
      /\ started = {} /\ holds = {} /\ fences = [n \in Nodes |-> "none"]
      /\ room = [m \in Models |-> "none"] /\ owner = [m \in Models |-> "none"] /\ unseen = {}
  BY DEF Lang!Init, Lang!Nodes, Nodes
<1>2. Lang!TypeOK
  BY <1>1 DEF Lang!TypeOK, Lang!Nodes, Nodes
<1>3. Roots /\ Opened
  BY <1>1 DEF Roots, Opened, Nodes
<1>4. Rooms
  BY <1>1 DEF Rooms, RoomOf, Nodes
<1> QED BY <1>2, <1>3, <1>4 DEF LangInv

(* One LangChain run goes from one place to another.                       *)
LEMMA GotoFacts ==
  ASSUME LangInv, NEW n \in Nodes, NEW here, NEW next \in Outcomes, Lang!Goto(n, here, next)
  PROVE  /\ lc[n] = here /\ lc' \in [Nodes -> Outcomes]
         /\ \A x \in Nodes : lc'[x] = IF x = n THEN next ELSE lc[x]
BY DEF LangInv, Lang!TypeOK, Lang!Goto, Lang!Nodes, Nodes, Outcomes

(* What a call's room depends on: its run may go only with what it holds.  *)
LEMMA RoomKept ==
  ASSUME NEW m \in Models, RoomOf(m), lc'[m] = lc[m], room'[m] \in {room[m], "none"},
         owner'[m] = owner[m], m \in unseen => m \in unseen',
         \A x \in Nodes : fences[x] = "over" => fences'[x] = "over",
         \/ Lang!RunOf(m)' = Lang!RunOf(m)
         \/ /\ Lang!RunOf(m)' = "none"
            /\ \/ Lang!RunOf(m) = "outer"
               \/ Lang!RunOf(m) \in Nodes /\ fences'[Lang!RunOf(m)] = "over"
  PROVE  RoomOf(m)'
BY DEF RoomOf

(* _root[n] = r, for an n that is new and an r that is not.                *)
LEMMA EnteredFacts ==
  ASSUME Lang!HandlerAssumption, LangInv, NEW n \in Nodes, NEW r \in Nodes \cup {Foreign},
         lc[n] = "new", root' = Lang!Entered(root, n, r)
  PROVE  /\ n \notin DOMAIN root /\ n \notin DOMAIN runs
         /\ DOMAIN root' = DOMAIN root \cup {n} /\ DOMAIN root' \subseteq Nodes
         /\ \A x \in DOMAIN root' :
               root'[x] = (IF x = n THEN r ELSE root[x]) /\ root'[x] \in Nodes \cup {Foreign}
         /\ \A x \in DOMAIN root : root[x] # n
         /\ n \notin {Foreign, "outer", "none"}
<1>1. /\ DOMAIN root \subseteq Nodes /\ \A x \in DOMAIN root : root[x] \in Nodes \cup {Foreign}
      /\ Roots
  BY DEF LangInv, Lang!TypeOK, Lang!Nodes, Nodes
<1>2. n \notin DOMAIN root /\ n \notin DOMAIN runs
  BY <1>1 DEF Roots
<1>3. n \notin {Foreign, "outer", "none"}
  BY DEF Lang!HandlerAssumption, Lang!Nodes, Nodes
<1>4. \A x \in DOMAIN root : root[x] # n
  BY <1>1, <1>3 DEF Roots
<1>5. /\ DOMAIN root' = DOMAIN root \cup {n}
      /\ \A x \in DOMAIN root' : root'[x] = IF x = n THEN r ELSE root[x]
  BY DEF Lang!Entered
<1>6. \A x \in DOMAIN root' : root'[x] \in Nodes \cup {Foreign}
  BY <1>1, <1>5
<1> QED BY <1>1, <1>2, <1>3, <1>4, <1>5, <1>6

(* A LangChain run starts in another, or on its own.                       *)
LEMMA EnterFacts ==
  ASSUME Lang!HandlerAssumption, LangInv, NEW n \in Nodes, NEW p \in Lang!Parents(n),
         NEW next \in {"starting", "running"}, Lang!Goto(n, "new", next), Lang!Enter(n, p),
         joined' = joined
  PROVE  /\ DOMAIN root' \subseteq Nodes /\ \A x \in DOMAIN root' : root'[x] \in Nodes \cup {Foreign}
         /\ DOMAIN runs' \subseteq Nodes /\ \A x \in DOMAIN runs' : runs'[x] \in {"own", "outer"}
         /\ fences' \in [Nodes -> {"none", "open", "over"}]
         /\ Roots' /\ Opened'
         /\ \A x \in Nodes : fences[x] = "over" => fences'[x] = "over"
         /\ \A x \in Nodes \ {n} : Lang!RunOf(x)' = Lang!RunOf(x)
<1>1. /\ lc[n] = "new" /\ lc' \in [Nodes -> Outcomes]
      /\ \A x \in Nodes : lc'[x] = IF x = n THEN next ELSE lc[x]
  BY GotoFacts DEF Outcomes
<1>2. /\ DOMAIN root \subseteq Nodes /\ \A x \in DOMAIN root : root[x] \in Nodes \cup {Foreign}
      /\ DOMAIN runs \subseteq Nodes /\ \A x \in DOMAIN runs : runs[x] \in {"own", "outer"}
      /\ fences \in [Nodes -> {"none", "open", "over"}] /\ joined \in BOOLEAN
      /\ Roots /\ Opened
  BY DEF LangInv, Lang!TypeOK, Lang!Nodes, Nodes
<1>3. CASE p # n
  <2> DEFINE r == IF p \in DOMAIN root THEN root[p] ELSE p
  <2>1. root' = Lang!Entered(root, n, r) /\ runs' = runs /\ fences' = fences
    BY <1>3 DEF Lang!Enter
  <2>2. p = Foreign \/ (p \in Nodes /\ lc[p] = "running")
    BY <1>3 DEF Lang!Parents, Nodes
  <2>3. r \in Nodes \cup {Foreign} /\ (r = Foreign \/ lc[r] # "new")
    BY <1>2, <2>2 DEF Roots
  <2> HIDE DEF r
  <2>4. /\ n \notin DOMAIN root /\ n \notin DOMAIN runs
        /\ DOMAIN root' = DOMAIN root \cup {n} /\ DOMAIN root' \subseteq Nodes
        /\ \A x \in DOMAIN root' :
              root'[x] = (IF x = n THEN r ELSE root[x]) /\ root'[x] \in Nodes \cup {Foreign}
        /\ n \notin {Foreign, "outer", "none"}
    BY <1>1, <2>1, <2>3, EnteredFacts
  <2>5. Roots'
    <3>1. ASSUME NEW x \in DOMAIN root'
          PROVE  lc'[x] # "new" /\ (root'[x] = Foreign \/ lc'[root'[x]] # "new")
      BY <1>1, <1>2, <2>3, <2>4 DEF Roots
    <3>2. ASSUME NEW x \in DOMAIN runs'
          PROVE  x \in DOMAIN root' /\ root'[x] = x /\ runs'[x] = IF joined' THEN "outer" ELSE "own"
      BY <1>2, <2>1, <2>4 DEF Roots
    <3> QED BY <3>1, <3>2 DEF Roots
  <2>6. Opened'
    BY <1>1, <1>2, <2>1 DEF Opened, Nodes
  <2>7. ASSUME NEW x \in Nodes \ {n} PROVE Lang!RunOf(x)' = Lang!RunOf(x)
    <3>1. x \in DOMAIN root' <=> x \in DOMAIN root
      BY <2>4
    <3>2. x \in DOMAIN root => root'[x] = root[x]
      BY <2>4
    <3> QED BY <2>1, <3>1, <3>2 DEF Lang!RunOf
  <2> QED BY <1>2, <2>1, <2>4, <2>5, <2>6, <2>7
<1>4. CASE p = n
  <2>1. /\ root' = Lang!Entered(root, n, n)
        /\ runs' = Lang!Entered(runs, n, IF joined THEN "outer" ELSE "own")
        /\ fences' = (IF joined THEN fences ELSE [fences EXCEPT ![n] = "open"])
    BY <1>4 DEF Lang!Enter
  <2>2. /\ n \notin DOMAIN root /\ n \notin DOMAIN runs
        /\ DOMAIN root' = DOMAIN root \cup {n} /\ DOMAIN root' \subseteq Nodes
        /\ \A x \in DOMAIN root' :
              root'[x] = (IF x = n THEN n ELSE root[x]) /\ root'[x] \in Nodes \cup {Foreign}
        /\ \A x \in DOMAIN root : root[x] # n
    BY <1>1, <2>1, EnteredFacts
  <2>3. /\ DOMAIN runs' = DOMAIN runs \cup {n}
        /\ \A x \in DOMAIN runs' :
              runs'[x] = IF x = n THEN IF joined THEN "outer" ELSE "own" ELSE runs[x]
    BY <2>1 DEF Lang!Entered
  <2>4. DOMAIN runs' \subseteq Nodes /\ \A x \in DOMAIN runs' : runs'[x] \in {"own", "outer"}
    BY <1>2, <2>3
  <2>5. /\ fences' \in [Nodes -> {"none", "open", "over"}]
        /\ \A x \in Nodes : fences'[x] = IF x = n /\ ~joined THEN "open" ELSE fences[x]
        /\ fences[n] = "none"
    BY <1>1, <1>2, <2>1 DEF Opened
  <2>6. Roots'
    <3>1. ASSUME NEW x \in DOMAIN root'
          PROVE  lc'[x] # "new" /\ (root'[x] = Foreign \/ lc'[root'[x]] # "new")
      BY <1>1, <1>2, <2>2 DEF Roots
    <3>2. ASSUME NEW x \in DOMAIN runs'
          PROVE  x \in DOMAIN root' /\ root'[x] = x /\ runs'[x] = IF joined' THEN "outer" ELSE "own"
      BY <1>2, <2>2, <2>3 DEF Roots
    <3> QED BY <3>1, <3>2 DEF Roots
  <2>7. Opened'
    <3>1. \A x \in Nodes : fences'[x] = "open" <=> x \in DOMAIN runs' /\ runs'[x] = "own"
      BY <1>2, <2>2, <2>3, <2>5 DEF Opened
    <3>2. joined' => \A x \in Nodes : fences'[x] = "none"
      BY <1>2, <2>5 DEF Opened
    <3>3. \A x \in Nodes : lc'[x] = "new" => fences'[x] = "none"
      BY <1>1, <1>2, <2>5 DEF Opened
    <3>4. \A x \in Chains \cup Models : fences'[x] = "open" => lc'[x] # "over"
      BY <1>1, <1>2, <2>5 DEF Opened, Nodes
    <3>5. \A x \in Nodes : fences'[x] = "over" => lc'[x] = "over"
      BY <1>1, <1>2, <2>5 DEF Opened
    <3> QED BY <3>1, <3>2, <3>3, <3>4, <3>5 DEF Opened
  <2>8. ASSUME NEW x \in Nodes \ {n} PROVE Lang!RunOf(x)' = Lang!RunOf(x)
    <3>1. x \in DOMAIN root' <=> x \in DOMAIN root
      BY <2>2
    <3>2. x \in DOMAIN root => root'[x] = root[x] /\ root[x] # n
      BY <2>2
    <3>3. x \in DOMAIN root => (root[x] \in DOMAIN runs' <=> root[x] \in DOMAIN runs)
      BY <2>3, <3>2
    <3>4. x \in DOMAIN root /\ root[x] \in DOMAIN runs => runs'[root[x]] = runs[root[x]]
      <4> SUFFICES ASSUME x \in DOMAIN root, root[x] \in DOMAIN runs
                   PROVE  runs'[root[x]] = runs[root[x]]
        OBVIOUS
      <4>1. root[x] # n /\ root[x] \in DOMAIN runs'
        BY <2>3, <3>2
      <4> QED BY <2>3, <4>1
    <3> QED BY <3>1, <3>2, <3>3, <3>4 DEF Lang!RunOf
  <2> QED BY <1>2, <2>2, <2>4, <2>5, <2>6, <2>7, <2>8
<1> QED BY <1>3, <1>4

(* A chain, or a model call on its own, is over, and its run with it.      *)
LEMMA ExitFacts ==
  ASSUME Lang!HandlerAssumption, LangInv, NEW c \in Chains \cup Models, NEW here,
         Lang!Goto(c, here, "over"), here # "new", Lang!Exit(c) \/ Lang!ExitIfRoot(c), joined' = joined
  PROVE  /\ DOMAIN root' \subseteq Nodes /\ \A x \in DOMAIN root' : root'[x] \in Nodes \cup {Foreign}
         /\ DOMAIN runs' \subseteq Nodes /\ \A x \in DOMAIN runs' : runs'[x] \in {"own", "outer"}
         /\ fences' \in [Nodes -> {"none", "open", "over"}]
         /\ Roots' /\ Opened'
         /\ \A x \in Nodes : fences[x] = "over" => fences'[x] = "over"
         /\ \A x \in Nodes : \/ Lang!RunOf(x)' = Lang!RunOf(x)
                             \/ /\ Lang!RunOf(x)' = "none"
                                /\ \/ Lang!RunOf(x) = "outer"
                                   \/ Lang!RunOf(x) \in Nodes /\ fences'[Lang!RunOf(x)] = "over"
<1> DEFINE isRoot == c \in DOMAIN root /\ root[c] = c
<1>1. /\ lc[c] = here /\ lc' \in [Nodes -> Outcomes] /\ c \in Nodes
      /\ \A x \in Nodes : lc'[x] = IF x = c THEN "over" ELSE lc[x]
  <2>1. c \in Nodes
    BY DEF Nodes
  <2> QED BY <2>1, GotoFacts DEF Outcomes
<1>2. /\ DOMAIN root \subseteq Nodes /\ \A x \in DOMAIN root : root[x] \in Nodes \cup {Foreign}
      /\ DOMAIN runs \subseteq Nodes /\ \A x \in DOMAIN runs : runs[x] \in {"own", "outer"}
      /\ fences \in [Nodes -> {"none", "open", "over"}] /\ joined \in BOOLEAN
      /\ Roots /\ Opened
  BY DEF LangInv, Lang!TypeOK, Lang!Nodes, Nodes
<1>3. c \in DOMAIN runs => isRoot
  BY <1>2 DEF Roots
<1>4. CASE Lang!Exit(c)
  <2>1. /\ root' = [x \in {x \in DOMAIN root : root[x] # c} |-> root[x]]
        /\ runs' = (IF isRoot THEN [x \in DOMAIN runs \ {c} |-> runs[x]] ELSE runs)
        /\ fences' = IF isRoot /\ c \in DOMAIN runs /\ runs[c] = "own"
                     THEN [fences EXCEPT ![c] = "over"] ELSE fences
    BY <1>4 DEF Lang!Exit
  <2>2. /\ DOMAIN root' = {x \in DOMAIN root : root[x] # c}
        /\ \A x \in DOMAIN root' : root'[x] = root[x]
    BY <2>1
  <2>3. DOMAIN runs' = DOMAIN runs \ {c} /\ \A x \in DOMAIN runs' : runs'[x] = runs[x]
    <3>1. CASE isRoot
      BY <2>1, <3>1
    <3>2. CASE ~isRoot
      BY <1>3, <2>1, <3>2
    <3> QED BY <3>1, <3>2
  <2>4. /\ fences' \in [Nodes -> {"none", "open", "over"}]
        /\ \A x \in Nodes : fences'[x] = IF x = c /\ c \in DOMAIN runs /\ runs[c] = "own" THEN "over"
                                         ELSE fences[x]
    <3> HIDE DEF isRoot
    <3> QED BY <1>1, <1>2, <1>3, <2>1
  <2> HIDE DEF isRoot
  <2>5. Roots'
    <3>1. ASSUME NEW x \in DOMAIN root'
          PROVE  lc'[x] # "new" /\ (root'[x] = Foreign \/ lc'[root'[x]] # "new")
      BY <1>1, <1>2, <2>2 DEF Roots
    <3>2. ASSUME NEW x \in DOMAIN runs'
          PROVE  x \in DOMAIN root' /\ root'[x] = x /\ runs'[x] = IF joined' THEN "outer" ELSE "own"
      BY <1>2, <2>2, <2>3 DEF Roots
    <3> QED BY <3>1, <3>2 DEF Roots
  <2>6. Opened'
    <3>1. \A x \in Nodes : fences'[x] = "open" <=> x \in DOMAIN runs' /\ runs'[x] = "own"
      BY <1>2, <2>3, <2>4 DEF Opened
    <3>2. joined' => \A x \in Nodes : fences'[x] = "none"
      BY <1>2, <2>4 DEF Opened, Roots
    <3>3. \A x \in Nodes : lc'[x] = "new" => fences'[x] = "none"
      BY <1>1, <1>2, <2>4 DEF Opened
    <3>4. \A x \in Chains \cup Models : fences'[x] = "open" => lc'[x] # "over"
      BY <1>1, <1>2, <2>4 DEF Opened, Nodes
    <3>5. \A x \in Nodes : fences'[x] = "over" => lc'[x] = "over"
      BY <1>1, <1>2, <2>4 DEF Opened
    <3> QED BY <3>1, <3>2, <3>3, <3>4, <3>5 DEF Opened
  <2>7. ASSUME NEW x \in Nodes
        PROVE  \/ Lang!RunOf(x)' = Lang!RunOf(x)
               \/ /\ Lang!RunOf(x)' = "none"
                  /\ \/ Lang!RunOf(x) = "outer"
                     \/ Lang!RunOf(x) \in Nodes /\ fences'[Lang!RunOf(x)] = "over"
    <3>1. CASE x \in DOMAIN root /\ root[x] = c
      <4>1. Lang!RunOf(x)' = "none"
        BY <2>2, <3>1 DEF Lang!RunOf
      <4>2. CASE c \notin DOMAIN runs
        BY <3>1, <4>1, <4>2 DEF Lang!RunOf
      <4>3. CASE c \in DOMAIN runs /\ runs[c] = "own"
        <5>1. Lang!RunOf(x) = c
          BY <3>1, <4>3 DEF Lang!RunOf
        <5>2. fences'[c] = "over"
          BY <1>1, <2>4, <4>3
        <5> QED BY <1>1, <4>1, <5>1, <5>2
      <4>4. CASE c \in DOMAIN runs /\ runs[c] = "outer"
        <5>1. Lang!RunOf(x) = "outer"
          BY <3>1, <4>4 DEF Lang!RunOf
        <5> QED BY <4>1, <5>1
      <4> QED BY <1>2, <4>2, <4>3, <4>4
    <3>2. CASE x \in DOMAIN root /\ root[x] # c
      <4>1. x \in DOMAIN root' /\ root'[x] = root[x]
        BY <2>2, <3>2
      <4>2. root[x] \in DOMAIN runs' <=> root[x] \in DOMAIN runs
        BY <2>3, <3>2
      <4>3. root[x] \in DOMAIN runs => runs'[root[x]] = runs[root[x]]
        BY <2>3, <4>2
      <4> QED BY <3>2, <4>1, <4>2, <4>3 DEF Lang!RunOf
    <3>3. CASE x \notin DOMAIN root
      BY <2>2, <3>3 DEF Lang!RunOf
    <3> QED BY <3>1, <3>2, <3>3
  <2>8. /\ DOMAIN root' \subseteq Nodes /\ \A x \in DOMAIN root' : root'[x] \in Nodes \cup {Foreign}
        /\ DOMAIN runs' \subseteq Nodes /\ \A x \in DOMAIN runs' : runs'[x] \in {"own", "outer"}
    BY <1>2, <2>2, <2>3
  <2> QED BY <2>4, <2>5, <2>6, <2>7, <2>8
<1>5. CASE ~Lang!Exit(c)
  <2>1. ~isRoot /\ root' = root /\ runs' = runs /\ fences' = fences
    BY <1>5 DEF Lang!ExitIfRoot
  <2>2. fences[c] # "open"
    BY <1>1, <1>2, <1>3, <2>1 DEF Opened
  <2> HIDE DEF isRoot
  <2>3. Roots'
    BY <1>1, <1>2, <2>1 DEF Roots
  <2>4. Opened'
    BY <1>1, <1>2, <2>1, <2>2 DEF Opened, Nodes
  <2>5. \A x \in Nodes : Lang!RunOf(x)' = Lang!RunOf(x)
    BY <2>1 DEF Lang!RunOf
  <2> QED BY <1>2, <2>1, <2>3, <2>4, <2>5
<1> QED BY <1>4, <1>5

(* What the tables hold, beside those of the runs.                         *)
LEMMA LangTypes ==
  ASSUME LangInv
  PROVE  /\ lc \in [Nodes -> Outcomes] /\ joined \in BOOLEAN
         /\ DOMAIN root \subseteq Nodes /\ \A n \in DOMAIN root : root[n] \in Nodes \cup {Foreign}
         /\ DOMAIN runs \subseteq Nodes /\ \A n \in DOMAIN runs : runs[n] \in {"own", "outer"}
         /\ started \subseteq Models \cup Tools /\ holds \subseteq Models
         /\ fences \in [Nodes -> {"none", "open", "over"}]
         /\ room \in [Models -> {"none", "held", "finished"}]
         /\ owner \in [Models -> Nodes \cup {"outer", "none"}]
         /\ unseen \subseteq Models
         /\ Roots /\ Opened /\ Rooms
BY DEF LangInv, Lang!TypeOK, Lang!Nodes, Nodes, Outcomes

LEMMA LangTypeOKNext ==
  ASSUME lc' \in [Nodes -> Outcomes], joined' \in BOOLEAN,
         DOMAIN root' \subseteq Nodes, \A n \in DOMAIN root' : root'[n] \in Nodes \cup {Foreign},
         DOMAIN runs' \subseteq Nodes, \A n \in DOMAIN runs' : runs'[n] \in {"own", "outer"},
         started' \subseteq Models \cup Tools, holds' \subseteq Models,
         fences' \in [Nodes -> {"none", "open", "over"}],
         room' \in [Models -> {"none", "held", "finished"}],
         owner' \in [Models -> Nodes \cup {"outer", "none"}], unseen' \subseteq Models
  PROVE  Lang!TypeOK'
BY DEF Lang!TypeOK, Lang!Nodes, Nodes, Outcomes

(* Chains, model calls and tools start alike.                              *)
LEMMA LangStartInv ==
  ASSUME Lang!HandlerAssumption, LangInv, NEW n \in Nodes, NEW p \in Lang!Parents(n),
         NEW next \in {"starting", "running"}, Lang!Goto(n, "new", next), Lang!Enter(n, p),
         started' \subseteq Models \cup Tools, UNCHANGED <<joined, holds, room, owner, unseen>>
  PROVE  LangInv'
<1>1. /\ lc[n] = "new" /\ lc' \in [Nodes -> Outcomes]
      /\ \A x \in Nodes : lc'[x] = IF x = n THEN next ELSE lc[x]
  BY GotoFacts DEF Outcomes
<1>2. /\ DOMAIN root' \subseteq Nodes /\ \A x \in DOMAIN root' : root'[x] \in Nodes \cup {Foreign}
      /\ DOMAIN runs' \subseteq Nodes /\ \A x \in DOMAIN runs' : runs'[x] \in {"own", "outer"}
      /\ fences' \in [Nodes -> {"none", "open", "over"}]
      /\ Roots' /\ Opened'
      /\ \A x \in Nodes : fences[x] = "over" => fences'[x] = "over"
      /\ \A x \in Nodes \ {n} : Lang!RunOf(x)' = Lang!RunOf(x)
  BY EnterFacts
<1>3. Lang!TypeOK'
  BY <1>1, <1>2, LangTypes, LangTypeOKNext
<1>4. ASSUME NEW m \in Models PROVE RoomOf(m)'
  <2>1. RoomOf(m) /\ m \in Nodes
    BY LangTypes DEF Rooms, Nodes
  <2>2. CASE m = n
    <3>1. room'[m] = "none" /\ lc'[m] # "ending"
      BY <1>1, <2>1, <2>2 DEF RoomOf
    <3> QED BY <3>1 DEF RoomOf
  <2>3. CASE m # n
    BY <1>1, <1>2, <2>1, <2>3, RoomKept
  <2> QED BY <2>2, <2>3
<1> QED BY <1>2, <1>3, <1>4 DEF LangInv, Rooms

(* The run of n may not start.                                             *)
LEMMA StartRefusedInv ==
  ASSUME Lang!HandlerAssumption, LangInv, NEW n \in Nodes, Lang!StartRefused(n)
  PROVE  LangInv'
<1>1. /\ Lang!Goto(n, "new", "over") /\ root' = Lang!Entered(root, n, n)
      /\ UNCHANGED <<joined, runs, started, holds, fences, room, owner, unseen>>
  BY DEF Lang!StartRefused
<1>2. /\ lc[n] = "new" /\ lc' \in [Nodes -> Outcomes]
      /\ \A x \in Nodes : lc'[x] = IF x = n THEN "over" ELSE lc[x]
  BY <1>1, GotoFacts DEF Outcomes
<1>3. /\ n \notin DOMAIN root /\ n \notin DOMAIN runs
      /\ DOMAIN root' = DOMAIN root \cup {n} /\ DOMAIN root' \subseteq Nodes
      /\ \A x \in DOMAIN root' :
            root'[x] = (IF x = n THEN n ELSE root[x]) /\ root'[x] \in Nodes \cup {Foreign}
  BY <1>1, <1>2, EnteredFacts
<1>4. Lang!TypeOK'
  BY <1>1, <1>2, <1>3, LangTypes, LangTypeOKNext
<1>5. Roots'
  <2>1. Roots /\ DOMAIN root \subseteq Nodes /\ \A x \in DOMAIN root : root[x] \in Nodes \cup {Foreign}
    BY LangTypes
  <2>2. ASSUME NEW x \in DOMAIN root'
        PROVE  lc'[x] # "new" /\ (root'[x] = Foreign \/ lc'[root'[x]] # "new")
    BY <1>2, <1>3, <2>1 DEF Roots
  <2>3. ASSUME NEW x \in DOMAIN runs'
        PROVE  x \in DOMAIN root' /\ root'[x] = x /\ runs'[x] = IF joined' THEN "outer" ELSE "own"
    BY <1>1, <1>3, <2>1 DEF Roots
  <2> QED BY <2>2, <2>3 DEF Roots
<1>6. Opened'
  BY <1>1, <1>2, LangTypes DEF Opened, Nodes
<1>7. ASSUME NEW m \in Models PROVE RoomOf(m)'
  <2>1. RoomOf(m) /\ m \in Nodes
    BY LangTypes DEF Rooms, Nodes
  <2>2. CASE m = n
    <3>1. room'[m] = "none"
      BY <1>1, <1>2, <2>1, <2>2 DEF RoomOf
    <3> QED BY <3>1 DEF RoomOf
  <2>3. CASE m # n
    <3>1. Lang!RunOf(m)' = Lang!RunOf(m)
      BY <1>1, <1>3, <2>3 DEF Lang!RunOf
    <3> QED BY <1>1, <1>2, <2>1, <2>3, <3>1, RoomKept
  <2> QED BY <2>2, <2>3
<1> QED BY <1>4, <1>5, <1>6, <1>7 DEF LangInv, Rooms

(* A chain or a model call is over, and keeps no room.                     *)
LEMMA LangOverInv ==
  ASSUME Lang!HandlerAssumption, LangInv, NEW c \in Chains \cup Models, NEW here, here # "new",
         Lang!Goto(c, here, "over"), Lang!Exit(c) \/ Lang!ExitIfRoot(c),
         room' \in [Models -> {"none", "held", "finished"}],
         \A m \in Models : room'[m] \in {room[m], "none"}, c \in Models => room'[c] = "none",
         started' \subseteq Models \cup Tools, holds' \subseteq Models,
         UNCHANGED <<joined, owner, unseen>>
  PROVE  LangInv'
<1>1. /\ lc[c] = here /\ lc' \in [Nodes -> Outcomes]
      /\ \A x \in Nodes : lc'[x] = IF x = c THEN "over" ELSE lc[x]
  BY GotoFacts DEF Outcomes, Nodes
<1>2. /\ DOMAIN root' \subseteq Nodes /\ \A x \in DOMAIN root' : root'[x] \in Nodes \cup {Foreign}
      /\ DOMAIN runs' \subseteq Nodes /\ \A x \in DOMAIN runs' : runs'[x] \in {"own", "outer"}
      /\ fences' \in [Nodes -> {"none", "open", "over"}]
      /\ Roots' /\ Opened'
      /\ \A x \in Nodes : fences[x] = "over" => fences'[x] = "over"
      /\ \A x \in Nodes : \/ Lang!RunOf(x)' = Lang!RunOf(x)
                          \/ /\ Lang!RunOf(x)' = "none"
                             /\ \/ Lang!RunOf(x) = "outer"
                                \/ Lang!RunOf(x) \in Nodes /\ fences'[Lang!RunOf(x)] = "over"
  BY ExitFacts
<1>3. Lang!TypeOK'
  BY <1>1, <1>2, LangTypes, LangTypeOKNext
<1>4. ASSUME NEW m \in Models PROVE RoomOf(m)'
  <2>1. RoomOf(m) /\ m \in Nodes
    BY LangTypes DEF Rooms, Nodes
  <2>2. CASE m = c
    BY <2>2 DEF RoomOf
  <2>3. CASE m # c
    BY <1>1, <1>2, <2>1, <2>3, RoomKept
  <2> QED BY <2>2, <2>3
<1> QED BY <1>2, <1>3, <1>4 DEF LangInv, Rooms

(* A LangChain run goes on, and the runs here are as they were.            *)
LEMMA SameRuns ==
  ASSUME LangInv, NEW n \in Nodes, NEW here \in {"starting", "running", "ending"},
         NEW next \in Outcomes \ {"new"}, Lang!Goto(n, here, next),
         next = "over" /\ n \in Chains \cup Models => fences[n] # "open",
         UNCHANGED <<joined, root, runs, fences>>
  PROVE  /\ Roots' /\ Opened'
         /\ \A x \in Nodes : Lang!RunOf(x)' = Lang!RunOf(x)
         /\ lc[n] = here /\ lc' \in [Nodes -> Outcomes]
         /\ \A x \in Nodes : lc'[x] = IF x = n THEN next ELSE lc[x]
<1>1. /\ lc[n] = here /\ lc' \in [Nodes -> Outcomes]
      /\ \A x \in Nodes : lc'[x] = IF x = n THEN next ELSE lc[x]
  BY GotoFacts
<1>2. Roots'
  BY <1>1, LangTypes DEF Roots
<1>3. Opened'
  BY <1>1, LangTypes DEF Opened, Nodes
<1>4. \A x \in Nodes : Lang!RunOf(x)' = Lang!RunOf(x)
  BY DEF Lang!RunOf
<1> QED BY <1>1, <1>2, <1>3, <1>4

(* A run that is found is one of the two kinds.                            *)
LEMMA RunOfType ==
  ASSUME LangInv, NEW n \in Nodes
  PROVE  Lang!RunOf(n) \in Nodes \cup {"outer", "none"}
BY LangTypes DEF Lang!RunOf

(* Then the rest of the model calls keep their room.                       *)
LEMMA OthersKeep ==
  ASSUME LangInv, NEW m \in Models, NEW x \in Models \ {m},
         lc'[x] = lc[x], room'[x] = room[x], owner'[x] = owner[x],
         unseen \subseteq unseen', fences' = fences, Lang!RunOf(x)' = Lang!RunOf(x)
  PROVE  RoomOf(x)'
BY RoomKept, LangTypes DEF Rooms

(* on_llm_start's precheck: room in the run the call is in, if any.        *)
LEMMA ModelHoldInv ==
  ASSUME Lang!HandlerAssumption, LangInv, NEW m \in Models, Lang!ModelHold(m)
  PROVE  LangInv'
<1>1. /\ Lang!Goto(m, "starting", "running") /\ holds' = holds \cup {m}
      /\ \/ UNCHANGED <<room, owner>>
         \/ /\ Lang!RunOf(m) # "none"
            /\ room' = [room EXCEPT ![m] = "held"]
            /\ owner' = [owner EXCEPT ![m] = Lang!RunOf(m)]
      /\ UNCHANGED <<joined, root, runs, started, fences, unseen>>
  BY DEF Lang!ModelHold
<1>2. m \in Nodes
  BY DEF Nodes
<1>3. /\ Roots' /\ Opened'
      /\ \A x \in Nodes : Lang!RunOf(x)' = Lang!RunOf(x)
      /\ lc[m] = "starting" /\ lc' \in [Nodes -> Outcomes]
      /\ \A x \in Nodes : lc'[x] = IF x = m THEN "running" ELSE lc[x]
  BY <1>1, <1>2, SameRuns DEF Outcomes
<1>4. /\ room' \in [Models -> {"none", "held", "finished"}]
      /\ owner' \in [Models -> Nodes \cup {"outer", "none"}]
      /\ \A x \in Models \ {m} : room'[x] = room[x] /\ owner'[x] = owner[x]
      /\ \/ room'[m] = room[m]
         \/ /\ room'[m] = "held" /\ owner'[m] = Lang!RunOf(m)
            /\ Lang!RunOf(m) \in Nodes \cup {"outer"}
  BY <1>1, <1>2, LangTypes, RunOfType
<1>5. Lang!TypeOK'
  BY <1>1, <1>3, <1>4, LangTypes, LangTypeOKNext
<1>6. ASSUME NEW x \in Models PROVE RoomOf(x)'
  <2>1. RoomOf(m) /\ x \in Nodes
    BY LangTypes DEF Rooms, Nodes
  <2>2. CASE x = m
    <3>1. room[m] = "none" /\ lc'[m] = "running" /\ Lang!RunOf(m)' = Lang!RunOf(m)
      BY <1>2, <1>3, <2>1 DEF RoomOf
    <3> QED BY <1>4, <2>2, <3>1 DEF RoomOf
  <2>3. CASE x # m
    BY <1>1, <1>3, <1>4, <2>1, <2>3, OthersKeep
  <2> QED BY <2>2, <2>3
<1> QED BY <1>3, <1>5, <1>6 DEF LangInv, Rooms

(* on_llm_end finishes the hold, in the run it was made in.                *)
LEMMA ModelFinishInv ==
  ASSUME Lang!HandlerAssumption, LangInv, NEW m \in Models, Lang!ModelFinish(m)
  PROVE  LangInv'
<1>1. /\ Lang!Goto(m, "running", "ending") /\ Lang!RunOf(m) # "none"
      /\ started' = started \ {m} /\ holds' = holds \ {m} /\ room' = Lang!Finish(m, FALSE)
      /\ UNCHANGED <<joined, root, runs, fences, owner, unseen>>
  BY DEF Lang!ModelFinish
<1>2. m \in Nodes
  BY DEF Nodes
<1>3. /\ Roots' /\ Opened'
      /\ \A x \in Nodes : Lang!RunOf(x)' = Lang!RunOf(x)
      /\ lc[m] = "running" /\ lc' \in [Nodes -> Outcomes]
      /\ \A x \in Nodes : lc'[x] = IF x = m THEN "ending" ELSE lc[x]
  BY <1>1, <1>2, SameRuns DEF Outcomes
<1>4. /\ room' \in [Models -> {"none", "held", "finished"}]
      /\ \A x \in Models \ {m} : room'[x] = room[x]
      /\ room'[m] # "held"
  <2>1. RoomOf(m) /\ room \in [Models -> {"none", "held", "finished"}]
    BY LangTypes DEF Rooms
  <2>2. room[m] = "held" => owner[m] = Lang!RunOf(m)
    BY <1>1, <1>3, <2>1 DEF RoomOf
  <2> QED BY <1>1, <2>1, <2>2 DEF Lang!Finish
<1>5. Lang!TypeOK'
  BY <1>1, <1>3, <1>4, LangTypes, LangTypeOKNext
<1>6. ASSUME NEW x \in Models PROVE RoomOf(x)'
  <2>1. x \in Nodes
    BY DEF Nodes
  <2>2. CASE x = m
    <3>1. lc'[m] = "ending"
      BY <1>2, <1>3
    <3> QED BY <1>4, <2>2, <3>1 DEF RoomOf
  <2>3. CASE x # m
    BY <1>1, <1>3, <1>4, <2>1, <2>3, OthersKeep
  <2> QED BY <2>2, <2>3
<1> QED BY <1>3, <1>5, <1>6 DEF LangInv, Rooms

(* The end of a call whose run is gone, or that never had one.             *)
LEMMA ModelUnseenInv ==
  ASSUME Lang!HandlerAssumption, LangInv, NEW m \in Models, Lang!ModelUnseen(m)
  PROVE  LangInv'
<1>1. /\ Lang!Goto(m, "running", "over") /\ Lang!RunOf(m) = "none" /\ unseen' = unseen \cup {m}
      /\ UNCHANGED <<joined, root, runs, started, holds, fences, room, owner>>
  BY DEF Lang!ModelUnseen, Lang!handler
<1>2. m \in Nodes
  BY DEF Nodes
<1>3. fences[m] # "open"
  <2> SUFFICES ASSUME fences[m] = "open" PROVE FALSE
    OBVIOUS
  <2>1. m \in DOMAIN runs /\ runs[m] = "own"
    BY <1>2, LangTypes DEF Opened
  <2>2. m \in DOMAIN root /\ root[m] = m
    BY <2>1, LangTypes DEF Roots
  <2>3. Lang!RunOf(m) = m
    BY <2>1, <2>2 DEF Lang!RunOf
  <2> QED BY <1>1, <1>2, <2>3 DEF Lang!HandlerAssumption, Lang!Nodes, Nodes
<1>4. /\ Roots' /\ Opened'
      /\ \A x \in Nodes : Lang!RunOf(x)' = Lang!RunOf(x)
      /\ lc[m] = "running" /\ lc' \in [Nodes -> Outcomes]
      /\ \A x \in Nodes : lc'[x] = IF x = m THEN "over" ELSE lc[x]
  BY <1>1, <1>2, <1>3, SameRuns DEF Outcomes
<1>5. Lang!TypeOK'
  BY <1>1, <1>4, LangTypes, LangTypeOKNext
<1>6. ASSUME NEW x \in Models PROVE RoomOf(x)'
  <2>1. RoomOf(m) /\ x \in Nodes
    BY LangTypes DEF Rooms, Nodes
  <2>2. CASE x = m
    <3>1. lc'[m] = "over" /\ m \in unseen'
      BY <1>1, <1>2, <1>4
    <3>2. /\ room'[m] = room[m] /\ owner'[m] = owner[m]
          /\ fences' = fences
      BY <1>1
    <3>3. room[m] # "none" => \/ owner[m] = "outer"
                              \/ owner[m] \in Nodes /\ fences[owner[m]] = "over"
      BY <1>1, <1>4, <2>1, LangTypes DEF RoomOf, Lang!HandlerAssumption, Lang!Nodes, Nodes
    <3> QED BY <2>2, <3>1, <3>2, <3>3 DEF RoomOf
  <2>3. CASE x # m
    BY <1>1, <1>4, <2>1, <2>3, OthersKeep
  <2> QED BY <2>2, <2>3
<1> QED BY <1>4, <1>5, <1>6 DEF LangInv, Rooms

(* The end of a tool call ends no run.                                     *)
LEMMA ToolEndInv ==
  ASSUME Lang!HandlerAssumption, LangInv, NEW t \in Tools, Lang!ToolEnd(t)
  PROVE  LangInv'
<1>1. /\ Lang!Goto(t, "running", "over") /\ started' \subseteq started
      /\ UNCHANGED <<joined, root, runs, holds, fences, room, owner, unseen>>
  BY DEF Lang!ToolEnd
<1>2. t \in Nodes /\ t \notin Chains \cup Models
  BY DEF Nodes, Lang!HandlerAssumption
<1>3. /\ Roots' /\ Opened'
      /\ \A x \in Nodes : Lang!RunOf(x)' = Lang!RunOf(x)
      /\ lc' \in [Nodes -> Outcomes]
      /\ \A x \in Nodes : lc'[x] = IF x = t THEN "over" ELSE lc[x]
  BY <1>1, <1>2, SameRuns DEF Outcomes
<1>4. Lang!TypeOK'
  BY <1>1, <1>3, LangTypes, LangTypeOKNext
<1>5. ASSUME NEW x \in Models PROVE RoomOf(x)'
  <2>1. RoomOf(x) /\ x \in Nodes /\ x # t
    BY <1>2, LangTypes DEF Rooms, Nodes
  <2> QED BY <1>1, <1>3, <2>1, RoomKept
<1> QED BY <1>3, <1>4, <1>5 DEF LangInv, Rooms

(* The steps after which a chain or a call is over.                        *)
LEMMA LangEndsInv ==
  ASSUME Lang!HandlerAssumption, LangInv
  PROVE  /\ \A c \in Chains : Lang!ChainEnd(c) => LangInv'
         /\ \A m \in Models : Lang!ModelRefused(m) \/ Lang!ModelRecord(m) \/ Lang!ModelError(m) => LangInv'
<1>1. /\ room \in [Models -> {"none", "held", "finished"}]
      /\ started \subseteq Models \cup Tools /\ holds \subseteq Models
      /\ \A m \in Models : RoomOf(m)
  BY LangTypes DEF Rooms
<1>2. ASSUME NEW c \in Chains, Lang!ChainEnd(c) PROVE LangInv'
  <2>1. /\ Lang!Goto(c, "running", "over") /\ Lang!Exit(c)
        /\ UNCHANGED <<joined, started, holds, room, owner, unseen>>
    BY <1>2 DEF Lang!ChainEnd
  <2>2. c \notin Models
    BY DEF Lang!HandlerAssumption
  <2> QED BY <1>1, <2>1, <2>2, LangOverInv
<1>3. ASSUME NEW m \in Models, Lang!ModelRefused(m) PROVE LangInv'
  <2>1. /\ Lang!Goto(m, "starting", "over") /\ Lang!ExitIfRoot(m)
        /\ UNCHANGED <<joined, started, holds, room, owner, unseen>>
    BY <1>3 DEF Lang!ModelRefused
  <2>2. room[m] = "none"
    BY <1>1, <2>1 DEF RoomOf, Lang!Goto
  <2> QED BY <1>1, <2>1, <2>2, LangOverInv
<1>4. ASSUME NEW m \in Models, Lang!ModelRecord(m) PROVE LangInv'
  <2>1. /\ Lang!Goto(m, "ending", "over") /\ Lang!ExitIfRoot(m)
        /\ room' = [x \in Models |-> IF room[x] = "finished" /\ owner[x] = owner[m]
                                     THEN "none" ELSE room[x]]
        /\ UNCHANGED <<joined, started, holds, owner, unseen>>
    BY <1>4 DEF Lang!ModelRecord
  <2>2. room' \in [Models -> {"none", "held", "finished"}]
    BY <1>1, <2>1
  <2>3. \A x \in Models : room'[x] \in {room[x], "none"}
    BY <2>1
  <2>4. room'[m] = "none"
    BY <1>1, <2>1 DEF RoomOf, Lang!Goto
  <2> QED BY <1>1, <2>1, <2>2, <2>3, <2>4, LangOverInv
<1>5. ASSUME NEW m \in Models, Lang!ModelError(m) PROVE LangInv'
  <2>1. /\ Lang!Goto(m, "running", "over") /\ Lang!ExitIfRoot(m)
        /\ Lang!RunOf(m) # "none"
        /\ started' = started \ {m} /\ holds' = holds \ {m} /\ room' = Lang!Finish(m, TRUE)
        /\ UNCHANGED <<joined, owner, unseen>>
    BY <1>5 DEF Lang!ModelError
  <2>2. room[m] # "none" => room[m] = "held" /\ owner[m] = Lang!RunOf(m)
    BY <1>1, <2>1 DEF RoomOf, Lang!Goto
  <2>3. /\ room' \in [Models -> {"none", "held", "finished"}]
        /\ \A x \in Models : room'[x] \in {room[x], "none"}
        /\ room'[m] = "none"
    BY <1>1, <2>1, <2>2 DEF Lang!Finish
  <2> QED BY <1>1, <2>1, <2>3, LangOverInv
<1> QED BY <1>2, <1>3, <1>4, <1>5

LEMMA LangNextInv ==
  ASSUME Lang!HandlerAssumption, LangInv, [Lang!Next]_Lang!vars
  PROVE  LangInv'
<1>1. CASE UNCHANGED Lang!vars
  <2>1. UNCHANGED <<lc, joined, root, runs, started, holds, fences, room, owner, unseen>>
    BY <1>1 DEF Lang!vars, Lang!handler
  <2>2. Lang!TypeOK'
    BY <2>1, LangTypes, LangTypeOKNext
  <2>3. Roots' /\ Opened'
    BY <2>1, LangTypes DEF Roots, Opened
  <2>4. ASSUME NEW m \in Models PROVE RoomOf(m)'
    <3>1. Lang!RunOf(m)' = Lang!RunOf(m)
      BY <2>1 DEF Lang!RunOf
    <3> QED BY <2>1, <3>1, RoomKept, LangTypes DEF Rooms
  <2> QED BY <2>2, <2>3, <2>4 DEF LangInv, Rooms
<1>2. ASSUME NEW c \in Chains, NEW p \in Lang!Parents(c), Lang!ChainStart(c, p) PROVE LangInv'
  <2>1. /\ Lang!Goto(c, "new", "running") /\ Lang!Enter(c, p)
        /\ UNCHANGED <<joined, started, holds, room, owner, unseen>>
    BY <1>2 DEF Lang!ChainStart
  <2>2. started' \subseteq Models \cup Tools /\ c \in Nodes
    BY <2>1, LangTypes DEF Nodes
  <2> QED BY <2>1, <2>2, LangStartInv
<1>3. ASSUME NEW m \in Models, NEW p \in Lang!Parents(m), Lang!ModelStart(m, p) PROVE LangInv'
  <2>1. /\ Lang!Goto(m, "new", "starting") /\ Lang!Enter(m, p) /\ started' = started \cup {m}
        /\ UNCHANGED <<joined, holds, room, owner, unseen>>
    BY <1>3 DEF Lang!ModelStart
  <2>2. started' \subseteq Models \cup Tools /\ m \in Nodes
    BY <2>1, LangTypes DEF Nodes
  <2> QED BY <2>1, <2>2, LangStartInv
<1>4. ASSUME NEW t \in Tools, NEW p \in Lang!Parents(t), Lang!ToolStart(t, p) PROVE LangInv'
  <2>1. /\ Lang!Goto(t, "new", "running") /\ Lang!Enter(t, p) /\ started' = started \cup {t}
        /\ UNCHANGED <<joined, holds, room, owner, unseen>>
    BY <1>4 DEF Lang!ToolStart
  <2>2. started' \subseteq Models \cup Tools /\ t \in Nodes
    BY <2>1, LangTypes DEF Nodes
  <2> QED BY <2>1, <2>2, LangStartInv
<1>5. ASSUME Lang!Next PROVE LangInv'
  BY <1>2, <1>3, <1>4, <1>5, StartRefusedInv, LangEndsInv, ModelHoldInv, ModelFinishInv,
     ModelUnseenInv, ToolEndInv DEF Lang!Next, Lang!Nodes, Nodes
<1> QED BY <1>1, <1>5

(* Whatever order LangChain's threads report in, the runs open are those   *)
(* the handler still knows, and every call's room is in the run it finds.  *)
THEOREM HandlerInv ==
  ASSUME Lang!HandlerAssumption
  PROVE  Lang!Spec => []LangInv
<1>1. Lang!Init => LangInv
  BY LangInitInv
<1>2. LangInv /\ [Lang!Next]_Lang!vars => LangInv'
  BY LangNextInv
<1> QED BY <1>1, <1>2, PTL DEF Lang!Spec

(* The handler's tables keep their types.                                  *)
THEOREM HandlerTypeOK ==
  ASSUME Lang!HandlerAssumption
  PROVE  Lang!Spec => []Lang!TypeOK
<1>1. LangInv => Lang!TypeOK
  BY DEF LangInv
<1> QED BY <1>1, HandlerInv, PTL

(* The runs the handler starts are open for as long as what it started     *)
(* them for goes on, and found by all that is in them (_enter, _exit).     *)
THEOREM HandlerRunsMatch ==
  ASSUME Lang!HandlerAssumption
  PROVE  Lang!Spec => []Lang!RunsMatch
<1>1. ASSUME LangInv PROVE Lang!RunsMatch
  <2>1. \A n \in Chains \cup Models : fences[n] = "open" <=> fences[n] # "none" /\ lc[n] # "over"
    BY <1>1, LangTypes DEF Opened, Nodes
  <2>2. ASSUME NEW n \in DOMAIN root, NEW r, r = root[n],
               r \in DOMAIN root, root[r] = r, fences[r] # "none"
        PROVE  Lang!RunOf(n) # "none" <=> fences[r] = "open"
    <3>1. r \in Nodes /\ r # "none"
      BY <1>1, <2>2, LangTypes DEF Lang!HandlerAssumption, Lang!Nodes, Nodes
    <3>2. Lang!RunOf(n) # "none" <=> r \in DOMAIN runs
      BY <2>2, <3>1 DEF Lang!RunOf
    <3>3. r \in DOMAIN runs <=> fences[r] = "open"
      BY <1>1, <2>2, <3>1, LangTypes DEF Opened, Roots
    <3> QED BY <3>2, <3>3
  <2> QED BY <2>1, <2>2 DEF Lang!RunsMatch
<1> QED BY <1>1, HandlerInv, PTL

(* In a run that is open, only calls in progress take room (on_llm_start,  *)
(* on_llm_end, on_llm_error), but for those that outlived their graph.     *)
THEOREM HandlerRoomFollowsCalls ==
  ASSUME Lang!HandlerAssumption
  PROVE  Lang!Spec => []Lang!RoomFollowsCalls
<1>1. ASSUME LangInv PROVE Lang!RoomFollowsCalls
  <2> SUFFICES ASSUME NEW m \in Models, room[m] # "none"
               PROVE  \/ lc[m] \in {"running", "ending"}
                      \/ owner[m] = "outer" /\ m \in unseen
                      \/ owner[m] \in Nodes /\ fences[owner[m]] = "over"
    BY DEF Lang!RoomFollowsCalls, Lang!Nodes, Nodes
  <2> QED BY <1>1, LangTypes DEF Rooms, RoomOf, Nodes, Outcomes
<1> QED BY <1>1, HandlerInv, PTL
=============================================================================
