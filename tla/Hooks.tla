------------------------------- MODULE Hooks -------------------------------
(***************************************************************************)
(* The OpenAI Agents hooks (openai_agents.py) and what the model calls     *)
(* they govern do to the budget of the run, with the prices of Pricing.    *)
(* A hooks object keeps one hold per agent, so its slots are agents, those *)
(* of a sub-agent's hooks apart; the SDK tells it when a model call starts *)
(* and ends, and not when it fails.  One event loop runs all of it, and a  *)
(* step here is what runs without an await.                                *)
(***************************************************************************)
EXTENDS Integers, Amounts, Pricing

CONSTANTS
    Calls,     \* model calls
    Slots,     \* pairs of a hooks object and an agent
    Prices,    \* the models' prices
    Budget,    \* the run's budget
    MaxTokens, \* bound on the input tokens of a call
    MaxOutput  \* bound on its output tokens

ASSUME HooksAssumption ==
    /\ IsFiniteSet(Calls) /\ Budget \in Nat /\ MaxTokens \in Nat /\ MaxOutput \in Nat
    /\ \A p \in Prices : IsPrice(p) /\ Consistent(p)

VARIABLES
    cost, reserved, \* fields of RunState
    amount,   \* RunState.holds: per call the amount it holds, 0 if none
    entry,    \* per slot: the call in _holds, if any
    at,       \* per call: how far it got
    slot,     \* per call: its slot
    request,  \* per call: its price, and the tokens it may take
    billed,   \* history: per call, what its response cost
    crossed   \* history: slots where a call started while one was in flight

vars == <<cost, reserved, amount, entry, at, slot, request, billed, crossed>>

Count == 0 .. MaxTokens

NoRequest == [size |-> 0, cap |-> 0]

Init ==
    /\ cost = 0 /\ reserved = 0
    /\ amount = [c \in Calls |-> 0]
    /\ entry = [s \in Slots |-> {}]
    /\ at = [c \in Calls |-> "idle"]
    /\ slot \in [Calls -> Slots]
    /\ request = [c \in Calls |-> NoRequest]
    /\ billed = amount /\ crossed = {}

-----------------------------------------------------------------------------
(* Mutants: the hold that a failed call left behind is only overwritten;   *)
(* there is one hold for all agents.                                       *)
NothingLeft(s) == {}
LeftInAny(s) == UNION {entry[x] : x \in Slots}

(* What finish(failed=True) releases: the hold in slot s, if there is one. *)
LeftIn(s) == entry[s]

(* on_llm_start: what is in the slot is taken for a failed call's, and the *)
(* call's worst case held if it fits; else FencesStop.                     *)
Start(c, p, size, cap) ==
    LET w == WorstCase(p, size, cap)
        left == Total(Within(amount, LeftIn(slot[c])))
        fits == cost + reserved - left + w <= Budget
    IN  /\ at[c] = "idle"
        /\ at' = [at EXCEPT ![c] = IF fits THEN "inflight" ELSE "refused"]
        /\ entry' = [entry EXCEPT ![slot[c]] = IF fits THEN {c} ELSE {}]
        /\ amount' = [d \in Calls |-> IF d = c /\ fits THEN w ELSE IF d \in LeftIn(slot[c]) THEN 0 ELSE amount[d]]
        /\ reserved' = reserved - left + IF fits THEN w ELSE 0
        /\ request' = [request EXCEPT ![c] = [price |-> p, size |-> size, cap |-> cap]]
        /\ crossed' = IF \E d \in entry[slot[c]] : at[d] = "inflight" THEN crossed \cup {slot[c]} ELSE crossed
        /\ UNCHANGED <<cost, slot, billed>>

(* on_llm_end: the slot's hold makes way for the cost of the response.     *)
End(c, usage) ==
    /\ at[c] = "inflight"
    /\ at' = [at EXCEPT ![c] = "over"]
    /\ cost' = cost + CostOf(usage, request[c].price)
    /\ billed' = [billed EXCEPT ![c] = CostOf(usage, request[c].price)]
    /\ reserved' = reserved - Total(Within(amount, entry[slot[c]]))
    /\ amount' = Without(amount, entry[slot[c]])
    /\ entry' = [entry EXCEPT ![slot[c]] = {}]
    /\ UNCHANGED <<slot, request, crossed>>

(* The call fails, and there is no hook to say so.                         *)
Fail(c) ==
    /\ at[c] = "inflight"
    /\ at' = [at EXCEPT ![c] = "failed"]
    /\ UNCHANGED <<cost, reserved, amount, entry, slot, request, billed, crossed>>

(* What the provider may report of the call: no more tokens than it was    *)
(* estimated to take, and, by a gateway, no cost higher than was held.     *)
Usages(c) ==
    LET r == request[c]
        usage == [inclusive : BOOLEAN, total : Count, read : Count, write : Count, output : 0 .. r.cap,
                  reported : {-1, WorstCase(r.price, r.size, r.cap)}]
    IN  {u \in usage : Prompt(Tokens(u)) <= r.size}

Next ==
    \E c \in Calls :
        \/ \E p \in Prices, size \in 1 .. MaxTokens, cap \in 0 .. MaxOutput : Start(c, p, size, cap)
        \/ at[c] = "inflight" /\ \E u \in Usages(c) : End(c, u)
        \/ Fail(c)

Spec == Init /\ [][Next]_vars

-----------------------------------------------------------------------------
(* Properties                                                              *)

(* Whatever tokens the calls take, cached or not, in the long-context tier *)
(* or below it, and in whatever order they fail, end and start again, the  *)
(* run does not overspend; unless an agent's calls run at once under one   *)
(* hooks object, when the second releases the first one's hold.            *)
NoOverspend == crossed = {} => cost <= Budget

(* reserved_usd is what calls in flight hold, and what the latest call of  *)
(* a slot held if it failed: a slot never loses room to two.               *)
OnlyFailedLeft ==
    /\ reserved = Total(amount)
    /\ \A c \in Calls : amount[c] > 0 =>
        at[c] \in {"inflight", "failed"} /\ entry[slot[c]] = {c}

-----------------------------------------------------------------------------
(* The hooks implement Fence: a call owes its worst case while it is in    *)
(* flight, and in the end its cost, or nothing if it failed, though its    *)
(* hold may stay in its slot for long.                                     *)
owed == [c \in Calls |-> IF at[c] = "inflight" THEN amount[c] ELSE billed[c]]
admitted == {c \in Calls : at[c] \notin {"idle", "refused"}}

Promise == INSTANCE Fence WITH outside <- 0

(* The promise, up to where an agent's calls first cross: each callback    *)
(* admits a call to the budget all share, or resolves one, or does neither,*)
(* though on_llm_start releases one call's room and takes another's.       *)
FenceUntilCrossed ==
    Promise!Init /\ [][crossed' = {} => [Promise!Next]_(Promise!vars)]_vars
=============================================================================
