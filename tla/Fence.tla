------------------------------- MODULE Fence -------------------------------
(***************************************************************************)
(* What the SDK promises about one run's budget, whatever its calls do in  *)
(* parallel: a call goes out only if the most it could cost still fits     *)
(* beside all that was spent and all that may yet be, and it then costs at *)
(* most that.  Ledger implements this with a running cost and a running    *)
(* reservation; here each call simply owes an amount.                      *)
(***************************************************************************)
EXTENDS Amounts

CONSTANTS
    Calls,      \* the calls that may ask for room in the budget
    Budget      \* the run's budget

VARIABLES
    owed,       \* per call: the most it may still cost, then what it did cost
    admitted,   \* calls that went out
    outside     \* spend of steps nobody asked about, known only afterwards

vars == <<owed, admitted, outside>>

Init ==
    /\ owed = [c \in Calls |-> 0]
    /\ admitted = {}
    /\ outside = 0

(* The call c goes out, at most w of the budget its own.                   *)
Admit(c, w) ==
    /\ c \notin admitted
    /\ Total(owed) + outside + w <= Budget
    /\ owed' = [owed EXCEPT ![c] = w]
    /\ admitted' = admitted \cup {c}
    /\ UNCHANGED outside

(* More is learnt of what c costs: it never turns out dearer.              *)
Resolve(c, a) ==
    /\ c \in admitted
    /\ a <= owed[c]
    /\ owed' = [owed EXCEPT ![c] = a]
    /\ UNCHANGED <<admitted, outside>>

(* A step reports a cost that no call asked room for.                      *)
Outside ==
    /\ outside' \in Nat
    /\ outside' >= outside
    /\ UNCHANGED <<owed, admitted>>

Next ==
    \/ \E c \in Calls, w \in 0 .. Budget : Admit(c, w)
    \/ \E c \in Calls : \E a \in 0 .. owed[c] : Resolve(c, a)
    \/ Outside

Spec == Init /\ [][Next]_vars

(* The promise: together, the calls that asked never owe more than the     *)
(* budget.                                                                 *)
WithinBudget == Total(owed) <= Budget
=============================================================================
