------------------------------- MODULE Ledger -------------------------------
(***************************************************************************)
(* The money of one governed run in local mode (RunState.cost_usd,         *)
(* reserved_usd, holds and last_breach), as its model calls (precheck.py), *)
(* guarded tools (tools.py) and checkpoints (core.py) change it.  Calls    *)
(* run in parallel, as tasks or threads; what one of them does under       *)
(* reserve_lock is one step here.                                          *)
(*                                                                         *)
(* A model call holds the most it could cost, shrinks the hold to its      *)
(* actual cost when it answers, and gives it up at a checkpoint.  A        *)
(* guarded tool reserves its amount and is charged when it settles.        *)
(***************************************************************************)
EXTENDS Naturals, Integers, Amounts

CONSTANTS
    ModelCalls,     \* model calls the agent may make
    ToolCalls,      \* guarded tool calls the agent may make
    Budget,         \* the run's budget
    MaxAmount,      \* bound on what one call or step may cost
    MaxUnchecked,   \* bound on the spend of steps that price no checked call
    Unpriced,       \* model calls finished without a response to read a cost from
    Cancellable     \* tool calls whose task may be cancelled between two steps

Calls == ModelCalls \cup ToolCalls

ASSUME LedgerAssumption ==
    /\ IsFiniteSet(Calls)
    /\ ModelCalls \cap ToolCalls = {}
    /\ Budget \in Nat /\ MaxAmount \in Nat /\ MaxUnchecked \in Nat
    /\ Unpriced \subseteq ModelCalls
    /\ Cancellable \subseteq ToolCalls

VARIABLES
    cost,        \* RunState.cost_usd
    reserved,    \* RunState.reserved_usd
    holds,       \* model calls with an entry in RunState.holds
    amount,      \* per call: the entry's amount, or the tool's reservation
    phase,       \* per call: how far it got
    lastBreach,  \* RunState.last_breach
    outcome,     \* how the run ended, "none" while it runs
    billed,      \* history: what each call really costs the account
    unchecked    \* history: spend reported by steps that price no checked call

vars == <<cost, reserved, holds, amount, phase, lastBreach, outcome, billed, unchecked>>

Amount == 0 .. MaxAmount
Breaches == {"none", "budget_exceeded", "other_limit"}

ModelPhases == {"idle", "inflight", "refused", "failed", "answered", "recorded"}
ToolPhases  == {"idle", "asking", "abandoned", "blocked", "cancelled", "open", "running",
                "leaked", "settled"}

(* Tool calls whose amount is part of reserved_usd.                        *)
Reserving == {t \in ToolCalls : phase[t] \in {"open", "running", "leaked"}}

TypeOK ==
    /\ cost \in Nat
    /\ reserved \in Nat
    /\ holds \in SUBSET ModelCalls
    /\ amount \in [Calls -> Nat]
    /\ phase \in [Calls -> ModelPhases \cup ToolPhases]
    /\ \A c \in ModelCalls : phase[c] \in ModelPhases
    /\ \A t \in ToolCalls : phase[t] \in ToolPhases
    /\ lastBreach \in Breaches
    /\ outcome \in {"none", "success", "breached"}
    /\ billed \in [Calls -> Nat]
    /\ unchecked \in Nat

Init ==
    /\ cost = 0
    /\ reserved = 0
    /\ holds = {}
    /\ amount = [c \in Calls |-> 0]
    /\ phase = [c \in Calls |-> "idle"]
    /\ lastBreach = "none"
    /\ outcome = "none"
    /\ billed = [c \in Calls |-> 0]
    /\ unchecked = 0

-----------------------------------------------------------------------------
(* Limits                                                                  *)

(* Mutant: the check forgets what calls in flight may still cost.          *)
FitsIgnoringHolds(w) == cost + w <= Budget

(* There is room for w beside what is spent and what is held.              *)
Fits(w) == cost + reserved + w <= Budget

(* _local_breach at a given cost.  The other limits (steps, time, tokens)  *)
(* may be crossed at any moment.                                           *)
LocalBreaches(spent) ==
    IF spent > Budget THEN {"budget_exceeded"} ELSE {"none", "other_limit"}

-----------------------------------------------------------------------------
(* Model calls                                                             *)

(* hold: the worst case w fits, and is held while the call is in flight.   *)
Take(c, w) ==
    /\ outcome = "none" /\ phase[c] = "idle"
    /\ Fits(w)
    /\ holds' = holds \cup {c}
    /\ amount' = [amount EXCEPT ![c] = w]
    /\ reserved' = reserved + w
    /\ phase' = [phase EXCEPT ![c] = "inflight"]
    /\ UNCHANGED <<cost, lastBreach, outcome, billed, unchecked>>

(* hold: it does not fit, so the call is refused with FencesStop.          *)
Refuse(c, w) ==
    /\ outcome = "none" /\ phase[c] = "idle"
    /\ ~Fits(w)
    /\ lastBreach' = "budget_exceeded"
    /\ phase' = [phase EXCEPT ![c] = "refused"]
    /\ UNCHANGED <<cost, reserved, holds, amount, outcome, billed, unchecked>>

(* Mutant: a failed call's entry goes, its amount stays reserved.          *)
FailKeepingRoom(c) ==
    /\ outcome = "none" /\ phase[c] = "inflight"
    /\ phase' = [phase EXCEPT ![c] = "failed"]
    /\ holds' = holds \ {c}
    /\ UNCHANGED <<cost, reserved, amount, lastBreach, outcome, billed, unchecked>>

(* finish(failed=True): a failed call is not billed, its hold goes at once *)
Fail(c) ==
    /\ outcome = "none" /\ phase[c] = "inflight"
    /\ phase' = [phase EXCEPT ![c] = "failed"]
    /\ holds' = holds \ {c}
    /\ reserved' = IF c \in holds THEN reserved - amount[c] ELSE reserved
    /\ UNCHANGED <<cost, amount, lastBreach, outcome, billed, unchecked>>

(* finish(response): the call cost a, at most its worst case.  A priced    *)
(* hold shrinks to that; an unpriced one keeps its worst case.             *)
Finish(c, a) ==
    /\ outcome = "none" /\ phase[c] = "inflight"
    /\ a <= amount[c]
    /\ billed' = [billed EXCEPT ![c] = a]
    /\ phase' = [phase EXCEPT ![c] = "answered"]
    /\ IF c \in holds \ Unpriced
       THEN /\ reserved' = reserved + a - amount[c]
            /\ amount' = [amount EXCEPT ![c] = a]
       ELSE UNCHANGED <<reserved, amount>>
    /\ UNCHANGED <<cost, holds, lastBreach, outcome, unchecked>>

-----------------------------------------------------------------------------
(* Checkpoints                                                             *)

(* Mutant: a checkpoint lets every finished hold go, not only its own.     *)
AllFinished(priced) == {h \in holds : phase[h] = "answered"}

(* The holds a checkpoint of the responses in priced releases: that call's *)
(* own, and every finished one without a response to tell whose it is.     *)
Finished(priced) == {h \in holds : phase[h] = "answered" /\ h \in Unpriced \cup priced}

(* Mutant: the step's hold is released before its cost is known.           *)
RecordNoCost(priced, delta) ==
    /\ cost' = cost
    /\ holds' = holds \ Finished(priced)
    /\ reserved' = reserved - Total(Within(amount, Finished(priced)))

(* _record_step: the actual cost replaces the hold of the call it prices.  *)
RecordStep(priced, delta) ==
    /\ cost' = cost + delta
    /\ holds' = holds \ Finished(priced)
    /\ reserved' = reserved - Total(Within(amount, Finished(priced)))

(* checkpoint(response) of the answered call c, then the local verdict.    *)
Checkpoint(c) ==
    /\ outcome = "none" /\ phase[c] = "answered"
    /\ RecordStep({c}, billed[c])
    /\ phase' = [phase EXCEPT ![c] = "recorded"]
    /\ lastBreach' \in LocalBreaches(cost')
    /\ UNCHANGED <<amount, outcome, billed, unchecked>>

(* checkpoint(cost_delta_usd=d): a step that prices no checked call.       *)
Step(d) ==
    /\ outcome = "none" /\ unchecked + d <= MaxUnchecked
    /\ RecordStep({}, d)
    /\ unchecked' = unchecked + d
    /\ lastBreach' \in LocalBreaches(cost')
    /\ UNCHANGED <<amount, phase, outcome, billed>>

-----------------------------------------------------------------------------
(* Guarded tools                                                           *)

(* call_async asks a worker thread to open the call for w.                 *)
Ask(t, w) ==
    /\ outcome = "none" /\ phase[t] = "idle"
    /\ amount' = [amount EXCEPT ![t] = w]
    /\ phase' = [phase EXCEPT ![t] = "asking"]
    /\ UNCHANGED <<cost, reserved, holds, lastBreach, outcome, billed, unchecked>>

(* _open finds no breach and room for the amount, and reserves it.         *)
Open(t) ==
    /\ outcome = "none" /\ phase[t] \in {"asking", "abandoned"}
    /\ lastBreach = "none" /\ "none" \in LocalBreaches(cost)
    /\ Fits(amount[t])
    /\ reserved' = reserved + amount[t]
    /\ phase' = [phase EXCEPT ![t] = IF @ = "asking" THEN "open" ELSE "leaked"]
    /\ UNCHANGED <<cost, holds, amount, lastBreach, outcome, billed, unchecked>>

(* _open finds a limit crossed or no room: ToolBlocked.                    *)
Block(t) ==
    /\ outcome = "none" /\ phase[t] \in {"asking", "abandoned"}
    /\ \/ lastBreach # "none"
       \/ LocalBreaches(cost) \cap (Breaches \ {"none"}) # {}
       \/ ~Fits(amount[t])
    /\ phase' = [phase EXCEPT ![t] = "blocked"]
    /\ UNCHANGED <<cost, reserved, holds, amount, lastBreach, outcome, billed, unchecked>>

(* The caller gets the guard id back, and the tool's own code runs.        *)
Enter(t) ==
    /\ outcome = "none" /\ phase[t] = "open"
    /\ phase' = [phase EXCEPT ![t] = "running"]
    /\ UNCHANGED <<cost, reserved, holds, amount, lastBreach, outcome, billed, unchecked>>

(* Mutant: a tool that raised is not charged, nor is its room given back.  *)
SettleUnlessError(t, result) ==
    LET charged == IF result = "error" THEN 0 ELSE amount[t]
    IN  /\ outcome = "none" /\ phase[t] = "running"
        /\ reserved' = IF result = "error" THEN reserved ELSE reserved - amount[t]
        /\ cost' = cost + charged
        /\ billed' = [billed EXCEPT ![t] = charged]
        /\ phase' = [phase EXCEPT ![t] = "settled"]
        /\ UNCHANGED <<holds, amount, lastBreach, outcome, unchecked>>

(* _settle: charged in full unless the tool raised; a timeout or a         *)
(* cancellation ("unknown") may have come after its side effect.           *)
Settle(t, result) ==
    LET charged == IF result = "error" THEN 0 ELSE amount[t]
    IN  /\ outcome = "none" /\ phase[t] = "running"
        /\ reserved' = reserved - amount[t]
        /\ cost' = cost + charged
        /\ billed' = [billed EXCEPT ![t] = charged]
        /\ phase' = [phase EXCEPT ![t] = "settled"]
        /\ UNCHANGED <<holds, amount, lastBreach, outcome, unchecked>>

(* The task is cancelled while it waits for the worker thread.  Queued,    *)
(* _open never runs; started, it runs on with nobody to take its answer;   *)
(* done, its guard id never reaches the variable _settle is called with.   *)
CancelOpen(t) ==
    /\ outcome = "none" /\ t \in Cancellable
    /\ \/ /\ phase[t] = "asking"
          /\ \E p \in {"cancelled", "abandoned"} : phase' = [phase EXCEPT ![t] = p]
       \/ /\ phase[t] = "open"
          /\ phase' = [phase EXCEPT ![t] = "leaked"]
    /\ UNCHANGED <<cost, reserved, holds, amount, lastBreach, outcome, billed, unchecked>>

(* The tool is done, and the task is cancelled while _settle is queued.    *)
CancelSettle(t) ==
    /\ outcome = "none" /\ t \in Cancellable
    /\ phase[t] = "running"
    /\ phase' = [phase EXCEPT ![t] = "leaked"]
    /\ billed' = [billed EXCEPT ![t] = amount[t]]
    /\ UNCHANGED <<cost, reserved, holds, amount, lastBreach, outcome, unchecked>>

-----------------------------------------------------------------------------
(* The end of the run                                                      *)

(* No call is under way; an answer may have gone without a checkpoint.     *)
AllOver == \A c \in Calls :
    phase[c] \notin {"inflight", "asking", "abandoned", "open", "running"}

(* The governed function returns, or lets a FencesStop through: _outcome.  *)
End(stopped) ==
    /\ outcome = "none" /\ AllOver
    /\ stopped => \E c \in ModelCalls : phase[c] = "refused"
    /\ outcome' = IF stopped \/ lastBreach # "none" THEN "breached" ELSE "success"
    /\ UNCHANGED <<cost, reserved, holds, amount, phase, lastBreach, billed, unchecked>>

(* A run that ended stays ended.                                           *)
Ended ==
    /\ outcome # "none"
    /\ UNCHANGED vars

Next ==
    \/ \E c \in ModelCalls, w \in Amount : Take(c, w)
    \/ \E c \in ModelCalls, w \in Amount : Refuse(c, w)
    \/ \E c \in ModelCalls : Fail(c)
    \/ \E c \in ModelCalls, a \in Amount : Finish(c, a)
    \/ \E c \in ModelCalls : Checkpoint(c)
    \/ \E d \in Amount : Step(d)
    \/ \E t \in ToolCalls, w \in Amount : Ask(t, w)
    \/ \E t \in ToolCalls : Open(t)
    \/ \E t \in ToolCalls : Block(t)
    \/ \E t \in ToolCalls : Enter(t)
    \/ \E t \in ToolCalls, result \in {"ok", "unknown", "error"} : Settle(t, result)
    \/ \E t \in ToolCalls : CancelOpen(t)
    \/ \E t \in ToolCalls : CancelSettle(t)
    \/ \E stopped \in BOOLEAN : End(stopped)
    \/ Ended

Spec == Init /\ [][Next]_vars

-----------------------------------------------------------------------------
(* Properties                                                              *)

(* What each call holds of the budget, and what each has been charged.     *)
Recorded == {c \in Calls : phase[c] \in {"recorded", "settled"}}
Held     == Within(amount, holds \cup Reserving)
Charged  == Within(billed, Recorded)

(* The running sum reserved_usd, moved by a dozen separate additions and   *)
(* subtractions, is what the calls that hold room hold, no more, no less.  *)
ReservedIsHeld == reserved = Total(Held)

(* Whatever the order in which parallel calls check, answer, fail and      *)
(* checkpoint, those that asked first never bill more than the budget      *)
(* together ("parallel model calls can't overspend together").             *)
NoOverspend == Total(billed) <= Budget

(* A call that may still be billed, or was and is not recorded yet, keeps  *)
(* at least that much of the budget: the checkpoint of one call never      *)
(* gives away the room of another ("a checkpoint releases only the hold of *)
(* the model call it records").                                            *)
HoldsCoverBills == \A c \in ModelCalls :
    phase[c] \in {"inflight", "answered"} => c \in holds /\ billed[c] <= amount[c]

Quiet == AllOver /\ \A c \in ModelCalls : phase[c] # "answered"

Leaked == {t \in ToolCalls : phase[t] = "leaked"}

(* Once no call is under way and every answer was recorded, all that is    *)
(* held is what cancelled tools left behind, and the run's cost is exactly *)
(* what was billed but for theirs: nothing is lost, or charged twice.      *)
QuietBooks ==
    Quiet => /\ reserved = Total(Within(amount, Leaked))
             /\ cost = Total(Without(billed, Leaked)) + unchecked

-----------------------------------------------------------------------------
(* The inductive invariant behind them (LedgerProofs).                     *)

(* What each phase says of a call's hold and bill.                         *)
Shape ==
    /\ \A c \in ModelCalls :
        /\ c \in holds => phase[c] \in {"inflight", "answered"}
        /\ phase[c] = "inflight" => c \in holds
        /\ phase[c] = "answered" /\ c \notin Unpriced => c \in holds /\ billed[c] = amount[c]
        /\ phase[c] \notin {"answered", "recorded"} => billed[c] = 0
    /\ \A t \in ToolCalls :
        /\ billed[t] <= amount[t]
        /\ phase[t] \notin {"leaked", "settled"} => billed[t] = 0
        /\ phase[t] \in {"abandoned", "leaked"} => t \in Cancellable

(* cost_usd is what recorded calls billed and unchecked steps reported.    *)
CostIsCharged == cost = Total(Charged) + unchecked

Inv == TypeOK /\ Shape /\ ReservedIsHeld /\ CostIsCharged

(* Spent and held together stay within the budget, but for unchecked steps *)
Committed == cost + reserved <= Budget + unchecked

-----------------------------------------------------------------------------
(* What each call owes, for the refinement of Fence: its bill once that is *)
(* part of cost_usd, what it holds until then, nothing if it never ran.    *)
owed == [c \in Calls |->
            IF c \in Recorded THEN billed[c]
            ELSE IF c \in holds \cup Reserving THEN amount[c] ELSE 0]

admitted == {c \in Calls :
    phase[c] \notin {"idle", "refused", "asking", "abandoned", "blocked", "cancelled"}}

Promise == INSTANCE Fence WITH outside <- unchecked

(* The running cost and reservation implement the abstract budget.         *)
FenceSpec == Promise!Spec
=============================================================================
