----------------------------- MODULE Approvals -----------------------------
(***************************************************************************)
(* Approval requests (approvals.py): a call asks a person through the      *)
(* server, waits for the answer, and raises the run's budget by the amount *)
(* granted.  The server raises its own budget too, and sends both again    *)
(* and again: the budget in a limits command, the answers as commands that *)
(* come with heartbeats and with replies to checkpoints, whose threads     *)
(* apply them (control.py) while the call polls.  None of it is locked.    *)
(* The dashboard changes the budget in no other way, and the run lives on. *)
(***************************************************************************)
EXTENDS Integers, Amounts

CONSTANTS
    Requests,  \* approval ids
    MaxAmount, \* bound on the amount a person grants
    NoBudget   \* None: unlimited spend

ASSUME ApprovalsAssumption == IsFiniteSet(Requests) /\ MaxAmount \in Nat /\ NoBudget \notin Int

Carriers == {"heartbeat", "checkpoint"}

VARIABLES
    budget,    \* RunState.budget_usd
    approvals, \* RunState.approvals: of each id in it, the answer or "none" yet
    awaiting,  \* RunState.awaiting
    acked,     \* RunState.acked: ids whose answer was acknowledged
    supported, \* _supported["approvals"]
    phase,     \* per request: how far its call got
    deserted,  \* requests whose caller was cancelled or halted
    read,      \* per request: the budget read by += before it is written
    at, reply, \* per carrier: where its thread is, and the reply it holds
    status,    \* the server: what it knows of each request
    granted,   \* the server: the amount granted with each
    limit,     \* the server: the run's budget
    knows      \* the server has the approvals endpoint

sdk == <<budget, approvals, awaiting, acked, supported>>
calls == <<phase, deserted, read>>
carriers == <<at, reply>>
server == <<status, granted, limit, knows>>
vars == <<sdk, calls, carriers, server>>

Budget == Nat \cup {NoBudget}

TypeOK ==
    /\ budget \in Budget /\ limit \in Budget
    /\ DOMAIN approvals \subseteq Requests
    /\ \A r \in DOMAIN approvals : approvals[r] \in {"none", "granted", "denied"}
    /\ awaiting \in Nat /\ acked \subseteq Requests /\ supported \in BOOLEAN /\ knows \in BOOLEAN
    /\ phase \in [Requests -> {"idle", "posting", "waiting", "raising", "granted", "denied"}]
    /\ deserted \subseteq Requests
    /\ read \in [Requests -> Nat] /\ granted \in [Requests -> 0 .. MaxAmount]
    /\ at \in [Carriers -> {"idle", "limits", "answers"}]
    /\ reply \in [Carriers -> [budget : Budget, answers : SUBSET Requests]]
    /\ status \in [Requests -> {"unknown", "open", "granted", "denied", "expired"}]

Init ==
    /\ budget \in {0, NoBudget} /\ limit = budget
    /\ approvals = [r \in {} |-> "none"] /\ awaiting = 0 /\ acked = {} /\ supported = TRUE
    /\ phase = [r \in Requests |-> "idle"] /\ deserted = {}
    /\ read = [r \in Requests |-> 0] /\ granted = read
    /\ at = [k \in Carriers |-> "idle"]
    /\ reply = [k \in Carriers |-> [budget |-> NoBudget, answers |-> {}]]
    /\ status = [r \in Requests |-> "unknown"] /\ knows \in BOOLEAN

At(r, here, next) == phase[r] = here /\ phase' = [phase EXCEPT ![r] = next]

-----------------------------------------------------------------------------
(* The call (approvals.py)                                                 *)

(* _ask up to its request; a server known not to take them is not asked.   *)
Ask(r) ==
    /\ At(r, "idle", IF supported THEN "posting" ELSE "denied")
    /\ UNCHANGED <<sdk, deserted, read, carriers, server>>

(* _ask after it: the call waits only from here on.                        *)
Register(r) ==
    /\ status[r] # "unknown"
    /\ At(r, "posting", "waiting")
    /\ approvals' = [x \in DOMAIN approvals \cup {r} |-> IF x = r THEN "none" ELSE approvals[x]]
    /\ awaiting' = awaiting + 1
    /\ UNCHANGED <<budget, acked, supported, deserted, read, carriers, server>>

(* _ask: an error or no reply denies the request, which may be open yet.   *)
Reject(r) ==
    /\ At(r, "posting", "denied")
    /\ supported' = (supported /\ knows)
    /\ UNCHANGED <<budget, approvals, awaiting, acked, deserted, read, carriers, server>>

(* _answer, with the answer there is; "none" when the deadline has passed. *)
Answer(r) ==
    LET raises == approvals[r] = "granted" /\ granted[r] > 0 /\ budget # NoBudget
    IN  /\ r \notin deserted
        /\ At(r, "waiting", IF raises THEN "raising" ELSE IF approvals[r] = "granted" THEN "granted" ELSE "denied")
        /\ approvals' = [x \in DOMAIN approvals \ {r} |-> approvals[x]]
        /\ awaiting' = awaiting - 1
        /\ read' = IF raises THEN [read EXCEPT ![r] = budget] ELSE read
        /\ UNCHANGED <<budget, acked, supported, deserted, carriers, server>>

Hear(r) == r \in DOMAIN approvals /\ approvals[r] # "none" /\ Answer(r)
TimeOut(r) == r \in DOMAIN approvals /\ approvals[r] = "none" /\ Answer(r)

(* The write of run.budget_usd += amount.                                  *)
Raise(r) ==
    /\ At(r, "raising", "granted")
    /\ budget' = read[r] + granted[r]
    /\ read' = [read EXCEPT ![r] = 0]
    /\ UNCHANGED <<approvals, awaiting, acked, supported, deserted, carriers, server>>

(* The caller is cancelled or halted, or has a timeout of its own, while   *)
(* it waits: what was registered, or still will be, stays.                 *)
Desert(r) ==
    /\ phase[r] \in {"posting", "waiting"}
    /\ r \notin deserted
    /\ deserted' = deserted \cup {r}
    /\ UNCHANGED <<sdk, phase, read, carriers, server>>

-----------------------------------------------------------------------------
(* The server, and the people who answer                                   *)

Store(r) ==
    /\ knows /\ phase[r] = "posting" /\ status[r] = "unknown"
    /\ status' = [status EXCEPT ![r] = "open"]
    /\ UNCHANGED <<sdk, calls, carriers, granted, limit, knows>>

Grant(r, amount) ==
    /\ status[r] = "open"
    /\ status' = [status EXCEPT ![r] = "granted"]
    /\ granted' = [granted EXCEPT ![r] = amount]
    /\ limit' = IF limit = NoBudget THEN limit ELSE limit + amount
    /\ UNCHANGED <<sdk, calls, carriers, knows>>

Turn(r, away) ==
    /\ status[r] = "open" /\ away \in {"denied", "expired"}
    /\ status' = [status EXCEPT ![r] = away]
    /\ UNCHANGED <<sdk, calls, carriers, granted, limit, knows>>

(* What a reply to k says: the budget and every answer given so far.       *)
Send(k) ==
    /\ at[k] = "idle"
    /\ at' = [at EXCEPT ![k] = "limits"]
    /\ reply' = [reply EXCEPT ![k] = [budget |-> limit, answers |-> {r \in Requests : status[r] \in {"granted", "denied"}}]]
    /\ UNCHANGED <<sdk, calls, server>>

-----------------------------------------------------------------------------
(* Applying a reply's commands (control.apply)                             *)

(* Mutant: a limits command may only raise the budget.                     *)
LimitUpward(b) == IF budget # NoBudget /\ b # NoBudget /\ b > budget THEN b ELSE budget

Limit(b) == IF b # NoBudget THEN b ELSE budget

(* The limits come first; a null budget is not adopted from a command.     *)
ApplyLimits(k) ==
    /\ at[k] = "limits"
    /\ at' = [at EXCEPT ![k] = "answers"]
    /\ budget' = Limit(reply[k].budget)
    /\ UNCHANGED <<approvals, awaiting, acked, supported, calls, reply, server>>

Done(k) ==
    /\ at[k] = "answers"
    /\ at' = [at EXCEPT ![k] = "idle"]
    /\ reply' = [reply EXCEPT ![k] = [budget |-> NoBudget, answers |-> {}]]

(* Mutant: a command acknowledged before is skipped.                       *)
HeardOnce(k) == [r \in DOMAIN approvals |-> IF r \in reply[k].answers \ acked THEN status[r] ELSE approvals[r]]

(* The calls that wait, with the answers there are for them.               *)
Heard(k) == [r \in DOMAIN approvals |-> IF r \in reply[k].answers THEN status[r] ELSE approvals[r]]

(* Mutant: the command raises the budget, as often as it is sent.          *)
ApplyAnswersRaising(k) ==
    /\ Done(k)
    /\ approvals' = Heard(k)
    /\ acked' = acked \cup reply[k].answers
    /\ budget' = IF budget = NoBudget THEN budget ELSE budget + Total(Within(granted, reply[k].answers))
    /\ UNCHANGED <<awaiting, supported, calls, server>>

(* An answer for a call that is not waiting, or not yet, is dropped, but   *)
(* acknowledged like any other.                                            *)
ApplyAnswers(k) ==
    /\ Done(k)
    /\ approvals' = Heard(k)
    /\ acked' = acked \cup reply[k].answers
    /\ UNCHANGED <<budget, awaiting, supported, calls, server>>

-----------------------------------------------------------------------------
Next ==
    \/ \E r \in Requests : Ask(r) \/ Register(r) \/ Reject(r) \/ Hear(r) \/ TimeOut(r) \/ Raise(r) \/ Desert(r) \/ Store(r)
    \/ \E r \in Requests, amount \in 0 .. MaxAmount : Grant(r, amount)
    \/ \E r \in Requests, away \in {"denied", "expired"} : Turn(r, away)
    \/ \E k \in Carriers : Send(k) \/ ApplyLimits(k) \/ ApplyAnswers(k)

Spec == Init /\ [][Next]_vars

(* The heartbeat goes on, and its thread and the polling call get to run;  *)
(* people need not answer, deadlines need not pass, checkpoints not happen.*)
FairSpec ==
    /\ Spec
    /\ WF_vars(Send("heartbeat")) /\ WF_vars(ApplyLimits("heartbeat")) /\ WF_vars(ApplyAnswers("heartbeat"))
    /\ \A r \in Requests : WF_vars(Hear(r)) /\ WF_vars(Raise(r))

-----------------------------------------------------------------------------
(* Properties                                                              *)

(* A grant may be counted twice for a while, once in the limits the server *)
(* sent and once by the call that got the answer; but never a third time,  *)
(* however often the answer is sent again, and by no call that was told    *)
(* "denied" (approvals.py:66, control.py:122-125).                         *)
CountedAtMostTwice ==
    budget # NoBudget =>
        budget <= limit + Total(Within(granted, {r \in Requests : phase[r] = "granted"}))

(* A person's answer reaches the call that waits for it, even one that     *)
(* came, and was acknowledged, before the call was registered.             *)
AnswerHeard ==
    \A r \in Requests :
        phase[r] = "waiting" /\ status[r] \in {"granted", "denied"}
            ~> phase[r] \in {"granted", "denied"} \/ r \in deserted

(* Whatever was counted twice, or lost between the two halves of +=, the   *)
(* run's budget settles at the server's.                                   *)
BudgetAgrees == <>[](budget = limit)
=============================================================================
