------------------------------- MODULE Cloud -------------------------------
(***************************************************************************)
(* One run in cloud mode.  The server adds up what is reported to it and   *)
(* answers with its totals and limits, which replace the run's own, while  *)
(* the checks made before a call goes out (precheck.hold, and the first    *)
(* half of a guard) use the run's copy.  Requests are sent by parallel     *)
(* calls, each of which waits for its answer: they may be lost, served     *)
(* after their caller gave up, sent once more, and answered out of order.  *)
(* What the agent is told of a breach (last_breach, which nothing here     *)
(* reads) and does about it is Ledger's and Hold's subject; here on_breach *)
(* is not "hold", and nobody stops or pauses the run.                      *)
(***************************************************************************)
EXTENDS Integers, Amounts

CONSTANTS
    ModelCalls,  \* model calls the agent may make, each with its checkpoint
    ToolCalls,   \* guarded tool calls the agent may make
    Budgets,     \* budgets the dashboard may set, NoBudget (None) among them or not
    NoBudget,    \* None: unlimited spend
    MaxAmount,   \* bound on what one call may cost
    MaxOthers    \* bound on what other processes spend on the run

Calls == ModelCalls \cup ToolCalls

ASSUME CloudAssumption ==
    /\ IsFiniteSet(Calls) /\ ModelCalls \cap ToolCalls = {}
    /\ MaxAmount \in Nat /\ MaxOthers \in Nat
    /\ NoBudget \notin Nat /\ Budgets \subseteq Nat \cup {NoBudget}

VARIABLES
    cost, reserved, budget, inCode, \* fields of RunState
    held,      \* calls with an entry in RunState.holds or a reservation
    amount,    \* per call: what it may cost, then what it did cost
    phase,     \* per call: how far it got
    approved,  \* tools a person approved because the server asked for it
    dedupes,   \* GovClient.dedupes_steps
    retried,   \* calls waiting on a request sent a second time
    net,       \* requests sent, which the server may see yet (or not: they may be lost)
    reply,     \* per call: the answer on its way
    server,    \* the server's books for the run
    billed,    \* history: what each call really costs
    forgotten, \* history: by how much replies lowered cost, altogether
    peak       \* history: the largest budget the run has had

run == <<cost, reserved, budget, held, amount>>
link == <<dedupes, retried, net, reply, server>>
history == <<billed, forgotten, peak>>
vars == <<run, inCode, phase, approved, link, history>>

Amount == 0 .. MaxAmount
Budget == Nat \cup {NoBudget}
NoReply == [kind |-> "none", spent |-> 0, budget |-> NoBudget]

TypeOK ==
    /\ cost \in Nat /\ reserved \in Nat /\ budget \in Budget
    /\ held \subseteq Calls /\ amount \in [Calls -> Nat]
    /\ phase \in [Calls -> {"idle", "prepared", "inflight", "answered", "recorded",
                            "checking", "approving", "running", "settling", "over"}]
    /\ approved \subseteq ToolCalls /\ retried \subseteq Calls
    /\ inCode \in BOOLEAN /\ dedupes \in BOOLEAN
    /\ net \subseteq {"step", "check", "settle"} \X Calls
    /\ reply \in [Calls -> [kind : {"none", "ok", "breach", "allow", "deny", "approve"}, spent : Nat, budget : Budget]]
    /\ server \in [spent : Nat, others : Nat, budget : Budget, dedupes : BOOLEAN, counted : SUBSET Calls,
                   held : [ToolCalls -> Nat], allowed : SUBSET ToolCalls]
    /\ billed \in [Calls -> Nat] /\ forgotten \in Nat /\ peak \in Budget

(* The run started with the limits of the server's reply.                  *)
Init ==
    /\ \E b \in Budgets, d \in BOOLEAN :
        /\ budget = b /\ peak = b
        /\ server = [spent |-> 0, others |-> 0, budget |-> b, dedupes |-> d, counted |-> {},
                     held |-> [t \in ToolCalls |-> 0], allowed |-> {}]
        /\ inCode \in IF b = NoBudget THEN {FALSE} ELSE BOOLEAN
    /\ cost = 0 /\ reserved = 0 /\ held = {}
    /\ amount = [c \in Calls |-> 0] /\ billed = amount
    /\ phase = [c \in Calls |-> "idle"]
    /\ approved = {} /\ dedupes = FALSE /\ retried = {} /\ net = {}
    /\ reply = [c \in Calls |-> NoReply]
    /\ forgotten = 0

At(c, here, next) == phase[c] = here /\ phase' = [phase EXCEPT ![c] = next]

(* _post is over for c: with its answer, or without one.                   *)
Closed(c) ==
    /\ reply' = [reply EXCEPT ![c] = NoReply]
    /\ retried' = retried \ {c}

-----------------------------------------------------------------------------
(* Room in the budget                                                      *)

(* Mutant: the check forgets what calls in flight may still cost.          *)
FitsIgnoringHolds(w) == IF budget = NoBudget THEN TRUE ELSE cost + w <= budget

(* There is room for w, as far as the run knows.                           *)
Fits(w) == IF budget = NoBudget THEN TRUE ELSE cost + reserved + w <= budget

Grab(c, w) ==
    /\ reserved' = reserved + w
    /\ held' = held \cup {c}
    /\ amount' = [amount EXCEPT ![c] = w]

(* What c holds, if anything, is given back.                               *)
Release(c) ==
    /\ reserved' = IF c \in held THEN reserved - amount[c] ELSE reserved
    /\ held' = held \ {c}

(* control.adopt of limits: a number always, None only if allowed.         *)
Adopt(b, mayLift) ==
    LET new == IF b # NoBudget \/ mayLift THEN b ELSE budget
    IN  /\ budget' = new
        /\ peak' = IF NoBudget \in {peak, new} THEN NoBudget ELSE IF new > peak THEN new ELSE peak

-----------------------------------------------------------------------------
(* Model calls and their checkpoints                                       *)

(* _prepare: without a budget the call is not checked.                     *)
Prepare(c) ==
    /\ At(c, "idle", IF budget = NoBudget THEN "inflight" ELSE "prepared")
    /\ UNCHANGED <<run, inCode, approved, link, history>>

Take(c, w) ==
    /\ budget # NoBudget /\ Fits(w)
    /\ At(c, "prepared", "inflight")
    /\ Grab(c, w)
    /\ UNCHANGED <<cost, budget, inCode, approved, link, history>>

Refuse(c, w) ==
    /\ budget # NoBudget /\ ~Fits(w)
    /\ At(c, "prepared", "over")
    /\ UNCHANGED <<run, inCode, approved, link, history>>

(* A reply lifted the budget since _prepare: comparing with None raises.   *)
TakeNone(c) ==
    /\ budget = NoBudget
    /\ At(c, "prepared", "over")
    /\ UNCHANGED <<run, inCode, approved, link, history>>

(* finish(response): the call cost a, and its hold shrinks to that.        *)
Answer(c, a) ==
    /\ c \in held => a <= amount[c]
    /\ At(c, "inflight", "answered")
    /\ amount' = [amount EXCEPT ![c] = a]
    /\ reserved' = IF c \in held THEN reserved + a - amount[c] ELSE reserved
    /\ billed' = [billed EXCEPT ![c] = a]
    /\ UNCHANGED <<cost, budget, held, inCode, approved, link, forgotten, peak>>

Fail(c) ==
    /\ At(c, "inflight", "over")
    /\ Release(c)
    /\ amount' = [amount EXCEPT ![c] = 0]
    /\ UNCHANGED <<cost, budget, inCode, approved, link, history>>

(* _record_step, then _server_check sends the step.                        *)
Record(c) ==
    /\ At(c, "answered", "recorded")
    /\ cost' = cost + amount[c]
    /\ Release(c)
    /\ net' = net \cup {<<"step", c>>}
    /\ UNCHANGED <<budget, amount, inCode, approved, dedupes, retried, reply, server, history>>

(* _decide: the reply's totals and limits replace the run's.               *)
Decide(c) ==
    LET r == reply[c]
    IN  /\ r.kind # "none"
        /\ At(c, "recorded", "over")
        /\ cost' = r.spent
        /\ forgotten' = IF r.spent < cost THEN forgotten + cost - r.spent ELSE forgotten
        /\ Adopt(r.budget, r.kind = "breach" /\ ~inCode)
        /\ dedupes' = (dedupes \/ server.dedupes)
        /\ Closed(c)
        /\ UNCHANGED <<reserved, held, amount, inCode, approved, net, server, billed>>

(* No answer, or none in time: the totals and limits stay the run's own.   *)
DecideAlone(c) ==
    /\ At(c, "recorded", "over")
    /\ Closed(c)
    /\ UNCHANGED <<run, inCode, approved, dedupes, net, server, history>>

-----------------------------------------------------------------------------
(* Guarded tools                                                           *)

(* _check_with_server: reserve w here, then ask.                           *)
Reserve(t, w) ==
    /\ Fits(w)
    /\ At(t, "idle", "checking")
    /\ Grab(t, w)
    /\ net' = net \cup {<<"check", t>>}
    /\ UNCHANGED <<cost, budget, inCode, approved, dedupes, retried, reply, server, history>>

BlockHere(t, w) ==
    /\ ~Fits(w)
    /\ At(t, "idle", "over")
    /\ UNCHANGED <<run, inCode, approved, link, history>>

(* _ask_server: the tool runs only if the server allows it; if it wants a  *)
(* person's approval, one is asked for, once.                              *)
GuardReply(t) ==
    LET r == reply[t]
        next == IF r.kind = "allow" THEN "running"
                ELSE IF r.kind = "approve" /\ t \notin approved THEN "approving" ELSE "over"
    IN  /\ r.kind # "none"
        /\ At(t, "checking", next)
        /\ Adopt(r.budget, FALSE)
        /\ IF next = "over" THEN Release(t) ELSE UNCHANGED <<reserved, held>>
        /\ Closed(t)
        /\ UNCHANGED <<cost, amount, inCode, approved, dedupes, net, server, billed, forgotten>>

Approve(t) ==
    /\ At(t, "approving", "checking")
    /\ approved' = approved \cup {t}
    /\ net' = net \cup {<<"check", t>>}
    /\ UNCHANGED <<run, inCode, dedupes, retried, reply, server, history>>

Disapprove(t) ==
    /\ At(t, "approving", "over")
    /\ Release(t)
    /\ UNCHANGED <<cost, budget, amount, inCode, approved, link, history>>

(* Mutant: a guard that gets no answer fails open.                         *)
GuardOpen(t) ==
    /\ At(t, "checking", "running")
    /\ Closed(t)
    /\ UNCHANGED <<run, inCode, approved, dedupes, net, server, history>>

(* No answer, or one that allows nothing: blocked.                         *)
GuardSilent(t) ==
    /\ At(t, "checking", "over")
    /\ Release(t)
    /\ Closed(t)
    /\ UNCHANGED <<cost, budget, amount, inCode, approved, dedupes, net, server, history>>

(* _settle: charged in full unless the tool raised, here and there.        *)
Settle(t, charged) ==
    /\ At(t, "running", "settling")
    /\ Release(t)
    /\ cost' = cost + charged
    /\ amount' = [amount EXCEPT ![t] = charged]
    /\ billed' = [billed EXCEPT ![t] = charged]
    /\ net' = net \cup {<<"settle", t>>}
    /\ UNCHANGED <<budget, inCode, approved, dedupes, retried, reply, server, forgotten, peak>>

(* The server's answer to that says nothing, nor does it matter if none    *)
(* comes.                                                                  *)
Settled(t) ==
    /\ At(t, "settling", "over")
    /\ Closed(t)
    /\ UNCHANGED <<run, inCode, approved, dedupes, net, server, history>>

-----------------------------------------------------------------------------
(* The client and the network                                              *)

Waiting(c) == phase[c] \in {"recorded", "checking", "settling"}

(* What it waits for the answer to.                                        *)
Request(c) ==
    <<CASE phase[c] = "recorded" -> "step" [] phase[c] = "checking" -> "check" [] OTHER -> "settle", c>>

(* Mutant: a step is sent again to a server that would count it twice.     *)
RetryAny(c) == TRUE

(* A repeat is harmless: a guard's check and its settlement have its id,   *)
(* and the server knows a step's.                                          *)
MayRetry(c) == c \in ToolCalls \/ dedupes

(* _post: after a connection error, once more; its answer may be the lost. *)
Retry(c) ==
    /\ Waiting(c) /\ c \notin retried /\ MayRetry(c)
    /\ retried' = retried \cup {c}
    /\ net' = net \cup {Request(c)}
    /\ reply' = [reply EXCEPT ![c] = NoReply]
    /\ UNCHANGED <<run, inCode, phase, approved, dedupes, server, history>>

-----------------------------------------------------------------------------
(* The server                                                              *)

(* It serves a request, whose caller may have given up on it.  Where that  *)
(* was sent twice, another one may be on its way.  (The answer to the      *)
(* settlement of a tool call is left out: nothing looks at it.)            *)
Serve(request, kind, books) ==
    LET c == request[2]
    IN  /\ request \in net
        /\ net' = IF c \in retried THEN net ELSE net \ {request}
        /\ server' = books
        /\ reply' = IF Waiting(c) /\ request = Request(c) /\ request[1] # "settle"
                    THEN [reply EXCEPT ![c] = [kind |-> kind, spent |-> books.spent, budget |-> books.budget]]
                    ELSE reply
        /\ UNCHANGED <<run, inCode, phase, approved, dedupes, retried, history>>

ServeStep(c) ==
    LET again == server.dedupes /\ c \in server.counted
        books == [server EXCEPT !.spent = IF again THEN @ ELSE @ + amount[c], !.counted = @ \cup {c}]
        over == IF books.budget = NoBudget THEN FALSE ELSE books.spent > books.budget
    IN  \E kind \in {"ok", "breach"} : (over => kind = "breach") /\ Serve(<<"step", c>>, kind, books)

ServeCheck(t) ==
    LET room == IF server.budget = NoBudget THEN TRUE
                ELSE server.spent + Total(server.held) + amount[t] <= server.budget
        take == [server EXCEPT !.held[t] = amount[t], !.allowed = @ \cup {t}]
    IN  IF t \in server.allowed THEN Serve(<<"check", t>>, "allow", server)
        ELSE \/ room /\ Serve(<<"check", t>>, "allow", take)
             \/ Serve(<<"check", t>>, "deny", server)
             \/ t \notin approved /\ Serve(<<"check", t>>, "approve", server)

(* It gives back what it held for t and adds what t cost, unless it has    *)
(* done so: t's id makes a repeat harmless.                                *)
ServeSettle(t) ==
    LET books == [server EXCEPT !.spent = @ + amount[t], !.held[t] = 0, !.counted = @ \cup {t}]
    IN  Serve(<<"settle", t>>, "ok", IF t \in server.counted THEN server ELSE books)

SetBudget(b) ==
    /\ b # server.budget
    /\ server' = [server EXCEPT !.budget = b]
    /\ UNCHANGED <<run, inCode, phase, approved, dedupes, retried, net, reply, history>>

OthersSpend ==
    /\ server.others < MaxOthers
    /\ server' = [server EXCEPT !.others = @ + 1, !.spent = @ + 1]
    /\ UNCHANGED <<run, inCode, phase, approved, dedupes, retried, net, reply, history>>

Next ==
    \/ \E c \in ModelCalls : Prepare(c) \/ TakeNone(c) \/ Fail(c) \/ Record(c) \/ Decide(c) \/ DecideAlone(c)
    \/ \E c \in ModelCalls, w \in Amount : Take(c, w) \/ Refuse(c, w) \/ Answer(c, w)
    \/ \E t \in ToolCalls, w \in Amount : Reserve(t, w) \/ BlockHere(t, w)
    \/ \E t \in ToolCalls : GuardReply(t) \/ GuardSilent(t) \/ Approve(t) \/ Disapprove(t)
                            \/ Settled(t)
    \/ \E t \in ToolCalls : \E charged \in {0, amount[t]} : Settle(t, charged)
    \/ \E c \in Calls : Retry(c)
    \/ \E t \in ToolCalls : ServeCheck(t) \/ ServeSettle(t)
    \/ \E c \in ModelCalls : ServeStep(c)
    \/ \E b \in Budgets : SetBudget(b)
    \/ OthersSpend

Spec == Init /\ [][Next]_vars

-----------------------------------------------------------------------------
(* Properties                                                              *)

(* Parallel calls still overspend in cloud mode, when the reply to one     *)
(* step, made before the server saw another, takes that other's cost off   *)
(* cost_usd; so does the reply after a lost step.  But only then, and by   *)
(* no more than what replies made the run forget: however requests are     *)
(* lost, delayed, repeated and reordered, and limits changed, the checked  *)
(* calls never bill more than the largest budget the run had plus that.    *)
(* And no reply lifts a budget that was set in code.                       *)
OnlyForgottenOverspends ==
    /\ inCode => peak # NoBudget
    /\ peak # NoBudget => Total(billed) <= peak + forgotten

(* Whatever is sent again, a step, a check or a settlement, and however    *)
(* late the first of two arrives, the server never counts a call's cost    *)
(* twice.                                                                  *)
CountedOnce == server.spent <= server.others + Total(billed)

(* reserved_usd is what the calls hold, and a guarded tool's code runs     *)
(* only while both sides have its amount reserved: it fails closed.        *)
BothHold ==
    /\ reserved = Total(Within(amount, held))
    /\ \A t \in ToolCalls : phase[t] = "running" =>
        t \in held /\ t \in server.allowed /\ server.held[t] = amount[t]
=============================================================================
