---------------------------- MODULE CloudProofs -----------------------------
(***************************************************************************)
(* The accounting of a run in cloud mode, its own and the server's, proved *)
(* for any calls, budgets and amounts, however requests are lost, served   *)
(* late, repeated and answered out of order.                               *)
(***************************************************************************)
EXTENDS Cloud, AmountsProofs

(* An answer as it travels, and the server's books.                        *)
Replies == [kind : {"none", "ok", "breach", "allow", "deny", "approve"}, spent : Nat, budget : Budget]
Books == [spent : Nat, others : Nat, budget : Budget, dedupes : BOOLEAN, counted : SUBSET Calls,
          held : [ToolCalls -> Nat], allowed : SUBSET ToolCalls]

(* TypeOK but for reserved: that it never goes below zero follows from     *)
(* what it sums.                                                           *)
Base ==
    /\ cost \in Nat /\ reserved \in Int /\ budget \in Budget
    /\ held \subseteq Calls /\ amount \in [Calls -> Nat]
    /\ phase \in [Calls -> {"idle", "prepared", "inflight", "answered", "recorded",
                            "checking", "approving", "running", "settling", "over"}]
    /\ approved \subseteq ToolCalls /\ retried \subseteq Calls
    /\ inCode \in BOOLEAN /\ dedupes \in BOOLEAN
    /\ net \subseteq {"step", "check", "settle"} \X Calls
    /\ reply \in [Calls -> Replies]
    /\ server \in Books
    /\ billed \in [Calls -> Nat] /\ forgotten \in Nat /\ peak \in Budget

(* How far a model call got, what it holds and bills by then, and where    *)
(* its step may be.                                                        *)
ModelStages ==
    \A c \in ModelCalls :
        /\ phase[c] \in {"idle", "prepared", "inflight", "answered", "recorded", "over"}
        /\ phase[c] \in {"idle", "prepared"} => amount[c] = 0
        /\ c \in held => phase[c] \in {"inflight", "answered"}
        /\ phase[c] \in {"idle", "prepared", "inflight"} => billed[c] = 0
        /\ phase[c] \in {"answered", "recorded", "over"} => billed[c] = amount[c]
        /\ <<"step", c>> \in net \/ c \in server.counted => phase[c] \in {"recorded", "over"}

(* The same of a guarded tool; once allowed it is, until it is settled,    *)
(* held by the server too.                                                 *)
ToolStages ==
    \A t \in ToolCalls :
        /\ phase[t] \in {"idle", "checking", "approving", "running", "settling", "over"}
        /\ t \in held <=> phase[t] \in {"checking", "approving", "running"}
        /\ phase[t] \notin {"settling", "over"} => billed[t] = 0
        /\ phase[t] = "settling" => billed[t] = amount[t]
        /\ <<"check", t>> \in net \/ t \in server.allowed => phase[t] # "idle"
        /\ <<"settle", t>> \in net \/ t \in server.counted =>
              phase[t] \in {"settling", "over"} /\ billed[t] = amount[t]
        /\ reply[t].kind = "allow" \/ phase[t] = "running" => t \in server.allowed
        /\ t \in server.allowed /\ t \in held => server.held[t] = amount[t]

(* A step the server has counted is never on its way again, and none is    *)
(* sent twice, unless the server would know it.                            *)
NoDouble ==
    /\ dedupes => server.dedupes
    /\ \A c \in ModelCalls : c \in retried => dedupes
    /\ server.dedupes \/ \A c \in ModelCalls : <<"step", c>> \notin net \/ c \notin server.counted

(* What a peak says: a budget set in code has one, it is above the budget, *)
(* and every call was checked against that.                                *)
Peaked ==
    /\ inCode => peak # NoBudget
    /\ peak # NoBudget => budget # NoBudget /\ budget <= peak
    /\ peak # NoBudget => \A c \in ModelCalls : phase[c] \in {"inflight", "answered"} => c \in held

(* The calls whose cost is in cost_usd, or was until a reply; and those    *)
(* whose cost the server has seen.                                         *)
Charged == {c \in Calls : phase[c] # "answered"}
Seen == server.counted

Holding == Total(Within(amount, held))
ChargedBills == Total(Within(billed, Charged))
SeenBills == Total(Within(billed, Seen))

Sums ==
    /\ reserved = Holding
    /\ ChargedBills <= cost + forgotten
    /\ peak # NoBudget => ChargedBills + reserved <= peak + forgotten
    /\ server.spent <= server.others + SeenBills

Inv == Base /\ ModelStages /\ ToolStages /\ NoDouble /\ Peaked /\ Sums

-----------------------------------------------------------------------------
(* How the sums move.                                                      *)

(* A step of c leaves what the sums take of every other call alone.        *)
OnlyAt(c) ==
    \A d \in Calls \ {c} :
        /\ amount'[d] = amount[d] /\ billed'[d] = billed[d]
        /\ d \in held' <=> d \in held
        /\ d \in Charged' <=> d \in Charged
        /\ d \in Seen' <=> d \in Seen

LEMMA SumsType ==
  Base => Holding \in Nat /\ ChargedBills \in Nat /\ SeenBills \in Nat
<1> SUFFICES ASSUME Base PROVE Holding \in Nat /\ ChargedBills \in Nat /\ SeenBills \in Nat
  OBVIOUS
<1>1. /\ Within(amount, held) \in [Calls -> Nat] /\ Within(billed, Charged) \in [Calls -> Nat]
      /\ Within(billed, Seen) \in [Calls -> Nat]
  BY DEF Base, Within
<1> QED BY <1>1, CloudAssumption, TotalType DEF Holding, ChargedBills, SeenBills

LEMMA SumsTypeNext ==
  (Base => Holding \in Nat /\ ChargedBills \in Nat /\ SeenBills \in Nat)'
BY SumsType, PTL

(* What c took no part in stays; the rest is its own doing.                *)
Moved(c) ==
    /\ Holding' + (IF c \in held THEN amount[c] ELSE 0)
            = Holding + (IF c \in held' THEN amount'[c] ELSE 0)
    /\ ChargedBills' + (IF c \in Charged THEN billed[c] ELSE 0)
            = ChargedBills + (IF c \in Charged' THEN billed'[c] ELSE 0)
    /\ SeenBills' + (IF c \in Seen THEN billed[c] ELSE 0)
            = SeenBills + (IF c \in Seen' THEN billed'[c] ELSE 0)
    /\ Holding' \in Nat /\ ChargedBills' \in Nat /\ SeenBills' \in Nat
    /\ Holding \in Nat /\ ChargedBills \in Nat /\ SeenBills \in Nat

LEMMA SumsMove ==
  ASSUME Base, Base', NEW c \in Calls, OnlyAt(c)
  PROVE  Moved(c)
<1>1. /\ amount \in [Calls -> Nat] /\ amount' \in [Calls -> Nat]
      /\ billed \in [Calls -> Nat] /\ billed' \in [Calls -> Nat] /\ IsFiniteSet(Calls)
  BY CloudAssumption DEF Base
<1> DEFINE Moves(x, y, D, E) ==
                Total(Within(y, E)) + (IF c \in D THEN x[c] ELSE 0)
                    = Total(Within(x, D)) + (IF c \in E THEN y[c] ELSE 0)
<1>m. ASSUME NEW x \in [Calls -> Nat], NEW y \in [Calls -> Nat], NEW D, NEW E,
             \A d \in Calls \ {c} : (d \in D <=> d \in E) /\ (d \in D => x[d] = y[d])
      PROVE  Moves(x, y, D, E)
  <2>1. IsFiniteSet(Calls)
    BY <1>1
  <2> QED BY <1>m, <2>1, TotalMove
<1>2. Holding' + (IF c \in held THEN amount[c] ELSE 0)
          = Holding + (IF c \in held' THEN amount'[c] ELSE 0)
  <2> DEFINE D == held
             E == held'
  <2>1. \A d \in Calls \ {c} : (d \in D <=> d \in E) /\ (d \in D => amount[d] = amount'[d])
    BY DEF OnlyAt
  <2> HIDE DEF D, E
  <2>2. Moves(amount, amount', D, E)
    <3> HIDE DEF Moves
    <3> QED BY <1>1, <2>1, <1>m
  <2> QED BY <2>2 DEF D, E, Holding
<1>3. ChargedBills' + (IF c \in Charged THEN billed[c] ELSE 0)
          = ChargedBills + (IF c \in Charged' THEN billed'[c] ELSE 0)
  <2> DEFINE D == Charged
             E == Charged'
  <2>1. \A d \in Calls \ {c} : (d \in D <=> d \in E) /\ (d \in D => billed[d] = billed'[d])
    BY DEF OnlyAt
  <2> HIDE DEF D, E
  <2>2. Moves(billed, billed', D, E)
    <3> HIDE DEF Moves
    <3> QED BY <1>1, <2>1, <1>m
  <2> QED BY <2>2 DEF D, E, ChargedBills
<1>4. SeenBills' + (IF c \in Seen THEN billed[c] ELSE 0)
          = SeenBills + (IF c \in Seen' THEN billed'[c] ELSE 0)
  <2> DEFINE D == Seen
             E == Seen'
  <2>1. \A d \in Calls \ {c} : (d \in D <=> d \in E) /\ (d \in D => billed[d] = billed'[d])
    BY DEF OnlyAt
  <2> HIDE DEF D, E
  <2>2. Moves(billed, billed', D, E)
    <3> HIDE DEF Moves
    <3> QED BY <1>1, <2>1, <1>m
  <2> QED BY <2>2 DEF D, E, SeenBills
<1> QED BY <1>2, <1>3, <1>4, SumsType, SumsTypeNext DEF Moved

(* The same case by case: c comes into a sum, leaves it, or changes in it. *)
Changed(c) ==
    /\ Holding' = IF c \in held
                  THEN IF c \in held' THEN Holding + amount'[c] - amount[c] ELSE Holding - amount[c]
                  ELSE IF c \in held' THEN Holding + amount'[c] ELSE Holding
    /\ ChargedBills' = IF c \in Charged
                       THEN IF c \in Charged' THEN ChargedBills + billed'[c] - billed[c]
                            ELSE ChargedBills - billed[c]
                       ELSE IF c \in Charged' THEN ChargedBills + billed'[c] ELSE ChargedBills
    /\ SeenBills' = IF c \in Seen
                    THEN IF c \in Seen' THEN SeenBills + billed'[c] - billed[c]
                         ELSE SeenBills - billed[c]
                    ELSE IF c \in Seen' THEN SeenBills + billed'[c] ELSE SeenBills
    /\ Holding' \in Nat /\ ChargedBills' \in Nat /\ SeenBills' \in Nat
    /\ Holding \in Nat /\ ChargedBills \in Nat /\ SeenBills \in Nat
    /\ amount'[c] \in Nat /\ billed'[c] \in Nat

LEMMA SumsChange ==
  ASSUME Base, Base', NEW c \in Calls, OnlyAt(c)
  PROVE  Changed(c)
<1>1. Moved(c)
  BY SumsMove
<1>2. amount[c] \in Nat /\ amount'[c] \in Nat /\ billed[c] \in Nat /\ billed'[c] \in Nat
  BY DEF Base
<1>3. ASSUME NEW x \in Nat, NEW y \in Nat, NEW p \in Nat, NEW q \in Nat, NEW P, NEW Q,
             y + (IF c \in P THEN p ELSE 0) = x + (IF c \in Q THEN q ELSE 0)
      PROVE  y = IF c \in P THEN IF c \in Q THEN x + q - p ELSE x - p
                 ELSE IF c \in Q THEN x + q ELSE x
  BY <1>3
<1> DEFINE H == held'
           C == Charged'
           S == Seen'
           a == amount'[c]
           b == billed'[c]
           h == Holding'
           k == ChargedBills'
           n == SeenBills'
<1>4. /\ Holding \in Nat /\ ChargedBills \in Nat /\ SeenBills \in Nat
      /\ h \in Nat /\ k \in Nat /\ n \in Nat /\ a \in Nat /\ b \in Nat
      /\ h + (IF c \in held THEN amount[c] ELSE 0) = Holding + (IF c \in H THEN a ELSE 0)
      /\ k + (IF c \in Charged THEN billed[c] ELSE 0) = ChargedBills + (IF c \in C THEN b ELSE 0)
      /\ n + (IF c \in Seen THEN billed[c] ELSE 0) = SeenBills + (IF c \in S THEN b ELSE 0)
  BY <1>1, <1>2 DEF Moved
<1> HIDE DEF H, C, S, a, b, h, k, n
<1>5. h = IF c \in held THEN IF c \in H THEN Holding + a - amount[c] ELSE Holding - amount[c]
          ELSE IF c \in H THEN Holding + a ELSE Holding
  BY <1>2, <1>4, <1>3
<1>6. k = IF c \in Charged
          THEN IF c \in C THEN ChargedBills + b - billed[c] ELSE ChargedBills - billed[c]
          ELSE IF c \in C THEN ChargedBills + b ELSE ChargedBills
  BY <1>2, <1>4, <1>3
<1>7. n = IF c \in Seen THEN IF c \in S THEN SeenBills + b - billed[c] ELSE SeenBills - billed[c]
          ELSE IF c \in S THEN SeenBills + b ELSE SeenBills
  BY <1>2, <1>4, <1>3
<1> QED BY <1>4, <1>5, <1>6, <1>7 DEF Changed, H, C, S, a, b, h, k, n

(* The numbers there are.                                                  *)
Numbers(c) ==
    /\ cost \in Nat /\ reserved \in Int /\ forgotten \in Nat
    /\ amount[c] \in Nat /\ billed[c] \in Nat
    /\ server.spent \in Nat /\ server.others \in Nat
    /\ budget \in Nat \/ budget = NoBudget
    /\ peak \in Nat \/ peak = NoBudget

LEMMA NumbersType ==
  ASSUME Base, NEW c \in Calls
  PROVE  Numbers(c)
BY DEF Base, Books, Budget, Numbers

(* A step that moves no amount keeps the sums, if what it takes off the    *)
(* cost is noted.                                                          *)
Still ==
    /\ amount' = amount /\ billed' = billed /\ held' = held /\ reserved' = reserved
    /\ Charged' = Charged /\ Seen' = Seen
    /\ cost' \in Nat /\ forgotten' \in Nat
    /\ forgotten <= forgotten' /\ cost + forgotten <= cost' + forgotten'
    /\ peak' # NoBudget => peak # NoBudget /\ peak' \in Nat /\ peak <= peak'
    /\ server'.spent = server.spent /\ server'.others = server.others

LEMMA SumsStay ==
  ASSUME Base, Sums, Still
  PROVE  Sums'
<1>1. Holding' = Holding /\ ChargedBills' = ChargedBills /\ SeenBills' = SeenBills
  BY DEF Still, Holding, ChargedBills, SeenBills
<1>2. Holding \in Nat /\ ChargedBills \in Nat /\ SeenBills \in Nat
  BY SumsType
<1>3. /\ cost \in Nat /\ reserved \in Int /\ forgotten \in Nat
      /\ peak \in Nat \/ peak = NoBudget
  BY DEF Base, Budget
<1> QED BY <1>1, <1>2, <1>3 DEF Still, Sums

(* adopt: the peak keeps up with the budget, and a reply to a guard lifts  *)
(* none.                                                                   *)
LEMMA AdoptPeak ==
  ASSUME Base, Peaked, NEW b \in Budget, NEW mayLift, Adopt(b, mayLift), mayLift => ~inCode
  PROVE  /\ budget' \in Budget /\ peak' \in Budget
         /\ peak' # NoBudget => peak # NoBudget /\ peak' \in Nat /\ peak <= peak'
         /\ peak' # NoBudget => budget' # NoBudget /\ budget' <= peak'
         /\ inCode => peak' # NoBudget
BY CloudAssumption DEF Base, Budget, Peaked, Adopt

LEMMA NoReplyType == NoReply \in Replies
BY DEF NoReply, Replies, Budget

(* Serving a request: what it may change of the replies, and of the net.   *)
LEMMA ServeFrame ==
  ASSUME Base, NEW r \in {"step", "check", "settle"}, NEW c \in Calls, NEW books \in Books,
         NEW verdict \in {"ok", "breach", "allow", "deny", "approve"}, Serve(<<r, c>>, verdict, books)
  PROVE  /\ <<r, c>> \in net /\ net' \subseteq net
         /\ c \notin retried => <<r, c>> \notin net'
         /\ server' = books
         /\ reply' \in [Calls -> Replies]
         /\ \A d \in Calls : reply'[d].kind = reply[d].kind \/ (d = c /\ reply'[d].kind = verdict)
         /\ UNCHANGED <<run, inCode, phase, approved, dedupes, retried, history>>
<1> DEFINE answer == [kind |-> verdict, spent |-> books.spent, budget |-> books.budget]
<1>1. answer \in Replies /\ answer.kind = verdict
  BY DEF Books, Replies
<1> HIDE DEF answer
<1>2. /\ <<r, c>> \in net /\ net' = (IF c \in retried THEN net ELSE net \ {<<r, c>>})
      /\ server' = books
      /\ reply' = [reply EXCEPT ![c] = answer] \/ reply' = reply
      /\ UNCHANGED <<run, inCode, phase, approved, dedupes, retried, history>>
  BY DEF Serve, answer
<1>3. reply' \in [Calls -> Replies]
  BY <1>1, <1>2 DEF Base
<1>4. ASSUME NEW d \in Calls PROVE reply'[d].kind = reply[d].kind \/ (d = c /\ reply'[d].kind = verdict)
  <2>1. CASE reply' = reply
    BY <2>1
  <2>2. CASE reply' = [reply EXCEPT ![c] = answer] /\ d = c
    BY <1>1, <2>2 DEF Base
  <2>3. CASE reply' = [reply EXCEPT ![c] = answer] /\ d # c
    BY <2>3 DEF Base
  <2> QED BY <1>2, <2>1, <2>2, <2>3
<1> QED BY <1>2, <1>3, <1>4

(* A step that leaves the tool calls alone, or the model calls, keeps what *)
(* is known of them.                                                       *)
LEMMA ToolsStay ==
  ASSUME ToolStages,
         \A t \in ToolCalls :
             /\ phase'[t] = phase[t] /\ billed'[t] = billed[t] /\ amount'[t] = amount[t]
             /\ t \in held' <=> t \in held
             /\ <<"check", t>> \in net' => <<"check", t>> \in net
             /\ <<"settle", t>> \in net' => <<"settle", t>> \in net
             /\ t \in server'.counted <=> t \in server.counted
             /\ reply'[t].kind = "allow" => reply[t].kind = "allow"
             /\ t \in server'.allowed <=> t \in server.allowed
             /\ server'.held[t] = server.held[t]
  PROVE  ToolStages'
<1> SUFFICES ASSUME NEW t \in ToolCalls
             PROVE  /\ phase'[t] \in {"idle", "checking", "approving", "running", "settling", "over"}
                    /\ t \in held' <=> phase'[t] \in {"checking", "approving", "running"}
                    /\ phase'[t] \notin {"settling", "over"} => billed'[t] = 0
                    /\ phase'[t] = "settling" => billed'[t] = amount'[t]
                    /\ <<"check", t>> \in net' \/ t \in server'.allowed => phase'[t] # "idle"
                    /\ <<"settle", t>> \in net' \/ t \in server'.counted =>
                          phase'[t] \in {"settling", "over"} /\ billed'[t] = amount'[t]
                    /\ reply'[t].kind = "allow" \/ phase'[t] = "running" => t \in server'.allowed
                    /\ t \in server'.allowed /\ t \in held' => server'.held[t] = amount'[t]
  BY DEF ToolStages
<1> QED BY DEF ToolStages

LEMMA ModelsStay ==
  ASSUME ModelStages,
         \A c \in ModelCalls :
             /\ phase'[c] = phase[c] /\ billed'[c] = billed[c] /\ amount'[c] = amount[c]
             /\ c \in held' => c \in held
             /\ <<"step", c>> \in net' => <<"step", c>> \in net
             /\ c \in server'.counted <=> c \in server.counted
  PROVE  ModelStages'
BY DEF ModelStages

-----------------------------------------------------------------------------
(* One lemma per action: it keeps the invariant.                           *)

(* A call is prepared, or goes out unchecked, in a run without a budget.   *)
LEMMA PrepareInv ==
  ASSUME Inv, NEW c \in ModelCalls, Prepare(c)
  PROVE  Inv'
<1> USE CloudAssumption DEF Inv
<1>1. Base'
  BY DEF Base, Replies, Books, Budget, Calls, Amount, ModelStages, ToolStages, Prepare, At, run,
     link, history
<1>2. ModelStages'
  BY DEF Base, ModelStages, ToolStages, Calls, Books, NoDouble, Prepare, At, run, link, history
<1>3. ToolStages'
  <2>1. \A t \in ToolCalls : phase'[t] = phase[t]
    BY DEF Base, Calls, Prepare, At
  <2>2. UNCHANGED <<billed, amount, held, net, reply, server>>
    BY DEF Prepare, run, link, history
  <2> QED BY <2>1, <2>2, ToolsStay
<1>4. NoDouble'
  BY DEF Base, ModelStages, ToolStages, NoDouble, Calls, Books, Prepare, At, run, link, history
<1>5. Peaked'
  BY DEF Base, Budget, ModelStages, Peaked, Replies, Prepare, At, run, link, history
<1>6. Sums'
  <2>1. Still
    BY DEF Base, Calls, ModelStages, ToolStages, Books, Still, Charged, Seen, Budget, Prepare,
       At, run, link, history
  <2> QED BY <2>1, SumsStay
<1> QED BY <1>1, <1>2, <1>3, <1>4, <1>5, <1>6

(* What a checked call may cost fits beside all the rest.                  *)
LEMMA TakeInv ==
  ASSUME Inv, NEW c \in ModelCalls, NEW w \in Amount, Take(c, w)
  PROVE  Inv'
<1> USE CloudAssumption DEF Inv
<1>1. Base'
  BY DEF Base, Replies, Books, Budget, Calls, Amount, ModelStages, ToolStages, Take, At, Fits,
     Grab, Amount, run, link, history
<1>2. ModelStages'
  BY DEF Base, ModelStages, ToolStages, Calls, Books, NoDouble, Take, At, Fits, Grab, Amount,
     run, link, history
<1>3. ToolStages'
  BY DEF Base, ModelStages, ToolStages, Calls, Books, Replies, Take, At, Fits, Grab, Amount,
     run, link, history
<1>4. NoDouble'
  BY DEF Base, ModelStages, ToolStages, NoDouble, Calls, Books, Take, At, Fits, Grab, Amount,
     run, link, history
<1>5. Peaked'
  BY DEF Base, Budget, ModelStages, Peaked, Replies, Take, At, Fits, Grab, Amount, run, link,
     history
<1>6. Sums'
  <2>1. c \in Calls /\ OnlyAt(c)
    BY DEF Base, Calls, ToolStages, Books, OnlyAt, Charged, Seen, Take, At, Fits, Grab, Amount,
       run, link, history
  <2>2. Changed(c)
    BY <1>1, <2>1, SumsChange
  <2>a. Numbers(c)
    BY <2>1, NumbersType
  <2>3. w \in Nat
    BY DEF Amount
  <2>4. c \notin held
    BY DEF ModelStages, Take, At
  <2>5. c \in held' /\ amount'[c] = w
    BY DEF Base, Calls, Take, Grab
  <2>6. /\ billed' = billed /\ c \in Charged /\ c \in Charged' /\ (c \in Seen' <=> c \in Seen)
    BY DEF Base, ModelStages, ToolStages, Calls, Charged, Seen, Books, Take, At, Fits, Grab,
       Amount, run, link, history
  <2>7. peak # NoBudget => cost + reserved + w <= peak
    BY DEF Base, Budget, Peaked, Take, At, Fits, Grab, Amount, run, link, history
  <2>8. reserved' = reserved + w
    BY DEF Take, Grab
  <2>9. /\ cost' = cost /\ forgotten' = forgotten /\ peak' = peak
        /\ server'.spent = server.spent /\ server'.others = server.others
    BY DEF Take, At, Fits, Grab, Amount, run, link, history
  <2>s. Sums
    OBVIOUS
  <2> HIDE CloudAssumption DEF Inv
  <2>b. Holding' = Holding + w /\ ChargedBills' = ChargedBills /\ SeenBills' = SeenBills
    BY <2>1, <2>s, <2>2, <2>3, <2>4, <2>5, <2>6, <2>7, <2>8, <2>9, <2>a DEF Changed, Numbers
  <2> QED BY <2>1, <2>s, <2>2, <2>3, <2>4, <2>5, <2>6, <2>7, <2>8, <2>9, <2>a, <2>b DEF Changed, Numbers, Sums
<1> QED BY <1>1, <1>2, <1>3, <1>4, <1>5, <1>6

(* A call that isn't made.                                                 *)
LEMMA LeaveInv ==
  ASSUME Inv, NEW c \in ModelCalls, NEW w \in Amount, Refuse(c, w) \/ TakeNone(c)
  PROVE  Inv'
<1> USE CloudAssumption DEF Inv
<1>1. Base'
  BY DEF Base, Replies, Books, Budget, Calls, Amount, ModelStages, ToolStages, Refuse, TakeNone,
     At, run, link, history
<1>2. ModelStages'
  <2>1. phase[c] = "prepared" /\ phase' = [phase EXCEPT ![c] = "over"]
    BY DEF Refuse, TakeNone, At
  <2>2. UNCHANGED <<billed, amount, held, net, server>>
    BY DEF Refuse, TakeNone, run, link, history
  <2>3. c \notin held /\ billed[c] = 0 /\ amount[c] = 0
    BY <2>1 DEF ModelStages
  <2> QED BY <2>1, <2>2, <2>3 DEF Base, Calls, ModelStages
<1>3. ToolStages'
  <2>1. \A t \in ToolCalls : phase'[t] = phase[t]
    BY DEF Base, Calls, Refuse, TakeNone, At
  <2>2. UNCHANGED <<billed, amount, held, net, reply, server>>
    BY DEF Refuse, TakeNone, run, link, history
  <2> QED BY <2>1, <2>2, ToolsStay
<1>4. NoDouble'
  BY DEF Base, ModelStages, ToolStages, NoDouble, Calls, Books, Refuse, TakeNone, At, run, link,
     history
<1>5. Peaked'
  <2>1. budget' = budget /\ peak' = peak /\ inCode' = inCode /\ held' = held
    BY DEF Refuse, TakeNone, run, history
  <2>2. \A d \in ModelCalls : phase'[d] \in {"inflight", "answered"} => phase[d] = phase'[d]
    BY DEF Base, Calls, Refuse, TakeNone, At
  <2> QED BY <2>1, <2>2 DEF Peaked
<1>6. Sums'
  <2>1. Still
    BY DEF Base, Calls, ModelStages, ToolStages, Books, Still, Charged, Seen, Budget, Refuse,
       TakeNone, At, run, link, history
  <2> QED BY <2>1, SumsStay
<1> QED BY <1>1, <1>2, <1>3, <1>4, <1>5, <1>6

(* A call costs no more than it holds.                                     *)
LEMMA AnswerInv ==
  ASSUME Inv, NEW c \in ModelCalls, NEW a \in Amount, Answer(c, a)
  PROVE  Inv'
<1> USE CloudAssumption DEF Inv
<1>1. Base'
  BY DEF Base, Replies, Books, Budget, Calls, Amount, ModelStages, ToolStages, Answer, At,
     Amount, run, link, history
<1>2. ModelStages'
  BY DEF Base, ModelStages, ToolStages, Calls, Books, NoDouble, Answer, At, Amount, run, link,
     history
<1>3. ToolStages'
  BY DEF Base, ModelStages, ToolStages, Calls, Books, Replies, Answer, At, Amount, run, link,
     history
<1>4. NoDouble'
  BY DEF Base, ModelStages, ToolStages, NoDouble, Calls, Books, Answer, At, Amount, run, link,
     history
<1>5. Peaked'
  BY DEF Base, Budget, ModelStages, Peaked, Replies, Answer, At, Amount, run, link, history
<1>6. Sums'
  <2>1. c \in Calls /\ OnlyAt(c)
    BY DEF Base, Calls, ToolStages, Books, OnlyAt, Charged, Seen, Answer, At, Amount, run, link,
       history
  <2>2. Changed(c)
    BY <1>1, <2>1, SumsChange
  <2>a. Numbers(c)
    BY <2>1, NumbersType
  <2>3. a \in Nat
    BY DEF Amount
  <2>4. billed[c] = 0
    BY DEF ModelStages, Answer, At
  <2>5. amount'[c] = a /\ billed'[c] = a
    BY DEF Base, Calls, Answer
  <2>6. /\ held' = held /\ (c \in held => a <= amount[c])
        /\ reserved' = IF c \in held THEN reserved + a - amount[c] ELSE reserved
    BY DEF Answer
  <2>7. c \notin Charged' /\ c \in Charged /\ c \notin Seen /\ c \notin Seen'
    BY DEF Base, ModelStages, ToolStages, Calls, Charged, Seen, Books, Answer, At, Amount, run,
       link, history
  <2>8. peak # NoBudget => c \in held
    BY DEF Peaked, Answer, At, Amount, run, link, history
  <2>9. /\ cost' = cost /\ forgotten' = forgotten /\ peak' = peak
        /\ server'.spent = server.spent /\ server'.others = server.others
    BY DEF Answer, At, Amount, run, link, history
  <2>s. Sums
    OBVIOUS
  <2> HIDE CloudAssumption DEF Inv
  <2>b. Holding' = Holding + (IF c \in held THEN a - amount[c] ELSE 0)
    BY <2>2, <2>3, <2>5, <2>6, <2>a DEF Changed, Numbers
  <2>c. ChargedBills' = ChargedBills
    BY <2>2, <2>4, <2>7 DEF Changed
  <2>d. SeenBills' = SeenBills
    BY <2>2, <2>7 DEF Changed
  <2> QED BY <2>s, <2>2, <2>3, <2>6, <2>8, <2>9, <2>a, <2>b, <2>c, <2>d DEF Changed, Numbers, Sums
<1> QED BY <1>1, <1>2, <1>3, <1>4, <1>5, <1>6

(* A failed call costs nothing.                                            *)
LEMMA FailInv ==
  ASSUME Inv, NEW c \in ModelCalls, Fail(c)
  PROVE  Inv'
<1> USE CloudAssumption DEF Inv
<1>1. Base'
  BY DEF Base, Replies, Books, Budget, Calls, Amount, ModelStages, ToolStages, Fail, At,
     Release, run, link, history
<1>2. ModelStages'
  BY DEF Base, ModelStages, ToolStages, Calls, Books, NoDouble, Fail, At, Release, run, link,
     history
<1>3. ToolStages'
  BY DEF Base, ModelStages, ToolStages, Calls, Books, Replies, Fail, At, Release, run, link,
     history
<1>4. NoDouble'
  BY DEF Base, ModelStages, ToolStages, NoDouble, Calls, Books, Fail, At, Release, run, link,
     history
<1>5. Peaked'
  BY DEF Base, Budget, ModelStages, Peaked, Replies, Fail, At, Release, run, link, history
<1>6. Sums'
  <2>1. c \in Calls /\ OnlyAt(c)
    BY DEF Base, Calls, ToolStages, Books, OnlyAt, Charged, Seen, Fail, At, Release, run, link,
       history
  <2>2. Changed(c)
    BY <1>1, <2>1, SumsChange
  <2>a. Numbers(c)
    BY <2>1, NumbersType
  <2>3. c \notin held' /\ amount'[c] = 0
    BY DEF Base, Calls, Fail, Release
  <2>4. reserved' = IF c \in held THEN reserved - amount[c] ELSE reserved
    BY DEF Fail, Release
  <2>5. billed' = billed /\ c \in Charged /\ c \in Charged' /\ (c \in Seen' <=> c \in Seen)
    BY DEF Base, ModelStages, ToolStages, Calls, Charged, Seen, Books, Fail, At, Release, run,
       link, history
  <2>6. /\ cost' = cost /\ forgotten' = forgotten /\ peak' = peak
        /\ server'.spent = server.spent /\ server'.others = server.others
    BY DEF Fail, At, Release, run, link, history
  <2>s. Sums
    OBVIOUS
  <2> HIDE CloudAssumption DEF Inv
  <2>b. Holding' = Holding - (IF c \in held THEN amount[c] ELSE 0) /\ ChargedBills' = ChargedBills
        /\ SeenBills' = SeenBills
    BY <2>1, <2>s, <2>2, <2>3, <2>4, <2>5, <2>6, <2>a DEF Changed, Numbers
  <2> QED BY <2>1, <2>s, <2>2, <2>3, <2>4, <2>5, <2>6, <2>a, <2>b DEF Changed, Numbers, Sums
<1> QED BY <1>1, <1>2, <1>3, <1>4, <1>5, <1>6

(* What a call held makes way for what it cost.                            *)
LEMMA RecordInv ==
  ASSUME Inv, NEW c \in ModelCalls, Record(c)
  PROVE  Inv'
<1> USE CloudAssumption DEF Inv
<1>1. Base'
  BY DEF Base, Replies, Books, Budget, Calls, Amount, ModelStages, ToolStages, Record, At,
     Release, run, link, history
<1>2. ModelStages'
  BY DEF Base, ModelStages, ToolStages, Calls, Books, NoDouble, Record, At, Release, run, link,
     history
<1>3. ToolStages'
  BY DEF Base, ModelStages, ToolStages, Calls, Books, Replies, Record, At, Release, run, link,
     history
<1>4. NoDouble'
  BY DEF Base, ModelStages, ToolStages, NoDouble, Calls, Books, Record, At, Release, run, link,
     history
<1>5. Peaked'
  BY DEF Base, Budget, ModelStages, Peaked, Replies, Record, At, Release, run, link, history
<1>6. Sums'
  <2>1. c \in Calls /\ OnlyAt(c)
    BY DEF Base, Calls, ToolStages, Books, OnlyAt, Charged, Seen, Record, At, Release, run,
       link, history
  <2>2. Changed(c)
    BY <1>1, <2>1, SumsChange
  <2>a. Numbers(c)
    BY <2>1, NumbersType
  <2>3. /\ c \notin held' /\ reserved' = IF c \in held THEN reserved - amount[c] ELSE reserved
        /\ cost' = cost + amount[c] /\ billed[c] = amount[c] /\ billed' = billed
    BY DEF Base, ModelStages, Calls, Record, At, Release, run, link, history
  <2>4. c \notin Charged /\ c \in Charged' /\ (c \in Seen' <=> c \in Seen)
    BY DEF Base, ModelStages, ToolStages, Calls, Charged, Seen, Books, Record, At, Release, run,
       link, history
  <2>5. peak # NoBudget => c \in held
    BY DEF Peaked, Record, At, Release, run, link, history
  <2>6. /\ forgotten' = forgotten /\ peak' = peak
        /\ server'.spent = server.spent /\ server'.others = server.others
    BY DEF Record, At, Release, run, link, history
  <2>s. Sums
    OBVIOUS
  <2> HIDE CloudAssumption DEF Inv
  <2>b. Holding' = Holding - (IF c \in held THEN amount[c] ELSE 0)
    BY <2>2, <2>3, <2>a DEF Changed, Numbers
  <2>c. ChargedBills' = ChargedBills + amount[c]
    BY <2>2, <2>3, <2>4, <2>a DEF Changed, Numbers
  <2>d. SeenBills' = SeenBills
    BY <2>2, <2>3, <2>4, <2>a DEF Changed, Numbers
  <2> QED BY <2>s, <2>2, <2>3, <2>5, <2>6, <2>a, <2>b, <2>c, <2>d DEF Changed, Numbers, Sums
<1> QED BY <1>1, <1>2, <1>3, <1>4, <1>5, <1>6

(* What a reply takes off the run's cost is counted as forgotten.          *)
LEMMA DecideInv ==
  ASSUME Inv, NEW c \in ModelCalls, Decide(c)
  PROVE  Inv'
<1> DEFINE r == reply[c]
<1>0. /\ phase[c] = "recorded" /\ phase' = [phase EXCEPT ![c] = "over"]
      /\ cost' = r.spent /\ r \in Replies
      /\ forgotten' = IF r.spent < cost THEN forgotten + cost - r.spent ELSE forgotten
      /\ dedupes' = (dedupes \/ server.dedupes)
      /\ reply' = [reply EXCEPT ![c] = NoReply] /\ retried' = retried \ {c}
      /\ Adopt(r.budget, r.kind = "breach" /\ ~inCode)
      /\ UNCHANGED <<reserved, held, amount, inCode, approved, net, server, billed>>
  BY DEF Inv, Base, Calls, Decide, At, Closed
<1>a. /\ budget' \in Budget /\ peak' \in Budget
      /\ peak' # NoBudget => peak # NoBudget /\ peak' \in Nat /\ peak <= peak'
      /\ peak' # NoBudget => budget' # NoBudget /\ budget' <= peak'
      /\ inCode => peak' # NoBudget
  BY <1>0, AdoptPeak DEF Inv, Replies
<1> HIDE DEF r
<1> USE CloudAssumption DEF Inv
<1>1. Base'
  <2>1. dedupes' \in BOOLEAN /\ r.spent \in Nat
    BY <1>0 DEF Base, Books, Replies
  <2>2. forgotten' \in Nat
    BY <1>0, <2>1 DEF Base
  <2>3. reply' \in [Calls -> Replies]
    BY <1>0, NoReplyType DEF Base
  <2>4. cost' \in Nat /\ phase' \in [Calls -> {"idle", "prepared", "inflight", "answered", "recorded",
                                             "checking", "approving", "running", "settling", "over"}]
    BY <1>0, <2>1 DEF Base
  <2>5. retried' \subseteq Calls
    BY <1>0 DEF Base
  <2>6. UNCHANGED <<reserved, held, amount, inCode, approved, net, server, billed>>
    BY <1>0
  <2> QED BY <1>a, <2>1, <2>2, <2>3, <2>4, <2>5, <2>6 DEF Base
<1>2. ModelStages'
  BY <1>0 DEF Base, ModelStages, ToolStages, Calls, Books, NoDouble, run, history
<1>3. ToolStages'
  BY <1>0 DEF Base, ToolStages, Calls, NoReply
<1>4. NoDouble'
  BY <1>0 DEF Base, ModelStages, ToolStages, NoDouble, Calls, Books, run, history
<1>5. Peaked'
  <2>1. \A d \in ModelCalls : phase'[d] \in {"inflight", "answered"} => phase[d] = phase'[d]
    BY <1>0 DEF Base, Calls
  <2>2. held' = held /\ inCode' = inCode
    BY <1>0
  <2> QED BY <1>a, <2>1, <2>2 DEF Peaked
<1>6. Sums'
  <2>1. Still
    <3>1. r.spent \in Nat
      BY <1>0 DEF Replies
    <3>2. Charged' = Charged /\ Seen' = Seen
      BY <1>0 DEF Base, Charged, Seen
    <3>3. cost \in Nat /\ forgotten \in Nat
      BY DEF Base
    <3>4. /\ cost' \in Nat /\ forgotten' \in Nat
          /\ forgotten <= forgotten' /\ cost + forgotten <= cost' + forgotten'
      BY <1>0, <3>1, <3>3
    <3>5. UNCHANGED <<reserved, held, amount, server, billed>>
      BY <1>0
    <3> QED BY <1>a, <3>2, <3>4, <3>5 DEF Still
  <2> QED BY <2>1, SumsStay
<1> QED BY <1>1, <1>2, <1>3, <1>4, <1>5, <1>6

(* No reply: the run keeps its own count.                                  *)
LEMMA DecideAloneInv ==
  ASSUME Inv, NEW c \in ModelCalls, DecideAlone(c)
  PROVE  Inv'
<1> USE CloudAssumption DEF Inv
<1>1. Base'
  <2>1. reply' \in [Calls -> Replies]
    BY NoReplyType DEF Base, DecideAlone, Closed, Calls
  <2> QED
    BY <2>1 DEF Base, Calls, DecideAlone, At, Closed, run, history
<1>2. ModelStages'
  BY DEF Base, ModelStages, ToolStages, Calls, Books, NoDouble, DecideAlone, At, Closed, run,
     link, history
<1>3. ToolStages'
  <2>1. \A t \in ToolCalls : phase'[t] = phase[t] /\ reply'[t] = reply[t]
    BY DEF Base, Calls, DecideAlone, At, Closed
  <2>2. UNCHANGED <<billed, amount, held, server>> /\ net' \subseteq net
    BY DEF DecideAlone, run, history
  <2> QED BY <2>1, <2>2, ToolsStay
<1>4. NoDouble'
  BY DEF Base, ModelStages, ToolStages, NoDouble, Calls, Books, DecideAlone, At, Closed, run,
     link, history
<1>5. Peaked'
  BY DEF Base, Budget, ModelStages, Peaked, Replies, DecideAlone, At, Closed, run, link, history
<1>6. Sums'
  <2>1. Still
    BY DEF Base, Calls, ModelStages, ToolStages, Books, Still, Charged, Seen, Budget,
       DecideAlone, At, Closed, run, link, history
  <2> QED BY <2>1, SumsStay
<1> QED BY <1>1, <1>2, <1>3, <1>4, <1>5, <1>6

(* A guarded tool's amount fits beside all the rest.                       *)
LEMMA ReserveInv ==
  ASSUME Inv, NEW t \in ToolCalls, NEW w \in Amount, Reserve(t, w)
  PROVE  Inv'
<1> USE CloudAssumption DEF Inv
<1>1. Base'
  BY DEF Base, Replies, Books, Budget, Calls, Amount, ModelStages, ToolStages, Reserve, At,
     Fits, Grab, Amount, run, link, history
<1>2. ModelStages'
  <2>1. \A c \in ModelCalls : c # t
    OBVIOUS
  <2>2. \A c \in ModelCalls :
            /\ phase'[c] = phase[c] /\ amount'[c] = amount[c] /\ billed'[c] = billed[c]
            /\ c \in held' <=> c \in held
            /\ <<"step", c>> \in net' <=> <<"step", c>> \in net
            /\ server' = server
    BY <2>1 DEF Base, Calls, Reserve, At, Grab, history
  <2> QED BY <2>2 DEF ModelStages
<1>3. ToolStages'
  BY DEF Base, ModelStages, ToolStages, Calls, Books, Replies, Reserve, At, Fits, Grab, Amount,
     run, link, history
<1>4. NoDouble'
  BY DEF Base, ModelStages, ToolStages, NoDouble, Calls, Books, Reserve, At, Fits, Grab, Amount,
     run, link, history
<1>5. Peaked'
  BY DEF Base, Budget, ModelStages, Peaked, Replies, Reserve, At, Fits, Grab, Amount, run, link,
     history
<1>6. Sums'
  <2>1. t \in Calls /\ OnlyAt(t)
    BY DEF Base, Calls, ToolStages, Books, OnlyAt, Charged, Seen, Reserve, At, Fits, Grab,
       Amount, run, link, history
  <2>2. Changed(t)
    BY <1>1, <2>1, SumsChange
  <2>a. Numbers(t)
    BY <2>1, NumbersType
  <2>3. w \in Nat
    BY DEF Amount
  <2>4. t \notin held
    BY DEF ToolStages, Reserve, At
  <2>5. t \in held' /\ amount'[t] = w
    BY DEF Base, Calls, Reserve, Grab
  <2>6. /\ billed' = billed /\ t \in Charged /\ t \in Charged' /\ (t \in Seen' <=> t \in Seen)
    BY DEF Base, ModelStages, ToolStages, Calls, Charged, Seen, Books, Reserve, At, Fits, Grab,
       Amount, run, link, history
  <2>7. peak # NoBudget => cost + reserved + w <= peak
    BY DEF Base, Budget, Peaked, Reserve, At, Fits, Grab, Amount, run, link, history
  <2>8. reserved' = reserved + w
    BY DEF Reserve, Grab
  <2>9. /\ cost' = cost /\ forgotten' = forgotten /\ peak' = peak
        /\ server'.spent = server.spent /\ server'.others = server.others
    BY DEF Reserve, At, Fits, Grab, Amount, run, link, history
  <2>s. Sums
    OBVIOUS
  <2> HIDE CloudAssumption DEF Inv
  <2>b. Holding' = Holding + w /\ ChargedBills' = ChargedBills /\ SeenBills' = SeenBills
    BY <2>1, <2>s, <2>2, <2>3, <2>4, <2>5, <2>6, <2>7, <2>8, <2>9, <2>a DEF Changed, Numbers
  <2> QED BY <2>1, <2>s, <2>2, <2>3, <2>4, <2>5, <2>6, <2>7, <2>8, <2>9, <2>a, <2>b DEF Changed, Numbers, Sums
<1> QED BY <1>1, <1>2, <1>3, <1>4, <1>5, <1>6

(* A tool for which there is no room.                                      *)
LEMMA BlockHereInv ==
  ASSUME Inv, NEW t \in ToolCalls, NEW w \in Amount, BlockHere(t, w)
  PROVE  Inv'
<1> USE CloudAssumption DEF Inv
<1>1. Base'
  BY DEF Base, Replies, Books, Budget, Calls, Amount, ModelStages, ToolStages, BlockHere, At,
     run, link, history
<1>2. ModelStages'
  BY DEF Base, ModelStages, ToolStages, Calls, Books, NoDouble, BlockHere, At, run, link,
     history
<1>3. ToolStages'
  BY DEF Base, ModelStages, ToolStages, Calls, Books, Replies, BlockHere, At, run, link, history
<1>4. NoDouble'
  BY DEF Base, ModelStages, ToolStages, NoDouble, Calls, Books, BlockHere, At, run, link,
     history
<1>5. Peaked'
  BY DEF Base, Budget, ModelStages, Peaked, Replies, BlockHere, At, run, link, history
<1>6. Sums'
  <2>1. Still
    BY DEF Base, Calls, ModelStages, ToolStages, Books, Still, Charged, Seen, Budget, BlockHere,
       At, run, link, history
  <2> QED BY <2>1, SumsStay
<1> QED BY <1>1, <1>2, <1>3, <1>4, <1>5, <1>6

(* The tool's code runs only if the server allowed it.                     *)
LEMMA GuardReplyInv ==
  ASSUME Inv, NEW t \in ToolCalls, GuardReply(t)
  PROVE  Inv'
<1> DEFINE r == reply[t]
           next == IF r.kind = "allow" THEN "running"
                   ELSE IF r.kind = "approve" /\ t \notin approved THEN "approving" ELSE "over"
<1>0. /\ phase[t] = "checking" /\ phase' = [phase EXCEPT ![t] = next] /\ r \in Replies
      /\ held' = IF next = "over" THEN held \ {t} ELSE held
      /\ reserved' = IF next = "over" /\ t \in held THEN reserved - amount[t] ELSE reserved
      /\ reply' = [reply EXCEPT ![t] = NoReply] /\ retried' = retried \ {t}
      /\ Adopt(r.budget, FALSE)
      /\ UNCHANGED <<cost, amount, inCode, approved, dedupes, net, server, billed, forgotten>>
  BY DEF Inv, Base, Calls, GuardReply, At, Release, Closed
<1>a. /\ budget' \in Budget /\ peak' \in Budget
      /\ peak' # NoBudget => peak # NoBudget /\ peak' \in Nat /\ peak <= peak'
      /\ peak' # NoBudget => budget' # NoBudget /\ budget' <= peak'
      /\ inCode => peak' # NoBudget
  BY <1>0, AdoptPeak DEF Inv, Replies
<1>b. next \in {"running", "approving", "over"} /\ (next = "running" => t \in server.allowed)
  BY DEF Inv, ToolStages
<1> HIDE DEF r, next
<1> USE CloudAssumption DEF Inv
<1>1. Base'
  <2>1. reply' \in [Calls -> Replies]
    BY <1>0, NoReplyType DEF Base
  <2>2. reserved' \in Int
    BY <1>0 DEF Base, Calls
  <2> QED BY <1>0, <1>a, <1>b, <2>1, <2>2 DEF Base, Calls
<1>2. ModelStages'
  BY <1>0 DEF Base, ModelStages, ToolStages, Calls, Books, NoDouble, run, history
<1>3. ToolStages'
  BY <1>0, <1>b DEF Base, ToolStages, Calls, NoReply
<1>4. NoDouble'
  BY <1>0 DEF Base, ModelStages, ToolStages, NoDouble, Calls, Books, run, history
<1>5. Peaked'
  BY <1>0, <1>a DEF Base, ModelStages, Peaked
<1>6. Sums'
  <2>1. t \in Calls /\ OnlyAt(t)
    BY <1>0 DEF Base, Calls, ToolStages, Books, OnlyAt, Charged, Seen, run, history
  <2>2. Changed(t)
    BY <1>1, <2>1, SumsChange
  <2>a. Numbers(t)
    BY <2>1, NumbersType
  <2>3. /\ t \in held /\ (reserved' = IF t \in held' THEN reserved ELSE reserved - amount[t])
        /\ amount' = amount /\ billed' = billed
    BY <1>0 DEF Base, ToolStages
  <2>4. t \in Charged /\ t \in Charged' /\ (t \in Seen' <=> t \in Seen)
    BY <1>0, <1>b DEF Base, Charged, Seen, Calls
  <2>5. /\ cost' = cost /\ forgotten' = forgotten
        /\ server'.spent = server.spent /\ server'.others = server.others
    BY <1>0
  <2>6. peak' # NoBudget => peak # NoBudget /\ peak \in Nat /\ peak' \in Nat /\ peak <= peak'
    BY <1>0, <1>a DEF Base, Budget
  <2>s. Sums
    OBVIOUS
  <2> HIDE CloudAssumption DEF Inv
  <2> QED BY <2>1, <2>s, <2>2, <2>3, <2>4, <2>5, <2>6, <2>a DEF Changed, Numbers, Sums
<1> QED BY <1>1, <1>2, <1>3, <1>4, <1>5, <1>6

(* A person approves: the server is asked again.                           *)
LEMMA ApproveInv ==
  ASSUME Inv, NEW t \in ToolCalls, Approve(t)
  PROVE  Inv'
<1> USE CloudAssumption DEF Inv
<1>1. Base'
  BY DEF Base, Replies, Books, Budget, Calls, Amount, ModelStages, ToolStages, Approve, At, run,
     link, history
<1>2. ModelStages'
  BY DEF Base, ModelStages, ToolStages, Calls, Books, NoDouble, Approve, At, run, link, history
<1>3. ToolStages'
  BY DEF Base, ModelStages, ToolStages, Calls, Books, Replies, Approve, At, run, link, history
<1>4. NoDouble'
  BY DEF Base, ModelStages, ToolStages, NoDouble, Calls, Books, Approve, At, run, link, history
<1>5. Peaked'
  BY DEF Base, Budget, ModelStages, Peaked, Replies, Approve, At, run, link, history
<1>6. Sums'
  <2>1. Still
    BY DEF Base, Calls, ModelStages, ToolStages, Books, Still, Charged, Seen, Budget, Approve,
       At, run, link, history
  <2> QED BY <2>1, SumsStay
<1> QED BY <1>1, <1>2, <1>3, <1>4, <1>5, <1>6

(* A person does not, or no answer comes: the tool is blocked.             *)
LEMMA BlockedInv ==
  ASSUME Inv, NEW t \in ToolCalls, Disapprove(t) \/ GuardSilent(t)
  PROVE  Inv'
<1> USE CloudAssumption DEF Inv
<1>1. Base'
  <2>1. reply' \in [Calls -> Replies]
    BY NoReplyType DEF Base, Disapprove, GuardSilent, Closed, link, Calls
  <2> QED
    BY <2>1 DEF Base, Calls, Disapprove, GuardSilent, At, Release, Closed, link, history, run
<1>2. ModelStages'
  <2>1. \A d \in ModelCalls : phase'[d] = phase[d]
    BY DEF Base, Calls, Disapprove, GuardSilent, At
  <2>2. UNCHANGED <<billed, amount, server, net>> /\ held' \subseteq held
    BY DEF Disapprove, GuardSilent, Release, link, history
  <2> QED BY <2>1, <2>2, ModelsStay
<1>3. ToolStages'
  <2>1. /\ \A u \in ToolCalls : phase'[u] = IF u = t THEN "over" ELSE phase[u]
        /\ \A u \in ToolCalls : u \in held' <=> u \in held /\ u # t
    BY DEF Base, Calls, Disapprove, GuardSilent, At, Release
  <2>2. \A u \in ToolCalls :
            /\ <<"check", u>> \in net' => <<"check", u>> \in net
            /\ <<"settle", u>> \in net' => <<"settle", u>> \in net
    BY DEF Disapprove, GuardSilent, link
  <2>3. \A u \in ToolCalls : reply'[u].kind = "allow" => reply[u].kind = "allow"
    BY DEF Base, Calls, Disapprove, GuardSilent, Closed, link, NoReply
  <2>4. phase[t] # "idle" /\ server' = server /\ billed' = billed /\ amount' = amount
    BY DEF Disapprove, GuardSilent, At, link, history
  <2> QED BY <2>1, <2>2, <2>3, <2>4 DEF ToolStages
<1>4. NoDouble'
  BY DEF Base, ModelStages, ToolStages, NoDouble, Calls, Books, Disapprove, GuardSilent, At,
     Release, Closed, run, link, history
<1>5. Peaked'
  BY DEF Base, Peaked, Disapprove, GuardSilent, At, Release, history, Calls
<1>6. Sums'
  <2>1. t \in Calls /\ OnlyAt(t)
    BY DEF Base, Calls, ToolStages, Books, OnlyAt, Charged, Seen, Disapprove, GuardSilent, At,
       Release, Closed, run, link, history
  <2>2. Changed(t)
    BY <1>1, <2>1, SumsChange
  <2>a. Numbers(t)
    BY <2>1, NumbersType
  <2>3. /\ t \in held /\ t \notin held' /\ reserved' = reserved - amount[t]
        /\ amount' = amount /\ billed' = billed
    BY DEF Base, ToolStages, Calls, Disapprove, GuardSilent, At, Release, Closed, run, link,
       history
  <2>4. t \in Charged /\ t \in Charged' /\ (t \in Seen' <=> t \in Seen)
    BY DEF Base, ModelStages, ToolStages, Calls, Charged, Seen, Books, Disapprove, GuardSilent,
       At, Release, Closed, run, link, history
  <2>5. /\ cost' = cost /\ forgotten' = forgotten /\ peak' = peak
        /\ server'.spent = server.spent /\ server'.others = server.others
    BY DEF Disapprove, GuardSilent, At, Release, Closed, run, link, history
  <2>s. Sums
    OBVIOUS
  <2> HIDE CloudAssumption DEF Inv
  <2> QED BY <2>1, <2>s, <2>2, <2>3, <2>4, <2>5, <2>a DEF Changed, Numbers, Sums
<1> QED BY <1>1, <1>2, <1>3, <1>4, <1>5, <1>6

(* A tool that ran is charged in full, or not at all.                      *)
LEMMA SettleInv ==
  ASSUME Inv, NEW t \in ToolCalls, NEW charged \in {0, amount[t]}, Settle(t, charged)
  PROVE  Inv'
<1> USE CloudAssumption DEF Inv
<1>1. Base'
  BY DEF Base, Replies, Books, Budget, Calls, Amount, ModelStages, ToolStages, Settle, At,
     Release, run, link, history
<1>2. ModelStages'
  BY DEF Base, ModelStages, ToolStages, Calls, Books, NoDouble, Settle, At, Release, run, link,
     history
<1>3. ToolStages'
  BY DEF Base, ModelStages, ToolStages, Calls, Books, Replies, Settle, At, Release, run, link,
     history
<1>4. NoDouble'
  BY DEF Base, ModelStages, ToolStages, NoDouble, Calls, Books, Settle, At, Release, run, link,
     history
<1>5. Peaked'
  BY DEF Base, Budget, ModelStages, Peaked, Replies, Settle, At, Release, run, link, history
<1>6. Sums'
  <2>1. t \in Calls /\ OnlyAt(t)
    BY DEF Base, Calls, ToolStages, Books, OnlyAt, Charged, Seen, Settle, At, Release, run,
       link, history
  <2>2. Changed(t)
    BY <1>1, <2>1, SumsChange
  <2>a. Numbers(t)
    BY <2>1, NumbersType
  <2>3. charged \in Nat /\ charged <= amount[t]
    BY DEF Base, Calls
  <2>4. t \in held /\ t \notin held' /\ billed[t] = 0 /\ billed'[t] = charged /\ amount'[t] = charged
    BY DEF Base, ToolStages, Calls, Settle, At, Release
  <2>5. cost' = cost + charged
    BY DEF Settle
  <2>6. reserved' = IF t \in held THEN reserved - amount[t] ELSE reserved
    BY DEF Settle, Release
  <2>7. t \in Charged /\ t \in Charged' /\ t \notin Seen /\ t \notin Seen'
    BY DEF Base, ModelStages, ToolStages, Calls, Charged, Seen, Books, Settle, At, Release, run,
       link, history
  <2>8. /\ forgotten' = forgotten /\ peak' = peak
        /\ server'.spent = server.spent /\ server'.others = server.others
    BY DEF Settle, At, Release, run, link, history
  <2>s. Sums
    OBVIOUS
  <2> HIDE CloudAssumption DEF Inv
  <2>b. Holding' = Holding - amount[t]
    BY <2>2, <2>4, <2>a DEF Changed, Numbers
  <2>c. ChargedBills' = ChargedBills + charged
    BY <2>2, <2>3, <2>4, <2>7, <2>a DEF Changed, Numbers
  <2>d. SeenBills' = SeenBills
    BY <2>2, <2>7, <2>a DEF Changed, Numbers
  <2> QED BY <2>s, <2>2, <2>3, <2>4, <2>5, <2>6, <2>8, <2>a, <2>b, <2>c, <2>d DEF Changed, Numbers, Sums
<1> QED BY <1>1, <1>2, <1>3, <1>4, <1>5, <1>6

(* A request is sent again, if that is harmless.                           *)
LEMMA RetryInv ==
  ASSUME Inv, NEW c \in Calls, Retry(c)
  PROVE  Inv'
<1> USE CloudAssumption DEF Inv
<1>1. Base'
  <2>1. reply' \in [Calls -> Replies]
    BY NoReplyType DEF Base, Retry
  <2> QED
    BY <2>1 DEF Base, Calls, Retry, Request, run, history
<1>2. ModelStages'
  BY DEF Base, ModelStages, ToolStages, Calls, Books, NoDouble, Retry, Waiting, MayRetry,
     Request, run, link, history
<1>3. ToolStages'
  <2>1. /\ c \in Calls /\ UNCHANGED <<phase, billed, amount, held, server>>
        /\ reply' = [reply EXCEPT ![c] = NoReply]
        /\ net' = net \cup {Request(c)} /\ Waiting(c)
    BY DEF Retry, run, history
  <2>2. \A u \in ToolCalls :
            /\ <<"check", u>> \in net' => <<"check", u>> \in net \/ phase[u] = "checking"
            /\ <<"settle", u>> \in net' => <<"settle", u>> \in net \/ phase[u] = "settling"
    BY <2>1 DEF Request, Waiting
  <2>3. \A u \in ToolCalls : reply'[u].kind = "allow" => reply[u].kind = "allow"
    BY <2>1 DEF Base, Calls, NoReply
  <2> QED BY <2>1, <2>2, <2>3 DEF ToolStages
<1>4. NoDouble'
  BY DEF Base, ModelStages, ToolStages, NoDouble, Calls, Books, Retry, Waiting, MayRetry,
     Request, run, link, history
<1>5. Peaked'
  BY DEF Base, Budget, ModelStages, Peaked, Replies, Retry, Waiting, MayRetry, Request, run,
     link, history
<1>6. Sums'
  <2>1. Still
    BY DEF Base, Calls, ModelStages, ToolStages, Books, Still, Charged, Seen, Budget, Retry,
       Waiting, MayRetry, Request, run, link, history
  <2> QED BY <2>1, SumsStay
<1> QED BY <1>1, <1>2, <1>3, <1>4, <1>5, <1>6

(* Whatever comes of a settlement, what the tool cost is in.               *)
LEMMA SettledInv ==
  ASSUME Inv, NEW t \in ToolCalls, Settled(t)
  PROVE  Inv'
<1> USE CloudAssumption DEF Inv
<1>0. /\ phase[t] = "settling" /\ phase' = [phase EXCEPT ![t] = "over"]
      /\ reply' = [reply EXCEPT ![t] = NoReply] /\ retried' = retried \ {t}
      /\ UNCHANGED <<run, inCode, approved, dedupes, net, server, history>>
  BY DEF Settled, At, Closed
<1>1. Base'
  <2>1. reply' \in [Calls -> Replies]
    BY <1>0, NoReplyType DEF Base
  <2> QED BY <1>0, <2>1 DEF Base, Calls, run, history
<1>2. ModelStages'
  <2>1. \A c \in ModelCalls : phase'[c] = phase[c]
    BY <1>0 DEF Base, Calls
  <2>2. UNCHANGED <<billed, amount, held, net, server>>
    BY <1>0 DEF run, history
  <2> QED BY <2>1, <2>2, ModelsStay
<1>3. ToolStages'
  <2>1. /\ \A u \in ToolCalls : phase'[u] = IF u = t THEN "over" ELSE phase[u]
        /\ \A u \in ToolCalls : reply'[u].kind = "allow" => reply[u].kind = "allow"
    BY <1>0 DEF Base, Calls, NoReply
  <2>2. UNCHANGED <<billed, amount, held, net, server>> /\ phase[t] = "settling"
    BY <1>0 DEF run, history
  <2>3. ASSUME NEW u \in ToolCalls
        PROVE  /\ phase'[u] \in {"idle", "checking", "approving", "running", "settling", "over"}
               /\ u \in held <=> phase'[u] \in {"checking", "approving", "running"}
               /\ phase'[u] \notin {"settling", "over"} => billed[u] = 0
               /\ phase'[u] = "settling" => billed[u] = amount[u]
    BY <2>1, <2>2 DEF ToolStages
  <2> QED BY <2>1, <2>2, <2>3 DEF ToolStages
<1>4. NoDouble'
  BY <1>0 DEF NoDouble
<1>5. Peaked'
  <2>1. \A c \in ModelCalls : phase'[c] = phase[c]
    BY <1>0 DEF Base, Calls
  <2> QED BY <1>0, <2>1 DEF Peaked, run, history
<1>6. Sums'
  <2>1. Charged' = Charged /\ Seen' = Seen
    BY <1>0 DEF Base, Charged, Seen
  <2>2. Still
    BY <1>0, <2>1 DEF Base, Budget, Still, run, history
  <2> QED BY <2>2, SumsStay
<1> QED BY <1>1, <1>2, <1>3, <1>4, <1>5, <1>6

(* The server counts a step, unless it knows it.                           *)
LEMMA ServeStepInv ==
  ASSUME Inv, NEW c \in ModelCalls, ServeStep(c)
  PROVE  Inv'
<1> DEFINE again == server.dedupes /\ c \in server.counted
           books == [server EXCEPT !.spent = IF again THEN @ ELSE @ + amount[c], !.counted = @ \cup {c}]
<1>a. /\ books \in Books /\ books.others = server.others /\ books.dedupes = server.dedupes
      /\ books.spent = (IF again THEN server.spent ELSE server.spent + amount[c])
      /\ books.counted = server.counted \cup {c}
      /\ books.allowed = server.allowed /\ books.held = server.held
  <2>1. server \in Books /\ amount[c] \in Nat /\ c \in Calls
    BY DEF Inv, Base, Calls
  <2>2. (IF again THEN server.spent ELSE server.spent + amount[c]) \in Nat
    BY <2>1 DEF Books
  <2> QED BY <2>1, <2>2 DEF Books
<1> HIDE DEF books
<1>0. /\ <<"step", c>> \in net /\ net' \subseteq net /\ (c \notin retried => <<"step", c>> \notin net')
      /\ server' = books /\ reply' \in [Calls -> Replies]
      /\ \A t \in ToolCalls : reply'[t].kind = "allow" => reply[t].kind = "allow"
      /\ UNCHANGED <<run, inCode, phase, approved, dedupes, retried, history>>
  <2>1. PICK kind \in {"ok", "breach"} : Serve(<<"step", c>>, kind, books)
    BY DEF ServeStep, books
  <2>2. c \in Calls /\ Base
    BY DEF Inv, Calls
  <2>3. /\ <<"step", c>> \in net /\ net' \subseteq net /\ (c \notin retried => <<"step", c>> \notin net') /\ server' = books
        /\ reply' \in [Calls -> Replies]
        /\ \A d \in Calls : reply'[d].kind = reply[d].kind \/ (d = c /\ reply'[d].kind = kind)
        /\ UNCHANGED <<run, inCode, phase, approved, dedupes, retried, history>>
    BY <1>a, <2>1, <2>2, ServeFrame
  <2> QED BY <2>1, <2>3 DEF Calls
<1> USE CloudAssumption DEF Inv
<1>1. Base'
  BY <1>0, <1>a DEF Base, run, history
<1>2. ModelStages'
  BY <1>0, <1>a DEF Base, ModelStages, Calls, run, history
<1>3. ToolStages'
  BY <1>0, <1>a DEF Base, ToolStages, Calls, run, history
<1>4. NoDouble'
  BY <1>0, <1>a DEF Base, ModelStages, NoDouble, Calls, run, history
<1>5. Peaked'
  BY <1>0 DEF Base, Budget, ModelStages, Peaked, Replies, run, history
<1>6. Sums'
  <2>1. c \in Calls /\ OnlyAt(c)
    BY <1>0, <1>a DEF Base, OnlyAt, Charged, Seen, Calls, run, history
  <2>2. Changed(c)
    BY <1>1, <2>1, SumsChange
  <2>a. Numbers(c)
    BY <2>1, NumbersType
  <2>3. /\ amount' = amount /\ held' = held /\ reserved' = reserved /\ billed' = billed
        /\ cost' = cost /\ forgotten' = forgotten /\ peak' = peak /\ server'.others = server.others
    BY <1>0, <1>a DEF run, history
  <2>4. /\ billed[c] = amount[c] /\ c \in Charged /\ c \in Charged'
    BY <1>0 DEF Base, ModelStages, Charged, Calls
  <2>5. /\ again => server'.spent = server.spent /\ c \in Seen
        /\ ~again => server'.spent = server.spent + amount[c] /\ c \notin Seen
        /\ c \in Seen'
    BY <1>0, <1>a DEF NoDouble, Seen
  <2>s. Sums
    OBVIOUS
  <2> HIDE CloudAssumption DEF Inv
  <2> QED BY <2>1, <2>s, <2>2, <2>3, <2>4, <2>5, <2>a DEF Changed, Numbers, Sums
<1> QED BY <1>1, <1>2, <1>3, <1>4, <1>5, <1>6

(* The server allows a tool once it holds its amount.                      *)
LEMMA ServeCheckInv ==
  ASSUME Inv, NEW t \in ToolCalls, ServeCheck(t)
  PROVE  Inv'
<1> DEFINE take == [server EXCEPT !.held[t] = amount[t], !.allowed = @ \cup {t}]
<1>a. /\ server \in Books /\ take \in Books
      /\ take.others = server.others /\ take.spent = server.spent /\ take.counted = server.counted
      /\ take.dedupes = server.dedupes /\ take.allowed = server.allowed \cup {t}
      /\ take.held = [server.held EXCEPT ![t] = amount[t]]
  BY DEF Inv, Base, Books, Calls
<1> HIDE DEF take
<1>0. /\ <<"check", t>> \in net /\ net' \subseteq net
      /\ server' = server \/ (server' = take /\ t \notin server.allowed)
      /\ reply' \in [Calls -> Replies]
      /\ \A u \in ToolCalls : reply'[u].kind = "allow" => reply[u].kind = "allow" \/ (u = t /\ t \in server'.allowed)
      /\ UNCHANGED <<run, inCode, phase, approved, dedupes, retried, history>>
  <2>1. PICK kind \in {"allow", "deny", "approve"}, books \in {server, take} :
            /\ Serve(<<"check", t>>, kind, books)
            /\ kind = "allow" => t \in books.allowed
            /\ books = server \/ t \notin server.allowed
    BY <1>a DEF ServeCheck, take
  <2>2. t \in Calls /\ Base
    BY DEF Inv, Calls
  <2>3. /\ <<"check", t>> \in net /\ net' \subseteq net /\ server' = books
        /\ reply' \in [Calls -> Replies]
        /\ \A d \in Calls : reply'[d].kind = reply[d].kind \/ (d = t /\ reply'[d].kind = kind)
        /\ UNCHANGED <<run, inCode, phase, approved, dedupes, retried, history>>
    BY <1>a, <2>1, <2>2, ServeFrame
  <2> QED BY <2>1, <2>3 DEF Calls
<1> USE CloudAssumption DEF Inv
<1>1. Base'
  BY <1>0, <1>a DEF Base, run, history
<1>2. ModelStages'
  BY <1>0, <1>a DEF Base, ModelStages, Calls, run, history
<1>3. ToolStages'
  <2>1. \A u \in ToolCalls :
            /\ <<"check", u>> \in net' => <<"check", u>> \in net
            /\ <<"settle", u>> \in net' => <<"settle", u>> \in net
    BY <1>0
  <2>2. phase[t] # "idle"
    BY <1>0 DEF ToolStages
  <2>3. /\ \A u \in ToolCalls : u \in server.allowed => u \in server'.allowed
        /\ \A u \in ToolCalls : u \in server'.allowed => u \in server.allowed \/ u = t
    BY <1>0, <1>a
  <2>4. ASSUME NEW u \in ToolCalls
        PROVE  \/ server'.held[u] = server.held[u] /\ (u \in server'.allowed => u \in server.allowed)
               \/ u = t /\ server'.held[u] = amount[u]
    <3>1. CASE server' = server
      BY <3>1
    <3>2. CASE server' = take
      <4>1. DOMAIN server.held = ToolCalls
        BY <1>a DEF Books
      <4>2. take.held[u] = IF u = t THEN amount[t] ELSE server.held[u]
        BY <1>a, <4>1
      <4> QED BY <1>a, <3>2, <4>2
    <3> QED BY <1>0, <3>1, <3>2
  <2>5. UNCHANGED <<phase, held, billed, amount>> /\ server'.counted = server.counted
    BY <1>0, <1>a DEF run, history
  <2> QED BY <1>0, <2>1, <2>2, <2>3, <2>4, <2>5 DEF ToolStages
<1>4. NoDouble'
  BY <1>0, <1>a DEF Base, ModelStages, NoDouble, Calls, run, history
<1>5. Peaked'
  BY <1>0 DEF Base, Budget, ModelStages, Peaked, Replies, run, history
<1>6. Sums'
  <2>1. Still
    <3>1. Charged' = Charged /\ Seen' = Seen
      BY <1>0, <1>a DEF Base, Charged, Seen, Calls, run, history
    <3> QED BY <1>0, <1>a, <3>1 DEF Base, Budget, Still, run, history
  <2> QED BY <2>1, SumsStay
<1> QED BY <1>1, <1>2, <1>3, <1>4, <1>5, <1>6

(* The server counts a tool's cost, once.                                  *)
LEMMA ServeSettleInv ==
  ASSUME Inv, NEW t \in ToolCalls, ServeSettle(t)
  PROVE  Inv'
<1> DEFINE books == [server EXCEPT !.spent = @ + amount[t], !.held[t] = 0, !.counted = @ \cup {t}]
<1>a. /\ books \in Books /\ books.others = server.others /\ books.dedupes = server.dedupes
      /\ books.spent = server.spent + amount[t] /\ books.counted = server.counted \cup {t}
      /\ books.allowed = server.allowed /\ books.held = [server.held EXCEPT ![t] = 0]
  <2>1. server \in Books /\ amount[t] \in Nat /\ t \in Calls
    BY DEF Inv, Base, Calls
  <2>2. server.spent + amount[t] \in Nat /\ [server.held EXCEPT ![t] = 0] \in [ToolCalls -> Nat]
    BY <2>1 DEF Books
  <2> QED BY <2>1, <2>2 DEF Books
<1>b. server \in Books
  BY DEF Inv, Base
<1> HIDE DEF books
<1>0. /\ <<"settle", t>> \in net /\ net' \subseteq net
      /\ server' = (IF t \in server.counted THEN server ELSE books)
      /\ reply' \in [Calls -> Replies]
      /\ \A u \in ToolCalls : reply'[u].kind = "allow" => reply[u].kind = "allow"
      /\ UNCHANGED <<run, inCode, phase, approved, dedupes, retried, history>>
  <2> DEFINE after == IF t \in server.counted THEN server ELSE books
  <2>1. Serve(<<"settle", t>>, "ok", after)
    BY DEF ServeSettle, books
  <2>2. Base /\ t \in Calls /\ after \in Books
    BY <1>a, <1>b DEF Inv, Calls
  <2> HIDE DEF after
  <2>3. /\ <<"settle", t>> \in net /\ net' \subseteq net /\ server' = after
        /\ reply' \in [Calls -> Replies]
        /\ \A d \in Calls : reply'[d].kind = reply[d].kind \/ (d = t /\ reply'[d].kind = "ok")
        /\ UNCHANGED <<run, inCode, phase, approved, dedupes, retried, history>>
    BY <2>1, <2>2, ServeFrame
  <2>4. \A u \in ToolCalls : reply'[u].kind = "allow" => reply[u].kind = "allow"
    BY <2>3 DEF Calls
  <2> QED BY <2>3, <2>4 DEF after
<1> USE CloudAssumption DEF Inv
<1>1. Base'
  BY <1>0, <1>a DEF Base, run, history
<1>2. ModelStages'
  BY <1>0, <1>a DEF Base, ModelStages, Calls, run, history
<1>3. ToolStages'
  <2>1. UNCHANGED <<phase, held, billed, amount>> /\ net' \subseteq net
    BY <1>0 DEF run, history
  <2>2. <<"settle", t>> \in net /\ server'.allowed = server.allowed
    BY <1>0, <1>a
  <2>3. t \notin held
    BY <2>2 DEF ToolStages
  <2>4. \A u \in ToolCalls \ {t} : server'.held[u] = server.held[u]
    BY <1>0, <1>a, <1>b DEF Books
  <2>5. \A u \in ToolCalls : u \in server'.counted => u \in server.counted \/ u = t
    BY <1>0, <1>a
  <2> QED BY <1>0, <2>1, <2>2, <2>3, <2>4, <2>5 DEF ToolStages
<1>4. NoDouble'
  BY <1>0, <1>a DEF NoDouble
<1>5. Peaked'
  BY <1>0 DEF Base, Budget, ModelStages, Peaked, Replies, run, history
<1>6. CASE t \in server.counted
  <2>1. Charged' = Charged /\ Seen' = Seen
    BY <1>0, <1>6 DEF Charged, Seen
  <2>2. Still
    BY <1>0, <1>6, <2>1 DEF Base, Budget, Still, run, history
  <2>3. Sums'
    BY <2>2, SumsStay
  <2> QED BY <1>1, <1>2, <1>3, <1>4, <1>5, <2>3
<1>7. CASE t \notin server.counted
  <2>1. t \in Calls /\ OnlyAt(t)
    BY <1>0, <1>a, <1>7 DEF Base, OnlyAt, Charged, Seen, Calls, run, history
  <2>2. Changed(t)
    BY <1>1, <2>1, SumsChange
  <2>a. Numbers(t)
    BY <2>1, NumbersType
  <2>3. /\ amount' = amount /\ held' = held /\ reserved' = reserved /\ billed' = billed
        /\ cost' = cost /\ forgotten' = forgotten /\ peak' = peak /\ server'.others = server.others
    BY <1>0, <1>a, <1>7 DEF run, history
  <2>4. /\ server'.spent = server.spent + amount[t] /\ billed[t] = amount[t]
        /\ t \in Charged /\ t \in Charged'
    BY <1>0, <1>a, <1>7 DEF Base, ToolStages, Charged, Calls
  <2>5. t \notin Seen /\ t \in Seen'
    BY <1>0, <1>a, <1>7 DEF Seen
  <2>s. Sums
    OBVIOUS
  <2>6. Sums'
    <3> HIDE CloudAssumption DEF Inv
    <3> QED BY <2>1, <2>s, <2>2, <2>3, <2>4, <2>5, <2>a DEF Changed, Numbers, Sums
  <2> QED BY <1>1, <1>2, <1>3, <1>4, <1>5, <2>6
<1> QED BY <1>6, <1>7

(* The dashboard sets a budget, or another process spends on the run.      *)
LEMMA OutsideInv ==
  ASSUME Inv, (\E b \in Budgets : SetBudget(b)) \/ OthersSpend
  PROVE  Inv'
<1> USE CloudAssumption DEF Inv
<1>1. /\ server' \in Books /\ server'.dedupes = server.dedupes /\ server'.counted = server.counted
      /\ server'.allowed = server.allowed /\ server'.held = server.held
      /\ server'.spent - server'.others = server.spent - server.others
  <2>1. server \in Books
    BY DEF Base
  <2>2. ASSUME NEW b \in Budgets, SetBudget(b) PROVE <1>1!:
    BY <2>1, <2>2 DEF SetBudget, Books, Budget
  <2>3. CASE OthersSpend
    <3>1. server.others + 1 \in Nat /\ server.spent + 1 \in Nat
      BY <2>1 DEF Books
    <3>2. server' = [server EXCEPT !.others = server.others + 1, !.spent = server.spent + 1]
      BY <2>3 DEF OthersSpend
    <3>3. server' \in Books
      BY <2>1, <3>1, <3>2 DEF Books
    <3>4. server'.spent = server.spent + 1 /\ server'.others = server.others + 1
          /\ server'.dedupes = server.dedupes /\ server'.counted = server.counted
          /\ server'.allowed = server.allowed /\ server'.held = server.held
      BY <2>1, <3>2 DEF Books
    <3>5. (server.spent + 1) - (server.others + 1) = server.spent - server.others
      BY <2>1 DEF Books
    <3> QED BY <3>3, <3>4, <3>5
  <2> QED BY <2>2, <2>3
<1>2. UNCHANGED <<run, inCode, phase, approved, dedupes, retried, net, reply, history>>
  BY DEF SetBudget, OthersSpend
<1>3. Base' /\ ModelStages' /\ ToolStages' /\ NoDouble' /\ Peaked'
  BY <1>1, <1>2 DEF Base, ModelStages, ToolStages, NoDouble, Peaked, run, history
<1>4. Sums'
  <2>1. Holding' = Holding /\ ChargedBills' = ChargedBills /\ SeenBills' = SeenBills
    BY <1>1, <1>2 DEF Holding, ChargedBills, SeenBills, Charged, Seen, run, history
  <2>2. SeenBills \in Nat /\ server.spent \in Nat /\ server.others \in Nat
        /\ server'.spent \in Nat /\ server'.others \in Nat
    BY <1>1, SumsType DEF Base, Books
  <2>3. UNCHANGED <<reserved, cost, forgotten, peak>>
    BY <1>2 DEF run, history
  <2>4. server'.spent <= server'.others + SeenBills
    BY <1>1, <2>2 DEF Sums
  <2> QED BY <2>1, <2>3, <2>4 DEF Sums
<1> QED BY <1>3, <1>4

LEMMA InitInv == Init => Inv
<1> SUFFICES ASSUME Init PROVE Inv
  OBVIOUS
<1>1. PICK b \in Budgets, d \in BOOLEAN :
        /\ budget = b /\ peak = b
        /\ server = [spent |-> 0, others |-> 0, budget |-> b, dedupes |-> d, counted |-> {},
                     held |-> [t \in ToolCalls |-> 0], allowed |-> {}]
        /\ inCode \in IF b = NoBudget THEN {FALSE} ELSE BOOLEAN
  BY DEF Init
<1>2. server \in Books /\ budget \in Budget /\ inCode \in BOOLEAN
  <2>1. b \in Budget
    BY CloudAssumption DEF Budget
  <2> QED BY <1>1, <2>1 DEF Books
<1>3. reply \in [Calls -> Replies]
  BY NoReplyType DEF Init
<1>4. Base
  <2>1. cost \in Nat /\ reserved \in Int /\ budget \in Budget /\ held \subseteq Calls
        /\ forgotten \in Nat /\ peak \in Budget
    BY <1>1, <1>2 DEF Init
  <2>2. amount \in [Calls -> Nat] /\ billed \in [Calls -> Nat]
    BY DEF Init
  <2>3. phase \in [Calls -> {"idle", "prepared", "inflight", "answered", "recorded",
                             "checking", "approving", "running", "settling", "over"}]
    BY DEF Init
  <2>4. approved \subseteq ToolCalls /\ retried \subseteq Calls
        /\ net \subseteq {"step", "check", "settle"} \X Calls
    BY DEF Init
  <2>5. dedupes \in BOOLEAN
    BY DEF Init
  <2> QED BY <1>2, <1>3, <2>1, <2>2, <2>3, <2>4, <2>5 DEF Base
<1>5. ModelStages /\ ToolStages /\ NoDouble
  BY <1>1 DEF Init, ModelStages, ToolStages, NoDouble, NoReply, Calls
<1>6. Peaked
  <2>1. budget = peak /\ \A c \in ModelCalls : phase[c] = "idle"
    BY <1>1 DEF Init, Calls
  <2>2. inCode => peak # NoBudget
    <3>1. CASE b = NoBudget
      BY <1>1, <3>1
    <3>2. CASE b # NoBudget
      BY <1>1, <3>2
    <3> QED BY <3>1, <3>2
  <2>3. peak # NoBudget => budget # NoBudget /\ budget <= peak
    BY <1>2, <2>1 DEF Budget
  <2> QED BY <2>1, <2>2, <2>3 DEF Peaked
<1>7. Sums
  <2>1. /\ Within(amount, held) \in [Calls -> Nat] /\ \A c \in Calls : Within(amount, held)[c] = 0
        /\ Within(billed, Charged) \in [Calls -> Nat] /\ \A c \in Calls : Within(billed, Charged)[c] = 0
    BY DEF Init, Within
  <2>2. Holding = 0 /\ ChargedBills = 0
    BY <2>1, CloudAssumption, TotalZero DEF Holding, ChargedBills
  <2>3. SeenBills \in Nat /\ peak \in Nat \cup {NoBudget}
    BY <1>4, SumsType DEF Base, Budget
  <2> QED BY <1>1, <2>2, <2>3 DEF Init, Sums
<1> QED BY <1>4, <1>5, <1>6, <1>7 DEF Inv

LEMMA NextInv == Inv /\ [Next]_vars => Inv'
<1> SUFFICES ASSUME Inv, [Next]_vars PROVE Inv'
  OBVIOUS
<1>1. ASSUME NEW c \in ModelCalls,
             Prepare(c) \/ TakeNone(c) \/ Fail(c) \/ Record(c) \/ Decide(c) \/ DecideAlone(c)
      PROVE  Inv'
  <2>1. 0 \in Amount
    BY CloudAssumption DEF Amount
  <2> QED BY <1>1, <2>1, PrepareInv, LeaveInv, FailInv, RecordInv, DecideInv, DecideAloneInv
<1>2. ASSUME NEW c \in ModelCalls, NEW w \in Amount, Take(c, w) \/ Refuse(c, w) \/ Answer(c, w)
      PROVE  Inv'
  BY <1>2, TakeInv, LeaveInv, AnswerInv
<1>3. ASSUME NEW t \in ToolCalls, NEW w \in Amount, Reserve(t, w) \/ BlockHere(t, w)
      PROVE  Inv'
  BY <1>3, ReserveInv, BlockHereInv
<1>4. ASSUME NEW t \in ToolCalls,
             \/ GuardReply(t) \/ GuardSilent(t) \/ Approve(t) \/ Disapprove(t)
             \/ Settled(t) \/ ServeCheck(t) \/ ServeSettle(t)
      PROVE  Inv'
  BY <1>4, GuardReplyInv, BlockedInv, ApproveInv, SettledInv, ServeCheckInv, ServeSettleInv
<1>5. ASSUME NEW t \in ToolCalls, NEW charged \in {0, amount[t]}, Settle(t, charged)
      PROVE  Inv'
  BY <1>5, SettleInv
<1>6. ASSUME NEW c \in Calls, Retry(c) PROVE Inv'
  BY <1>6, RetryInv
<1>7. ASSUME NEW c \in ModelCalls, ServeStep(c) PROVE Inv'
  BY <1>7, ServeStepInv
<1>8. CASE (\E b \in Budgets : SetBudget(b)) \/ OthersSpend
  BY <1>8, OutsideInv
<1>9. CASE vars' = vars
  BY <1>9 DEF Inv, Base, ModelStages, ToolStages, NoDouble, Peaked, Sums, Holding, ChargedBills,
     SeenBills, Charged, Seen, vars, run, link, history
<1> QED BY <1>1, <1>2, <1>3, <1>4, <1>5, <1>6, <1>7, <1>8, <1>9 DEF Next

(* The run's books and the server's say of every call what it did, however *)
(* far its requests got.                                                   *)
THEOREM CloudInv == Spec => []Inv
BY InitInv, NextInv, PTL DEF Spec

(* Every variable keeps to its type; what is reserved never goes below     *)
(* zero (_take, finish, _settle).                                          *)
THEOREM CloudTypeOK == Spec => []TypeOK
<1>1. ASSUME Inv PROVE TypeOK
  <2>1. reserved \in Nat
    BY <1>1, SumsType DEF Inv, Sums
  <2> QED BY <1>1, <2>1 DEF Inv, Base, TypeOK, Replies, Books
<1> QED BY <1>1, CloudInv, PTL

(* The run overspends only by what the server's replies made it forget,    *)
(* and no reply lifts a budget that was set in code (_decide, adopt).      *)
THEOREM CloudOnlyForgottenOverspends == Spec => []OnlyForgottenOverspends
<1>1. ASSUME Inv PROVE OnlyForgottenOverspends
  <2> USE <1>1 DEF Inv
  <2>1. ASSUME peak # NoBudget PROVE Total(billed) <= peak + forgotten
    <3> DEFINE out == Calls \ Charged
    <3>1. /\ billed \in [Calls -> Nat] /\ amount \in [Calls -> Nat] /\ IsFiniteSet(Calls)
      BY CloudAssumption DEF Base
    <3>2. /\ Within(billed, Calls) = billed
          /\ Total(Within(billed, Calls)) = Total(Within(billed, Calls \ out)) + Total(Within(billed, out))
          /\ Total(Within(billed, out)) \in Nat
      <4>1. Within(billed, Calls) = billed
        BY <3>1 DEF Within
      <4>2. out \subseteq Calls
        OBVIOUS
      <4> HIDE DEF out
      <4> QED BY <3>1, <4>1, <4>2, TotalRemove
    <3>3. Calls \ out = Charged
      BY DEF Charged
    <3>4. Total(Within(billed, out)) <= Holding
      <4>1. \A c \in Calls : c \in out => c \in held /\ billed[c] = amount[c]
        <5>1. \A c \in out : c \in ModelCalls /\ phase[c] = "answered"
          BY DEF Charged, ToolStages, Calls
        <5> QED BY <2>1, <5>1 DEF Peaked, ModelStages
      <4>2. Within(billed, out) \in [Calls -> Nat] /\ Within(amount, held) \in [Calls -> Nat]
        BY <3>1 DEF Within
      <4> HIDE DEF out
      <4>3. \A c \in Calls : Within(billed, out)[c] <= Within(amount, held)[c]
        BY <3>1, <4>1 DEF Within
      <4> QED BY <3>1, <4>2, <4>3, TotalMonotone DEF Holding
    <3>5. Total(billed) = ChargedBills + Total(Within(billed, out))
      BY <3>2, <3>3 DEF ChargedBills
    <3>6. /\ Holding \in Nat /\ ChargedBills \in Nat /\ forgotten \in Nat
          /\ peak \in Nat
      BY <2>1, SumsType DEF Base, Budget
    <3> HIDE DEF out
    <3> QED BY <2>1, <3>2, <3>4, <3>5, <3>6 DEF Sums
  <2> QED BY <2>1 DEF Peaked, OnlyForgottenOverspends
<1> QED BY <1>1, CloudInv, PTL

(* The server never counts a call's cost twice, whatever is sent again: a  *)
(* step, which the client repeats only to a server that knows it, or a     *)
(* guard's settlement, which it always may (_post, dedupes_steps).         *)
THEOREM CloudCountedOnce == Spec => []CountedOnce
<1>1. ASSUME Inv PROVE CountedOnce
  <2>1. /\ billed \in [Calls -> Nat] /\ Within(billed, Seen) \in [Calls -> Nat]
        /\ IsFiniteSet(Calls)
    BY <1>1, CloudAssumption DEF Inv, Base, Within
  <2>2. \A c \in Calls : Within(billed, Seen)[c] <= billed[c]
    BY <2>1 DEF Within
  <2>3. SeenBills <= Total(billed) /\ Total(billed) \in Nat
    BY <2>1, <2>2, TotalMonotone, TotalType DEF SeenBills
  <2>4. server.spent \in Nat /\ server.others \in Nat /\ SeenBills \in Nat
    BY <1>1, SumsType DEF Inv, Base, Books
  <2> QED BY <1>1, <2>3, <2>4 DEF Inv, Sums, CountedOnce
<1> QED BY <1>1, CloudInv, PTL

(* reserved_usd is what the calls hold, and a guarded tool's code runs     *)
(* only while both sides have its amount reserved (_check_with_server,     *)
(* _ask_server).                                                           *)
THEOREM CloudBothHold == Spec => []BothHold
<1>1. Inv => BothHold
  BY DEF Inv, Sums, Holding, ToolStages, BothHold
<1> QED BY <1>1, CloudInv, PTL
=============================================================================
