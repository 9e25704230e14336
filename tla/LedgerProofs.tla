---------------------------- MODULE LedgerProofs ----------------------------
(***************************************************************************)
(* The accounting of Ledger, proved for any number of calls, any budget    *)
(* and any amounts.                                                        *)
(***************************************************************************)
EXTENDS Ledger, AmountsProofs

(* TypeOK but for reserved: that it never goes below zero follows from     *)
(* what it sums.                                                           *)
Base ==
    /\ cost \in Nat
    /\ reserved \in Int
    /\ holds \in SUBSET ModelCalls
    /\ amount \in [Calls -> Nat]
    /\ phase \in [Calls -> ModelPhases \cup ToolPhases]
    /\ \A c \in ModelCalls : phase[c] \in ModelPhases
    /\ \A t \in ToolCalls : phase[t] \in ToolPhases
    /\ lastBreach \in Breaches
    /\ outcome \in {"none", "success", "breached"}
    /\ billed \in [Calls -> Nat]
    /\ unchecked \in Nat

(* The calls whose amount is held.                                         *)
Holding == holds \cup Reserving

(* Both totals are numbers, before and after a step.                       *)
LEMMA TotalsType ==
  Base => /\ Held \in [Calls -> Nat] /\ Total(Held) \in Nat
          /\ Charged \in [Calls -> Nat] /\ Total(Charged) \in Nat
<1> SUFFICES ASSUME Base
             PROVE  /\ Held \in [Calls -> Nat] /\ Total(Held) \in Nat
                    /\ Charged \in [Calls -> Nat] /\ Total(Charged) \in Nat
  OBVIOUS
<1>1. Held \in [Calls -> Nat] /\ Charged \in [Calls -> Nat]
  BY DEF Base, Held, Charged, Within
<1> QED BY <1>1, TotalType, LedgerAssumption

LEMMA TotalsTypeNext ==
  (Base => /\ Held \in [Calls -> Nat] /\ Total(Held) \in Nat
           /\ Charged \in [Calls -> Nat] /\ Total(Charged) \in Nat)'
BY TotalsType, PTL

LEMMA BaseSuffices ==
  Base /\ Shape /\ ReservedIsHeld /\ CostIsCharged => Inv
<1> SUFFICES ASSUME Base, Shape, ReservedIsHeld, CostIsCharged PROVE Inv
  OBVIOUS
<1>1. reserved \in Nat
  BY TotalsType DEF ReservedIsHeld
<1> QED BY <1>1 DEF Base, Inv, TypeOK

LEMMA BaseSufficesNext ==
  Base' /\ Shape' /\ ReservedIsHeld' /\ CostIsCharged' => Inv'
BY BaseSuffices, PTL

LEMMA InvBase == Inv => Base
BY DEF Inv, TypeOK, Base

(* How the totals move in a step that touches a single call.               *)
LEMMA HeldMove ==
  ASSUME Base, Base', NEW c \in Calls,
         \A d \in Calls \ {c} : /\ d \in Holding <=> d \in Holding'
                                /\ d \in Holding => amount[d] = amount'[d]
  PROVE  Total(Held)' + (IF c \in Holding THEN amount[c] ELSE 0)
            = Total(Held) + (IF c \in Holding' THEN amount'[c] ELSE 0)
<1> DEFINE D == Holding
           E == Holding'
<1>1. amount \in [Calls -> Nat] /\ amount' \in [Calls -> Nat]
  BY DEF Base
<1>2. Held = Within(amount, D) /\ Held' = Within(amount', E)
  BY DEF Held, Holding
<1>3. Total(Within(amount', E)) + (IF c \in D THEN amount[c] ELSE 0)
        = Total(Within(amount, D)) + (IF c \in E THEN amount'[c] ELSE 0)
  <2>1. \A d \in Calls \ {c} : (d \in D <=> d \in E) /\ (d \in D => amount[d] = amount'[d])
    OBVIOUS
  <2> HIDE DEF D, E
  <2> QED BY <1>1, <2>1, TotalMove, LedgerAssumption
<1> QED BY <1>2, <1>3

LEMMA ChargedMove ==
  ASSUME Base, Base', NEW c \in Calls,
         \A d \in Calls \ {c} : /\ d \in Recorded <=> d \in Recorded'
                                /\ d \in Recorded => billed[d] = billed'[d]
  PROVE  Total(Charged)' + (IF c \in Recorded THEN billed[c] ELSE 0)
            = Total(Charged) + (IF c \in Recorded' THEN billed'[c] ELSE 0)
<1> DEFINE D == Recorded
           E == Recorded'
<1>1. billed \in [Calls -> Nat] /\ billed' \in [Calls -> Nat]
  BY DEF Base
<1>2. Charged = Within(billed, D) /\ Charged' = Within(billed', E)
  BY DEF Charged
<1>3. Total(Within(billed', E)) + (IF c \in D THEN billed[c] ELSE 0)
        = Total(Within(billed, D)) + (IF c \in E THEN billed'[c] ELSE 0)
  <2>1. \A d \in Calls \ {c} : (d \in D <=> d \in E) /\ (d \in D => billed[d] = billed'[d])
    OBVIOUS
  <2> HIDE DEF D, E
  <2> QED BY <1>1, <2>1, TotalMove, LedgerAssumption
<1> QED BY <1>2, <1>3

(* A call whose phase alone changes leaves the other calls where they were *)
LEMMA PhaseMove ==
  ASSUME Base, NEW c \in Calls, NEW p, phase' = [phase EXCEPT ![c] = p]
  PROVE  /\ phase'[c] = p
         /\ \A d \in Calls \ {c} : /\ phase'[d] = phase[d]
                                   /\ d \in Reserving <=> d \in Reserving'
                                   /\ d \in Recorded <=> d \in Recorded'
         /\ c \in Reserving' <=> c \in ToolCalls /\ p \in {"open", "running", "leaked"}
         /\ c \in Recorded' <=> p \in {"recorded", "settled"}
BY DEF Base, Reserving, Recorded

(* A step that touches a single call keeps the books when it moves         *)
(* reserved by what that call's hold changes, and cost by its charge.      *)
LEMMA OneCall ==
  ASSUME Inv, Base', NEW c \in Calls,
         \A d \in Calls \ {c} :
            /\ d \in Holding <=> d \in Holding'
            /\ d \in Holding => amount[d] = amount'[d]
            /\ d \in Recorded <=> d \in Recorded'
            /\ d \in Recorded => billed[d] = billed'[d],
         reserved' + (IF c \in Holding THEN amount[c] ELSE 0)
            = reserved + (IF c \in Holding' THEN amount'[c] ELSE 0),
         cost' + (IF c \in Recorded THEN billed[c] ELSE 0)
            = cost + (IF c \in Recorded' THEN billed'[c] ELSE 0),
         unchecked' = unchecked
  PROVE  ReservedIsHeld' /\ CostIsCharged'
<1>1. Base
  BY InvBase
<1>2. /\ Total(Held) \in Nat /\ Total(Held)' \in Nat
      /\ Total(Charged) \in Nat /\ Total(Charged)' \in Nat
  BY <1>1, TotalsType, TotalsTypeNext
<1>3. /\ Total(Held)' + (IF c \in Holding THEN amount[c] ELSE 0)
            = Total(Held) + (IF c \in Holding' THEN amount'[c] ELSE 0)
      /\ Total(Charged)' + (IF c \in Recorded THEN billed[c] ELSE 0)
            = Total(Charged) + (IF c \in Recorded' THEN billed'[c] ELSE 0)
  BY <1>1, HeldMove, ChargedMove
<1>4. /\ amount[c] \in Nat /\ amount'[c] \in Nat
      /\ billed[c] \in Nat /\ billed'[c] \in Nat
      /\ cost' \in Nat /\ reserved' \in Int /\ unchecked \in Nat
  BY <1>1 DEF Base
<1>5. reserved = Total(Held) /\ cost = Total(Charged) + unchecked
  BY DEF Inv, ReservedIsHeld, CostIsCharged
<1>6. reserved' = Total(Held)'
  BY <1>2, <1>3, <1>4, <1>5
<1>7. cost' = Total(Charged)' + unchecked'
  <2> DEFINE x == IF c \in Recorded THEN billed[c] ELSE 0
             y == IF c \in Recorded' THEN billed'[c] ELSE 0
  <2>1. x \in Nat /\ y \in Nat
    BY <1>4
  <2>2. cost' + x = cost + y /\ Total(Charged)' + x = Total(Charged) + y
    BY <1>3
  <2> HIDE DEF x, y
  <2> QED BY <1>2, <1>4, <1>5, <2>1, <2>2
<1> QED BY <1>6, <1>7 DEF ReservedIsHeld, CostIsCharged

-----------------------------------------------------------------------------
(* One lemma per action: it keeps the invariant.                           *)

LEMMA TakeInv ==
  ASSUME Inv, NEW c \in ModelCalls, NEW w \in Amount, Take(c, w)
  PROVE  Inv'
<1>1. Base /\ c \in Calls
  BY InvBase DEF Calls
<1>2. Base'
  BY <1>1, LedgerAssumption DEF Take, Base, ModelPhases, Breaches, Amount, Calls
<1>3. /\ phase'[c] = "inflight"
      /\ \A d \in Calls \ {c} : /\ phase'[d] = phase[d]
                                /\ d \in Reserving <=> d \in Reserving'
                                /\ d \in Recorded <=> d \in Recorded'
  BY <1>1, PhaseMove DEF Take
<1>4. \A d \in Calls \ {c} : /\ d \in Holding <=> d \in Holding'
                             /\ d \in Holding => amount[d] = amount'[d]
                             /\ d \in Recorded <=> d \in Recorded'
                             /\ d \in Recorded => billed[d] = billed'[d]
  BY <1>1, <1>3 DEF Take, Holding, Base
<1>5. /\ c \notin Holding /\ c \in Holding'
      /\ c \notin Recorded /\ c \notin Recorded'
  BY <1>1, <1>3, LedgerAssumption
  DEF Inv, Shape, Base, Take, Holding, Reserving, Recorded
<1>6. /\ reserved' + (IF c \in Holding THEN amount[c] ELSE 0)
            = reserved + (IF c \in Holding' THEN amount'[c] ELSE 0)
      /\ cost' + (IF c \in Recorded THEN billed[c] ELSE 0)
            = cost + (IF c \in Recorded' THEN billed'[c] ELSE 0)
      /\ unchecked' = unchecked
  BY <1>1, <1>5 DEF Take, Base, Amount, Inv, Shape
<1>7. Shape'
  BY <1>1, <1>3, LedgerAssumption DEF Inv, Shape, Take, Base, Calls, Amount
<1>8. ReservedIsHeld' /\ CostIsCharged'
  BY <1>1, <1>2, <1>4, <1>6, OneCall
<1> QED BY <1>2, <1>7, <1>8, BaseSufficesNext

LEMMA RefuseInv ==
  ASSUME Inv, NEW c \in ModelCalls, NEW w \in Amount, Refuse(c, w)
  PROVE  Inv'
<1>1. Base /\ c \in Calls
  BY InvBase DEF Calls
<1>2. Base'
  BY <1>1, LedgerAssumption DEF Refuse, Base, ModelPhases, Breaches, Amount, Calls
<1>3. /\ phase'[c] = "refused"
      /\ \A d \in Calls \ {c} : /\ phase'[d] = phase[d]
                                /\ d \in Reserving <=> d \in Reserving'
                                /\ d \in Recorded <=> d \in Recorded'
  BY <1>1, PhaseMove DEF Refuse
<1>4. \A d \in Calls \ {c} : /\ d \in Holding <=> d \in Holding'
                             /\ d \in Holding => amount[d] = amount'[d]
                             /\ d \in Recorded <=> d \in Recorded'
                             /\ d \in Recorded => billed[d] = billed'[d]
  BY <1>1, <1>3 DEF Refuse, Holding, Base
<1>5. /\ c \notin Holding /\ c \notin Holding'
      /\ c \notin Recorded /\ c \notin Recorded'
  BY <1>1, <1>3, LedgerAssumption
  DEF Inv, Shape, Base, Refuse, Holding, Reserving, Recorded
<1>6. /\ reserved' + (IF c \in Holding THEN amount[c] ELSE 0)
            = reserved + (IF c \in Holding' THEN amount'[c] ELSE 0)
      /\ cost' + (IF c \in Recorded THEN billed[c] ELSE 0)
            = cost + (IF c \in Recorded' THEN billed'[c] ELSE 0)
      /\ unchecked' = unchecked
  BY <1>1, <1>5 DEF Refuse, Base, Amount, Inv, Shape
<1>7. Shape'
  BY <1>1, <1>3, LedgerAssumption DEF Inv, Shape, Refuse, Base, Calls, Amount
<1>8. ReservedIsHeld' /\ CostIsCharged'
  BY <1>1, <1>2, <1>4, <1>6, OneCall
<1> QED BY <1>2, <1>7, <1>8, BaseSufficesNext

LEMMA FailInv ==
  ASSUME Inv, NEW c \in ModelCalls, Fail(c)
  PROVE  Inv'
<1>1. Base /\ c \in Calls
  BY InvBase DEF Calls
<1>2. Base'
  BY <1>1, LedgerAssumption DEF Fail, Base, ModelPhases, Breaches, Amount, Calls
<1>3. /\ phase'[c] = "failed"
      /\ \A d \in Calls \ {c} : /\ phase'[d] = phase[d]
                                /\ d \in Reserving <=> d \in Reserving'
                                /\ d \in Recorded <=> d \in Recorded'
  BY <1>1, PhaseMove DEF Fail
<1>4. \A d \in Calls \ {c} : /\ d \in Holding <=> d \in Holding'
                             /\ d \in Holding => amount[d] = amount'[d]
                             /\ d \in Recorded <=> d \in Recorded'
                             /\ d \in Recorded => billed[d] = billed'[d]
  BY <1>1, <1>3 DEF Fail, Holding, Base
<1>5. /\ c \in Holding /\ c \notin Holding'
      /\ c \notin Recorded /\ c \notin Recorded'
  BY <1>1, <1>3, LedgerAssumption
  DEF Inv, Shape, Base, Fail, Holding, Reserving, Recorded
<1>6. /\ reserved' + (IF c \in Holding THEN amount[c] ELSE 0)
            = reserved + (IF c \in Holding' THEN amount'[c] ELSE 0)
      /\ cost' + (IF c \in Recorded THEN billed[c] ELSE 0)
            = cost + (IF c \in Recorded' THEN billed'[c] ELSE 0)
      /\ unchecked' = unchecked
  BY <1>1, <1>5 DEF Fail, Base, Amount, Inv, Shape
<1>7. Shape'
  BY <1>1, <1>3, LedgerAssumption DEF Inv, Shape, Fail, Base, Calls, Amount
<1>8. ReservedIsHeld' /\ CostIsCharged'
  BY <1>1, <1>2, <1>4, <1>6, OneCall
<1> QED BY <1>2, <1>7, <1>8, BaseSufficesNext

LEMMA FinishInv ==
  ASSUME Inv, NEW c \in ModelCalls, NEW a \in Amount, Finish(c, a)
  PROVE  Inv'
<1>1. Base /\ c \in Calls
  BY InvBase DEF Calls
<1>2. Base'
  BY <1>1, LedgerAssumption DEF Finish, Base, ModelPhases, Breaches, Amount, Calls
<1>3. /\ phase'[c] = "answered"
      /\ \A d \in Calls \ {c} : /\ phase'[d] = phase[d]
                                /\ d \in Reserving <=> d \in Reserving'
                                /\ d \in Recorded <=> d \in Recorded'
  BY <1>1, PhaseMove DEF Finish
<1>4. \A d \in Calls \ {c} : /\ d \in Holding <=> d \in Holding'
                             /\ d \in Holding => amount[d] = amount'[d]
                             /\ d \in Recorded <=> d \in Recorded'
                             /\ d \in Recorded => billed[d] = billed'[d]
  BY <1>1, <1>3 DEF Finish, Holding, Base
<1>5. /\ c \in Holding /\ c \in Holding'
      /\ c \notin Recorded /\ c \notin Recorded'
  BY <1>1, <1>3, LedgerAssumption
  DEF Inv, Shape, Base, Finish, Holding, Reserving, Recorded
<1>6. /\ reserved' + (IF c \in Holding THEN amount[c] ELSE 0)
            = reserved + (IF c \in Holding' THEN amount'[c] ELSE 0)
      /\ cost' + (IF c \in Recorded THEN billed[c] ELSE 0)
            = cost + (IF c \in Recorded' THEN billed'[c] ELSE 0)
      /\ unchecked' = unchecked
  BY <1>1, <1>5 DEF Finish, Base, Amount, Inv, Shape
<1>7. Shape'
  BY <1>1, <1>3, LedgerAssumption DEF Inv, Shape, Finish, Base, Calls, Amount
<1>8. ReservedIsHeld' /\ CostIsCharged'
  BY <1>1, <1>2, <1>4, <1>6, OneCall
<1> QED BY <1>2, <1>7, <1>8, BaseSufficesNext

LEMMA AskInv ==
  ASSUME Inv, NEW t \in ToolCalls, NEW w \in Amount, Ask(t, w)
  PROVE  Inv'
<1>1. Base /\ t \in Calls
  BY InvBase DEF Calls
<1>2. Base'
  BY <1>1, LedgerAssumption DEF Ask, Base, ToolPhases, Breaches, Amount, Calls
<1>3. /\ phase'[t] = "asking"
      /\ \A d \in Calls \ {t} : /\ phase'[d] = phase[d]
                                /\ d \in Reserving <=> d \in Reserving'
                                /\ d \in Recorded <=> d \in Recorded'
  BY <1>1, PhaseMove DEF Ask
<1>4. \A d \in Calls \ {t} : /\ d \in Holding <=> d \in Holding'
                             /\ d \in Holding => amount[d] = amount'[d]
                             /\ d \in Recorded <=> d \in Recorded'
                             /\ d \in Recorded => billed[d] = billed'[d]
  BY <1>1, <1>3 DEF Ask, Holding, Base
<1>5. /\ t \notin Holding /\ t \notin Holding'
      /\ t \notin Recorded /\ t \notin Recorded'
  BY <1>1, <1>3, LedgerAssumption
  DEF Inv, Shape, Base, Ask, Holding, Reserving, Recorded
<1>6. /\ reserved' + (IF t \in Holding THEN amount[t] ELSE 0)
            = reserved + (IF t \in Holding' THEN amount'[t] ELSE 0)
      /\ cost' + (IF t \in Recorded THEN billed[t] ELSE 0)
            = cost + (IF t \in Recorded' THEN billed'[t] ELSE 0)
      /\ unchecked' = unchecked
  BY <1>1, <1>5 DEF Ask, Base, Amount, Inv, Shape
<1>7. Shape'
  BY <1>1, <1>3, LedgerAssumption DEF Inv, Shape, Ask, Base, Calls, Amount
<1>8. ReservedIsHeld' /\ CostIsCharged'
  BY <1>1, <1>2, <1>4, <1>6, OneCall
<1> QED BY <1>2, <1>7, <1>8, BaseSufficesNext

LEMMA OpenInv ==
  ASSUME Inv, NEW t \in ToolCalls, Open(t)
  PROVE  Inv'
<1>1. Base /\ t \in Calls
  BY InvBase DEF Calls
<1>2. Base'
  BY <1>1, LedgerAssumption DEF Open, Base, ToolPhases, Breaches, Amount, Calls
<1>3. /\ phase'[t] \in {"open", "leaked"}
      /\ phase'[t] = "leaked" => phase[t] = "abandoned"
      /\ \A d \in Calls \ {t} : /\ phase'[d] = phase[d]
                                /\ d \in Reserving <=> d \in Reserving'
                                /\ d \in Recorded <=> d \in Recorded'
  <2>1. phase' = [phase EXCEPT ![t] = IF phase[t] = "asking" THEN "open" ELSE "leaked"]
    BY DEF Open
  <2> QED BY <1>1, <2>1, PhaseMove DEF Open
<1>4. \A d \in Calls \ {t} : /\ d \in Holding <=> d \in Holding'
                             /\ d \in Holding => amount[d] = amount'[d]
                             /\ d \in Recorded <=> d \in Recorded'
                             /\ d \in Recorded => billed[d] = billed'[d]
  BY <1>1, <1>3 DEF Open, Holding, Base
<1>5. /\ t \notin Holding /\ t \in Holding'
      /\ t \notin Recorded /\ t \notin Recorded'
  BY <1>1, <1>3, LedgerAssumption
  DEF Inv, Shape, Base, Open, Holding, Reserving, Recorded
<1>6. /\ reserved' + (IF t \in Holding THEN amount[t] ELSE 0)
            = reserved + (IF t \in Holding' THEN amount'[t] ELSE 0)
      /\ cost' + (IF t \in Recorded THEN billed[t] ELSE 0)
            = cost + (IF t \in Recorded' THEN billed'[t] ELSE 0)
      /\ unchecked' = unchecked
  BY <1>1, <1>5 DEF Open, Base, Amount, Inv, Shape
<1>7. Shape'
  BY <1>1, <1>3, LedgerAssumption DEF Inv, Shape, Open, Base, Calls, Amount
<1>8. ReservedIsHeld' /\ CostIsCharged'
  BY <1>1, <1>2, <1>4, <1>6, OneCall
<1> QED BY <1>2, <1>7, <1>8, BaseSufficesNext

LEMMA BlockInv ==
  ASSUME Inv, NEW t \in ToolCalls, Block(t)
  PROVE  Inv'
<1>1. Base /\ t \in Calls
  BY InvBase DEF Calls
<1>2. Base'
  BY <1>1, LedgerAssumption DEF Block, Base, ToolPhases, Breaches, Amount, Calls
<1>3. /\ phase'[t] = "blocked"
      /\ \A d \in Calls \ {t} : /\ phase'[d] = phase[d]
                                /\ d \in Reserving <=> d \in Reserving'
                                /\ d \in Recorded <=> d \in Recorded'
  BY <1>1, PhaseMove DEF Block
<1>4. \A d \in Calls \ {t} : /\ d \in Holding <=> d \in Holding'
                             /\ d \in Holding => amount[d] = amount'[d]
                             /\ d \in Recorded <=> d \in Recorded'
                             /\ d \in Recorded => billed[d] = billed'[d]
  BY <1>1, <1>3 DEF Block, Holding, Base
<1>5. /\ t \notin Holding /\ t \notin Holding'
      /\ t \notin Recorded /\ t \notin Recorded'
  BY <1>1, <1>3, LedgerAssumption
  DEF Inv, Shape, Base, Block, Holding, Reserving, Recorded
<1>6. /\ reserved' + (IF t \in Holding THEN amount[t] ELSE 0)
            = reserved + (IF t \in Holding' THEN amount'[t] ELSE 0)
      /\ cost' + (IF t \in Recorded THEN billed[t] ELSE 0)
            = cost + (IF t \in Recorded' THEN billed'[t] ELSE 0)
      /\ unchecked' = unchecked
  BY <1>1, <1>5 DEF Block, Base, Amount, Inv, Shape
<1>7. Shape'
  BY <1>1, <1>3, LedgerAssumption DEF Inv, Shape, Block, Base, Calls, Amount
<1>8. ReservedIsHeld' /\ CostIsCharged'
  BY <1>1, <1>2, <1>4, <1>6, OneCall
<1> QED BY <1>2, <1>7, <1>8, BaseSufficesNext

LEMMA EnterInv ==
  ASSUME Inv, NEW t \in ToolCalls, Enter(t)
  PROVE  Inv'
<1>1. Base /\ t \in Calls
  BY InvBase DEF Calls
<1>2. Base'
  BY <1>1, LedgerAssumption DEF Enter, Base, ToolPhases, Breaches, Amount, Calls
<1>3. /\ phase'[t] = "running"
      /\ \A d \in Calls \ {t} : /\ phase'[d] = phase[d]
                                /\ d \in Reserving <=> d \in Reserving'
                                /\ d \in Recorded <=> d \in Recorded'
  BY <1>1, PhaseMove DEF Enter
<1>4. \A d \in Calls \ {t} : /\ d \in Holding <=> d \in Holding'
                             /\ d \in Holding => amount[d] = amount'[d]
                             /\ d \in Recorded <=> d \in Recorded'
                             /\ d \in Recorded => billed[d] = billed'[d]
  BY <1>1, <1>3 DEF Enter, Holding, Base
<1>5. /\ t \in Holding /\ t \in Holding'
      /\ t \notin Recorded /\ t \notin Recorded'
  BY <1>1, <1>3, LedgerAssumption
  DEF Inv, Shape, Base, Enter, Holding, Reserving, Recorded
<1>6. /\ reserved' + (IF t \in Holding THEN amount[t] ELSE 0)
            = reserved + (IF t \in Holding' THEN amount'[t] ELSE 0)
      /\ cost' + (IF t \in Recorded THEN billed[t] ELSE 0)
            = cost + (IF t \in Recorded' THEN billed'[t] ELSE 0)
      /\ unchecked' = unchecked
  BY <1>1, <1>5 DEF Enter, Base, Amount, Inv, Shape
<1>7. Shape'
  BY <1>1, <1>3, LedgerAssumption DEF Inv, Shape, Enter, Base, Calls, Amount
<1>8. ReservedIsHeld' /\ CostIsCharged'
  BY <1>1, <1>2, <1>4, <1>6, OneCall
<1> QED BY <1>2, <1>7, <1>8, BaseSufficesNext

LEMMA SettleInv ==
  ASSUME Inv, NEW t \in ToolCalls, NEW result \in {"ok", "unknown", "error"}, Settle(t, result)
  PROVE  Inv'
<1>1. Base /\ t \in Calls
  BY InvBase DEF Calls
<1>2. Base'
  BY <1>1, LedgerAssumption DEF Settle, Base, ToolPhases, Breaches, Amount, Calls
<1>3. /\ phase'[t] = "settled"
      /\ \A d \in Calls \ {t} : /\ phase'[d] = phase[d]
                                /\ d \in Reserving <=> d \in Reserving'
                                /\ d \in Recorded <=> d \in Recorded'
  BY <1>1, PhaseMove DEF Settle
<1>4. \A d \in Calls \ {t} : /\ d \in Holding <=> d \in Holding'
                             /\ d \in Holding => amount[d] = amount'[d]
                             /\ d \in Recorded <=> d \in Recorded'
                             /\ d \in Recorded => billed[d] = billed'[d]
  BY <1>1, <1>3 DEF Settle, Holding, Base
<1>5. /\ t \in Holding /\ t \notin Holding'
      /\ t \notin Recorded /\ t \in Recorded'
  BY <1>1, <1>3, LedgerAssumption
  DEF Inv, Shape, Base, Settle, Holding, Reserving, Recorded
<1>6. /\ reserved' + (IF t \in Holding THEN amount[t] ELSE 0)
            = reserved + (IF t \in Holding' THEN amount'[t] ELSE 0)
      /\ cost' + (IF t \in Recorded THEN billed[t] ELSE 0)
            = cost + (IF t \in Recorded' THEN billed'[t] ELSE 0)
      /\ unchecked' = unchecked
  BY <1>1, <1>5 DEF Settle, Base, Amount, Inv, Shape
<1>7. Shape'
  BY <1>1, <1>3, LedgerAssumption DEF Inv, Shape, Settle, Base, Calls, Amount
<1>8. ReservedIsHeld' /\ CostIsCharged'
  BY <1>1, <1>2, <1>4, <1>6, OneCall
<1> QED BY <1>2, <1>7, <1>8, BaseSufficesNext

LEMMA CancelSettleInv ==
  ASSUME Inv, NEW t \in ToolCalls, CancelSettle(t)
  PROVE  Inv'
<1>1. Base /\ t \in Calls
  BY InvBase DEF Calls
<1>2. Base'
  BY <1>1, LedgerAssumption DEF CancelSettle, Base, ToolPhases, Breaches, Amount, Calls
<1>3. /\ phase'[t] = "leaked"
      /\ \A d \in Calls \ {t} : /\ phase'[d] = phase[d]
                                /\ d \in Reserving <=> d \in Reserving'
                                /\ d \in Recorded <=> d \in Recorded'
  BY <1>1, PhaseMove DEF CancelSettle
<1>4. \A d \in Calls \ {t} : /\ d \in Holding <=> d \in Holding'
                             /\ d \in Holding => amount[d] = amount'[d]
                             /\ d \in Recorded <=> d \in Recorded'
                             /\ d \in Recorded => billed[d] = billed'[d]
  BY <1>1, <1>3 DEF CancelSettle, Holding, Base
<1>5. /\ t \in Holding /\ t \in Holding'
      /\ t \notin Recorded /\ t \notin Recorded'
  BY <1>1, <1>3, LedgerAssumption
  DEF Inv, Shape, Base, CancelSettle, Holding, Reserving, Recorded
<1>6. /\ reserved' + (IF t \in Holding THEN amount[t] ELSE 0)
            = reserved + (IF t \in Holding' THEN amount'[t] ELSE 0)
      /\ cost' + (IF t \in Recorded THEN billed[t] ELSE 0)
            = cost + (IF t \in Recorded' THEN billed'[t] ELSE 0)
      /\ unchecked' = unchecked
  BY <1>1, <1>5 DEF CancelSettle, Base, Amount, Inv, Shape
<1>7. Shape'
  BY <1>1, <1>3, LedgerAssumption DEF Inv, Shape, CancelSettle, Base, Calls, Amount
<1>8. ReservedIsHeld' /\ CostIsCharged'
  BY <1>1, <1>2, <1>4, <1>6, OneCall
<1> QED BY <1>2, <1>7, <1>8, BaseSufficesNext

LEMMA CancelOpenInv ==
  ASSUME Inv, NEW t \in ToolCalls, CancelOpen(t)
  PROVE  Inv'
<1>1. Base /\ t \in Calls
  BY InvBase DEF Calls
<1>2. PICK p \in {"cancelled", "abandoned", "leaked"} :
        /\ phase' = [phase EXCEPT ![t] = p]
        /\ IF p = "leaked" THEN phase[t] = "open" ELSE phase[t] = "asking"
  BY DEF CancelOpen
<1>3. Base'
  BY <1>1, <1>2, LedgerAssumption DEF CancelOpen, Base, ToolPhases
<1>4. /\ phase'[t] = p
      /\ \A d \in Calls \ {t} : /\ phase'[d] = phase[d]
                                /\ d \in Reserving <=> d \in Reserving'
                                /\ d \in Recorded <=> d \in Recorded'
  BY <1>1, <1>2, PhaseMove
<1>5. /\ \A d \in Calls \ {t} : d \in Holding <=> d \in Holding'
      /\ t \in Holding <=> t \in Holding'
      /\ t \notin Recorded /\ t \notin Recorded'
  BY <1>1, <1>2, <1>4, LedgerAssumption DEF CancelOpen, Holding, Reserving, Recorded
<1>6. Shape'
  BY <1>1, <1>2, <1>4, LedgerAssumption DEF Inv, Shape, CancelOpen, Base, Calls
<1>7. amount' = amount /\ billed' = billed /\ reserved' = reserved
      /\ cost' = cost /\ unchecked' = unchecked
  BY DEF CancelOpen
<1>8. ReservedIsHeld' /\ CostIsCharged'
  BY <1>1, <1>3, <1>4, <1>5, <1>7, OneCall
<1> QED BY <1>3, <1>6, <1>8, BaseSufficesNext

(* A step that touches no call at all.                                     *)
LEMMA NoCallInv ==
  ASSUME Inv, UNCHANGED <<cost, reserved, holds, amount, phase, billed, unchecked>>,
         lastBreach' \in Breaches, outcome' \in {"none", "success", "breached"}
  PROVE  Inv'
<1>1. Base'
  BY InvBase DEF Base
<1>2. Reserving' = Reserving /\ Recorded' = Recorded
  BY DEF Reserving, Recorded
<1>3. ReservedIsHeld' /\ CostIsCharged'
  BY <1>2 DEF Inv, ReservedIsHeld, CostIsCharged, Held, Charged
<1>4. Shape'
  BY DEF Inv, Shape
<1> QED BY <1>1, <1>3, <1>4, BaseSufficesNext

(* What a checkpoint gives up is held, and it takes just that out.         *)
LEMMA ReleaseFinished ==
  ASSUME Inv, NEW priced \in SUBSET ModelCalls, NEW delta \in Nat,
         RecordStep(priced, delta), amount' = amount, Reserving' = Reserving
  PROVE  /\ reserved' \in Nat
         /\ ReservedIsHeld'
         /\ Total(Within(amount, Finished(priced))) \in Nat
<1> DEFINE F == Finished(priced)
           D == holds \cup Reserving
<1>1. F \subseteq D /\ F \cap Reserving = {}
  BY LedgerAssumption DEF Finished, Reserving
<1>2. amount \in [Calls -> Nat]
  BY DEF Inv, TypeOK
<1>3. /\ Total(Within(amount, D)) = Total(Within(amount, D \ F)) + Total(Within(amount, F))
      /\ Total(Within(amount, D)) \in Nat
      /\ Total(Within(amount, D \ F)) \in Nat
      /\ Total(Within(amount, F)) \in Nat
  <2> HIDE DEF D, F
  <2> QED BY <1>1, <1>2, TotalRemove, LedgerAssumption
<1>4. Held = Within(amount, D) /\ Held' = Within(amount, D \ F)
  <2>1. holds' \cup Reserving' = D \ F
    BY <1>1 DEF RecordStep
  <2> QED BY <2>1 DEF Held
<1>5. reserved = Total(Within(amount, D))
  BY <1>4 DEF Inv, ReservedIsHeld
<1>6. reserved' = reserved - Total(Within(amount, F))
  BY DEF RecordStep
<1>7. reserved' = Total(Within(amount, D \ F))
  <2> HIDE DEF D, F
  <2> QED BY <1>3, <1>5, <1>6
<1> QED BY <1>3, <1>4, <1>7 DEF ReservedIsHeld

LEMMA CheckpointInv ==
  ASSUME Inv, NEW c \in ModelCalls, Checkpoint(c)
  PROVE  Inv'
<1>1. Base /\ c \in Calls /\ billed[c] \in Nat
  BY InvBase DEF Calls, Base
<1>2. /\ phase'[c] = "recorded"
      /\ \A d \in Calls \ {c} : /\ phase'[d] = phase[d]
                                /\ d \in Reserving <=> d \in Reserving'
                                /\ d \in Recorded <=> d \in Recorded'
      /\ c \notin Reserving' /\ c \in Recorded'
  BY <1>1, PhaseMove DEF Checkpoint
<1>3. c \notin Reserving /\ c \notin Recorded
  BY LedgerAssumption DEF Checkpoint, Reserving, Recorded
<1>4. Reserving' = Reserving
  BY <1>2, <1>3 DEF Reserving, Calls
<1>5. /\ reserved' \in Nat /\ ReservedIsHeld'
      /\ holds' = holds \ Finished({c}) /\ cost' = cost + billed[c]
  <2>1. {c} \in SUBSET ModelCalls /\ RecordStep({c}, billed[c]) /\ amount' = amount
    BY DEF Checkpoint
  <2> QED BY <1>1, <1>4, <2>1, ReleaseFinished DEF RecordStep
<1>6. Base'
  BY <1>1, <1>5, LedgerAssumption
  DEF Checkpoint, Base, ModelPhases, LocalBreaches, Breaches
<1>7. CostIsCharged'
  <2>1. \A d \in Calls \ {c} : /\ d \in Recorded <=> d \in Recorded'
                               /\ d \in Recorded => billed[d] = billed'[d]
    BY <1>2 DEF Checkpoint
  <2>2. Total(Charged)' + 0 = Total(Charged) + billed[c]
    <3>1. billed' = billed
      BY DEF Checkpoint
    <3> QED BY <1>1, <1>2, <1>3, <1>6, <2>1, <3>1, ChargedMove
  <2>3. Total(Charged) \in Nat /\ Total(Charged)' \in Nat
    BY <1>1, <1>6, TotalsType, TotalsTypeNext
  <2>4. cost = Total(Charged) + unchecked /\ unchecked \in Nat /\ unchecked' = unchecked
    BY <1>1 DEF Inv, CostIsCharged, Base, Checkpoint
  <2> QED BY <1>1, <1>5, <2>2, <2>3, <2>4 DEF CostIsCharged
<1>8. Shape'
  <2>1. c \notin holds'
    BY <1>5 DEF Finished, Inv, Shape, Checkpoint
  <2>2. \A d \in ModelCalls : d \in holds' => d \in holds
    BY <1>5
  <2>3. \A d \in ModelCalls \ {c} : d \notin Unpriced /\ d \in holds => d \in holds'
    BY <1>5 DEF Finished
  <2>4. \A d \in ModelCalls : phase[d] = "inflight" /\ d \in holds => d \in holds'
    BY <1>5 DEF Finished
  <2>5. /\ amount' = amount /\ billed' = billed
        /\ \A d \in Calls \ {c} : phase'[d] = phase[d]
        /\ phase'[c] = "recorded"
    BY <1>2 DEF Checkpoint
  <2>6. ModelCalls \subseteq Calls /\ \A t \in ToolCalls : t \in Calls \ {c}
    BY LedgerAssumption DEF Calls
  <2> QED BY <2>1, <2>2, <2>3, <2>4, <2>5, <2>6 DEF Inv, Shape
<1> QED BY <1>5, <1>6, <1>7, <1>8, BaseSufficesNext

LEMMA StepInv ==
  ASSUME Inv, NEW d \in Amount, Step(d)
  PROVE  Inv'
<1>1. Base /\ d \in Nat
  BY InvBase DEF Amount
<1>2. Reserving' = Reserving /\ Recorded' = Recorded
  BY DEF Step, Reserving, Recorded
<1>3. /\ reserved' \in Nat /\ ReservedIsHeld'
      /\ holds' = holds \ Finished({}) /\ cost' = cost + d
  <2>1. {} \in SUBSET ModelCalls /\ RecordStep({}, d) /\ amount' = amount
    BY DEF Step
  <2> QED BY <1>1, <1>2, <2>1, ReleaseFinished DEF RecordStep
<1>4. Base'
  BY <1>1, <1>3 DEF Step, Base, LocalBreaches, Breaches
<1>5. CostIsCharged'
  <2>1. Charged' = Charged
    BY <1>2 DEF Charged, Step
  <2>2. Total(Charged) \in Nat
    BY <1>1, TotalsType
  <2>3. cost = Total(Charged) + unchecked /\ unchecked \in Nat /\ unchecked' = unchecked + d
    BY <1>1 DEF Inv, CostIsCharged, Base, Step
  <2> QED BY <1>1, <1>3, <2>1, <2>2, <2>3 DEF CostIsCharged
<1>6. Shape'
  BY <1>3 DEF Step, Inv, Shape, Finished
<1> QED BY <1>3, <1>4, <1>5, <1>6, BaseSufficesNext

-----------------------------------------------------------------------------
(* The invariant                                                           *)

LEMMA InitInv == Init => Inv
<1> SUFFICES ASSUME Init PROVE Inv
  OBVIOUS
<1>1. Base
  BY DEF Init, Base, ModelPhases, ToolPhases, Breaches, Calls
<1>2. Shape
  BY LedgerAssumption DEF Init, Shape, Calls
<1>3. /\ Held \in [Calls -> Nat] /\ Charged \in [Calls -> Nat]
      /\ \A c \in Calls : Held[c] = 0 /\ Charged[c] = 0
  BY DEF Init, Held, Charged, Within
<1>4. Total(Held) = 0 /\ Total(Charged) = 0
  BY <1>3, TotalZero, LedgerAssumption
<1> QED BY <1>1, <1>2, <1>4, BaseSuffices DEF Init, ReservedIsHeld, CostIsCharged

LEMMA NextInv == Inv /\ [Next]_vars => Inv'
<1> SUFFICES ASSUME Inv, [Next]_vars PROVE Inv'
  OBVIOUS
<1>1. ASSUME NEW c \in ModelCalls, NEW w \in Amount, Take(c, w) PROVE Inv'
  BY <1>1, TakeInv
<1>2. ASSUME NEW c \in ModelCalls, NEW w \in Amount, Refuse(c, w) PROVE Inv'
  BY <1>2, RefuseInv
<1>3. ASSUME NEW c \in ModelCalls, Fail(c) PROVE Inv'
  BY <1>3, FailInv
<1>4. ASSUME NEW c \in ModelCalls, NEW a \in Amount, Finish(c, a) PROVE Inv'
  BY <1>4, FinishInv
<1>5. ASSUME NEW c \in ModelCalls, Checkpoint(c) PROVE Inv'
  BY <1>5, CheckpointInv
<1>6. ASSUME NEW d \in Amount, Step(d) PROVE Inv'
  BY <1>6, StepInv
<1>7. ASSUME NEW t \in ToolCalls, NEW w \in Amount, Ask(t, w) PROVE Inv'
  BY <1>7, AskInv
<1>8. ASSUME NEW t \in ToolCalls, Open(t) PROVE Inv'
  BY <1>8, OpenInv
<1>9. ASSUME NEW t \in ToolCalls, Block(t) PROVE Inv'
  BY <1>9, BlockInv
<1>10. ASSUME NEW t \in ToolCalls, Enter(t) PROVE Inv'
  BY <1>10, EnterInv
<1>11. ASSUME NEW t \in ToolCalls, NEW result \in {"ok", "unknown", "error"}, Settle(t, result)
       PROVE  Inv'
  BY <1>11, SettleInv
<1>12. ASSUME NEW t \in ToolCalls, CancelOpen(t) PROVE Inv'
  BY <1>12, CancelOpenInv
<1>13. ASSUME NEW t \in ToolCalls, CancelSettle(t) PROVE Inv'
  BY <1>13, CancelSettleInv
<1>14. ASSUME NEW stopped \in BOOLEAN, End(stopped) PROVE Inv'
  BY <1>14, NoCallInv, InvBase DEF End, Base
<1>15. CASE Ended \/ UNCHANGED vars
  BY <1>15, NoCallInv, InvBase DEF Ended, vars, Base
<1> QED BY <1>1, <1>2, <1>3, <1>4, <1>5, <1>6, <1>7, <1>8, <1>9, <1>10, <1>11, <1>12,
           <1>13, <1>14, <1>15 DEF Next

(* In every run, for any number of calls of any cost, however they         *)
(* interleave, fail, go unpriced or are cancelled: the invariant.          *)
THEOREM LedgerInv == Spec => []Inv
BY InitInv, NextInv, PTL DEF Spec

(* Types: cost and reservation stay numbers, so in particular no release   *)
(* ever takes reserved_usd below zero.                                     *)
THEOREM LedgerTypeOK == Spec => []TypeOK
<1>1. Inv => TypeOK
  BY DEF Inv
<1> QED BY <1>1, LedgerInv, PTL

(* reserved_usd is exactly what the calls in flight hold, leaks included.  *)
THEOREM LedgerReservedIsHeld == Spec => []ReservedIsHeld
<1>1. Inv => ReservedIsHeld
  BY DEF Inv
<1> QED BY <1>1, LedgerInv, PTL

(* A run whose calls are over and whose answers were all recorded holds    *)
(* what cancelled tools left behind, and has spent what the others billed. *)
THEOREM LedgerQuietBooks == Spec => []QuietBooks
<1>1. Inv => QuietBooks
  <2> SUFFICES ASSUME Inv, Quiet
               PROVE  /\ reserved = Total(Within(amount, Leaked))
                      /\ cost = Total(Without(billed, Leaked)) + unchecked
    BY DEF QuietBooks
  <2>1. Base
    BY InvBase
  <2>2. holds \cup Reserving = Leaked
    BY DEF Quiet, AllOver, Reserving, Leaked, Inv, Shape, TypeOK, Calls
  <2>3. Charged = Without(billed, Leaked)
    <3>1. \A c \in Calls : c \notin Recorded => c \in Leaked \/ billed[c] = 0
      BY DEF Quiet, AllOver, Recorded, Leaked, Inv, Shape, TypeOK, Calls
    <3>2. \A c \in Leaked : c \notin Recorded
      BY DEF Leaked, Recorded
    <3> QED BY <2>1, <3>1, <3>2 DEF Charged, Within, Without, Base
  <2> QED BY <2>2, <2>3 DEF Inv, ReservedIsHeld, CostIsCharged, Held
<1> QED BY <1>1, LedgerInv, PTL

-----------------------------------------------------------------------------
(* When every answer can be priced                                         *)

(* owed is what is held plus what was charged, and covers every bill.      *)
LEMMA OwedTotal ==
  ASSUME Inv
  PROVE  /\ owed \in [Calls -> Nat]
         /\ Total(owed) \in Nat
         /\ Total(owed) + unchecked = cost + reserved
<1>1. Base
  BY InvBase
<1>2. /\ Held \in [Calls -> Nat] /\ Total(Held) \in Nat
      /\ Charged \in [Calls -> Nat] /\ Total(Charged) \in Nat
  BY <1>1, TotalsType
<1>3. owed \in [Calls -> Nat]
  BY <1>1 DEF owed, Base
<1>4. \A c \in Recorded : c \notin holds \cup Reserving
  BY <1>1, LedgerAssumption DEF Inv, Shape, Recorded, Reserving, Calls, Base
<1>5. \A c \in Calls : \/ owed[c] = Held[c] /\ Charged[c] = 0
                       \/ owed[c] = Charged[c] /\ Held[c] = 0
  BY <1>1, <1>4 DEF owed, Held, Charged, Within, Base
<1>6. Total(owed) = Total(Held) + Total(Charged)
  <2> DEFINE f == owed
             g == Held
             h == Charged
  <2>1. /\ f \in [Calls -> Nat] /\ g \in [Calls -> Nat] /\ h \in [Calls -> Nat]
        /\ \A c \in Calls : \/ f[c] = g[c] /\ h[c] = 0
                            \/ f[c] = h[c] /\ g[c] = 0
    BY <1>2, <1>3, <1>5
  <2> HIDE DEF f, g, h
  <2>2. Total(f) = Total(g) + Total(h)
    BY <2>1, TotalDisjoint, LedgerAssumption
  <2> QED BY <2>2 DEF f, g, h
<1>7. cost + reserved = Total(Held) + Total(Charged) + unchecked
  BY <1>1, <1>2 DEF Inv, ReservedIsHeld, CostIsCharged, Base
<1> QED BY <1>1, <1>2, <1>3, <1>6, <1>7 DEF Base

(* Without unpriced calls, a checkpoint releases what it records.          *)
LEMMA ReleasePriced ==
  ASSUME Inv, Unpriced = {}, NEW c \in ModelCalls, phase[c] = "answered"
  PROVE  /\ Finished({c}) = {c} /\ Finished({}) = {}
         /\ billed[c] = amount[c]
         /\ Total(Within(amount, {c})) = billed[c]
<1>1. /\ amount \in [Calls -> Nat] /\ c \in Calls
      /\ c \in holds /\ billed[c] = amount[c]
  BY DEF Inv, TypeOK, Shape, Calls
<1>2. Total(Within(amount, {c})) = amount[c]
  <2> DEFINE f == Within(amount, {c})
  <2>1. f \in [Calls -> Nat] /\ f[c] = amount[c] /\ \A d \in Calls \ {c} : f[d] = 0
    BY <1>1 DEF Within
  <2> HIDE DEF f
  <2>2. Total(f) = f[c]
    BY <1>1, <2>1, TotalSingle, LedgerAssumption
  <2> QED BY <2>1, <2>2 DEF f
<1> QED BY <1>1, <1>2 DEF Finished

LEMMA ReleaseNothing ==
  ASSUME Inv, Unpriced = {}
  PROVE  /\ Finished({}) = {}
         /\ Total(Within(amount, {})) = 0
<1>1. amount \in [Calls -> Nat]
  BY DEF Inv, TypeOK
<1>2. Total(Within(amount, {})) = 0
  <2> DEFINE f == Within(amount, {})
  <2>1. f \in [Calls -> Nat] /\ \A d \in Calls : f[d] = 0
    BY <1>1 DEF Within
  <2> HIDE DEF f
  <2>2. Total(f) = 0
    BY <2>1, TotalZero, LedgerAssumption
  <2> QED BY <2>2 DEF f
<1> QED BY <1>2 DEF Finished

LEMMA CommittedStep ==
  Unpriced = {} /\ Inv /\ Committed /\ [Next]_vars => Committed'
<1> SUFFICES ASSUME Unpriced = {}, Inv, Committed, [Next]_vars PROVE Committed'
  OBVIOUS
<1>1. /\ Base /\ Budget \in Nat
      /\ \A c \in Calls : amount[c] \in Nat /\ billed[c] \in Nat
      /\ ModelCalls \subseteq Calls /\ ToolCalls \subseteq Calls
  BY InvBase, LedgerAssumption DEF Base, Calls
<1>2. ASSUME NEW c \in ModelCalls, NEW w \in Amount, Take(c, w) PROVE Committed'
  BY <1>1, <1>2 DEF Take, Fits, Committed, Base, Amount
<1>3. ASSUME NEW c \in ModelCalls, NEW w \in Amount, Refuse(c, w) PROVE Committed'
  BY <1>3 DEF Refuse, Committed
<1>4. ASSUME NEW c \in ModelCalls, Fail(c) PROVE Committed'
  BY <1>1, <1>4 DEF Fail, Committed, Base
<1>5. ASSUME NEW c \in ModelCalls, NEW a \in Amount, Finish(c, a) PROVE Committed'
  BY <1>1, <1>5 DEF Finish, Committed, Base, Amount
<1>6. ASSUME NEW c \in ModelCalls, Checkpoint(c) PROVE Committed'
  <2>1. cost' = cost + billed[c] /\ reserved' = reserved - billed[c] /\ unchecked' = unchecked
    BY <1>6, ReleasePriced DEF Checkpoint, RecordStep
  <2> QED BY <1>1, <2>1 DEF Committed, Base
<1>7. ASSUME NEW d \in Amount, Step(d) PROVE Committed'
  <2>1. cost' = cost + d /\ reserved' = reserved - 0 /\ unchecked' = unchecked + d
    BY <1>7, ReleaseNothing DEF Step, RecordStep
  <2> QED BY <1>1, <2>1 DEF Committed, Base, Amount
<1>8. ASSUME NEW t \in ToolCalls, NEW w \in Amount, Ask(t, w) PROVE Committed'
  BY <1>8 DEF Ask, Committed
<1>9. ASSUME NEW t \in ToolCalls, Open(t) PROVE Committed'
  BY <1>1, <1>9 DEF Open, Fits, Committed, Base
<1>10. ASSUME NEW t \in ToolCalls, Block(t) \/ Enter(t) \/ CancelOpen(t) \/ CancelSettle(t)
       PROVE  Committed'
  BY <1>10 DEF Block, Enter, CancelOpen, CancelSettle, Committed
<1>11. ASSUME NEW t \in ToolCalls, NEW result \in {"ok", "unknown", "error"}, Settle(t, result)
       PROVE  Committed'
  BY <1>1, <1>11 DEF Settle, Committed, Base
<1>12. ASSUME NEW stopped \in BOOLEAN, End(stopped) PROVE Committed'
  BY <1>12 DEF End, Committed
<1>13. CASE Ended \/ UNCHANGED vars
  BY <1>13 DEF Ended, vars, Committed
<1> QED BY <1>2, <1>3, <1>4, <1>5, <1>6, <1>7, <1>8, <1>9, <1>10, <1>11, <1>12, <1>13 DEF Next

(* What is spent and what is held stay within the budget together, but for *)
(* what steps reported that asked nobody.                                  *)
THEOREM LedgerCommitted ==
  ASSUME Unpriced = {}
  PROVE  Spec => []Committed
<1>1. Init => Committed
  BY LedgerAssumption DEF Init, Committed
<1>2. Inv /\ Committed /\ [Next]_vars => Committed'
  BY CommittedStep
<1> QED BY <1>1, <1>2, LedgerInv, PTL DEF Spec

(* Calls that ask first never bill more than the budget together, however  *)
(* they run in parallel, when every answer can be priced.                  *)
THEOREM LedgerNoOverspend ==
  ASSUME Unpriced = {}
  PROVE  Spec => []NoOverspend
<1>1. Inv /\ Committed => NoOverspend
  <2> SUFFICES ASSUME Inv, Committed PROVE NoOverspend
    OBVIOUS
  <2>1. Base
    BY InvBase
  <2>2. \A c \in Calls : billed[c] <= owed[c]
    <3>1. \A c \in Calls : billed[c] \in Nat /\ amount[c] \in Nat
      BY <2>1 DEF Base
    <3>2. ASSUME NEW c \in ModelCalls PROVE billed[c] <= owed[c]
      BY <3>1, <3>2 DEF owed, Recorded, Inv, Shape, Calls
    <3>3. ASSUME NEW t \in ToolCalls PROVE billed[t] <= owed[t]
      BY <3>1, <3>3 DEF owed, Recorded, Reserving, Inv, Shape, Calls
    <3> QED BY <3>2, <3>3 DEF Calls
  <2>3. /\ owed \in [Calls -> Nat] /\ Total(owed) \in Nat
        /\ Total(owed) + unchecked = cost + reserved
    BY OwedTotal
  <2>4. billed \in [Calls -> Nat] /\ Total(billed) \in Nat
    BY <2>1, TotalType, LedgerAssumption DEF Base
  <2>5. Total(billed) <= Total(owed)
    <3> DEFINE f == owed
    <3>1. f \in [Calls -> Nat] /\ \A c \in Calls : billed[c] <= f[c]
      BY <2>2, <2>3
    <3> HIDE DEF f
    <3>2. Total(billed) <= Total(f)
      BY <2>4, <3>1, TotalMonotone, LedgerAssumption
    <3> QED BY <3>2 DEF f
  <2> QED BY <2>1, <2>3, <2>4, <2>5, LedgerAssumption DEF Committed, NoOverspend, Base
<1> QED BY <1>1, LedgerInv, LedgerCommitted, PTL

(* A call in flight, or answered and not recorded, keeps room for its bill *)
THEOREM LedgerHoldsCoverBills ==
  ASSUME Unpriced = {}
  PROVE  Spec => []HoldsCoverBills
<1>1. Inv => HoldsCoverBills
  BY DEF Inv, TypeOK, Shape, HoldsCoverBills, Calls
<1> QED BY <1>1, LedgerInv, PTL

-----------------------------------------------------------------------------
(* Ledger implements Fence                                                 *)

(* A step in which a call is admitted or resolved at v.                    *)
LEMMA OwedMove ==
  ASSUME Base, Base', NEW c \in Calls, NEW v,
         \A d \in Calls \ {c} : owed'[d] = owed[d],
         owed'[c] = v
  PROVE  owed' = [owed EXCEPT ![c] = v]
BY DEF owed

(* What owed depends on for each call.                                     *)
LEMMA OwedSame ==
  ASSUME NEW d \in Calls,
         phase'[d] = phase[d], amount'[d] = amount[d], billed'[d] = billed[d],
         d \in holds' <=> d \in holds
  PROVE  owed'[d] = owed[d] /\ (d \in admitted' <=> d \in admitted)
BY DEF owed, admitted, Recorded, Reserving

(* Fence's sums are this module's.                                         *)
LEMMA PromiseTotal == Promise!Total(owed) = Total(owed)
BY DEF Promise!Total, Promise!Units, Promise!Cardinality, Total, Units, Cardinality

LEMMA FenceStep ==
  ASSUME Unpriced = {}, Inv, Inv', Next
  PROVE  [Promise!Next]_(Promise!vars)
<1>1. /\ Base /\ Base' /\ Budget \in Nat
      /\ ModelCalls \subseteq Calls /\ ToolCalls \subseteq Calls
      /\ \A c \in Calls : /\ amount[c] \in Nat /\ billed[c] \in Nat
                         /\ c \in DOMAIN amount /\ c \in DOMAIN billed /\ c \in DOMAIN phase
  <2>1. Inv' => Base'
    BY InvBase, PTL
  <2> QED BY <2>1, InvBase, LedgerAssumption DEF Base, Calls
<1>2. /\ owed \in [Calls -> Nat] /\ Total(owed) \in Nat
      /\ Total(owed) + unchecked = cost + reserved
  BY OwedTotal
<1>3. ASSUME NEW c \in ModelCalls, NEW w \in Amount, Take(c, w)
      PROVE  Promise!Admit(c, w) /\ w \in 0 .. Budget
  <2>1. owed' = [owed EXCEPT ![c] = w]
    <3>1. \A d \in Calls \ {c} : owed'[d] = owed[d]
      BY <1>1, <1>3, OwedSame DEF Take
    <3>2. owed'[c] = w
      BY <1>1, <1>3 DEF Take, owed, Recorded
    <3> QED BY <1>1, <3>1, <3>2, OwedMove
  <2>2. c \notin admitted /\ admitted' = admitted \cup {c}
    BY <1>1, <1>3 DEF Take, admitted
  <2>3. cost + reserved + w <= Budget /\ w \in Nat
    BY <1>3 DEF Take, Fits, Amount
  <2>4. Total(owed) + unchecked + w <= Budget /\ w \in 0 .. Budget
    BY <1>1, <1>2, <2>3 DEF Base
  <2> QED BY <1>3, <2>1, <2>2, <2>4, PromiseTotal DEF Promise!Admit, Take
<1>4. ASSUME NEW c \in ModelCalls, Fail(c) PROVE Promise!Resolve(c, 0)
  <2>1. owed' = [owed EXCEPT ![c] = 0]
    <3>1. \A d \in Calls \ {c} : owed'[d] = owed[d]
      BY <1>1, <1>4, OwedSame DEF Fail
    <3>2. c \notin holds' /\ c \notin Reserving' /\ c \notin Recorded'
      BY <1>1, <1>4, LedgerAssumption DEF Fail, Recorded, Reserving
    <3>3. owed'[c] = 0
      BY <1>1, <3>2 DEF owed
    <3> QED BY <1>1, <3>1, <3>3, OwedMove
  <2>2. c \in admitted /\ admitted' = admitted
    BY <1>1, <1>4 DEF Fail, admitted
  <2> QED BY <1>1, <1>2, <1>4, <2>1, <2>2 DEF Promise!Resolve, Fail
<1>5. ASSUME NEW c \in ModelCalls, NEW a \in Amount, Finish(c, a)
      PROVE  Promise!Resolve(c, a) /\ a \in 0 .. owed[c]
  <2>1. c \in holds /\ owed[c] = amount[c] /\ a \in Nat /\ a <= amount[c]
    BY <1>1, <1>5 DEF Finish, owed, Recorded, Inv, Shape, Amount
  <2>2. owed' = [owed EXCEPT ![c] = a]
    <3>1. \A d \in Calls \ {c} : owed'[d] = owed[d]
      BY <1>1, <1>5, OwedSame DEF Finish
    <3>2. owed'[c] = a
      BY <1>1, <1>5, <2>1 DEF Finish, owed, Recorded
    <3> QED BY <1>1, <3>1, <3>2, OwedMove
  <2>3. c \in admitted /\ admitted' = admitted
    BY <1>1, <1>5 DEF Finish, admitted
  <2> QED BY <1>1, <1>5, <2>1, <2>2, <2>3 DEF Promise!Resolve, Finish
<1>6. ASSUME NEW c \in ModelCalls, Checkpoint(c) PROVE UNCHANGED Promise!vars
  <2>1. c \in holds /\ billed[c] = amount[c] /\ owed[c] = amount[c] /\ holds' = holds \ {c}
    BY <1>1, <1>6, ReleasePriced DEF Checkpoint, RecordStep, owed, Recorded, Inv, Shape
  <2>2. owed' = [owed EXCEPT ![c] = owed[c]]
    <3>1. \A d \in Calls \ {c} : owed'[d] = owed[d]
      BY <1>1, <1>6, <2>1, OwedSame DEF Checkpoint
    <3>2. owed'[c] = owed[c]
      BY <1>1, <1>6, <2>1 DEF Checkpoint, owed, Recorded
    <3> QED BY <1>1, <3>1, <3>2, OwedMove
  <2>3. owed' = owed
    BY <1>2, <2>2
  <2>4. admitted' = admitted /\ unchecked' = unchecked
    BY <1>1, <1>6 DEF Checkpoint, admitted
  <2> QED BY <2>3, <2>4 DEF Promise!vars
<1>7. ASSUME NEW d \in Amount, Step(d) PROVE Promise!Outside
  <2>1. holds' = holds
    BY <1>7, ReleaseNothing DEF Step, RecordStep
  <2>2. owed' = owed /\ admitted' = admitted
    BY <1>7, <2>1 DEF Step, owed, admitted, Recorded, Reserving
  <2>3. unchecked' = unchecked + d /\ unchecked \in Nat /\ d \in Nat
    BY <1>1, <1>7 DEF Step, Base, Amount
  <2> QED BY <2>2, <2>3 DEF Promise!Outside
<1>8. ASSUME NEW t \in ToolCalls, Open(t)
      PROVE  Promise!Admit(t, amount[t]) /\ amount[t] \in 0 .. Budget
  <2>1. phase'[t] \in {"open", "leaked"} /\ t \notin holds
    BY <1>1, <1>8, LedgerAssumption DEF Open, Inv, TypeOK
  <2>2. owed' = [owed EXCEPT ![t] = amount[t]]
    <3>1. \A d \in Calls \ {t} : owed'[d] = owed[d]
      BY <1>1, <1>8, OwedSame DEF Open
    <3>2. owed'[t] = amount[t]
      BY <1>1, <1>8, <2>1 DEF Open, owed, Recorded, Reserving
    <3> QED BY <1>1, <3>1, <3>2, OwedMove
  <2>3. t \notin admitted /\ admitted' = admitted \cup {t}
    BY <1>1, <1>8, <2>1 DEF Open, admitted
  <2>4. cost + reserved + amount[t] <= Budget
    BY <1>8 DEF Open, Fits
  <2>5. Total(owed) + unchecked + amount[t] <= Budget /\ amount[t] \in 0 .. Budget
    BY <1>1, <1>2, <2>4 DEF Base
  <2> QED BY <1>8, <2>2, <2>3, <2>5, PromiseTotal DEF Promise!Admit, Open
<1>9. ASSUME NEW t \in ToolCalls, NEW result \in {"ok", "unknown", "error"}, Settle(t, result)
      PROVE  \E a \in 0 .. owed[t] : Promise!Resolve(t, a)
  <2> DEFINE a == IF result = "error" THEN 0 ELSE amount[t]
  <2>1. owed[t] = amount[t] /\ a \in 0 .. owed[t]
    BY <1>1, <1>9 DEF Settle, owed, Recorded, Reserving
  <2>2. owed' = [owed EXCEPT ![t] = a]
    <3>1. \A d \in Calls \ {t} : owed'[d] = owed[d]
      BY <1>1, <1>9, OwedSame DEF Settle
    <3>2. t \in Recorded' /\ billed'[t] = a
      BY <1>1, <1>9 DEF Settle, Recorded
    <3>3. owed'[t] = a
      BY <1>1, <3>2 DEF owed
    <3> QED BY <1>1, <3>1, <3>3, OwedMove
  <2>3. t \in admitted /\ admitted' = admitted
    BY <1>1, <1>9 DEF Settle, admitted
  <2>4. unchecked' = unchecked
    BY <1>9 DEF Settle
  <2> HIDE DEF a
  <2>5. Promise!Resolve(t, a)
    BY <2>1, <2>2, <2>3, <2>4 DEF Promise!Resolve
  <2> QED BY <2>1, <2>5
<1>10. ASSUME NEW c \in Calls, NEW p, phase' = [phase EXCEPT ![c] = p], holds' = holds,
              billed' = billed \/ billed' = [billed EXCEPT ![c] = amount[c]],
              unchecked' = unchecked, amount' = amount,
              \/ /\ phase[c] \in {"idle", "asking", "abandoned"}
                 /\ p \in {"refused", "blocked", "cancelled", "abandoned"}
              \/ phase[c] = "open" /\ p \in {"running", "leaked"}
              \/ phase[c] = "running" /\ p = "leaked"
       PROVE  UNCHANGED Promise!vars
  <2>1. \A d \in Calls \ {c} : owed'[d] = owed[d] /\ (d \in admitted' <=> d \in admitted)
    BY <1>1, <1>10, OwedSame
  <2>2. owed'[c] = owed[c] /\ (c \in admitted' <=> c \in admitted)
    BY <1>1, <1>10, LedgerAssumption DEF owed, admitted, Recorded, Reserving
  <2>3. owed' = [owed EXCEPT ![c] = owed[c]]
    BY <1>1, <2>1, <2>2, OwedMove
  <2>4. owed' = owed /\ admitted' = admitted
    BY <1>2, <2>1, <2>2, <2>3 DEF admitted
  <2> QED BY <1>10, <2>4 DEF Promise!vars
<1>11. ASSUME NEW c \in ModelCalls, NEW w \in Amount, Refuse(c, w) PROVE UNCHANGED Promise!vars
  BY <1>1, <1>10, <1>11 DEF Refuse
<1>12. ASSUME NEW t \in ToolCalls, NEW w \in Amount, Ask(t, w) PROVE UNCHANGED Promise!vars
  <2>1. t \notin holds
    BY <1>12, LedgerAssumption DEF Inv, TypeOK
  <2>2. \A d \in Calls \ {t} : owed'[d] = owed[d] /\ (d \in admitted' <=> d \in admitted)
    BY <1>1, <1>12, OwedSame DEF Ask
  <2>3. owed'[t] = owed[t] /\ t \notin admitted /\ t \notin admitted'
    BY <1>1, <1>12, <2>1 DEF Ask, owed, admitted, Recorded, Reserving
  <2>4. owed' = [owed EXCEPT ![t] = owed[t]]
    BY <1>1, <2>2, <2>3, OwedMove
  <2>5. owed' = owed /\ admitted' = admitted
    BY <1>2, <2>2, <2>3, <2>4 DEF admitted
  <2> QED BY <1>12, <2>5 DEF Promise!vars, Ask
<1>13. ASSUME NEW t \in ToolCalls, Block(t) \/ Enter(t) \/ CancelOpen(t) \/ CancelSettle(t)
       PROVE  UNCHANGED Promise!vars
  <2>1. CASE Block(t)
    BY <1>1, <1>10, <2>1 DEF Block
  <2>2. CASE Enter(t)
    BY <1>1, <1>10, <2>2 DEF Enter
  <2>3. CASE CancelOpen(t)
    BY <1>1, <1>10, <2>3 DEF CancelOpen
  <2>4. CASE CancelSettle(t)
    BY <1>1, <1>10, <2>4 DEF CancelSettle
  <2> QED BY <1>13, <2>1, <2>2, <2>3, <2>4
<1>14. ASSUME NEW stopped \in BOOLEAN, End(stopped) PROVE UNCHANGED Promise!vars
  BY <1>14 DEF End, Promise!vars, owed, admitted, Recorded, Reserving
<1>15. CASE Ended
  BY <1>15 DEF Ended, vars, Promise!vars, owed, admitted, Recorded, Reserving
<1>16. \A c \in ModelCalls : Fail(c) => 0 \in 0 .. owed[c]
  BY <1>1, <1>2
<1> QED BY <1>1, <1>3, <1>4, <1>5, <1>6, <1>7, <1>8, <1>9, <1>11, <1>12, <1>13, <1>14, <1>15, <1>16
        DEF Next, Promise!Next

(* The running cost and reservation implement the abstract shared budget:  *)
(* every interleaving of holds, answers, failures, checkpoints, tools and  *)
(* cancellations admits and resolves calls within it.                      *)
THEOREM LedgerImplementsFence ==
  ASSUME Unpriced = {}
  PROVE  Spec => FenceSpec
<1>1. Init => Promise!Init
  BY DEF Init, Promise!Init, owed, admitted, Recorded, Reserving
<1>2. Inv /\ Inv' /\ [Next]_vars => [Promise!Next]_(Promise!vars)
  <2>1. ASSUME UNCHANGED vars PROVE UNCHANGED Promise!vars
    BY <2>1 DEF vars, Promise!vars, owed, admitted, Recorded, Reserving
  <2> QED BY <2>1, FenceStep
<1> QED BY <1>1, <1>2, LedgerInv, PTL DEF Spec, FenceSpec, Promise!Spec

-----------------------------------------------------------------------------
(* And Fence keeps its promise.                                            *)

PromiseInv == owed \in [Calls -> Nat] /\ unchecked \in Nat /\ Promise!WithinBudget

LEMMA PromiseTotals ==
  ASSUME PromiseInv
  PROVE  /\ Promise!Total(owed) \in Nat /\ Promise!Total(owed) = Total(owed)
         /\ Total(owed) <= Budget /\ Budget \in Nat
BY PromiseTotal, TotalType, LedgerAssumption DEF PromiseInv, Promise!WithinBudget

LEMMA PromiseTotalNext == Promise!Total(owed)' = Total(owed)'
BY DEF Promise!Total, Promise!Units, Promise!Cardinality, Total, Units, Cardinality

(* One call comes to owe v instead of what it did, and that still fits.    *)
LEMMA PromiseMove ==
  ASSUME PromiseInv, NEW c \in Calls, NEW v \in Nat, Total(owed) - owed[c] + v <= Budget,
         owed' = [owed EXCEPT ![c] = v], unchecked' = unchecked
  PROVE  PromiseInv'
<1>1. owed \in [Calls -> Nat] /\ owed' \in [Calls -> Nat] /\ owed'[c] = v
      /\ \A d \in Calls \ {c} : owed[d] = owed'[d]
  BY DEF PromiseInv
<1> DEFINE f == owed
           g == owed'
<1>2. f \in [Calls -> Nat] /\ g \in [Calls -> Nat] /\ g[c] = v /\ \A d \in Calls \ {c} : f[d] = g[d]
  BY <1>1
<1> HIDE DEF f, g
<1>3. Total(g) + f[c] = Total(f) + g[c] /\ Total(f) \in Nat /\ Total(g) \in Nat /\ f[c] \in Nat
  BY <1>2, TotalUpdate, TotalType, LedgerAssumption
<1>4. Total(g) <= Budget
  BY <1>2, <1>3, LedgerAssumption DEF f
<1>5. Promise!Total(owed)' = Total(owed)'
  BY PromiseTotalNext
<1>6. Promise!WithinBudget'
  BY <1>4, <1>5 DEF g, Promise!WithinBudget
<1> QED BY <1>1, <1>6 DEF PromiseInv

(* Whatever keeps to Fence never has its calls owe more than the budget.   *)
THEOREM FenceKeepsBudget == Promise!Spec => []Promise!WithinBudget
<1>1. Promise!Init => PromiseInv
  <2> SUFFICES ASSUME Promise!Init PROVE PromiseInv
    OBVIOUS
  <2>1. owed \in [Calls -> Nat] /\ unchecked = 0 /\ \A c \in Calls : owed[c] = 0
    BY DEF Promise!Init
  <2>2. Total(owed) = 0
    BY <2>1, TotalZero, LedgerAssumption
  <2> QED BY <2>1, <2>2, PromiseTotal, LedgerAssumption DEF PromiseInv, Promise!WithinBudget
<1>2. PromiseInv /\ [Promise!Next]_Promise!vars => PromiseInv'
  <2> SUFFICES ASSUME PromiseInv, [Promise!Next]_Promise!vars PROVE PromiseInv'
    OBVIOUS
  <2>1. /\ owed \in [Calls -> Nat] /\ unchecked \in Nat
        /\ Promise!Total(owed) \in Nat /\ Promise!Total(owed) = Total(owed)
        /\ Total(owed) <= Budget /\ Budget \in Nat
    BY PromiseTotals DEF PromiseInv
  <2>2. ASSUME NEW c \in Calls, NEW w \in 0 .. Budget, Promise!Admit(c, w) PROVE PromiseInv'
    <3>1. Total(owed) - owed[c] + w <= Budget /\ w \in Nat
      BY <2>1, <2>2 DEF Promise!Admit
    <3> QED BY <2>2, <3>1, PromiseMove DEF Promise!Admit
  <2>3. ASSUME NEW c \in Calls, NEW a \in 0 .. owed[c], Promise!Resolve(c, a) PROVE PromiseInv'
    <3>1. Total(owed) - owed[c] + a <= Budget /\ a \in Nat
      BY <2>1, <2>3 DEF Promise!Resolve
    <3> QED BY <2>3, <3>1, PromiseMove DEF Promise!Resolve
  <2>4. ASSUME owed' = owed, unchecked' \in Nat PROVE PromiseInv'
    <3>1. Promise!Total(owed)' = Total(owed)'
      BY PromiseTotalNext
    <3>2. Total(owed)' = Total(owed)
      BY <2>4 DEF Total, Units
    <3> QED BY <2>1, <2>4, <3>1, <3>2 DEF PromiseInv, Promise!WithinBudget
  <2>5. CASE Promise!Outside
    BY <2>4, <2>5 DEF Promise!Outside
  <2>6. CASE UNCHANGED Promise!vars
    BY <2>1, <2>4, <2>6 DEF Promise!vars
  <2> QED BY <2>2, <2>3, <2>5, <2>6 DEF Promise!Next
<1> QED BY <1>1, <1>2, PTL DEF Promise!Spec, PromiseInv

(* So the ledger's calls never owe more than the budget: what they cost,   *)
(* and may yet cost, but for steps that asked no room (precheck.hold,      *)
(* _open).                                                                 *)
THEOREM LedgerWithinBudget ==
  ASSUME Unpriced = {}
  PROVE  Spec => []Promise!WithinBudget
BY LedgerImplementsFence, FenceKeepsBudget, PTL DEF FenceSpec
=============================================================================
