----------------------------- MODULE HoldProofs -----------------------------
(***************************************************************************)
(* What Hold promises of holds, timeouts and stops, proved for any number  *)
(* of calls, however many of them the agent makes at a time.  And of the   *)
(* approvals calls wait for, with any requests and amounts: a raise counts *)
(* twice at most.                                                          *)
(***************************************************************************)
EXTENDS Hold, AmountsProofs

HoldKinds == {"breach", "budget"}

(* What each place in a call says of the reason it would wait for, that a  *)
(* hold found stopped was stopped for good, and that a call has a result   *)
(* only when it is over.                                                   *)
Shape ==
    \A c \in Calls :
        /\ at[c] = "idle" => kind[c] = "none"
        /\ at[c] = "clear" => kind[c] = "pause"
        /\ at[c] = "limit" => kind[c] = "breach"
        /\ at[c] = "short" => kind[c] = "budget"
        /\ at[c] \in {"waiting", "woken"} => kind[c] # "none"
        /\ at[c] \in {"entering", "released", "stopped", "timeout"} => kind[c] \in HoldKinds
        /\ at[c] = "stopped" => stopped
        /\ at[c] # "done" => result[c] = "none"

(* A hold beside which another call waits has been noted as such, and one  *)
(* that waits alone is the run's.                                          *)
AloneIsHeld ==
    /\ \A c \in Waiting, d \in Waiting : c # d /\ kind[c] \in HoldKinds => c \in together
    /\ \A c \in Waiting \ together : kind[c] \in HoldKinds => held = kind[c]

(* The calls whose hold was the only one, with no answer to a report from  *)
(* before it on its way when it began.                                     *)
Apart == Calls \ (together \cup crossed)

(* What ends the wait of a checkpoint held apart: a person, a stop or a    *)
(* timeout, for a report that it is held gets no resume; and a released    *)
(* one had a person.                                                       *)
EndsAlone ==
    \A c \in Apart :
        /\ at[c] = "waiting" /\ kind[c] = "breach" /\ c \notin acted
              => (paused \/ stopped) /\ sent \in {"none", "paused"}
        /\ at[c] = "woken" /\ kind[c] = "breach" => pauseExpired \/ stopped \/ c \in acted
        /\ kind[c] = "breach" /\ (at[c] = "released" \/ result[c] = "ok") => c \in acted

PauseExpired == \E d \in expired : kind[d] = "pause"

(* Whose timeout pause_expired tells of, unless the run is stopped: a      *)
(* pause's, for good, or that of a hold about to end, which is then known  *)
(* to be its own.                                                          *)
TimeoutHasOwner ==
    /\ pauseExpired => stopped \/ PauseExpired \/ \E d \in expired : at[d] = "woken"
    /\ \A c \in Calls \ together :
        kind[c] \in HoldKinds /\ (at[c] = "timeout" \/ result[c] = "limit")
            => stopped \/ PauseExpired \/ c \in expired

(* A stop the agent was told of is in last_breach, unless a checkpoint was *)
(* released from its hold.                                                 *)
StopIsKept ==
    /\ stopSeen => stopped
    /\ stopSeen /\ lastBreach = "none" => \E c \in Calls : kind[c] = "breach" /\ result[c] = "ok"

Inv == TypeOK /\ Shape /\ AloneIsHeld /\ EndsAlone /\ TimeoutHasOwner /\ StopIsKept

-----------------------------------------------------------------------------
(* One lemma per action: it keeps the invariant.                           *)

(* A verdict: the call is over, or goes on with the reason it may wait     *)
(* for.                                                                    *)
LEMMA DecideInv ==
  ASSUME Inv, NEW c \in Calls, NEW b \in {"none", "limit"}, Decide(c, b)
  PROVE  Inv'
<1>1. TypeOK' /\ Shape'
  BY DEF Inv, TypeOK, Shape, Phases, Kinds, Results, HoldKinds, Decide, ResultWrites, Sticky,
         Goto, Done, runState, server, history
<1>2. AloneIsHeld'
  BY DEF Inv, TypeOK, Shape, AloneIsHeld, Waiting, HoldKinds, Decide, ResultWrites, Sticky, Goto,
         Done, runState, server, history
<1>3. EndsAlone'
  BY DEF Inv, TypeOK, Shape, AloneIsHeld, EndsAlone, Apart, Waiting, HoldKinds, Decide,
         ResultWrites, Sticky, Goto, Done, runState, server, history
<1>4. TimeoutHasOwner'
  BY DEF Inv, TypeOK, Shape, AloneIsHeld, TimeoutHasOwner, PauseExpired, Waiting, HoldKinds,
         Decide, ResultWrites, Sticky, Goto, Done, runState, server, history
<1>5. StopIsKept'
  BY DEF Inv, TypeOK, Shape, StopIsKept, Decide, ResultWrites, Sticky, Goto, Done, runState,
         server, history
<1> QED BY <1>1, <1>2, <1>3, <1>4, <1>5 DEF Inv

(* A model call that does not fit.                                         *)
LEMMA ShortInv ==
  ASSUME Inv, NEW c \in Calls, Short(c)
  PROVE  Inv'
<1>1. TypeOK' /\ Shape'
  BY DEF Inv, TypeOK, Shape, Phases, Kinds, Results, HoldKinds, Short, Goto, runState, server,
         history
<1>2. AloneIsHeld'
  BY DEF Inv, TypeOK, Shape, AloneIsHeld, Waiting, HoldKinds, Short, Goto, runState, server,
         history
<1>3. EndsAlone'
  BY DEF Inv, TypeOK, Shape, AloneIsHeld, EndsAlone, Apart, Waiting, HoldKinds, Short, Goto,
         runState, server, history
<1>4. TimeoutHasOwner'
  BY DEF Inv, TypeOK, Shape, AloneIsHeld, TimeoutHasOwner, PauseExpired, Waiting, HoldKinds,
         Short, Goto, runState, server, history
<1>5. StopIsKept'
  BY DEF Inv, TypeOK, Shape, StopIsKept, Short, Goto, runState, server, history
<1> QED BY <1>1, <1>2, <1>3, <1>4, <1>5 DEF Inv

(* A run that is stopped holds nobody: who leaves at once leaves a stop.   *)
LEMMA WaitOrLeaveInv ==
  ASSUME Inv, NEW c \in Calls, WaitOrLeave(c)
  PROVE  Inv'
<1>1. TypeOK' /\ Shape'
  BY DEF Inv, TypeOK, Shape, Phases, Kinds, Results, HoldKinds, WaitOrLeave, Holds, GiveUp,
         ResultWrites, Sticky, Goto, Done, runState, server, history
<1>2. AloneIsHeld'
  BY DEF Inv, TypeOK, Shape, AloneIsHeld, Waiting, HoldKinds, WaitOrLeave, Holds, GiveUp,
         ResultWrites, Sticky, Goto, Done, runState, server, history
<1>3. EndsAlone'
  BY DEF Inv, TypeOK, Shape, AloneIsHeld, EndsAlone, Apart, Waiting, HoldKinds, WaitOrLeave,
         Holds, GiveUp, ResultWrites, Sticky, Goto, Done, runState, server, history
<1>4. TimeoutHasOwner'
  BY DEF Inv, TypeOK, Shape, AloneIsHeld, TimeoutHasOwner, PauseExpired, Waiting, HoldKinds,
         WaitOrLeave, Holds, GiveUp, ResultWrites, Sticky, Goto, Done, runState, server, history
<1>5. StopIsKept'
  BY DEF Inv, TypeOK, Shape, StopIsKept, WaitOrLeave, Holds, GiveUp, ResultWrites, Sticky, Goto,
         Done, runState, server, history
<1> QED BY <1>1, <1>2, <1>3, <1>4, <1>5 DEF Inv

(* A call that begins to wait while another does is noted, and so is that. *)
LEMMA ClearInv ==
  ASSUME Inv, NEW c \in Calls, Clear(c)
  PROVE  Inv'
<1>1. TypeOK' /\ Shape'
  BY DEF Inv, TypeOK, Shape, Phases, Kinds, Results, HoldKinds, Clear, Goto, Done, Join, Waiting,
         runState, server, history
<1>2. AloneIsHeld'
  BY DEF Inv, TypeOK, Shape, AloneIsHeld, Waiting, HoldKinds, Clear, Goto, Done, Join, runState,
         server, history
<1>3. EndsAlone'
  BY DEF Inv, TypeOK, Shape, AloneIsHeld, EndsAlone, Apart, Waiting, HoldKinds, Clear, Goto, Done,
         Join, runState, server, history
<1>4. TimeoutHasOwner'
  BY DEF Inv, TypeOK, Shape, AloneIsHeld, TimeoutHasOwner, PauseExpired, Waiting, HoldKinds,
         Clear, Goto, Done, Join, runState, server, history
<1>5. StopIsKept'
  BY DEF Inv, TypeOK, Shape, StopIsKept, Clear, Goto, Done, Join, Waiting, runState, server,
         history
<1> QED BY <1>1, <1>2, <1>3, <1>4, <1>5 DEF Inv

(* A hold that starts is the run's; those it joins are alone no more.      *)
LEMMA StartHoldInv ==
  ASSUME Inv, NEW c \in Calls, StartHold(c)
  PROVE  Inv'
<1>1. TypeOK' /\ Shape'
  BY DEF Inv, TypeOK, Shape, Phases, Kinds, Results, HoldKinds, StartHold, Goto, Join, Waiting,
         runState, server, history
<1>2. AloneIsHeld'
  BY DEF Inv, TypeOK, Shape, AloneIsHeld, Waiting, HoldKinds, StartHold, Goto, Join, runState,
         server, history
<1>3. EndsAlone'
  BY DEF Inv, TypeOK, Shape, AloneIsHeld, EndsAlone, Apart, Waiting, HoldKinds, StartHold, Goto,
         Join, runState, server, history
<1>4. TimeoutHasOwner'
  BY DEF Inv, TypeOK, Shape, AloneIsHeld, TimeoutHasOwner, PauseExpired, Waiting, HoldKinds,
         StartHold, Goto, Join, runState, server, history
<1>5. StopIsKept'
  BY DEF Inv, TypeOK, Shape, StopIsKept, StartHold, Goto, Join, Waiting, runState, server, history
<1> QED BY <1>1, <1>2, <1>3, <1>4, <1>5 DEF Inv

(* A call that finds the run not paused: alone, it was a person's or a     *)
(* stop's doing.                                                           *)
LEMMA WakeInv ==
  ASSUME Inv, NEW c \in Calls, Wake(c)
  PROVE  Inv'
<1>1. TypeOK' /\ Shape'
  BY DEF Inv, TypeOK, Shape, Phases, Kinds, Results, HoldKinds, Wake, Goto, runState, server,
         history
<1>2. AloneIsHeld'
  BY DEF Inv, TypeOK, Shape, AloneIsHeld, Waiting, HoldKinds, Wake, Goto, runState, server,
         history
<1>3. EndsAlone'
  BY DEF Inv, TypeOK, Shape, AloneIsHeld, EndsAlone, Apart, Waiting, HoldKinds, Wake, Goto,
         runState, server, history
<1>4. TimeoutHasOwner'
  BY DEF Inv, TypeOK, Shape, AloneIsHeld, TimeoutHasOwner, PauseExpired, Waiting, HoldKinds,
         Wake, Goto, runState, server, history
<1>5. StopIsKept'
  BY DEF Inv, TypeOK, Shape, StopIsKept, Wake, Goto, runState, server, history
<1> QED BY <1>1, <1>2, <1>3, <1>4, <1>5 DEF Inv

(* A deadline passes: pause_expired has an owner.                          *)
LEMMA ExpireInv ==
  ASSUME Inv, NEW c \in Calls, Expire(c)
  PROVE  Inv'
<1>1. TypeOK' /\ Shape'
  BY DEF Inv, TypeOK, Shape, Phases, Kinds, Results, HoldKinds, Expire, Goto, runState, server,
         history
<1>2. AloneIsHeld'
  BY DEF Inv, TypeOK, Shape, AloneIsHeld, Waiting, HoldKinds, Expire, Goto, runState, server,
         history
<1>3. EndsAlone'
  BY DEF Inv, TypeOK, Shape, AloneIsHeld, EndsAlone, Apart, Waiting, HoldKinds, Expire, Goto,
         runState, server, history
<1>4. TimeoutHasOwner'
  BY DEF Inv, TypeOK, Shape, AloneIsHeld, TimeoutHasOwner, PauseExpired, Waiting, HoldKinds,
         Expire, Goto, runState, server, history
<1>5. StopIsKept'
  BY DEF Inv, TypeOK, Shape, StopIsKept, Expire, Goto, runState, server, history
<1> QED BY <1>1, <1>2, <1>3, <1>4, <1>5 DEF Inv

(* The hold's end: what it is taken for is what it was.                    *)
LEMMA EndHoldInv ==
  ASSUME Inv, NEW c \in Calls, EndHold(c)
  PROVE  Inv'
<1>1. TypeOK' /\ Shape'
  BY DEF Inv, TypeOK, Shape, Phases, Kinds, Results, HoldKinds, EndHold, Outcome, LowerFlag,
         Goto, runState, server, history
<1>2. AloneIsHeld'
  BY DEF Inv, TypeOK, Shape, AloneIsHeld, Waiting, HoldKinds, EndHold, Outcome, LowerFlag, Goto,
         Kinds, runState, server, history
<1>3. EndsAlone'
  BY DEF Inv, TypeOK, Shape, AloneIsHeld, EndsAlone, Apart, Waiting, HoldKinds, EndHold, Outcome,
         LowerFlag, Goto, Kinds, runState, server, history
<1>4. TimeoutHasOwner'
  BY DEF Inv, TypeOK, Shape, AloneIsHeld, TimeoutHasOwner, PauseExpired, Waiting, HoldKinds,
         EndHold, Outcome, LowerFlag, Goto, Kinds, runState, server, history
<1>5. StopIsKept'
  BY DEF Inv, TypeOK, Shape, StopIsKept, EndHold, Outcome, LowerFlag, Goto, Kinds, runState,
         server, history
<1> QED BY <1>1, <1>2, <1>3, <1>4, <1>5 DEF Inv

(* The end of a pause.                                                     *)
LEMMA EndPauseInv ==
  ASSUME Inv, NEW c \in Calls, EndPause(c)
  PROVE  Inv'
<1>1. TypeOK' /\ Shape'
  BY DEF Inv, TypeOK, Shape, Phases, Kinds, Results, HoldKinds, EndPause, ResultWrites, Sticky,
         AsResult, Done, runState, server, history
<1>2. AloneIsHeld'
  BY DEF Inv, TypeOK, Shape, AloneIsHeld, Waiting, HoldKinds, EndPause, ResultWrites, Sticky,
         AsResult, Done, runState, server, history
<1>3. EndsAlone'
  BY DEF Inv, TypeOK, Shape, AloneIsHeld, EndsAlone, Apart, Waiting, HoldKinds, EndPause,
         ResultWrites, Sticky, AsResult, Done, runState, server, history
<1>4. TimeoutHasOwner'
  BY DEF Inv, TypeOK, Shape, AloneIsHeld, TimeoutHasOwner, PauseExpired, Waiting, HoldKinds,
         EndPause, ResultWrites, Sticky, AsResult, Done, runState, server, history
<1>5. StopIsKept'
  BY DEF Inv, TypeOK, Shape, StopIsKept, EndPause, ResultWrites, Sticky, AsResult, Done,
         runState, server, history
<1> QED BY <1>1, <1>2, <1>3, <1>4, <1>5 DEF Inv

(* A checkpoint returns from its hold.                                     *)
LEMMA AfterBreachInv ==
  ASSUME Inv, NEW c \in Calls, AfterBreach(c)
  PROVE  Inv'
<1>1. TypeOK' /\ Shape'
  BY DEF Inv, TypeOK, Shape, Phases, Kinds, Results, HoldKinds, AfterBreach, ResultWrites,
         Sticky, AsResult, Done, runState, server, history
<1>2. AloneIsHeld'
  BY DEF Inv, TypeOK, Shape, AloneIsHeld, Waiting, HoldKinds, AfterBreach, ResultWrites, Sticky,
         AsResult, Done, runState, server, history
<1>3. EndsAlone'
  BY DEF Inv, TypeOK, Shape, AloneIsHeld, EndsAlone, Apart, Waiting, HoldKinds, AfterBreach,
         ResultWrites, Sticky, AsResult, Done, runState, server, history
<1>4. TimeoutHasOwner'
  BY DEF Inv, TypeOK, Shape, AloneIsHeld, TimeoutHasOwner, PauseExpired, Waiting, HoldKinds,
         AfterBreach, ResultWrites, Sticky, AsResult, Done, runState, server, history
<1>5. StopIsKept'
  BY DEF Inv, TypeOK, Shape, StopIsKept, AfterBreach, ResultWrites, Sticky, AsResult, Done,
         runState, server, history
<1> QED BY <1>1, <1>2, <1>3, <1>4, <1>5 DEF Inv

(* A model call returns from its hold, or is checked again.                *)
LEMMA AfterBudgetInv ==
  ASSUME Inv, NEW c \in Calls, AfterBudget(c)
  PROVE  Inv'
<1>1. TypeOK' /\ Shape'
  BY DEF Inv, TypeOK, Shape, Phases, Kinds, Results, HoldKinds, AfterBudget, GiveUp,
         ResultWrites, Sticky, Goto, Done, runState, server, history
<1>2. AloneIsHeld'
  BY DEF Inv, TypeOK, Shape, AloneIsHeld, Waiting, HoldKinds, AfterBudget, GiveUp, ResultWrites,
         Sticky, Goto, Done, runState, server, history
<1>3. EndsAlone'
  BY DEF Inv, TypeOK, Shape, AloneIsHeld, EndsAlone, Apart, Waiting, HoldKinds, AfterBudget,
         GiveUp, ResultWrites, Sticky, Goto, Done, runState, server, history
<1>4. TimeoutHasOwner'
  BY DEF Inv, TypeOK, Shape, AloneIsHeld, TimeoutHasOwner, PauseExpired, Waiting, HoldKinds,
         AfterBudget, GiveUp, ResultWrites, Sticky, Goto, Done, runState, server, history
<1>5. StopIsKept'
  BY DEF Inv, TypeOK, Shape, StopIsKept, AfterBudget, GiveUp, ResultWrites, Sticky, Goto, Done,
         runState, server, history
<1> QED BY <1>1, <1>2, <1>3, <1>4, <1>5 DEF Inv

(* A stop.                                                                 *)
LEMMA StopInv ==
  ASSUME Inv, Stop
  PROVE  Inv'
<1>1. TypeOK' /\ Shape'
  BY DEF Inv, TypeOK, Shape, Phases, Kinds, Results, HoldKinds, Stop, runState, server, history
<1>2. AloneIsHeld'
  BY DEF Inv, TypeOK, Shape, AloneIsHeld, Waiting, HoldKinds, Stop, runState, server, history
<1>3. EndsAlone'
  BY DEF Inv, TypeOK, Shape, AloneIsHeld, EndsAlone, Apart, Waiting, HoldKinds, Stop, runState,
         server, history
<1>4. TimeoutHasOwner'
  BY DEF Inv, TypeOK, Shape, AloneIsHeld, TimeoutHasOwner, PauseExpired, Waiting, HoldKinds,
         Stop, runState, server, history
<1>5. StopIsKept'
  BY DEF Inv, TypeOK, Shape, StopIsKept, Stop, runState, server, history
<1> QED BY <1>1, <1>2, <1>3, <1>4, <1>5 DEF Inv

(* A pause, and what the operator wants of it.                             *)
LEMMA PauseInv ==
  ASSUME Inv, OperatorPause \/ Unpause \/ Pause
  PROVE  Inv'
<1> USE DEF OperatorPause, Unpause, Pause, runState, server, history
<1>1. UNCHANGED <<at, kind, result, pauseExpired, held, stopped, stopSeen, lastBreach, sent,
                  history>>
  OBVIOUS
<1>2. TypeOK'
  <2>1. paused' \in BOOLEAN /\ wanted' \in {"never", "yes", "was"}
    BY DEF Inv, TypeOK
  <2> HIDE DEF OperatorPause, Unpause, Pause
  <2> QED BY <1>1, <2>1 DEF Inv, TypeOK
<1>3. Shape' /\ AloneIsHeld' /\ TimeoutHasOwner' /\ StopIsKept'
  BY <1>1 DEF Inv, Shape, AloneIsHeld, Waiting, TimeoutHasOwner, PauseExpired, StopIsKept
<1>4. EndsAlone'
  BY <1>1 DEF Inv, EndsAlone, Apart
<1> QED BY <1>2, <1>3, <1>4 DEF Inv

(* What is reported, answered or lost: a run held apart is reported so.    *)
LEMMA ReportInv ==
  ASSUME Inv, ReadPaused \/ ReadHeld \/ AutoResume \/ Unanswered
  PROVE  Inv'
<1> USE DEF ReadPaused, ReadHeld, AutoResume, Unanswered, runState, history
<1>1. UNCHANGED <<at, kind, result, runState, wanted, history>>
  OBVIOUS
<1>2. TypeOK'
  BY DEF Inv, TypeOK
<1>3. Shape' /\ AloneIsHeld' /\ TimeoutHasOwner' /\ StopIsKept'
  BY <1>1 DEF Inv, Shape, AloneIsHeld, Waiting, TimeoutHasOwner, PauseExpired, StopIsKept
<1>4. EndsAlone'
  <2> SUFFICES ASSUME NEW c \in Apart, at[c] = "waiting", kind[c] = "breach", c \notin acted
               PROVE  sent' \in {"none", "paused"}
    BY <1>1 DEF Inv, EndsAlone, Apart
  <2>1. sent \in {"none", "paused"}
    BY DEF Inv, EndsAlone
  <2>2. held # "none"
    BY DEF Inv, AloneIsHeld, Waiting, Apart, HoldKinds
  <2> QED BY <2>1, <2>2
<1> QED BY <1>2, <1>3, <1>4 DEF Inv

(* A person's resume, and any that is applied.                             *)
LEMMA ResumeInv ==
  ASSUME Inv, OperatorResume \/ Resume
  PROVE  Inv'
<1> USE DEF OperatorResume, Resume, runState, history
<1>1. /\ UNCHANGED <<at, kind, result, pauseExpired, held, stopped, stopSeen, lastBreach, wanted,
                      expired, together, crossed>>
      /\ acted \subseteq acted'
  OBVIOUS
<1>2. TypeOK'
  <2>1. /\ paused' \in BOOLEAN /\ sent' \in {"none", "paused", "report", "resume"}
        /\ acted' \in SUBSET Calls
    BY DEF Inv, TypeOK
  <2> HIDE DEF OperatorResume, Resume
  <2> QED BY <1>1, <2>1 DEF Inv, TypeOK
<1>3. Shape' /\ AloneIsHeld' /\ TimeoutHasOwner' /\ StopIsKept'
  BY <1>1 DEF Inv, Shape, AloneIsHeld, Waiting, TimeoutHasOwner, PauseExpired, StopIsKept
<1>4. ASSUME NEW c \in Apart, at[c] = "waiting", kind[c] = "breach"
      PROVE  c \in acted'
  BY <1>4 DEF Inv, EndsAlone, Apart
<1>5. EndsAlone'
  BY <1>1, <1>4 DEF Inv, EndsAlone, Apart
<1> QED BY <1>2, <1>3, <1>5 DEF Inv

LEMMA CommandInv ==
  ASSUME Inv, Command
  PROVE  Inv'
BY StopInv, PauseInv, ReportInv, ResumeInv DEF Command

(* Every step keeps the invariant.                                         *)
LEMMA NextInv == Inv /\ [Next]_vars => Inv'
<1> SUFFICES ASSUME Inv, [Next]_vars PROVE Inv'
  OBVIOUS
<1>1. ASSUME NEW c \in Calls, NEW b \in {"none", "limit"}, Decide(c, b) PROVE Inv'
  BY <1>1, DecideInv
<1>2. ASSUME NEW c \in Calls, Short(c) \/ Step(c) \/ Wake(c) \/ Expire(c) PROVE Inv'
  BY <1>2, ShortInv, WaitOrLeaveInv, ClearInv, StartHoldInv, EndHoldInv, EndPauseInv,
     AfterBreachInv, AfterBudgetInv, WakeInv, ExpireInv DEF Step
<1>3. CASE Command
  BY <1>3, CommandInv
<1>4. CASE vars' = vars
  BY <1>4 DEF Inv, TypeOK, Shape, AloneIsHeld, EndsAlone, Apart, TimeoutHasOwner, PauseExpired,
         StopIsKept, Waiting, HoldKinds, vars, runState, server, history
<1> QED BY <1>1, <1>2, <1>3, <1>4 DEF Next, Finished

LEMMA InitInv == Init => Inv
BY DEF Init, Inv, TypeOK, Shape, AloneIsHeld, EndsAlone, Apart, TimeoutHasOwner, PauseExpired,
       StopIsKept, Waiting, HoldKinds, Phases, Kinds, Results

(* What the run's flags and each call's place, reason and result say of    *)
(* one another, the invariant all that follows rests on.                   *)
THEOREM HoldInv == Spec => []Inv
BY InitInv, NextInv, PTL DEF Spec

-----------------------------------------------------------------------------
(* What the checked properties need of it.                                 *)

(* The run's flags and every call keep to their types.                     *)
THEOREM HoldTypeOK == Spec => []TypeOK
<1>1. Inv => TypeOK
  BY DEF Inv
<1> QED BY <1>1, HoldInv, PTL

(* A checkpoint held at a breach while no other call was held continues    *)
(* only after a person resumed the run: no timeout, no stop, and no resume *)
(* the server sends by itself lets it go (_after_hold, _heartbeat), unless *)
(* a report from before its hold, or a resume, was on its way as it began. *)
THEOREM HoldAloneHeldUntilPerson == Spec => []AloneHeldUntilPerson
<1>1. Inv => AloneHeldUntilPerson
  BY DEF Inv, EndsAlone, Apart, AloneHeldUntilPerson
<1> QED BY <1>1, HoldInv, PTL

(* A resume is never taken for a timeout: a call held alone that ends with *)
(* its limit, in a run nobody stopped, waited out its own deadline         *)
(* (end_hold).                                                             *)
THEOREM HoldResumeIsNoTimeout == Spec => []ResumeIsNoTimeout
<1>1. Inv => ResumeIsNoTimeout
  BY DEF Inv, TimeoutHasOwner, PauseExpired, HoldKinds, ResumeIsNoTimeout
<1> QED BY <1>1, HoldInv, PTL

(* A stop the agent was told of sticks: once its calls are over,           *)
(* last_breach tells of it, but for a checkpoint released as it came       *)
(* (_result, _after_hold).                                                 *)
THEOREM HoldSeenStopSticks == Spec => []SeenStopSticks
<1>1. Inv => SeenStopSticks
  BY DEF Inv, StopIsKept, SeenStopSticks
<1> QED BY <1>1, HoldInv, PTL

(* No command moves a call itself.                                         *)
LEMMA CommandFrame == Command => UNCHANGED <<at, result>>
BY DEF Command, Stop, OperatorPause, Unpause, Pause, ReadPaused, ReadHeld, AutoResume,
       OperatorResume, Resume, Unanswered

(* A step of a stopped run releases nobody who waits.                      *)
LEMMA StopWins ==
  ASSUME Inv, [Next]_vars, NEW c \in Calls, stopped, at[c] \in {"waiting", "woken"}
  PROVE  at'[c] # "released" /\ result'[c] # "ok"
<1> USE DEF Inv, TypeOK, Shape, runState, server, history
<1>1. result[c] = "none"
  OBVIOUS
<1>2. ASSUME NEW d \in Calls, NEW b \in {"none", "limit"}, Decide(d, b)
      PROVE  at'[c] = at[c] /\ result'[c] = result[c]
  BY <1>2 DEF Decide, Goto, Done
<1>3. ASSUME NEW d \in Calls, Short(d) \/ WaitOrLeave(d) \/ Clear(d) \/ StartHold(d)
                               \/ AfterBreach(d) \/ AfterBudget(d)
      PROVE  at'[c] = at[c] /\ result'[c] = result[c]
  BY <1>3 DEF Short, WaitOrLeave, GiveUp, Clear, StartHold, AfterBreach, AfterBudget, Goto, Done
<1>4. ASSUME NEW d \in Calls, Wake(d) \/ Expire(d)
      PROVE  at'[c] \in {at[c], "woken"} /\ result'[c] = result[c]
  BY <1>4 DEF Wake, Expire, Goto
<1>5. ASSUME NEW d \in Calls, EndHold(d)
      PROVE  at'[c] \in {at[c], "stopped"} /\ result'[c] = result[c]
  BY <1>5 DEF EndHold, Outcome, Goto
<1>6. ASSUME NEW d \in Calls, EndPause(d)
      PROVE  at'[c] \in {at[c], "done"} /\ result'[c] \in {result[c], "stopped_by_user"}
  BY <1>6 DEF EndPause, Sticky, AsResult, Done
<1>7. CASE Command \/ vars' = vars
  BY <1>1, <1>7, CommandFrame DEF vars
<1> QED
  BY <1>1, <1>2, <1>3, <1>4, <1>5, <1>6, <1>7 DEF Next, Step, Finished

(* A stop beats a release: no step lets a call that waits go on once the   *)
(* run is stopped, whatever ended its wait (end_hold, _result).            *)
THEOREM HoldStopBeatsRelease == Spec => StopBeatsRelease
<1>1. Inv /\ [Next]_vars
      => [\A c \in Calls : stopped /\ at[c] \in {"waiting", "woken"}
            => at'[c] # "released" /\ result'[c] # "ok"]_vars
  BY StopWins
<1> QED BY <1>1, HoldInv, PTL DEF Spec, StopBeatsRelease

(* Of a stopped run, a call that moves has fewer steps left than before.   *)
LEMMA FewerLeft ==
  ASSUME Inv, [Next]_vars, NEW c \in Calls, stopped, at'[c] # at[c]
  PROVE  StepsLeft[at'[c]] < StepsLeft[at[c]]
<1> USE DEF Inv, TypeOK, Phases, StepsLeft
<1>1. ASSUME NEW d \in Calls, NEW b \in {"none", "limit"}, Decide(d, b)
      PROVE  at[c] = "idle" /\ at'[c] = "done"
  BY <1>1 DEF Decide, Sticky, Goto, Done
<1>2. ASSUME NEW d \in Calls, Short(d)
      PROVE  at[c] = "idle" /\ at'[c] = "short"
  BY <1>2 DEF Short, Goto
<1>3. ASSUME NEW d \in Calls, WaitOrLeave(d)
      PROVE  at[c] \in {"limit", "short"} /\ at'[c] = "done"
  BY <1>3 DEF WaitOrLeave, Holds, GiveUp, Goto, Done
<1>4. ASSUME NEW d \in Calls, Clear(d) \/ StartHold(d)
      PROVE  at[c] \in {"clear", "entering"} /\ at'[c] \in {"waiting", "done"}
  BY <1>4 DEF Clear, StartHold, Goto, Done
<1>5. ASSUME NEW d \in Calls, Wake(d) \/ Expire(d)
      PROVE  at[c] = "waiting" /\ at'[c] = "woken"
  BY <1>5 DEF Wake, Expire, Goto
<1>6. ASSUME NEW d \in Calls, EndHold(d) \/ EndPause(d)
      PROVE  at[c] = "woken" /\ at'[c] \in {"stopped", "done"}
  BY <1>6 DEF EndHold, Outcome, EndPause, Goto, Done
<1>7. ASSUME NEW d \in Calls, AfterBreach(d) \/ AfterBudget(d)
      PROVE  \/ at[c] \in {"released", "stopped", "timeout"} /\ at'[c] = "done"
             \/ at[c] = "released" /\ at'[c] = "short"
  BY <1>7 DEF AfterBreach, AfterBudget, GiveUp, Goto, Done
<1>8. ~(Command \/ vars' = vars)
  BY CommandFrame DEF vars
<1> QED
  BY <1>1, <1>2, <1>3, <1>4, <1>5, <1>6, <1>7, <1>8 DEF Next, Step, Finished

(* Once the run is stopped each call ends within five steps of its own,    *)
(* however commands and other calls interleave with them: it goes round no *)
(* loop (holds, hold's check after a release, _result).                    *)
THEOREM HoldStopLeavesFewSteps == Spec => StopLeavesFewSteps
<1>1. Inv /\ [Next]_vars
      => [stopped => \A c \in Calls : at'[c] # at[c] => StepsLeft[at'[c]] < StepsLeft[at[c]]]_vars
  BY FewerLeft
<1> QED BY <1>1, HoldInv, PTL DEF Spec, StopLeavesFewSteps

-----------------------------------------------------------------------------
(* Waiting for a person's answer, in calls of their own: Approvals, with   *)
(* constants and variables of its own (applying is where a carrier is).    *)

CONSTANTS Requests, MaxAmount, NoBudget
VARIABLES budget, approvals, awaiting, acked, supported, phase, deserted, read, applying, reply,
          status, granted, limit, knows

App == INSTANCE Approvals WITH at <- applying

(* What the calls that waited to the end raised the budget by.             *)
Raisers == {r \in Requests : phase[r] = "granted"}
Raised == Total(Within(granted, Raisers))

(* approvals has the calls that wait, awaiting their number; and who was   *)
(* told "granted", or "denied" by a person, was told the truth.            *)
Stages ==
    /\ DOMAIN approvals = {r \in Requests : phase[r] = "waiting"}
    /\ awaiting = Cardinality(DOMAIN approvals)
    /\ \A r \in DOMAIN approvals : approvals[r] = "granted" => status[r] = "granted"
    /\ \A r \in Requests : phase[r] \in {"raising", "granted"} => status[r] = "granted"
    /\ \A k \in App!Carriers : \A r \in reply[k].answers : status[r] \in {"granted", "denied"}

(* The budget, a budget on its way in a limits command, and one that was   *)
(* read to be raised: none is more than the server's and what was raised.  *)
Twice ==
    /\ budget = NoBudget <=> limit = NoBudget
    /\ \A k \in App!Carriers :
          reply[k].budget # NoBudget => limit # NoBudget /\ reply[k].budget <= limit
    /\ \A r \in Requests : phase[r] = "raising" => limit # NoBudget /\ read[r] <= limit + Raised
    /\ budget # NoBudget => budget <= limit + Raised

Asked == App!TypeOK /\ Stages /\ Twice

LEMMA AppFacts ==
  ASSUME App!ApprovalsAssumption
  PROVE  /\ IsFiniteSet(Requests) /\ MaxAmount \in Nat /\ NoBudget \notin Int
         /\ \A f : App!Total(f) = Total(f)
         /\ \A f, D : App!Within(f, D) = Within(f, D)
<1>1. App!IsFiniteSet(Requests) = IsFiniteSet(Requests)
  BY DEF App!IsFiniteSet, IsFiniteSet
<1>2. \A f : App!Total(f) = Total(f)
  <2> SUFFICES ASSUME NEW f PROVE App!Total(f) = Total(f)
    OBVIOUS
  <2>1. App!Units(f) = Units(f)
    BY DEF App!Units, Units
  <2>2. \A S : App!Cardinality(S) = Cardinality(S)
    BY DEF App!Cardinality, Cardinality
  <2> QED BY <2>1, <2>2 DEF App!Total, Total
<1>3. \A f, D : App!Within(f, D) = Within(f, D)
  BY DEF App!Within, Within
<1> QED BY <1>1, <1>2, <1>3 DEF App!ApprovalsAssumption

LEMMA RaisedType ==
  ASSUME App!ApprovalsAssumption, App!TypeOK, NEW D
  PROVE  /\ granted \in [Requests -> Nat]
         /\ Total(Within(granted, D)) \in Nat
<1>1. granted \in [Requests -> Nat]
  BY AppFacts DEF App!TypeOK
<1>2. Within(granted, D) \in [Requests -> Nat]
  BY <1>1 DEF Within
<1> QED BY <1>1, <1>2, AppFacts, TotalType

LEMMA AppInitInv ==
  ASSUME App!ApprovalsAssumption, App!Init
  PROVE  Asked
<1>1. MaxAmount \in Nat
  BY AppFacts
<1>2. /\ phase = [r \in Requests |-> "idle"] /\ read = [r \in Requests |-> 0] /\ granted = read
      /\ budget \in {0, NoBudget} /\ limit = budget /\ approvals = [r \in {} |-> "none"]
      /\ awaiting = 0 /\ reply = [k \in App!Carriers |-> [budget |-> NoBudget, answers |-> {}]]
  BY DEF App!Init
<1>3. supported \in BOOLEAN /\ knows \in BOOLEAN
  BY DEF App!Init
<1>4. App!TypeOK
  BY <1>1, <1>2, <1>3 DEF App!Init, App!TypeOK, App!Budget
<1>5. DOMAIN approvals = {}
  BY <1>2
<1>6. Stages
  BY <1>2, <1>5, FS_EmptySet DEF Stages
<1>7. Raised \in Nat
  BY <1>4, RaisedType DEF Raised
<1> QED BY <1>2, <1>4, <1>6, <1>7 DEF Asked, Twice

(* What changes no budget, and lets no call raise one.                     *)
LEMMA NoneRaised ==
  ASSUME Asked, UNCHANGED <<budget, granted, limit>>, Raisers' = Raisers,
         \A k \in App!Carriers : reply'[k].budget \in {NoBudget, limit, reply[k].budget},
         \A r \in Requests : phase'[r] = "raising" => phase[r] = "raising" /\ read'[r] = read[r]
  PROVE  Twice' /\ Raised' = Raised
<1>1. Raised' = Raised
  BY DEF Raised
<1>2. limit \in Nat \cup {NoBudget} /\ Twice
  BY DEF Asked, App!TypeOK, App!Budget
<1>3. \A k \in App!Carriers :
         reply'[k].budget # NoBudget => limit # NoBudget /\ reply'[k].budget <= limit
  BY <1>2 DEF Twice
<1> QED BY <1>1, <1>2, <1>3 DEF Twice

(* What no waiting call hears of.                                          *)
LEMMA NoneHeard ==
  ASSUME Asked, UNCHANGED <<approvals, awaiting, reply>>,
         \A r \in Requests : status[r] \in {"granted", "denied"} => status'[r] = status[r],
         \A r \in Requests : phase'[r] = "waiting" <=> phase[r] = "waiting",
         \A r \in Requests : phase'[r] \in {"raising", "granted"} => phase'[r] = phase[r]
  PROVE  Stages'
<1>1. Stages /\ DOMAIN approvals \subseteq Requests
  BY DEF Asked, App!TypeOK
<1>2. \A k \in App!Carriers : reply[k].answers \subseteq Requests
  BY DEF Asked, App!TypeOK
<1>3. {r \in Requests : phase'[r] = "waiting"} = {r \in Requests : phase[r] = "waiting"}
  OBVIOUS
<1>4. DOMAIN approvals' = {r \in Requests : phase'[r] = "waiting"}
  BY <1>1, <1>3 DEF Stages
<1>5. \A r \in DOMAIN approvals' : approvals'[r] = "granted" => status'[r] = "granted"
  BY <1>1 DEF Stages
<1>6. \A r \in Requests : phase'[r] \in {"raising", "granted"} => status'[r] = "granted"
  BY <1>1 DEF Stages
<1>7. \A k \in App!Carriers : \A r \in reply'[k].answers : status'[r] \in {"granted", "denied"}
  BY <1>1, <1>2 DEF Stages
<1>8. awaiting' = Cardinality(DOMAIN approvals')
  BY <1>1 DEF Stages
<1> QED BY <1>4, <1>5, <1>6, <1>7, <1>8 DEF Stages

(* A call moves from one place to another.                                 *)
LEMMA AtMoves ==
  ASSUME Asked, NEW r \in Requests,
         NEW here, NEW next \in {"posting", "waiting", "raising", "granted", "denied"},
         App!At(r, here, next)
  PROVE  /\ phase[r] = here
         /\ phase' \in [Requests ->
                        {"idle", "posting", "waiting", "raising", "granted", "denied"}]
         /\ \A x \in Requests : phase'[x] = IF x = r THEN next ELSE phase[x]
BY DEF App!At, Asked, App!TypeOK

(* A call asks, or is turned away without being heard; its caller may be   *)
(* gone; the server stores a request, or has it denied or expire.          *)
LEMMA UnheardInv ==
  ASSUME Asked, NEW r \in Requests,
         \/ App!Ask(r) \/ App!Reject(r) \/ App!Desert(r) \/ App!Store(r)
         \/ \E away \in {"denied", "expired"} : App!Turn(r, away)
  PROVE  Asked'
<1>1. UNCHANGED <<budget, approvals, awaiting, acked, read, applying, reply, granted, limit, knows>>
  BY DEF App!Ask, App!Reject, App!Desert, App!Store, App!Turn, App!sdk, App!calls, App!carriers,
         App!server
<1>2. /\ phase' \in [Requests -> {"idle", "posting", "waiting", "raising", "granted", "denied"}]
      /\ \A x \in Requests : \/ phase'[x] = phase[x]
                             \/ phase'[x] \in {"posting", "denied"} /\ phase[x] \in {"idle", "posting"}
  <2>1. CASE App!Ask(r)
    <3>1. PICK next \in {"posting", "denied"} : App!At(r, "idle", next)
      BY <2>1 DEF App!Ask
    <3> QED BY <3>1, AtMoves
  <2>2. CASE App!Reject(r)
    <3>1. App!At(r, "posting", "denied")
      BY <2>2 DEF App!Reject
    <3> QED BY <3>1, AtMoves
  <2>3. CASE phase' = phase
    BY <2>3 DEF Asked, App!TypeOK
  <2> QED BY <2>1, <2>2, <2>3 DEF App!Desert, App!Store, App!Turn, App!calls
<1>3. /\ status' \in [Requests -> {"unknown", "open", "granted", "denied", "expired"}]
      /\ \A x \in Requests : status[x] \in {"granted", "denied"} => status'[x] = status[x]
  BY DEF App!Ask, App!Reject, App!Desert, App!Store, App!Turn, App!server, Asked, App!TypeOK
<1>4. supported' \in BOOLEAN
  BY DEF App!Ask, App!Reject, App!Desert, App!Store, App!Turn, App!sdk, Asked, App!TypeOK
<1>5. deserted' \subseteq Requests
  BY DEF App!Ask, App!Reject, App!Desert, App!Store, App!Turn, App!calls, Asked, App!TypeOK
<1>6. App!TypeOK'
  BY <1>1, <1>2, <1>3, <1>4, <1>5 DEF Asked, App!TypeOK
<1>7. Stages'
  BY <1>1, <1>2, <1>3, NoneHeard
<1>8. Raisers' = Raisers
  BY <1>2 DEF Raisers
<1>9. Twice'
  BY <1>1, <1>2, <1>8, NoneRaised
<1> QED BY <1>6, <1>7, <1>9 DEF Asked

(* The call waits from here on.                                            *)
LEMMA RegisterInv ==
  ASSUME App!ApprovalsAssumption, Asked, NEW r \in Requests, App!Register(r)
  PROVE  Asked'
<1>1. /\ App!At(r, "posting", "waiting") /\ awaiting' = awaiting + 1
      /\ approvals' = [x \in DOMAIN approvals \cup {r} |-> IF x = r THEN "none" ELSE approvals[x]]
      /\ UNCHANGED <<budget, acked, supported, deserted, read, applying, reply, status, granted,
                     limit, knows>>
  BY DEF App!Register, App!carriers, App!server
<1>2. /\ phase[r] = "posting"
      /\ phase' \in [Requests -> {"idle", "posting", "waiting", "raising", "granted", "denied"}]
      /\ \A x \in Requests : phase'[x] = IF x = r THEN "waiting" ELSE phase[x]
  BY <1>1, AtMoves
<1>3. DOMAIN approvals = {x \in Requests : phase[x] = "waiting"} /\ Stages
  BY DEF Asked, Stages
<1>4. DOMAIN approvals' = DOMAIN approvals \cup {r}
      /\ \A x \in DOMAIN approvals' : approvals'[x] = IF x = r THEN "none" ELSE approvals[x]
  BY <1>1
<1>5. awaiting' = Cardinality(DOMAIN approvals')
  <2>1. IsFiniteSet(DOMAIN approvals)
    BY <1>3, AppFacts, FS_Subset
  <2>2. r \notin DOMAIN approvals
    BY <1>2, <1>3
  <2>3. Cardinality(DOMAIN approvals \cup {r}) = Cardinality(DOMAIN approvals) + 1
    BY <2>1, <2>2, FS_AddElement
  <2> QED BY <1>1, <1>3, <1>4, <2>3 DEF Stages
<1>6. App!TypeOK'
  BY <1>1, <1>2, <1>4 DEF Asked, App!TypeOK
<1>7. Stages'
  <2>1. DOMAIN approvals' = {x \in Requests : phase'[x] = "waiting"}
    BY <1>2, <1>3, <1>4
  <2>2. \A x \in DOMAIN approvals' : approvals'[x] = "granted" => status'[x] = "granted"
    BY <1>1, <1>3, <1>4 DEF Stages
  <2>3. \A x \in Requests : phase'[x] \in {"raising", "granted"} => status'[x] = "granted"
    BY <1>1, <1>2, <1>3 DEF Stages
  <2> QED BY <1>1, <1>3, <1>5, <2>1, <2>2, <2>3 DEF Stages
<1>8. Raisers' = Raisers
  BY <1>2 DEF Raisers
<1>9. Twice'
  BY <1>1, <1>2, <1>8, NoneRaised
<1> QED BY <1>6, <1>7, <1>9 DEF Asked

LEMMA Below ==
  ASSUME NEW a \in Nat, NEW b \in Nat, NEW c \in Nat, NEW d \in Nat, a <= b + c, c <= d
  PROVE  a <= b + d
OBVIOUS

LEMMA Higher ==
  ASSUME NEW a \in Nat, NEW b \in Nat, NEW c \in Nat, NEW d \in Nat, a <= b + c, b <= d
  PROVE  a <= d + c
OBVIOUS

(* It waits no longer; a grant it heard of is about to raise the budget.   *)
LEMMA AnswerInv ==
  ASSUME App!ApprovalsAssumption, Asked, NEW r \in Requests, r \in DOMAIN approvals, App!Answer(r)
  PROVE  Asked'
<1> DEFINE raises == approvals[r] = "granted" /\ granted[r] > 0 /\ budget # NoBudget
<1>1. /\ App!At(r, "waiting", IF raises THEN "raising"
                              ELSE IF approvals[r] = "granted" THEN "granted" ELSE "denied")
      /\ awaiting' = awaiting - 1
      /\ approvals' = [x \in DOMAIN approvals \ {r} |-> approvals[x]]
      /\ read' = (IF raises THEN [read EXCEPT ![r] = budget] ELSE read)
      /\ UNCHANGED <<budget, acked, supported, deserted, applying, reply, status, granted, limit,
                     knows>>
  BY DEF App!Answer, App!carriers, App!server
<1>2. PICK next \in {"raising", "granted", "denied"} :
         /\ App!At(r, "waiting", next)
         /\ next = "raising" <=> raises
         /\ next # "denied" => approvals[r] = "granted"
         /\ next = "granted" => granted[r] = 0 \/ budget = NoBudget
  <2>1. granted[r] \in Nat
    BY RaisedType DEF Asked
  <2> QED BY <1>1, <2>1
<1> HIDE DEF raises
<1>3. /\ phase[r] = "waiting"
      /\ phase' \in [Requests -> {"idle", "posting", "waiting", "raising", "granted", "denied"}]
      /\ \A x \in Requests : phase'[x] = IF x = r THEN next ELSE phase[x]
  BY <1>2, AtMoves
<1>4. /\ DOMAIN approvals = {x \in Requests : phase[x] = "waiting"} /\ Stages /\ Twice
      /\ budget \in Nat \cup {NoBudget} /\ limit \in Nat \cup {NoBudget}
      /\ read \in [Requests -> Nat] /\ NoBudget \notin Int
  BY AppFacts DEF Asked, Stages, App!TypeOK, App!Budget
<1>5. DOMAIN approvals' = DOMAIN approvals \ {r}
      /\ \A x \in DOMAIN approvals' : approvals'[x] = approvals[x]
  BY <1>1
<1>6. awaiting' = Cardinality(DOMAIN approvals') /\ awaiting' \in Nat
  <2>1. IsFiniteSet(DOMAIN approvals)
    BY <1>4, AppFacts, FS_Subset
  <2>2. IsFiniteSet(DOMAIN approvals \ {r})
        /\ Cardinality(DOMAIN approvals \ {r}) = Cardinality(DOMAIN approvals) - 1
    BY <2>1, FS_RemoveElement
  <2> QED BY <1>1, <1>4, <1>5, <2>2, FS_CardinalityType DEF Stages
<1>7. read' \in [Requests -> Nat] /\ \A x \in Requests : x # r => read'[x] = read[x]
  BY <1>1, <1>4 DEF raises
<1>8. App!TypeOK'
  <2>1. DOMAIN approvals' \subseteq Requests
        /\ \A x \in DOMAIN approvals' : approvals'[x] \in {"none", "granted", "denied"}
    BY <1>5 DEF Asked, App!TypeOK
  <2> QED BY <1>1, <1>3, <1>6, <1>7, <2>1 DEF Asked, App!TypeOK
<1>9. Stages'
  <2>1. DOMAIN approvals' = {x \in Requests : phase'[x] = "waiting"}
    BY <1>3, <1>4, <1>5
  <2>2. \A x \in DOMAIN approvals' : approvals'[x] = "granted" => status'[x] = "granted"
    BY <1>1, <1>4, <1>5 DEF Stages
  <2>3. \A x \in Requests : phase'[x] \in {"raising", "granted"} => status'[x] = "granted"
    BY <1>1, <1>2, <1>3, <1>4 DEF Stages
  <2> QED BY <1>1, <1>4, <1>6, <2>1, <2>2, <2>3 DEF Stages
<1>10. /\ granted \in [Requests -> Nat] /\ Raised \in Nat /\ Raised' \in Nat
       /\ granted' = granted
  BY <1>1, RaisedType DEF Asked, Raised
<1>11. Raised <= Raised'
  <2>1. \A x \in Requests : Within(granted, Raisers)[x] <= Within(granted, Raisers')[x]
    BY <1>3, <1>10 DEF Within, Raisers
  <2>2. /\ Within(granted, Raisers) \in [Requests -> Nat]
        /\ Within(granted, Raisers') \in [Requests -> Nat]
    BY <1>10 DEF Within
  <2>3. Total(Within(granted, Raisers)) <= Total(Within(granted, Raisers'))
    BY <2>1, <2>2, AppFacts, TotalMonotone
  <2> QED BY <1>10, <2>3 DEF Raised
<1>12. Twice'
  <2>1. ASSUME NEW x \in Requests, phase'[x] = "raising"
        PROVE  limit' # NoBudget /\ read'[x] <= limit' + Raised'
    <3>1. CASE x = r
      <4>1. raises
        BY <1>2, <1>3, <2>1, <3>1
      <4>2. read'[r] = budget /\ budget \in Nat /\ budget <= limit + Raised /\ limit # NoBudget
        BY <1>1, <1>4, <4>1 DEF raises, Twice
      <4> QED BY <1>1, <1>4, <1>10, <1>11, <3>1, <4>2
    <3>2. CASE x # r
      <4>1. limit # NoBudget /\ read[x] <= limit + Raised /\ read[x] \in Nat
        BY <1>3, <1>4, <2>1, <3>2 DEF Twice
      <4> QED BY <1>1, <1>4, <1>7, <1>10, <1>11, <3>2, <4>1
    <3> QED BY <3>1, <3>2
  <2>2. budget' # NoBudget => budget' <= limit' + Raised'
    <3> SUFFICES ASSUME budget # NoBudget PROVE budget <= limit + Raised'
      BY <1>1
    <3>1. budget \in Nat /\ limit \in Nat /\ budget <= limit + Raised
      BY <1>4 DEF Twice
    <3>2. Raised \in Nat /\ Raised' \in Nat
      BY <1>10
    <3> QED BY <1>11, <3>1, <3>2, Below
  <2>3. /\ budget' = NoBudget <=> limit' = NoBudget
        /\ \A k \in App!Carriers :
              reply'[k].budget # NoBudget => limit' # NoBudget /\ reply'[k].budget <= limit'
    BY <1>1, <1>4 DEF Twice
  <2> QED BY <2>1, <2>2, <2>3 DEF Twice
<1> QED BY <1>8, <1>9, <1>12 DEF Asked

(* What was granted is added to the budget read before, whatever the       *)
(* budget is by now.                                                       *)
LEMMA RaiseInv ==
  ASSUME App!ApprovalsAssumption, Asked, NEW r \in Requests, App!Raise(r)
  PROVE  Asked'
<1>1. /\ App!At(r, "raising", "granted") /\ budget' = read[r] + granted[r]
      /\ read' = [read EXCEPT ![r] = 0]
      /\ UNCHANGED <<approvals, awaiting, acked, supported, deserted, applying, reply, status,
                     granted, limit, knows>>
  BY DEF App!Raise, App!carriers, App!server
<1>2. /\ phase[r] = "raising"
      /\ phase' \in [Requests -> {"idle", "posting", "waiting", "raising", "granted", "denied"}]
      /\ \A x \in Requests : phase'[x] = IF x = r THEN "granted" ELSE phase[x]
  BY <1>1, AtMoves
<1>3. /\ read \in [Requests -> Nat] /\ limit \in Nat \cup {NoBudget} /\ Stages /\ Twice
      /\ NoBudget \notin Int
  BY AppFacts DEF Asked, App!TypeOK, App!Budget
<1>4. /\ granted \in [Requests -> Nat] /\ Raised \in Nat /\ Raised' \in Nat
  BY <1>1, RaisedType DEF Asked, Raised
<1>5. Raised' = Raised + granted[r]
  <2>1. \A d \in Requests \ {r} : (d \in Raisers <=> d \in Raisers')
    BY <1>2 DEF Raisers
  <2>2. r \notin Raisers /\ r \in Raisers'
    BY <1>2 DEF Raisers
  <2>3. Total(Within(granted, Raisers')) + 0 = Total(Within(granted, Raisers)) + granted[r]
    <3> HIDE DEF Raisers
    <3>1. Total(Within(granted, Raisers')) + (IF r \in Raisers THEN granted[r] ELSE 0)
            = Total(Within(granted, Raisers)) + (IF r \in Raisers' THEN granted[r] ELSE 0)
      BY <1>4, <2>1, AppFacts, TotalMove
    <3> QED BY <2>2, <3>1
  <2> QED BY <1>1, <1>4, <2>3 DEF Raised
<1>6. budget' \in Nat /\ read' \in [Requests -> Nat] /\ granted[r] \in Nat /\ read[r] \in Nat
  BY <1>1, <1>3, <1>4
<1>7. App!TypeOK'
  BY <1>1, <1>2, <1>6 DEF Asked, App!TypeOK, App!Budget
<1>8. Stages'
  <2>1. {x \in Requests : phase'[x] = "waiting"} = {x \in Requests : phase[x] = "waiting"}
    BY <1>2
  <2>2. \A x \in Requests : phase'[x] \in {"raising", "granted"} => status'[x] = "granted"
    BY <1>1, <1>2, <1>3 DEF Stages
  <2> QED BY <1>1, <1>3, <2>1, <2>2 DEF Stages
<1>9. limit \in Nat /\ read[r] <= limit + Raised
  BY <1>2, <1>3 DEF Twice
<1>10. Twice'
  <2>1. ASSUME NEW x \in Requests, phase'[x] = "raising"
        PROVE  limit' # NoBudget /\ read'[x] <= limit' + Raised'
    <3>1. x # r /\ read'[x] = read[x] /\ read[x] \in Nat /\ read[x] <= limit + Raised
      BY <1>1, <1>2, <1>3, <2>1 DEF Twice
    <3> QED BY <1>1, <1>3, <1>4, <1>5, <1>6, <1>9, <3>1
  <2>2. budget' <= limit' + Raised'
    BY <1>1, <1>4, <1>5, <1>6, <1>9
  <2>3. \A k \in App!Carriers :
          reply'[k].budget # NoBudget => limit' # NoBudget /\ reply'[k].budget <= limit'
    BY <1>1, <1>3 DEF Twice
  <2>4. budget' # NoBudget /\ limit' # NoBudget
    BY <1>1, <1>3, <1>6, <1>9
  <2> QED BY <2>1, <2>2, <2>3, <2>4 DEF Twice
<1> QED BY <1>7, <1>8, <1>10 DEF Asked

(* A person grants an amount, once, before any call can have heard of it.  *)
LEMMA GrantInv ==
  ASSUME App!ApprovalsAssumption, Asked, NEW r \in Requests, NEW amount \in 0 .. MaxAmount,
         App!Grant(r, amount)
  PROVE  Asked'
<1>1. /\ status[r] = "open" /\ status' = [status EXCEPT ![r] = "granted"]
      /\ granted' = [granted EXCEPT ![r] = amount]
      /\ limit' = (IF limit = NoBudget THEN limit ELSE limit + amount)
      /\ UNCHANGED <<budget, approvals, awaiting, acked, supported, phase, deserted, read, applying,
                     reply, knows>>
  BY DEF App!Grant, App!sdk, App!calls, App!carriers
<1>2. /\ budget \in Nat \cup {NoBudget} /\ limit \in Nat \cup {NoBudget} /\ read \in [Requests -> Nat]
      /\ \A k \in App!Carriers : reply[k].budget \in Nat \cup {NoBudget}
      /\ \A k \in App!Carriers : reply[k].answers \subseteq Requests
      /\ DOMAIN approvals \subseteq Requests /\ Stages /\ Twice
      /\ amount \in Nat /\ NoBudget \notin Int /\ MaxAmount \in Nat
  BY AppFacts DEF Asked, App!TypeOK, App!Budget
<1>3. /\ status' \in [Requests -> {"unknown", "open", "granted", "denied", "expired"}]
      /\ \A x \in Requests : status[x] \in {"granted", "denied"} => status'[x] = status[x]
  BY <1>1 DEF Asked, App!TypeOK
<1>4. limit' \in Nat \cup {NoBudget} /\ granted' \in [Requests -> 0 .. MaxAmount]
      /\ (limit' = NoBudget <=> limit = NoBudget)
      /\ (limit # NoBudget => limit \in Nat /\ limit' \in Nat /\ limit <= limit')
  BY <1>1, <1>2 DEF Asked, App!TypeOK
<1>5. App!TypeOK'
  BY <1>1, <1>3, <1>4 DEF Asked, App!TypeOK, App!Budget
<1>6. Stages'
  BY <1>1, <1>3, NoneHeard
<1>7. /\ granted \in [Requests -> Nat] /\ granted' \in [Requests -> Nat]
      /\ Raised \in Nat
  BY <1>2, <1>4, RaisedType DEF Asked, Raised
<1>8. Raised' = Raised
  <2>1. r \notin Raisers /\ Raisers' = Raisers
    BY <1>1, <1>2 DEF Raisers, Stages
  <2>2. Within(granted', Raisers) = Within(granted, Raisers)
    <3>1. \A x \in Requests : x \in Raisers => granted'[x] = granted[x]
      BY <1>1, <1>7, <2>1
    <3>2. DOMAIN granted' = Requests /\ DOMAIN granted = Requests
      BY <1>7
    <3> QED BY <3>1, <3>2 DEF Within
  <2> QED BY <2>1, <2>2 DEF Raised
<1>9. Twice'
  <2>1. ASSUME NEW x \in Requests, phase'[x] = "raising"
        PROVE  limit' # NoBudget /\ read'[x] <= limit' + Raised'
    <3>1. limit # NoBudget /\ read[x] <= limit + Raised /\ read[x] \in Nat
      BY <1>1, <1>2, <2>1 DEF Twice
    <3> QED BY <1>1, <1>4, <1>7, <1>8, <3>1
  <2>2. ASSUME budget # NoBudget PROVE budget <= limit' + Raised'
    <3>1. budget \in Nat /\ limit # NoBudget /\ budget <= limit + Raised
      BY <1>2, <2>2 DEF Twice
    <3>2. limit \in Nat /\ limit' \in Nat /\ limit <= limit'
      BY <1>4, <3>1
    <3>3. budget <= limit' + Raised
      <4>1. Raised \in Nat
        BY <1>7
      <4> QED BY <3>1, <3>2, <4>1, Higher
    <3> QED BY <1>8, <3>3
  <2>3. ASSUME NEW k \in App!Carriers, reply[k].budget # NoBudget
        PROVE  limit' # NoBudget /\ reply[k].budget <= limit'
    <3>1. reply[k].budget \in Nat /\ limit # NoBudget /\ reply[k].budget <= limit
      BY <1>2, <2>3 DEF Twice
    <3> QED BY <1>4, <3>1
  <2>4. budget = NoBudget <=> limit' = NoBudget
    BY <1>2, <1>4 DEF Twice
  <2> QED BY <1>1, <2>1, <2>2, <2>3, <2>4 DEF Twice
<1> QED BY <1>5, <1>6, <1>9 DEF Asked

(* A reply says what the server's budget is, and who was answered.         *)
LEMMA AppSendInv ==
  ASSUME Asked, NEW k \in App!Carriers, App!Send(k)
  PROVE  Asked'
<1> DEFINE told == [budget |-> limit, answers |-> {r \in Requests : status[r] \in {"granted", "denied"}}]
<1>1. /\ applying' = [applying EXCEPT ![k] = "limits"] /\ reply' = [reply EXCEPT ![k] = told]
      /\ UNCHANGED <<budget, approvals, awaiting, acked, supported, phase, deserted, read, status,
                     granted, limit, knows>>
  BY DEF App!Send, App!sdk, App!calls, App!server
<1>2. told \in [budget : App!Budget, answers : SUBSET Requests]
  BY DEF Asked, App!TypeOK
<1>3. App!TypeOK'
  BY <1>1, <1>2 DEF Asked, App!TypeOK
<1>4. \A j \in App!Carriers : reply'[j] = IF j = k THEN told ELSE reply[j]
  BY <1>1 DEF Asked, App!TypeOK
<1>5. Stages'
  <2>1. \A j \in App!Carriers : \A r \in reply'[j].answers : status'[r] \in {"granted", "denied"}
    BY <1>1, <1>4 DEF Asked, Stages
  <2> QED BY <1>1, <2>1 DEF Asked, Stages
<1>6. Twice'
  <2>1. told.budget = limit
    OBVIOUS
  <2>2. \A j \in App!Carriers : reply'[j].budget \in {NoBudget, limit, reply[j].budget}
    <3> HIDE DEF told
    <3> QED BY <1>4, <2>1
  <2>3. Raisers' = Raisers
    BY <1>1 DEF Raisers
  <2> QED BY <1>1, <2>2, <2>3, NoneRaised
<1> QED BY <1>3, <1>5, <1>6 DEF Asked

(* The budget becomes the server's, as it was when the reply was sent.     *)
LEMMA ApplyLimitsInv ==
  ASSUME App!ApprovalsAssumption, Asked, NEW k \in App!Carriers, App!ApplyLimits(k)
  PROVE  Asked'
<1>1. /\ applying' = [applying EXCEPT ![k] = "answers"]
      /\ budget' = (IF reply[k].budget # NoBudget THEN reply[k].budget ELSE budget)
      /\ UNCHANGED <<approvals, awaiting, acked, supported, phase, deserted, read, reply, status,
                     granted, limit, knows>>
  BY DEF App!ApplyLimits, App!Limit, App!calls, App!server
<1>2. /\ budget \in App!Budget /\ reply[k].budget \in App!Budget /\ Stages /\ Twice
      /\ limit \in Nat \cup {NoBudget} /\ NoBudget \notin Int /\ Raised \in Nat
  BY AppFacts, RaisedType DEF Asked, App!TypeOK, App!Budget, Raised
<1>3. App!TypeOK'
  BY <1>1, <1>2 DEF Asked, App!TypeOK
<1>4. Stages'
  BY <1>1, <1>2 DEF Stages
<1>5. Raised' = Raised
  BY <1>1 DEF Raised, Raisers
<1>6. CASE reply[k].budget = NoBudget
  <2>1. budget' = budget
    BY <1>1, <1>6
  <2> QED BY <1>1, <1>2, <1>3, <1>4, <1>5, <2>1 DEF Asked, Twice
<1>7. CASE reply[k].budget # NoBudget
  <2>1. /\ limit \in Nat /\ limit # NoBudget /\ budget' = reply[k].budget
        /\ budget' \in Nat /\ budget' <= limit
    BY <1>1, <1>2, <1>7 DEF Twice, App!Budget
  <2>2. budget' # NoBudget /\ budget' <= limit + Raised
    BY <1>2, <2>1
  <2> QED BY <1>1, <1>2, <1>3, <1>4, <1>5, <2>1, <2>2 DEF Asked, Twice
<1> QED BY <1>6, <1>7

(* Who waits hears its answer; no budget is touched, however often it is   *)
(* sent.                                                                   *)
LEMMA ApplyAnswersInv ==
  ASSUME Asked, NEW k \in App!Carriers, App!ApplyAnswers(k)
  PROVE  Asked'
<1>1. /\ applying' = [applying EXCEPT ![k] = "idle"]
      /\ reply' = [reply EXCEPT ![k] = [budget |-> NoBudget, answers |-> {}]]
      /\ approvals' = [r \in DOMAIN approvals |->
                          IF r \in reply[k].answers THEN status[r] ELSE approvals[r]]
      /\ acked' = acked \cup reply[k].answers
      /\ UNCHANGED <<budget, awaiting, supported, phase, deserted, read, status, granted, limit,
                     knows>>
  BY DEF App!ApplyAnswers, App!Done, App!Heard, App!calls, App!server
<1>2. \A j \in App!Carriers :
         reply'[j] = IF j = k THEN [budget |-> NoBudget, answers |-> {}] ELSE reply[j]
  BY <1>1 DEF Asked, App!TypeOK
<1>3. /\ Stages /\ reply[k].answers \subseteq Requests
      /\ \A r \in reply[k].answers : status[r] \in {"granted", "denied"}
  BY DEF Asked, App!TypeOK, Stages
<1>4. /\ DOMAIN approvals' = DOMAIN approvals /\ DOMAIN approvals \subseteq Requests
      /\ \A r \in DOMAIN approvals :
            approvals'[r] = IF r \in reply[k].answers THEN status[r] ELSE approvals[r]
  BY <1>1 DEF Asked, App!TypeOK
<1>5. App!TypeOK'
  <2>1. \A r \in DOMAIN approvals' : approvals'[r] \in {"none", "granted", "denied"}
    BY <1>3, <1>4 DEF Asked, App!TypeOK
  <2>2. /\ reply' \in [App!Carriers -> [budget : App!Budget, answers : SUBSET Requests]]
        /\ applying' \in [App!Carriers -> {"idle", "limits", "answers"}]
        /\ acked' \subseteq Requests
    <3>1. [budget |-> NoBudget, answers |-> {}] \in [budget : App!Budget, answers : SUBSET Requests]
      BY DEF App!Budget
    <3> QED BY <1>1, <1>3, <3>1 DEF Asked, App!TypeOK
  <2> QED BY <1>1, <1>4, <2>1, <2>2 DEF Asked, App!TypeOK
<1>6. Stages'
  <2>1. \A j \in App!Carriers : \A r \in reply'[j].answers : status'[r] \in {"granted", "denied"}
    BY <1>1, <1>2, <1>3 DEF Stages
  <2>2. \A r \in DOMAIN approvals' : approvals'[r] = "granted" => status'[r] = "granted"
    BY <1>1, <1>3, <1>4 DEF Stages
  <2> QED BY <1>1, <1>3, <1>4, <2>1, <2>2 DEF Stages
<1>7. Twice'
  <2>1. \A j \in App!Carriers : reply'[j].budget \in {NoBudget, limit, reply[j].budget}
    BY <1>2
  <2>2. Raisers' = Raisers
    BY <1>1 DEF Raisers
  <2> QED BY <1>1, <2>1, <2>2, NoneRaised
<1> QED BY <1>5, <1>6, <1>7 DEF Asked

LEMMA AppStutterInv ==
  ASSUME Asked, UNCHANGED App!vars
  PROVE  Asked'
<1>1. UNCHANGED <<budget, approvals, awaiting, acked, supported, phase, deserted, read, applying,
                  reply, status, granted, limit, knows>>
  BY DEF App!vars, App!sdk, App!calls, App!carriers, App!server
<1>2. App!TypeOK'
  BY <1>1 DEF Asked, App!TypeOK
<1>3. Stages'
  BY <1>1 DEF Asked, Stages
<1>4. Raised' = Raised
  BY <1>1 DEF Raised, Raisers
<1>5. Twice'
  BY <1>1, <1>4 DEF Asked, Twice
<1> QED BY <1>2, <1>3, <1>5 DEF Asked

LEMMA AppNextInv ==
  ASSUME App!ApprovalsAssumption, Asked, [App!Next]_(App!vars)
  PROVE  Asked'
<1>1. ASSUME NEW r \in Requests, App!Hear(r) \/ App!TimeOut(r) PROVE Asked'
  BY <1>1, AnswerInv DEF App!Hear, App!TimeOut
<1> QED BY <1>1, AppStutterInv, UnheardInv, RegisterInv, RaiseInv, GrantInv, AppSendInv,
           ApplyLimitsInv, ApplyAnswersInv DEF App!Next

(* What waits and what was answered agree, and no budget on its way is     *)
(* more than the server's and what was raised here (_ask, _answer, apply). *)
THEOREM ApprovalsInv ==
  ASSUME App!ApprovalsAssumption
  PROVE  App!Spec => []Asked
<1>1. App!Init => Asked
  BY AppInitInv
<1>2. Asked /\ [App!Next]_(App!vars) => Asked'
  BY AppNextInv
<1> QED BY <1>1, <1>2, PTL DEF App!Spec

(* Every variable keeps to its type: awaiting never goes below zero.       *)
THEOREM ApprovalsTypeOK ==
  ASSUME App!ApprovalsAssumption
  PROVE  App!Spec => []App!TypeOK
BY ApprovalsInv, PTL DEF Asked

(* A grant is counted twice at most, in the server's limits and by the     *)
(* call that got it: no answer sent again, and no call told "denied",      *)
(* raises the run's budget (_answer, apply).                               *)
THEOREM ApprovalsCountedAtMostTwice ==
  ASSUME App!ApprovalsAssumption
  PROVE  App!Spec => []App!CountedAtMostTwice
<1>1. ASSUME Asked PROVE App!CountedAtMostTwice
  <2>1. App!Total(App!Within(granted, {r \in Requests : phase[r] = "granted"})) = Raised
    BY AppFacts DEF Raised, Raisers
  <2> QED BY <1>1, <2>1 DEF Asked, Twice, App!CountedAtMostTwice
<1> QED BY <1>1, ApprovalsInv, PTL
=============================================================================
