-------------------------------- MODULE Hold --------------------------------
(***************************************************************************)
(* Waiting in a run: at a limit with on_breach="hold", and while paused    *)
(* from the dashboard (core.py, precheck.py, control.py).  The calls of    *)
(* one run, checkpoints and model calls, share the RunState flags paused,  *)
(* pause_expired, held, stopped and last_breach; the heartbeat thread      *)
(* reports them and changes them when a command arrives, between any two   *)
(* steps of a call, so that a command may answer a report the run has left *)
(* behind.                                                                 *)
(***************************************************************************)
EXTENDS Naturals, FiniteSets

CONSTANTS
    Calls,      \* the checkpoints and model calls of the run
    Parallel,   \* how many of them the agent makes at a time
    Pauses      \* whether the operator pauses the run, besides the holds

ASSUME HoldAssumption == Parallel \in Nat \ {0} /\ Pauses \in BOOLEAN

VARIABLES
    paused, pauseExpired, held, stopped, stopSeen, lastBreach,  \* as in RunState
    at,         \* per call: how far it got
    kind,       \* per call: what it would wait for
    result,     \* per call: what the agent got back
    wanted,     \* the operator's pause at the server: never, in force, taken back
    sent,       \* how far a resume got: report being made, at the server, in a reply
    acted,      \* history: an operator resumed the run while the breach was held
    expired,    \* history: the call's own deadline ended its wait
    together,   \* history: calls that were in a hold while another held or waited
    crossed     \* history: calls whose hold began with a report or resume on its way

runState == <<paused, pauseExpired, held, stopped, stopSeen, lastBreach>>
server   == <<wanted, sent>>
history  == <<acted, expired, together, crossed>>
vars     == <<runState, at, kind, result, server, history>>

Kinds   == {"none", "breach", "budget", "pause"}
Results == {"none", "ok", "limit", "stopped_by_user", "paused"}
Phases  == {"idle", "limit", "clear", "short", "entering", "waiting", "woken",
            "released", "stopped", "timeout", "done"}

TypeOK ==
    /\ paused \in BOOLEAN /\ pauseExpired \in BOOLEAN /\ stopped \in BOOLEAN
    /\ stopSeen \in BOOLEAN
    /\ wanted \in {"never", "yes", "was"}
    /\ sent \in {"none", "paused", "report", "resume"}
    /\ held \in {"none", "breach", "budget"}
    /\ lastBreach \in {"none", "limit", "stopped_by_user", "paused"}
    /\ at \in [Calls -> Phases]
    /\ kind \in [Calls -> Kinds]
    /\ result \in [Calls -> Results]
    /\ acted \in SUBSET Calls /\ expired \in SUBSET Calls
    /\ together \in SUBSET Calls /\ crossed \in SUBSET Calls

Init ==
    /\ paused = FALSE /\ pauseExpired = FALSE /\ stopped = FALSE /\ stopSeen = FALSE
    /\ held = "none"
    /\ lastBreach = "none"
    /\ at = [c \in Calls |-> "idle"]
    /\ kind = [c \in Calls |-> "none"]
    /\ result = [c \in Calls |-> "none"]
    /\ wanted = "never" /\ sent = "none"
    /\ acted = {} /\ expired = {} /\ together = {} /\ crossed = {}

-----------------------------------------------------------------------------
(* What a call gets                                                        *)

(* The call is over and its caller gets r.                                 *)
Done(c, r) ==
    /\ at' = [at EXCEPT ![c] = "done"]
    /\ result' = [result EXCEPT ![c] = r]

Goto(c, p) ==
    /\ at' = [at EXCEPT ![c] = p]
    /\ UNCHANGED result

(* _result when last_breach is b: a stop comes first, and is now seen, then *)
(* a pause nobody resumed.                                                 *)
Sticky(b) ==
    IF stopped THEN "stopped_by_user" ELSE IF pauseExpired THEN "paused" ELSE b

(* Mutant: a reply that says ok clears a stop.                             *)
ResultTrustingReply(b) ==
    /\ lastBreach' = IF b = "none" THEN "none" ELSE Sticky(b)
    /\ stopSeen' = (stopSeen \/ stopped)
    /\ UNCHANGED <<paused, pauseExpired, held, stopped>>

(* _result: what it writes to the run.                                     *)
ResultWrites(b) ==
    /\ lastBreach' = Sticky(b)
    /\ stopSeen' = (stopSeen \/ stopped)
    /\ UNCHANGED <<paused, pauseExpired, held, stopped>>

AsResult(b) == IF b = "none" THEN "ok" ELSE b

(* Mutant: what limit was reached is all that counts.                      *)
HoldsAlways == TRUE

(* holds(run): on_breach is "hold" and the run isn't stopped.              *)
Holds == ~stopped

(* _gave_up: FencesStop, for the stop if there is one, else for the budget *)
GiveUp(c) ==
    IF stopped
    THEN ResultWrites(lastBreach) /\ Done(c, Sticky(lastBreach))
    ELSE /\ lastBreach' = "limit" /\ Done(c, "limit")
         /\ UNCHANGED <<paused, pauseExpired, held, stopped, stopSeen>>

-----------------------------------------------------------------------------
(* The steps of a call                                                     *)

Active == {c \in Calls : at[c] \notin {"idle", "done"}}

(* checkpoint: the server's reply is in and _decide has its verdict, b.    *)
Decide(c, b) ==
    /\ at[c] = "idle" /\ Cardinality(Active) < Parallel
    /\ ResultWrites(b)
    /\ kind' = [kind EXCEPT ![c] = IF b = "limit" THEN "breach" ELSE "pause"]
    /\ CASE Sticky(b) = "limit" -> Goto(c, "limit")
         [] Sticky(b) = "none"  -> Goto(c, "clear")
         [] OTHER               -> Done(c, Sticky(b))
    /\ UNCHANGED <<server, history>>

(* hold: _take finds no room for a model call's worst case.                *)
Short(c) ==
    /\ at[c] = "idle" /\ Cardinality(Active) < Parallel
    /\ kind' = [kind EXCEPT ![c] = "budget"]
    /\ Goto(c, "short")
    /\ UNCHANGED <<runState, server, history>>

(* A breach, or a call that doesn't fit: wait if the run holds.            *)
WaitOrLeave(c) ==
    /\ \/ /\ at[c] \in {"limit", "short"} /\ Holds
          /\ Goto(c, "entering")
          /\ UNCHANGED runState
       \/ /\ at[c] = "limit" /\ ~Holds
          /\ Done(c, "limit")
          /\ UNCHANGED runState
       \/ /\ at[c] = "short" /\ ~Holds
          /\ GiveUp(c)
    /\ UNCHANGED <<kind, server, history>>

(* The calls that wait, and the history of the holds beside another wait.  *)
Waiting == {c \in Calls : at[c] \in {"waiting", "woken"}}

Join(c) ==
    together' = together \cup
        IF Waiting = {} THEN {} ELSE {d \in Waiting \cup {c} : kind[d] # "pause"}

(* No breach: wait if the run is paused.                                   *)
Clear(c) ==
    /\ at[c] = "clear"
    /\ IF paused
       THEN Goto(c, "waiting") /\ Join(c)
       ELSE Done(c, "ok") /\ UNCHANGED together
    /\ UNCHANGED <<runState, kind, server, acted, expired, crossed>>

(* start_hold, then the wait begins; whatever answers an earlier report is *)
(* still on its way.                                                       *)
StartHold(c) ==
    /\ at[c] = "entering"
    /\ held' = kind[c]
    /\ paused' = TRUE
    /\ Goto(c, "waiting")
    /\ acted' = acted \ {c} /\ expired' = expired \ {c}
    /\ crossed' = IF sent \in {"report", "resume"} THEN crossed \cup {c} ELSE crossed
    /\ Join(c)
    /\ UNCHANGED <<pauseExpired, stopped, stopSeen, lastBreach, kind, server>>

(* _pause_over: the call looks, and the run is no longer paused.           *)
Wake(c) ==
    /\ at[c] = "waiting" /\ ~paused
    /\ Goto(c, "woken")
    /\ UNCHANGED <<runState, kind, server, history>>

(* _pause_over: the run is still paused at the call's own deadline.        *)
Expire(c) ==
    /\ at[c] = "waiting" /\ paused
    /\ paused' = FALSE /\ pauseExpired' = TRUE
    /\ expired' = expired \cup {c}
    /\ Goto(c, "woken")
    /\ UNCHANGED <<held, stopped, stopSeen, lastBreach, kind, server, acted, together, crossed>>

(* Mutant: a hold that was stopped is taken for timed out or released.     *)
OutcomeUnlessStopped == IF pauseExpired THEN "timeout" ELSE "released"

(* end_hold: how the hold ended.                                           *)
Outcome == IF stopped THEN "stopped" ELSE IF pauseExpired THEN "timeout" ELSE "released"

(* Mutant: the flag a hold's timeout set stays, and turns into "paused".   *)
KeepFlag == UNCHANGED pauseExpired

(* A timeout's flag is taken down with the hold it ended.                  *)
LowerFlag == pauseExpired' = (pauseExpired /\ stopped)

(* end_hold, once the wait is over.                                        *)
EndHold(c) ==
    /\ at[c] = "woken" /\ kind[c] # "pause"
    /\ held' = "none"
    /\ Goto(c, Outcome)
    /\ LowerFlag
    /\ UNCHANGED <<paused, stopped, stopSeen, lastBreach, kind, server, history>>

(* checkpoint after a pause: _result as it now is.                         *)
EndPause(c) ==
    /\ at[c] = "woken" /\ kind[c] = "pause"
    /\ ResultWrites(lastBreach)
    /\ Done(c, AsResult(Sticky(lastBreach)))
    /\ UNCHANGED <<kind, server, history>>

(* _after_hold, with what end_hold found.                                  *)
AfterBreach(c) ==
    /\ kind[c] = "breach"
    /\ \/ /\ at[c] = "released"
          /\ lastBreach' = "none"
          /\ Done(c, "ok")
          /\ UNCHANGED <<paused, pauseExpired, held, stopped, stopSeen>>
       \/ /\ at[c] = "stopped"
          /\ ResultWrites(lastBreach)
          /\ Done(c, AsResult(Sticky(lastBreach)))
       \/ /\ at[c] = "timeout"
          /\ Done(c, "limit")
          /\ UNCHANGED runState
    /\ UNCHANGED <<kind, server, history>>

(* hold after end_hold: released, the call is checked again, and fits now  *)
(* or waits again; stopped or timed out, it is given up.                   *)
AfterBudget(c) ==
    /\ kind[c] = "budget"
    /\ \/ /\ at[c] = "released"
          /\ Done(c, "ok") \/ Goto(c, "short")
          /\ UNCHANGED runState
       \/ /\ at[c] \in {"stopped", "timeout"}
          /\ GiveUp(c)
    /\ UNCHANGED <<kind, server, history>>

Step(c) ==
    \/ WaitOrLeave(c)
    \/ Clear(c)
    \/ StartHold(c)
    \/ EndHold(c)
    \/ EndPause(c)
    \/ AfterBreach(c)
    \/ AfterBudget(c)

-----------------------------------------------------------------------------
(* Commands.  The server re-sends stop while the run is stopped_by_user,   *)
(* pause until the run reports paused, and resume while it reports paused, *)
(* not held, and no pause is in force; a held run only an operator         *)
(* resumes.  A command comes in the reply to a later heartbeat or          *)
(* checkpoint, and is applied as it comes, whatever the run does by then.  *)

(* Mutant: only the first stop wakes those who wait.                       *)
StopOnce ==
    /\ stopped' = TRUE
    /\ paused' = IF stopped THEN paused ELSE FALSE
    /\ UNCHANGED <<pauseExpired, held, stopSeen, lastBreach, at, kind, result, server, history>>

(* apply(stop), the first and every one re-sent.                           *)
Stop ==
    /\ stopped' = TRUE
    /\ paused' = FALSE
    /\ UNCHANGED <<pauseExpired, held, stopSeen, lastBreach, at, kind, result, server, history>>

(* The operator pauses the run, and takes the pause back.                  *)
OperatorPause ==
    /\ Pauses /\ wanted # "yes"
    /\ wanted' = "yes"
    /\ UNCHANGED <<runState, at, kind, result, sent, history>>

Unpause ==
    /\ wanted = "yes"
    /\ wanted' = "was"
    /\ UNCHANGED <<runState, at, kind, result, sent, history>>

(* apply(pause), which may have been taken back since it was sent.         *)
Pause ==
    /\ wanted # "never" /\ ~paused
    /\ paused' = TRUE
    /\ UNCHANGED <<pauseExpired, held, stopped, stopSeen, lastBreach, at, kind, result, server,
                   history>>

(* _heartbeat reads what it reports: first whether the run is paused, then *)
(* what holds it.                                                          *)
ReadPaused ==
    /\ sent = "none" /\ paused
    /\ sent' = "paused"
    /\ UNCHANGED <<runState, at, kind, result, wanted, history>>

(* Mutant: the report leaves out what holds the run.                       *)
ReadPausedOnly ==
    /\ sent = "paused"
    /\ sent' = "report"
    /\ UNCHANGED <<runState, at, kind, result, wanted, history>>

ReadHeld ==
    /\ sent = "paused"
    /\ sent' = IF held = "none" THEN "report" ELSE "none"
    /\ UNCHANGED <<runState, at, kind, result, wanted, history>>

(* The server answers the report of a run that is paused, not held, and    *)
(* should not be.                                                          *)
AutoResume ==
    /\ sent = "report" /\ wanted # "yes"
    /\ sent' = "resume"
    /\ UNCHANGED <<runState, at, kind, result, wanted, history>>

(* An operator releases a hold the dashboard shows; it may be over by now. *)
OperatorResume ==
    /\ \E c \in Calls : /\ kind[c] \in {"breach", "budget"}
                         /\ at[c] \notin {"limit", "short", "entering"}
    /\ sent' = "resume"
    /\ acted' = acted \cup {c \in Calls : at[c] = "waiting" /\ kind[c] = "breach"}
    /\ UNCHANGED <<runState, at, kind, result, wanted, expired, together, crossed>>

(* apply(resume), not necessarily for the last time: other replies may     *)
(* carry it too.                                                           *)
Resume ==
    /\ sent = "resume"
    /\ paused' = FALSE
    /\ sent' \in {"resume", "none"}
    /\ UNCHANGED <<pauseExpired, held, stopped, stopSeen, lastBreach, at, kind, result, wanted,
                   history>>

(* The report or the reply is lost, or answered without a resume.          *)
Unanswered ==
    /\ sent # "none"
    /\ sent' = "none"
    /\ UNCHANGED <<runState, at, kind, result, wanted, history>>

Command ==
    \/ Stop
    \/ OperatorPause \/ Unpause \/ Pause
    \/ ReadPaused \/ ReadHeld \/ AutoResume
    \/ OperatorResume
    \/ Resume \/ Unanswered

(* Every call was made and is over.                                        *)
Finished ==
    /\ \A c \in Calls : at[c] = "done"
    /\ UNCHANGED vars

Next ==
    \/ \E c \in Calls, b \in {"none", "limit"} : Decide(c, b)
    \/ \E c \in Calls : Short(c) \/ Step(c) \/ Wake(c) \/ Expire(c)
    \/ Command
    \/ Finished

Spec == Init /\ [][Next]_vars

(* Calls go on, and look every second at most, far more often than         *)
(* commands come (every two seconds at the fastest), so one that waits     *)
(* finds the run not paused if it is so again and again.  A stop is        *)
(* re-sent.  Nobody need resume, and no deadline need pass.                *)
Fairness ==
    /\ \A c \in Calls : WF_vars(Step(c)) /\ SF_vars(Wake(c))
    /\ WF_vars(stopped /\ Stop)

FairSpec == Spec /\ Fairness

-----------------------------------------------------------------------------
(* Properties                                                              *)

(* A checkpoint held at a breach returns ok only if an operator resumed    *)
(* the run while it waited ("a held run doesn't continue until a person    *)
(* acts"), whatever other calls, pauses and commands came before it or go  *)
(* on beside it, if no other call was held at the same time (then the end  *)
(* of one's wait releases the other), and no answer to a report from       *)
(* before its hold was on its way when that began: such a resume is        *)
(* applied like any other, as HeldUntilPerson says it should not be.       *)
AloneHeldUntilPerson ==
    \A c \in Calls \ (together \cup crossed) :
        kind[c] = "breach" /\ result[c] = "ok" => c \in acted

(* The same of every checkpoint that was held alone, which does not hold.  *)
HeldUntilPerson ==
    \A c \in Calls \ together : kind[c] = "breach" /\ result[c] = "ok" => c \in acted

(* A held call that ends with the limit it was held at, in a run nobody    *)
(* stopped, waited out its own deadline: a resume is never taken for a     *)
(* timeout.  (A pause that expired leaves pause_expired set, and a hold    *)
(* that starts after it does end as timed out.)                            *)
ResumeIsNoTimeout ==
    \A c \in Calls \ together :
        /\ kind[c] \in {"breach", "budget"} /\ result[c] = "limit" /\ ~stopped
        /\ \A d \in expired : kind[d] # "pause"
        => c \in expired

(* A call still waiting when the run is stopped never carries on as if it  *)
(* had been released, whatever ended its wait.                             *)
StopBeatsRelease ==
    [][\A c \in Calls : stopped /\ at[c] \in {"waiting", "woken"}
            => at'[c] # "released" /\ result'[c] # "ok"]_vars

(* Once the agent was told of a stop and its calls are over, last_breach   *)
(* still says the run breached ("a stop from the dashboard sticks"), but   *)
(* for a checkpoint released from its hold as the stop came.               *)
SeenStopSticks ==
    stopSeen /\ Active = {} /\ (\A c \in Calls : kind[c] = "breach" => result[c] # "ok")
        => lastBreach # "none"

(* A stop ends every wait: no call that waits, or is about to, stays past  *)
(* it, though it may begin to wait after the stop was applied.             *)
StopEndsHolds ==
    \A c \in Calls : (stopped /\ at[c] \in {"entering", "waiting"}) ~> at[c] = "done"

(* What that rests on: how many steps a call has left, at most, once the   *)
(* run is stopped.  Whatever happens beside it, no step takes a call back: *)
(* one that was released, found no room again and is short begins no other *)
(* hold, and one that found the run paused waits for the last time.        *)
StepsLeft ==
    [p \in Phases |->
        CASE p = "idle" -> 5
          [] p \in {"clear", "entering"} -> 4
          [] p = "waiting" -> 3
          [] p \in {"woken", "released"} -> 2
          [] p \in {"limit", "short", "stopped", "timeout"} -> 1
          [] p = "done" -> 0]

StopLeavesFewSteps ==
    [][stopped => \A c \in Calls : at'[c] # at[c] => StepsLeft[at'[c]] < StepsLeft[at[c]]]_vars
=============================================================================
