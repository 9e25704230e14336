-------------------------------- MODULE Halt --------------------------------
(***************************************************************************)
(* Halting synchronous runs that don't see their stop (control.py, and the *)
(* wrapper of core.py).  The heartbeat thread raises Halt in the agent's   *)
(* thread, which has room for one pending exception and takes it at any    *)
(* instruction.  Runs nest: an agent may call another governed function.   *)
(***************************************************************************)
EXTENDS Naturals, Sequences

CONSTANT Runs   \* governed calls made on one thread

VARIABLES
    stack,      \* the runs under way on the thread, outermost first
    pc,         \* per run: where its wrapper is
    exc,        \* per run: the exception its wrapper or its code has in hand
    live,       \* control._live
    armed,      \* runs whose RunState.thread is set
    stopped, stopSeen, cancelled,   \* runs with these flags set
    pending,    \* an exception waits to be raised in the thread
    looked,     \* the run whose stop _halt found unseen, holding _lock
    escaped     \* history: a Halt left the outermost governed call

runState == <<live, armed, stopped, stopSeen, cancelled>>
vars == <<stack, pc, exc, runState, pending, looked, escaped>>

Exceptions == {"none", "error", "FencesStop", "Halt"}

TypeOK ==
    /\ stack \in Seq(Runs)
    /\ pc \in [Runs -> {"off", "start", "code", "telling", "finally", "handler", "decide",
                        "cleanup", "over"}]
    /\ exc \in [Runs -> Exceptions]
    /\ live \in SUBSET Runs /\ armed \in SUBSET Runs
    /\ stopped \in SUBSET Runs /\ stopSeen \in SUBSET stopped /\ cancelled \in SUBSET stopped
    /\ pending \in BOOLEAN /\ escaped \in BOOLEAN
    /\ looked \in SUBSET Runs

Init ==
    /\ stack = <<>>
    /\ pc = [r \in Runs |-> "off"]
    /\ exc = [r \in Runs |-> "none"]
    /\ live = {} /\ armed = {} /\ stopped = {} /\ stopSeen = {} /\ cancelled = {}
    /\ pending = FALSE /\ escaped = FALSE
    /\ looked = {}

-----------------------------------------------------------------------------
Innermost(r) == stack # <<>> /\ stack[Len(stack)] = r

LockFree == looked = {}

(* The wrapper of r goes to p with exception e in hand.                    *)
Move(r, p, e) ==
    /\ pc' = [pc EXCEPT ![r] = p]
    /\ exc' = [exc EXCEPT ![r] = e]

(* _halted_outer: another run of the thread was halted and hasn't ended.   *)
HaltedOuter(r) == \E o \in armed \ {r} : o \in cancelled \ stopSeen

(* Mutant: whatever is pending is withdrawn, an outer run's halt too.      *)
DisarmAll(r) ==
    /\ armed' = armed \ {r}
    /\ pending' = (pending /\ ~(r \in cancelled \cap armed))

(* Mutant: a halt sent but not yet raised is left to land later.           *)
DisarmOnly(r) ==
    /\ armed' = armed \ {r}
    /\ UNCHANGED pending

(* disarm: no halt from here on, and one not yet raised is withdrawn,      *)
(* unless it is an outer run's.                                            *)
Disarm(r) ==
    /\ armed' = armed \ {r}
    /\ pending' = (pending /\ ~(r \in cancelled \cap armed /\ ~HaltedOuter(r)))

-----------------------------------------------------------------------------
(* The agent's thread                                                      *)

(* A governed function is called, by the innermost run's code or by none.  *)
(* register() comes first, in the caller's frame.                          *)
Start(r) ==
    /\ pc[r] = "off"
    /\ stack # <<>> => pc[stack[Len(stack)]] = "code"
    /\ stack' = Append(stack, r)
    /\ live' = live \cup {r}
    /\ Move(r, "start", "none")
    /\ UNCHANGED <<armed, stopped, stopSeen, cancelled, pending, looked, escaped>>

(* run.thread is set, and the agent's function is called.                  *)
Arm(r) ==
    /\ Innermost(r) /\ pc[r] = "start"
    /\ armed' = armed \cup {r}
    /\ Move(r, "code", "none")
    /\ UNCHANGED <<stack, live, stopped, stopSeen, cancelled, pending, looked, escaped>>

(* _result in a checkpoint: the run is stopped ...                         *)
Find(r) ==
    /\ Innermost(r) /\ pc[r] = "code" /\ r \in stopped
    /\ Move(r, "telling", "none")
    /\ UNCHANGED <<stack, runState, pending, looked, escaped>>

(* ... and from here on the agent has seen it.                             *)
Tell(r) ==
    /\ Innermost(r) /\ pc[r] = "telling"
    /\ stopSeen' = stopSeen \cup {r}
    /\ Move(r, "code", "none")
    /\ UNCHANGED <<stack, live, armed, stopped, cancelled, pending, looked, escaped>>

(* The agent's function returns, or raises.                                *)
Leave(r) ==
    /\ Innermost(r) /\ pc[r] = "code"
    /\ \E e \in {"none", "error"} : Move(r, "finally", e)
    /\ UNCHANGED <<stack, runState, pending, looked, escaped>>

(* The wrapper's own finally.                                              *)
Finally(r) ==
    /\ Innermost(r) /\ pc[r] = "finally" /\ LockFree
    /\ Disarm(r)
    /\ Move(r, IF exc[r] = "none" THEN "cleanup" ELSE "handler", exc[r])
    /\ UNCHANGED <<stack, live, stopped, stopSeen, cancelled, looked, escaped>>

(* Its handler, _stopped: only a Halt of a run that was halted becomes     *)
(* FencesStop.  It is disarmed again ...                                   *)
Handle(r) ==
    /\ Innermost(r) /\ pc[r] = "handler"
    /\ \/ /\ r \in cancelled /\ exc[r] = "Halt" /\ LockFree
          /\ Disarm(r)
          /\ Move(r, "decide", "Halt")
       \/ /\ ~(r \in cancelled /\ exc[r] = "Halt")
          /\ Move(r, "cleanup", exc[r])
          /\ UNCHANGED <<armed, pending>>
    /\ UNCHANGED <<stack, live, stopped, stopSeen, cancelled, looked, escaped>>

(* ... and if the Halt is an outer run's too, it goes on to that run;      *)
(* else _result reports the stop, which the run has then seen.             *)
Decide(r) ==
    /\ Innermost(r) /\ pc[r] = "decide" /\ LockFree
    /\ \/ /\ HaltedOuter(r)
          /\ Move(r, "cleanup", "Halt")
          /\ UNCHANGED stopSeen
       \/ /\ ~HaltedOuter(r)
          /\ Move(r, "cleanup", "FencesStop")
          /\ stopSeen' = stopSeen \cup {r}
    /\ UNCHANGED <<stack, live, armed, stopped, cancelled, pending, looked, escaped>>

(* The call ends with exception e: it goes to the caller, whose code may   *)
(* catch it unless it is a Halt.                                           *)
Pop(r, e) ==
    LET rest == SubSeq(stack, 1, Len(stack) - 1)
    IN  /\ stack' = rest
        /\ IF rest = <<>>
           THEN Move(r, "over", e) /\ escaped' = (escaped \/ e = "Halt")
           ELSE LET caller == rest[Len(rest)]
                IN  /\ escaped' = escaped
                    /\ \/ /\ e # "Halt"
                          /\ Move(r, "over", e)
                       \/ /\ e # "none"
                          /\ pc' = [pc EXCEPT ![r] = "over", ![caller] = "finally"]
                          /\ exc' = [exc EXCEPT ![r] = e, ![caller] = e]

(* _end_run: the run is over, and reported so.                             *)
Cleanup(r) ==
    /\ Innermost(r) /\ pc[r] = "cleanup" /\ LockFree
    /\ live' = live \ {r}
    /\ Pop(r, exc[r])
    /\ UNCHANGED <<armed, stopped, stopSeen, cancelled, pending, looked>>

(* The pending Halt is raised, wherever the thread is.  In the agent's     *)
(* code or the wrapper's finally it goes to the handler; in the handler it *)
(* replaces what that had in hand; in the cleanup it cuts that short.      *)
Land ==
    /\ pending
    /\ pending' = FALSE
    /\ IF stack = <<>>
       THEN escaped' = TRUE /\ UNCHANGED <<stack, pc, exc>>
       ELSE LET r == stack[Len(stack)]
            IN  CASE pc[r] = "start" -> Pop(r, "Halt")
                  [] pc[r] \in {"code", "telling"} ->
                        Move(r, "finally", "Halt") /\ UNCHANGED <<stack, escaped>>
                  [] pc[r] = "finally" ->
                        Move(r, "handler", "Halt") /\ UNCHANGED <<stack, escaped>>
                  [] pc[r] \in {"handler", "decide"} ->
                        Move(r, "cleanup", "Halt") /\ UNCHANGED <<stack, escaped>>
                  [] pc[r] = "cleanup" -> Pop(r, "Halt")
    /\ UNCHANGED <<runState, looked>>

-----------------------------------------------------------------------------
(* The heartbeat thread                                                    *)

(* apply(stop).                                                            *)
Stop(r) ==
    /\ r \in live \ stopped
    /\ stopped' = stopped \cup {r}
    /\ UNCHANGED <<stack, pc, exc, live, armed, stopSeen, cancelled, pending, looked, escaped>>

(* _halt, stop_grace_s after the stop: it takes the lock and finds the     *)
(* stop unseen ...                                                         *)
Look(r) ==
    /\ LockFree
    /\ r \in live \cap armed \cap stopped /\ r \notin stopSeen \cup cancelled
    /\ looked' = {r}
    /\ UNCHANGED <<stack, pc, exc, runState, pending, escaped>>

(* ... and raises Halt in the thread.                                      *)
Raise(r) ==
    /\ r \in looked
    /\ cancelled' = cancelled \cup {r}
    /\ pending' = TRUE
    /\ looked' = {}
    /\ UNCHANGED <<stack, pc, exc, live, armed, stopped, stopSeen, escaped>>

(* Every run was made and is over.                                         *)
Finished ==
    /\ \A r \in Runs : pc[r] = "over"
    /\ UNCHANGED vars

Wrapper(r) == Arm(r) \/ Tell(r) \/ Finally(r) \/ Handle(r) \/ Decide(r) \/ Cleanup(r)

Next ==
    \/ \E r \in Runs : Start(r)
    \/ \E r \in Runs : Find(r)
    \/ \E r \in Runs : Leave(r)
    \/ \E r \in Runs : Wrapper(r)
    \/ Land
    \/ \E r \in Runs : Stop(r) \/ Look(r) \/ Raise(r)
    \/ Finished

Spec == Init /\ [][Next]_vars

(* The SDK's own code goes on, a pending exception is raised, and the      *)
(* heartbeat keeps looking.  The agent's code need do nothing: it may loop *)
(* without a checkpoint for ever.                                          *)
Fairness ==
    /\ \A r \in Runs : WF_vars(Wrapper(r)) /\ WF_vars(Look(r)) /\ WF_vars(Raise(r))
    /\ WF_vars(Land)

FairSpec == Spec /\ Fairness

-----------------------------------------------------------------------------
(* Properties                                                              *)

(* A halt never lands after the run's code is done, and never reaches the  *)
(* caller of the outermost run, who gets FencesStop ("a halt is never left *)
(* to land after the run's own code has finished").                        *)
HaltStaysInside == ~escaped /\ (stack = <<>> => ~pending)

(* So much holds while one run at most was halted, wherever in its own     *)
(* code or wrapper, or those of the runs inside it, the halt lands.        *)
OneHaltStaysInside ==
    (\E r \in Runs : cancelled \subseteq {r}) => HaltStaysInside

(* A stuck run is halted, however runs are nested and whichever of them    *)
(* are stopped: a run stopped before its agent saw it ends, or it sees the *)
(* stop ("a stuck sync run is halted too").                                *)
StuckRunEnds ==
    \A r \in Runs : r \in stopped \cap armed ~> (pc[r] = "over" \/ r \in stopSeen)

(* What that rests on: a run whose stop its agent has not seen stays in    *)
(* reach of the heartbeat; and once it was halted, the Halt waits to be    *)
(* raised or the innermost frame has it in hand, whatever other runs of    *)
(* the thread did with theirs (_halted_outer: an inner run's handler       *)
(* neither withdraws an outer run's halt nor turns it into a FencesStop).  *)
StuckRunInReach ==
    \A r \in (stopped \cap armed) \ stopSeen : pc[r] # "over" =>
        /\ r \in live
        /\ r \in cancelled => pending \/ \E s \in Runs : Innermost(s) /\ exc[s] = "Halt"

(* A run that is over was reported so and left _live, but for one that a   *)
(* halt of a run around it cut short.                                      *)
OverIsReported ==
    \A r \in Runs : pc[r] = "over" /\ r \in live => exc[r] = "Halt" /\ cancelled # {r}
=============================================================================
