------------------------------- MODULE Cancel -------------------------------
(***************************************************************************)
(* Cancelling asynchronous runs that don't see their stop (control.py, and *)
(* the asynchronous wrappers of core.py).  The heartbeat asks the event    *)
(* loop to cancel the run's task; asyncio raises one CancelledError at the *)
(* await where the task is, however often it was cancelled before.  Runs   *)
(* nest on a task, and a stream's code alternates with its consumer's.     *)
(***************************************************************************)
EXTENDS Naturals, Sequences, SequencesExt

CONSTANTS
    Runs,       \* governed calls made on one task
    Streams,    \* those that are async generators
    MaxAsked    \* how often the task's owner may cancel it

ASSUME CancelAssumption ==
    /\ Streams \subseteq Runs
    /\ MaxAsked \in Nat
    /\ "owner" \notin Runs

Who == Runs \cup {"owner"}

VARIABLES
    stack,      \* the runs whose frames are on the task, outermost first
    pc,         \* per run: where its wrapper is
    exc,        \* per run: what its wrapper raises when it has cleaned up
    tasked,     \* runs whose RunState.task is set
    stopped, stopSeen, cancelled,   \* runs with these flags set
    due,        \* runs whose _cancel is scheduled on the loop
    pending,    \* who cancelled the task since it last ran
    cancelling, \* task.cancelling()
    carried,    \* history: whose cancels the CancelledError under way stands for
    lost,       \* history: runs whose cancel the agent's code, or another run, took
    asked       \* how often the owner cancelled

flags == <<stopped, stopSeen, cancelled, due>>
cancels == <<pending, cancelling, asked>>
vars == <<stack, pc, exc, tasked, flags, cancels, carried, lost>>

TypeOK ==
    /\ stack \in Seq(Runs)
    /\ pc \in [Runs -> {"off", "start", "code", "yielded", "cleanup", "over", "orphan"}]
    /\ exc \in [Runs -> {"none", "error", "FencesStop", "CancelledError"}]
    /\ tasked \in SUBSET Runs /\ due \in SUBSET stopped
    /\ stopped \in SUBSET Runs /\ stopSeen \in SUBSET stopped /\ cancelled \in SUBSET stopped
    /\ pending \in SUBSET Who /\ carried \in SUBSET Who /\ lost \in SUBSET cancelled
    /\ cancelling \in Nat /\ asked \in 0 .. MaxAsked

Init ==
    /\ stack = <<>>
    /\ pc = [r \in Runs |-> "off"]
    /\ exc = [r \in Runs |-> "none"]
    /\ tasked = {} /\ stopped = {} /\ stopSeen = {} /\ cancelled = {} /\ due = {}
    /\ pending = {} /\ cancelling = 0 /\ asked = 0
    /\ carried = {} /\ lost = {}

-----------------------------------------------------------------------------
OnTask == {stack[i] : i \in DOMAIN stack}

Innermost(r) == stack # <<>> /\ Last(stack) = r

(* The task goes on in r's frame: it is the innermost, at p, and nobody    *)
(* has cancelled the task since it was suspended.                          *)
At(r, p) == pending = {} /\ Innermost(r) /\ pc[r] = p

(* The task goes on in the agent's code, or in code outside of all runs.   *)
InAgent == pending = {} /\ \A r \in Runs : Innermost(r) => pc[r] = "code"

(* _unseen_stop, for a run that has a task.                                *)
Unseen(r) == r \in (stopped \cap tasked) \ (stopSeen \cup cancelled)

(* Mutant: every CancelledError is taken for one of Fences' own.           *)
ConvertsAll(r, e) == e = "CancelledError"

(* _stopped: a CancelledError becomes FencesStop in a run Fences cancelled.*)
Converts(r, e) == e = "CancelledError" /\ r \in cancelled

(* Exception e, for whom if it is a CancelledError, leaves r's own code:   *)
(* _stopped, then the wrapper's finally up to its await, with p as the     *)
(* other wrappers' places.                                                 *)
Exit(r, e, whom, p) ==
    LET taken == Converts(r, e)
    IN  /\ pc' = [p EXCEPT ![r] = "cleanup"]
        /\ exc' = [exc EXCEPT ![r] = IF taken THEN "FencesStop" ELSE e]
        /\ tasked' = tasked \ {r}
        /\ stopSeen' = IF taken THEN stopSeen \cup {r} ELSE stopSeen
        /\ cancelling' = IF taken THEN cancelling - 1 ELSE cancelling
        /\ carried' = IF taken THEN {} ELSE whom
        /\ lost' = IF taken THEN lost \cup ((whom \ {r}) \cap cancelled) ELSE lost

(* Exception e comes out of what the innermost frame of s awaits: the      *)
(* agent's code there catches it or lets it go, as its owner's code may.   *)
Throw(s, e, whom, p) ==
    /\ stack' = s
    /\ \/ /\ pc' = p
          /\ carried' = {}
          /\ lost' = IF s = <<>> THEN lost ELSE lost \cup (whom \cap cancelled)
          /\ UNCHANGED <<exc, tasked, stopSeen, cancelling>>
       \/ s # <<>> /\ Exit(Last(s), e, whom, p)

-----------------------------------------------------------------------------
(* The task                                                                *)

(* A governed function is called: the run starts in a worker thread ...    *)
Start(r) ==
    /\ InAgent /\ pc[r] = "off"
    /\ stack' = Append(stack, r)
    /\ pc' = [pc EXCEPT ![r] = "start"]
    /\ UNCHANGED <<exc, tasked, flags, cancels, carried, lost>>

(* ... run.task is set, and the agent's function goes on.                  *)
Started(r) ==
    /\ At(r, "start")
    /\ pc' = [pc EXCEPT ![r] = "code"]
    /\ tasked' = tasked \cup {r}
    /\ UNCHANGED <<stack, exc, flags, cancels, carried, lost>>

(* Mutant: run.task stays set while the consumer has the item.             *)
YieldTasked(r) ==
    /\ r \in Streams /\ At(r, "code")
    /\ stack' = Front(stack)
    /\ pc' = [pc EXCEPT ![r] = "yielded"]
    /\ UNCHANGED <<exc, tasked, flags, cancels, carried, lost>>

(* A stream yields an item to its consumer.                                *)
Yield(r) ==
    /\ r \in Streams /\ At(r, "code")
    /\ stack' = Front(stack)
    /\ pc' = [pc EXCEPT ![r] = "yielded"]
    /\ tasked' = tasked \ {r}
    /\ UNCHANGED <<exc, flags, cancels, carried, lost>>

(* Mutant: run.task is set once, before the first item.                    *)
ResumeUntasked(r) ==
    /\ InAgent /\ pc[r] = "yielded"
    /\ stack' = Append(stack, r)
    /\ pc' = [pc EXCEPT ![r] = "code"]
    /\ UNCHANGED <<exc, tasked, flags, cancels, carried, lost>>

(* The consumer asks for the next item.                                    *)
Resume(r) ==
    /\ InAgent /\ pc[r] = "yielded"
    /\ stack' = Append(stack, r)
    /\ pc' = [pc EXCEPT ![r] = "code"]
    /\ tasked' = tasked \cup {r}
    /\ UNCHANGED <<exc, flags, cancels, carried, lost>>

(* The consumer closes the stream: GeneratorExit at its yield.             *)
Close(r) ==
    /\ InAgent /\ pc[r] = "yielded"
    /\ stack' = Append(stack, r)
    /\ Exit(r, "none", {}, pc)
    /\ UNCHANGED <<stopped, cancelled, due, pending, asked>>

(* A checkpoint hands the agent its stop.  The run may have more tasks,    *)
(* and a stream's consumer may make one, so not only when r's code goes on.*)
See(r) ==
    /\ pc[r] \in {"code", "yielded"} /\ r \in stopped
    /\ stopSeen' = stopSeen \cup {r}
    /\ UNCHANGED <<stack, pc, exc, tasked, stopped, cancelled, due, cancels, carried, lost>>

(* The agent's function returns, or raises.                                *)
Leave(r) ==
    /\ At(r, "code")
    /\ \E e \in {"none", "error"} : Exit(r, e, {}, pc)
    /\ UNCHANGED <<stack, stopped, cancelled, due, pending, asked>>

(* _end_run is done: the call is over, with what the wrapper had in hand.  *)
Cleanup(r) ==
    /\ At(r, "cleanup")
    /\ LET p == [pc EXCEPT ![r] = "over"]
       IN  \/ /\ exc[r] = "none"
              /\ stack' = Front(stack) /\ pc' = p
              /\ UNCHANGED <<exc, tasked, stopSeen, cancelling, carried, lost>>
           \/ exc[r] # "none" /\ Throw(Front(stack), exc[r], carried, p)
    /\ UNCHANGED <<stopped, cancelled, due, pending, asked>>

(* The task goes on after it was cancelled: CancelledError at its await.   *)
(* A run that was starting is registered, and nothing ends it any more;    *)
(* one that was ending ends in its thread, and its exception is dropped.   *)
Deliver ==
    /\ pending # {}
    /\ pending' = {}
    /\ LET whom == pending \cup carried
           place == IF stack = <<>> THEN "code" ELSE pc[Last(stack)]
           Past(p) == Throw(Front(stack), "CancelledError", whom, [pc EXCEPT ![Last(stack)] = p])
       IN  \/ place = "code" /\ Throw(stack, "CancelledError", whom, pc)
           \/ place = "start" /\ Past("orphan")
           \/ place = "cleanup" /\ Past("over")
    /\ UNCHANGED <<stopped, cancelled, due, asked>>

-----------------------------------------------------------------------------
(* The heartbeat, the loop and the task's owner                            *)

(* apply(stop).                                                            *)
Stop(r) ==
    /\ pc[r] \in {"start", "code", "yielded", "cleanup"} /\ r \notin stopped
    /\ stopped' = stopped \cup {r}
    /\ UNCHANGED <<stack, pc, exc, tasked, stopSeen, cancelled, due, cancels, carried, lost>>

(* cancel_overdue, stop_grace_s after the stop: _cancel is scheduled ...   *)
Overdue(r) ==
    /\ Unseen(r)
    /\ due' = due \cup {r}
    /\ UNCHANGED <<stack, pc, exc, tasked, stopped, stopSeen, cancelled, cancels, carried, lost>>

(* Mutant: what the heartbeat found is not looked at again on the loop.    *)
StillUnseen(r) == r \notin cancelled /\ r \in tasked

(* What _cancel tests on the loop.                                         *)
CancelHolds(r) == Unseen(r)

(* ... and run by the loop, between two steps of the task.                 *)
CancelOnLoop(r) ==
    /\ r \in due
    /\ due' = due \ {r}
    /\ \/ /\ CancelHolds(r)
          /\ cancelled' = cancelled \cup {r}
          /\ pending' = pending \cup {r}
          /\ cancelling' = cancelling + 1
       \/ /\ ~CancelHolds(r)
          /\ UNCHANGED <<cancelled, pending, cancelling>>
    /\ UNCHANGED <<stack, pc, exc, tasked, stopped, stopSeen, asked, carried, lost>>

(* The task's owner cancels it, for reasons of its own.                    *)
OwnerCancels ==
    /\ stack # <<>> /\ asked < MaxAsked
    /\ asked' = asked + 1
    /\ pending' = pending \cup {"owner"}
    /\ cancelling' = cancelling + 1
    /\ UNCHANGED <<stack, pc, exc, tasked, flags, carried, lost>>

(* Every run was made and is over.                                         *)
Finished ==
    /\ \A r \in Runs : pc[r] \in {"over", "orphan"}
    /\ UNCHANGED vars

Wrapper(r) == Started(r) \/ Cleanup(r)

Next ==
    \/ \E r \in Runs : Start(r) \/ Yield(r) \/ Resume(r) \/ Close(r) \/ See(r) \/ Leave(r)
    \/ \E r \in Runs : Wrapper(r)
    \/ Deliver
    \/ \E r \in Runs : Stop(r) \/ Overdue(r) \/ CancelOnLoop(r)
    \/ OwnerCancels
    \/ Finished

Spec == Init /\ [][Next]_vars

(* The SDK's own code goes on, the loop runs callbacks and the task, and   *)
(* the heartbeat keeps looking.  The agent's code may await for ever.      *)
Fairness ==
    /\ \A r \in Runs : WF_vars(Wrapper(r)) /\ WF_vars(Overdue(r)) /\ WF_vars(CancelOnLoop(r))
    /\ WF_vars(Deliver)

FairSpec == Spec /\ Fairness

-----------------------------------------------------------------------------
(* Properties                                                              *)

(* A cancel of Fences' own lands in a frame of the run it is for or of one *)
(* inside it, and doesn't leave that run as a CancelledError: a stream's   *)
(* consumer is never cut off, and callers get FencesStop.                  *)
CancelStaysInside == (pending \cup carried) \cap Runs \subseteq OnTask

(* An agent that saw its stop isn't cancelled, though the heartbeat may    *)
(* have found the stop unseen before ("an agent that saw its stop isn't    *)
(* cut off").                                                              *)
SeenIsSpared == [][(cancelled' \ cancelled) \cap stopSeen = {}]_vars

(* Taking a cancel of Fences' own back (uncancel) never takes one of the   *)
(* owner's, so that its timeouts and task groups still know of it; and     *)
(* unless one got lost, none is left over when all runs are over.          *)
OwnersCountKept ==
    /\ cancelling >= asked
    /\ stack = <<>> /\ pending = {} /\ lost = {} => cancelling = asked

(* A run that awaits in its own code after a stop nobody has seen stays in *)
(* reach of the heartbeat (run.task is set, a stream's again for each      *)
(* item); and once it was cancelled, the cancel waits for the task, or an  *)
(* inner run's wrapper has its CancelledError to pass on, or it got lost.  *)
StuckRunInReach ==
    \A r \in stopped \ (stopSeen \cup lost) : pc[r] = "code" =>
        /\ r \in tasked
        /\ r \in cancelled =>
              \/ r \in pending
              \/ /\ r \in carried /\ stack # <<>>
                 /\ pc[Last(stack)] = "cleanup" /\ exc[Last(stack)] = "CancelledError"

(* A run that awaits in its own code for ever after a stop it doesn't see  *)
(* is cancelled, and leaves that code, unless its cancel got lost: the     *)
(* agent's code caught it, or it came together with another run's.         *)
StuckRunIsCancelled ==
    \A r \in Runs :
        (pc[r] = "code" /\ r \in stopped) ~> (pc[r] # "code" \/ r \in stopSeen \cup lost)
=============================================================================
