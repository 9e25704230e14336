------------------------------ MODULE Breaker -------------------------------
(***************************************************************************)
(* The circuit breaker on calls to the Fences server (client.py), shared   *)
(* by every thread of the process: after FailuresToOpen failed calls in a  *)
(* row, calls are skipped for a while, then one goes through to test the   *)
(* server.  Nothing bounds how long a call takes (the timeout is for each  *)
(* connection and each read, and some calls are sent twice), so calls from *)
(* before the breaker opened may end during a test, or after it.           *)
(***************************************************************************)
EXTENDS Naturals, FiniteSets

CONSTANTS
    Threads,         \* threads that post to the server, one call at a time
    FailuresToOpen,  \* FAILURES_TO_OPEN
    Haltable         \* threads of sync runs, which a Halt may hit in a call

ASSUME BreakerAssumption ==
    /\ IsFiniteSet(Threads)
    /\ FailuresToOpen \in Nat \ {0}
    /\ Haltable \subseteq Threads

VARIABLES
    failures,   \* Breaker.failures, counted no further than FailuresToOpen
    cooled,     \* the time open_until has passed
    probing,    \* Breaker.probing
    post,       \* per thread: the call it has in flight
    up,         \* the server answers
    hit,        \* calls in flight that the server may have failed
    overtaken,  \* history: test calls in flight when another call ended
    cut         \* history: a Halt cut a test call off, and no call ended since

vars == <<failures, cooled, probing, post, up, hit, overtaken, cut>>

TypeOK ==
    /\ failures \in 0 .. FailuresToOpen
    /\ cooled \in BOOLEAN /\ probing \in BOOLEAN /\ up \in BOOLEAN /\ cut \in BOOLEAN
    /\ post \in [Threads -> {"none", "call", "probe"}]
    /\ hit \subseteq Threads /\ overtaken \subseteq Threads

Init ==
    /\ failures = 0
    /\ cooled = TRUE
    /\ probing = FALSE
    /\ post = [t \in Threads |-> "none"]
    /\ up \in BOOLEAN
    /\ hit = {} /\ overtaken = {}
    /\ cut = FALSE

Open == failures >= FailuresToOpen

InFlight(what) == {t \in Threads : post[t] = what}

Send(t, what) ==
    /\ post[t] = "none"
    /\ post' = [post EXCEPT ![t] = what]
    /\ hit' = IF up THEN hit ELSE hit \cup {t}

(* The call of t is over.                                                  *)
Over(t) ==
    /\ post[t] # "none"
    /\ post' = [post EXCEPT ![t] = "none"]
    /\ hit' = hit \ {t}

(* allow: the breaker is closed, and the call goes out.                    *)
Call(t) ==
    /\ ~Open
    /\ Send(t, "call")
    /\ UNCHANGED <<failures, cooled, probing, up, overtaken, cut>>

(* Mutant: nobody notes that the test call is out.                         *)
ProbeUnmarked(t) ==
    /\ Open /\ cooled /\ ~probing
    /\ Send(t, "probe")
    /\ UNCHANGED <<failures, cooled, probing, up, overtaken, cut>>

(* allow: it was open long enough, and this call tests the server.  Every  *)
(* other call fails at once, and changes nothing.                          *)
Probe(t) ==
    /\ Open /\ cooled /\ ~probing
    /\ probing' = TRUE
    /\ Send(t, "probe")
    /\ UNCHANGED <<failures, cooled, up, overtaken, cut>>

(* record: the failures in a row, with one more or none.                   *)
Failures(ok) == IF ok THEN 0 ELSE IF Open THEN failures ELSE failures + 1

(* Mutant: a failed test call leaves probing set.                          *)
EndProbeIfUp(ok) == probing' = (probing /\ ~ok)

(* Whether it failed or not, and whether it was the test or not.           *)
EndProbe(ok) == probing' = FALSE

(* record: the call failed, if the server was down while it was out, or    *)
(* not (any answer below 500 counts, and a payload that can't be encoded). *)
Record(t) ==
    /\ Over(t)
    /\ \E ok \in BOOLEAN :
          /\ ok \/ t \in hit
          /\ failures' = Failures(ok)
          /\ EndProbe(ok)
          /\ cooled' = (cooled /\ (ok \/ failures' < FailuresToOpen))
    /\ overtaken' = InFlight("probe") \ {t}
    /\ cut' = FALSE
    /\ UNCHANGED up

(* A Halt is raised in the thread while it waits in send: neither handler  *)
(* catches it, and nothing is recorded.                                    *)
Halted(t) ==
    /\ t \in Haltable
    /\ Over(t)
    /\ cut' = (cut \/ (post[t] = "probe" /\ t \notin overtaken))
    /\ overtaken' = overtaken \ {t}
    /\ UNCHANGED <<failures, cooled, probing, up>>

(* open_until passes, whatever calls are out.                              *)
Cool ==
    /\ Open /\ ~cooled
    /\ cooled' = TRUE
    /\ UNCHANGED <<failures, probing, post, up, hit, overtaken, cut>>

(* The server goes down, and may fail every call in flight, or comes back. *)
Turn ==
    /\ up' = ~up
    /\ hit' = IF up THEN {t \in Threads : post[t] # "none"} ELSE hit
    /\ UNCHANGED <<failures, cooled, probing, post, overtaken, cut>>

Next ==
    \/ \E t \in Threads : Call(t)
    \/ \E t \in Threads : Probe(t)
    \/ \E t \in Threads : Record(t)
    \/ \E t \in Threads : Halted(t)
    \/ Cool
    \/ Turn

Spec == Init /\ [][Next]_vars

(* The heartbeat and live runs keep posting, calls end (they time out),    *)
(* and time passes.  The server need not come back, no thread need halt.   *)
Fairness ==
    /\ \A t \in Threads : WF_vars(Call(t) \/ Probe(t)) /\ WF_vars(Record(t))
    /\ WF_vars(Cool)

FairSpec == Spec /\ Fairness

-----------------------------------------------------------------------------
(* Properties                                                              *)

(* The flag says exactly whether a test call is out that no other call's  *)
(* end came in the way of, and one such is out at most: two tests overlap  *)
(* only if another call ended in between, for then record took down the    *)
(* flag of a test that is not its own.  (Once a Halt has cut a test call   *)
(* off, the flag stays up until a call from before ends, if one is out.)   *)
ProbingIsProbe ==
    LET tests == InFlight("probe") \ overtaken
    IN  /\ probing <=> (cut \/ tests # {})
        /\ Cardinality(tests) <= 1

(* "One test call at a time", as the comment in allow has it, whatever     *)
(* else ends meanwhile.  It does not hold.                                 *)
OneTest == Cardinality(InFlight("probe")) <= 1

(* Once the server stays up, calls to it go through again for good ("skip  *)
(* calls for about OPEN_S seconds, then let one through"), as long as no   *)
(* Halt lands in a test call.                                              *)
RecoversUncut == (<>[]up /\ []~cut) => <>[](~Open)
=============================================================================
