------------------------------ MODULE Delivery ------------------------------
(***************************************************************************)
(* What the SDK promises of the records a process leaves in passing: they  *)
(* reach the server in the order in which they were offered, each at most  *)
(* once; whoever offers one never waits, and it is turned away only when a *)
(* whole queue of others waits.  What a failed request carried is lost, as *)
(* a run of neighbours.  Outbox implements this with a queue, the worker's *)
(* own list and a request in progress; here all that waits is one line.    *)
(***************************************************************************)
EXTENDS Naturals, Sequences

CONSTANTS
    MaxQueued,  \* what must wait before a record is turned away
    MaxItems    \* bound on the records ever offered

VARIABLES
    offered,    \* how many records were offered: their numbers are 1, 2, ...
    waiting,    \* those that wait, the first to go first
    taken,      \* those the server took, in order
    lost        \* those turned away, or lost with a request

vars == <<offered, waiting, taken, lost>>

Init == offered = 0 /\ waiting = <<>> /\ taken = <<>> /\ lost = {}

(* A record gets in line ...                                               *)
Accept ==
    /\ offered < MaxItems
    /\ offered' = offered + 1
    /\ waiting' = Append(waiting, offered + 1)
    /\ UNCHANGED <<taken, lost>>

(* ... or is turned away.                                                  *)
Refuse ==
    /\ offered < MaxItems /\ Len(waiting) >= MaxQueued
    /\ offered' = offered + 1
    /\ lost' = lost \cup {offered + 1}
    /\ UNCHANGED <<waiting, taken>>

(* The first n in line go, in one request: the server takes all of them or *)
(* none.                                                                   *)
Go(n) ==
    /\ waiting' = SubSeq(waiting, n + 1, Len(waiting))
    /\ \/ taken' = taken \o SubSeq(waiting, 1, n) /\ UNCHANGED lost
       \/ lost' = lost \cup {waiting[i] : i \in 1 .. n} /\ UNCHANGED taken
    /\ UNCHANGED offered

Next == Accept \/ Refuse \/ \E n \in 1 .. Len(waiting) : Go(n)

Spec == Init /\ [][Next]_vars
=============================================================================
