------------------------------- MODULE Outbox -------------------------------
(***************************************************************************)
(* The outbox (outbox.py): decisions and spans of all runs wait in one     *)
(* bounded queue for a single worker thread, which sends them in order,    *)
(* consecutive spans of a run in one request.                              *)
(***************************************************************************)
EXTENDS Naturals, Sequences

CONSTANTS
    Runs,       \* the runs that record decisions and spans
    MaxQueued,  \* MAX_QUEUED
    SpanBatch,  \* SPAN_BATCH
    MaxItems    \* bound on the items ever put

ASSUME OutboxAssumption ==
    /\ MaxQueued \in Nat \ {0} /\ SpanBatch \in Nat \ {0} /\ MaxItems \in Nat

Item == [kind : {"decision", "span"}, run : Runs, id : 1 .. MaxItems]

VARIABLES
    queue,      \* _queue
    unfinished, \* _queue.unfinished_tasks
    pending,    \* the worker's own list
    batch,      \* what the worker's request in progress carries
    supported,  \* spans_supported
    puts,       \* history: how many items were put
    sent,       \* history: the ids whose request the server took, in order
    missed      \* history: the ids dropped, or whose request failed

vars == <<queue, unfinished, pending, batch, supported, puts, sent, missed>>

TypeOK ==
    /\ queue \in Seq(Item) /\ Len(queue) <= MaxQueued
    /\ pending \in Seq(Item) /\ batch \in Seq(Item)
    /\ unfinished \in Nat /\ puts \in 0 .. MaxItems
    /\ supported \in BOOLEAN
    /\ sent \in Seq(1 .. MaxItems) /\ missed \subseteq 1 .. MaxItems

Init ==
    /\ queue = <<>> /\ pending = <<>> /\ batch = <<>>
    /\ unfinished = 0 /\ puts = 0
    /\ supported = TRUE
    /\ sent = <<>> /\ missed = {}

Ids(items) == [i \in DOMAIN items |-> items[i].id]
IdSet(items) == {items[i].id : i \in DOMAIN items}

-----------------------------------------------------------------------------
(* Mutant: the last place in the queue is never taken.                     *)
RoomButOne == Len(queue) < MaxQueued - 1

Room == Len(queue) < MaxQueued

(* _put: the item joins the queue, or is dropped if that is full.          *)
Put(kind, run) ==
    LET item == [kind |-> kind, run |-> run, id |-> puts + 1]
    IN  /\ puts < MaxItems
        /\ puts' = puts + 1
        /\ \/ /\ Room
              /\ queue' = Append(queue, item)
              /\ unfinished' = unfinished + 1
              /\ UNCHANGED missed
           \/ /\ ~Room
              /\ missed' = missed \cup {item.id}
              /\ UNCHANGED <<queue, unfinished>>
        /\ UNCHANGED <<pending, batch, supported, sent>>

(* Mutant: a new item goes before those that wait already.                 *)
FirstOfAll == <<Head(queue)>> \o pending

LastOfAll == Append(pending, Head(queue))

(* _work, between two requests: it takes the next item off the queue.      *)
Get ==
    /\ batch = <<>> /\ queue # <<>>
    /\ pending' = LastOfAll
    /\ queue' = Tail(queue)
    /\ UNCHANGED <<unfinished, batch, supported, puts, sent, missed>>

(* The first n items waiting go together: spans of one run.                *)
Together(n) ==
    /\ n = 1 \/ (n <= SpanBatch /\ n <= Len(pending))
    /\ n > 1 => \A i \in 1 .. n : pending[i].kind = "span" /\ pending[i].run = pending[1].run

(* _send: the queue was found empty, and as many items as may go together  *)
(* leave in one request.                                                   *)
Send ==
    /\ batch = <<>> /\ queue = <<>> /\ pending # <<>>
    /\ \E n \in 1 .. Len(pending) :
        /\ Together(n) /\ (n < Len(pending) => ~Together(n + 1))
        /\ batch' = SubSeq(pending, 1, n)
        /\ pending' = SubSeq(pending, n + 1, Len(pending))
    /\ UNCHANGED <<queue, unfinished, supported, puts, sent, missed>>

(* Mutant: only the first item of a request is ticked off.                 *)
TaskDoneOnce == unfinished' = unfinished - 1

(* task_done, for the item and any batched with it.                        *)
TaskDone == unfinished' = unfinished - Len(batch)

(* The request fails, or raises: its items are gone.                       *)
Fail ==
    /\ batch # <<>>
    /\ missed' = missed \cup IdSet(batch)
    /\ TaskDone
    /\ batch' = <<>>
    /\ UNCHANGED <<queue, pending, supported, puts, sent>>

(* The server takes the request.  Spans it doesn't support aren't sent any *)
(* more, decisions still are.                                              *)
Taken ==
    /\ batch # <<>>
    /\ batch[1].kind = "span" => supported
    /\ sent' = sent \o Ids(batch)
    /\ TaskDone
    /\ batch' = <<>>
    /\ UNCHANGED <<queue, pending, supported, puts, missed>>

(* A server without the spans endpoint says so, or has said so before.     *)
Unsupported ==
    /\ batch # <<>> /\ batch[1].kind = "span"
    /\ supported' = FALSE
    /\ missed' = missed \cup IdSet(batch)
    /\ TaskDone
    /\ batch' = <<>>
    /\ UNCHANGED <<queue, pending, puts, sent>>

(* Every item was put and is done with.                                    *)
Finished ==
    /\ puts = MaxItems /\ unfinished = 0
    /\ UNCHANGED vars

Work == Get \/ Send \/ Fail \/ Taken \/ Unsupported

Next ==
    \/ \E kind \in {"decision", "span"}, run \in Runs : Put(kind, run)
    \/ Work
    \/ Finished

Spec == Init /\ [][Next]_vars

(* The worker goes on, and every request ends (it times out).              *)
FairSpec == Spec /\ WF_vars(Work)

-----------------------------------------------------------------------------
(* Properties                                                              *)

(* Where an item that isn't done with yet is.                              *)
Backlog == batch \o pending \o queue

(* What the server gets and what waits for it are, together, in the order  *)
(* in which the items were put, each once: batching, drops and failed      *)
(* requests never reorder or repeat any.                                   *)
InOrder ==
    LET ids == sent \o Ids(Backlog)
    IN  \A i, j \in DOMAIN ids : i < j => ids[i] < ids[j]

(* wait() trusts unfinished_tasks: it is what is really on its way, so     *)
(* flush() returns neither early nor, once all is sent, late; and every    *)
(* item put was sent, is on its way, or was given up.                      *)
Accounted ==
    /\ unfinished = Len(Backlog)
    /\ 1 .. puts = missed \cup IdSet(Backlog) \cup {sent[i] : i \in DOMAIN sent}

(* The queue, the worker's list and its request are one line in which no   *)
(* record passes another: each step of the SDK's threads and of the server *)
(* is one of Delivery's, or none, and only a full queue turns one away.    *)
Line == INSTANCE Delivery WITH
    offered <- puts, waiting <- Ids(Backlog), taken <- sent, lost <- missed

OneLine == Line!Spec

(* Everything put is done with in the end, however requests fare, and      *)
(* flush() can return.                                                     *)
AllDone == []<>(unfinished = 0)
=============================================================================
