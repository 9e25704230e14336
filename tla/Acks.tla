-------------------------------- MODULE Acks --------------------------------
(***************************************************************************)
(* Commands with an id and what becomes of them (control.py): stop and     *)
(* quarantine arrive in heartbeat and checkpoint replies, are applied once *)
(* or more by the thread that got them, start a containment hook, and are  *)
(* acknowledged through one list that heartbeats and drain() send from.    *)
(***************************************************************************)
EXTENDS Naturals, FiniteSets

CONSTANTS
    Stops,          \* ids of stop commands for the run
    Quarantines     \* ids of quarantine commands

Commands == Stops \cup Quarantines
Appliers == {"heartbeat", "agent"}
Threads  == Appliers \cup {"drain"}

ASSUME AcksAssumption == IsFiniteSet(Commands) /\ Stops \cap Quarantines = {}

VARIABLES
    live,       \* the run is in _live
    old,        \* the server has no heartbeat endpoint
    stopped,    \* RunState.stopped
    acked,      \* RunState.acked
    hooked,     \* _hooked
    running,    \* _running_hooks
    unstarted,  \* per applier: the hook it has listed there and not started yet
    acks,       \* _acks
    at,         \* per thread: where it is
    current,    \* per applier: the command it is at, if any
    request,    \* per thread that sends: the entries it took off _acks
    joined,     \* hooks the drain waits for
    timely,     \* hooks that end, or run out of time, before the time of the drain at exit
    exiting,    \* the drain is the one at exit
    aborted,    \* the drain at exit came to a hook not started, and raised
    starts,     \* history: how often each command's hook was started
    raced,      \* history: both appliers found the run not stopped
    settled,    \* history: entries not sent again: the server took them or would not,
                \*          or a drain sent them, delivered or not
    elsewhere   \* history: results a heartbeat had when the exit's drain took the rest

hooks   == <<hooked, running, unstarted, starts>>
command == <<stopped, acked, raced, hooks>>
drain   == <<joined, timely, exiting, aborted, elsewhere>>
vars    == <<live, old, command, acks, at, current, request, drain, settled>>

Hook    == Commands \X (1 .. Cardinality(Appliers))
Entry   == Commands \X {"receipt", "hook"}

Places  == {"idle", "apply", "first", "listing", "starting", "ack", "sending", "draining",
            "joining", "over"}

TypeOK ==
    /\ live \in BOOLEAN /\ old \in BOOLEAN /\ stopped \in BOOLEAN
    /\ exiting \in BOOLEAN /\ aborted \in BOOLEAN /\ raced \in BOOLEAN
    /\ acked \subseteq Commands /\ hooked \subseteq Quarantines
    /\ \A listed \in {running, joined, timely} : listed \subseteq Hook
    /\ unstarted \in [Appliers -> SUBSET Hook]
    /\ at \in [Threads -> Places]
    /\ current \in [Appliers -> SUBSET Commands]
    /\ request \in [{"heartbeat", "drain"} -> SUBSET Entry]
    /\ starts \in [Commands -> 0 .. Cardinality(Appliers)]
    /\ \A entries \in {acks, settled, elsewhere} : entries \subseteq Entry

Init ==
    /\ live = TRUE /\ old \in BOOLEAN
    /\ stopped = FALSE /\ acked = {} /\ hooked = {} /\ running = {} /\ acks = {}
    /\ at = [t \in Threads |-> "idle"]
    /\ current = [a \in Appliers |-> {}]
    /\ request = [t \in {"heartbeat", "drain"} |-> {}]
    /\ unstarted = [a \in Appliers |-> {}]
    /\ joined = {} /\ timely = {} /\ exiting = FALSE /\ aborted = FALSE
    /\ starts = [c \in Commands |-> 0] /\ raced = FALSE
    /\ settled = {} /\ elsewhere = {}

Goto(t, p) == at' = [at EXCEPT ![t] = p]

(* The process is gone once the drain at exit is done.                     *)
Gone == at["drain"] = "over"

-----------------------------------------------------------------------------
(* Applying the commands of a reply                                        *)

(* A reply brought the thread a the commands in C, one at most.  (Of those *)
(* in one reply, each is modelled as if it had come in a reply of its own.)*)
Reply(a, C) ==
    /\ current' = [current EXCEPT ![a] = C]
    /\ Goto(a, IF C = {} THEN "idle" ELSE "apply")

(* Mutant: every time a quarantine is sent again its hook runs again.      *)
HookAlways(c) == "listing"

(* A quarantine's hook runs once.                                          *)
HookIfNew(c) == IF c \in hooked THEN "ack" ELSE "listing"

(* apply, quarantine: its hook is looked up, and noted, under the lock.    *)
Quarantine(a, c) ==
    /\ ~Gone /\ at[a] = "apply" /\ c \in Quarantines \cap current[a]
    /\ hooked' = hooked \cup {c}
    /\ Goto(a, HookIfNew(c))
    /\ UNCHANGED <<live, old, stopped, acked, running, unstarted, starts, raced, acks, current,
                   request, drain, settled>>

AfterStop == IF stopped THEN "ack" ELSE "first"

(* apply, stop: is the run stopped already?                                *)
Stop(a, c) ==
    /\ ~Gone /\ at[a] = "apply" /\ c \in Stops \cap current[a]
    /\ Goto(a, AfterStop)
    /\ raced' = (raced \/ (~stopped /\ \E b \in Appliers \ {a} : at[b] = "first"))
    /\ UNCHANGED <<live, old, stopped, acked, hooks, acks, current, request, drain, settled>>

(* If it was not, it is now, and its hook is next.                         *)
First(a, c) ==
    /\ ~Gone /\ at[a] = "first" /\ c \in current[a]
    /\ stopped' = TRUE
    /\ Goto(a, "listing")
    /\ UNCHANGED <<live, old, acked, raced, hooks, acks, current, request, drain, settled>>

(* _hook makes a thread for the hook and lists it, under the lock; out of  *)
(* the lock, it starts it.                                                 *)
ListHook(a, c) ==
    /\ ~Gone /\ at[a] = "listing" /\ c \in current[a]
    /\ LET hook == <<c, starts[c] + 1>>
       IN  /\ running' = running \cup {hook}
           /\ unstarted' = [unstarted EXCEPT ![a] = {hook}]
    /\ starts' = [starts EXCEPT ![c] = @ + 1]
    /\ Goto(a, "starting")
    /\ UNCHANGED <<live, old, stopped, acked, hooked, raced, acks, current, request, drain,
                   settled>>

StartHook(a) ==
    /\ ~Gone /\ at[a] = "starting"
    /\ unstarted' = [unstarted EXCEPT ![a] = {}]
    /\ Goto(a, "ack")
    /\ UNCHANGED <<live, old, stopped, acked, hooked, running, starts, raced, acks, current,
                   request, drain, settled>>

Unstarted == UNION {unstarted[a] : a \in Appliers}

(* apply: a command not yet in run.acked is acknowledged.                  *)
Acknowledge(a, c) ==
    /\ ~Gone /\ at[a] = "ack" /\ c \in current[a]
    /\ acked' = acked \cup {c}
    /\ acks' = IF c \in acked THEN acks ELSE acks \cup {<<c, "receipt">>}
    /\ Reply(a, {})
    /\ UNCHANGED <<live, old, stopped, raced, hooks, request, drain, settled>>

(* _run_hook: the hook is over, or ran out of time, and its result listed. *)
HookDone(h) ==
    /\ ~Gone /\ h \in running \ Unstarted
    /\ running' = running \ {h}
    /\ acks' = acks \cup {<<h[1], "hook">>}
    /\ UNCHANGED <<live, old, stopped, acked, hooked, unstarted, starts, raced, at, current,
                   request, drain, settled>>

-----------------------------------------------------------------------------
(* The agent                                                               *)

(* A checkpoint's reply carries a command.                                 *)
Checkpoint(c) ==
    /\ ~Gone /\ live /\ at["agent"] = "idle"
    /\ Reply("agent", {c})
    /\ UNCHANGED <<live, old, command, acks, request, drain, settled>>

(* unregister: the run is over.                                            *)
EndRun ==
    /\ ~Gone /\ live /\ at["agent"] = "idle"
    /\ live' = FALSE
    /\ UNCHANGED <<old, command, acks, at, current, request, drain, settled>>

-----------------------------------------------------------------------------
(* The heartbeat thread                                                    *)

(* What t has taken off the list is gone from its hands.                   *)
Empty(t) == request' = [request EXCEPT ![t] = {}]

(* Mutant: without a live run nothing is sent.                             *)
DueWhileLive == live

(* There is a run to report, or an entry.                                  *)
Due == live \/ acks # {}

(* It is time, and the heartbeat goes out with all that waits.             *)
Beat ==
    /\ ~Gone /\ at["heartbeat"] = "idle" /\ Due
    /\ request' = [request EXCEPT !["heartbeat"] = acks]
    /\ acks' = {}
    /\ Goto("heartbeat", "sending")
    /\ UNCHANGED <<live, old, command, current, drain, settled>>

(* Mutant: what was listed while the heartbeat was out is overwritten.     *)
BeatFailsOver ==
    /\ ~Gone /\ at["heartbeat"] = "sending"
    /\ acks' = request["heartbeat"]
    /\ Empty("heartbeat")
    /\ Goto("heartbeat", "idle")
    /\ UNCHANGED <<live, old, command, current, drain, settled>>

(* A network error, a timeout, a 429 or a 5xx: the entries go again.       *)
BeatFails ==
    /\ ~Gone /\ at["heartbeat"] = "sending"
    /\ acks' = acks \cup request["heartbeat"]
    /\ Empty("heartbeat")
    /\ Goto("heartbeat", "idle")
    /\ UNCHANGED <<live, old, command, current, drain, settled>>

(* Any other 4xx: resending would not help.  A server without the endpoint *)
(* ends the thread.                                                        *)
BeatRefused ==
    /\ ~Gone /\ at["heartbeat"] = "sending"
    /\ settled' = settled \cup request["heartbeat"]
    /\ Empty("heartbeat")
    /\ Goto("heartbeat", IF old THEN "over" ELSE "idle")
    /\ UNCHANGED <<live, old, command, acks, current, drain>>

(* The server takes the entries; dispatch applies the command it sends.    *)
BeatTaken(C) ==
    /\ ~Gone /\ at["heartbeat"] = "sending" /\ ~old
    /\ C # {} => live
    /\ settled' = settled \cup request["heartbeat"]
    /\ Empty("heartbeat")
    /\ Reply("heartbeat", C)
    /\ UNCHANGED <<live, old, command, acks, drain>>

-----------------------------------------------------------------------------
(* drain, called by flush() or at exit                                     *)

(* Its time begins.  At exit the governed calls are over, and it has as    *)
(* long as a hook has, so the hooks that run are over before, or some are  *)
(* late by what it takes to begin and to list a result; before the exit,   *)
(* flush() gives it a moment only.                                         *)
Drain(exit) ==
    /\ at["drain"] = "idle"
    /\ exit => ~live /\ at["agent"] = "idle"
    /\ exiting' = exit
    /\ timely' \in SUBSET IF exit THEN running \ Unstarted ELSE {}
    /\ Goto("drain", "draining")
    /\ UNCHANGED <<live, old, command, acks, current, request, joined, aborted, elsewhere, settled>>

(* It notes the hooks that are listed, and joins them one by one.          *)
DrainList ==
    /\ at["drain"] = "draining"
    /\ joined' = running
    /\ Goto("drain", "joining")
    /\ UNCHANGED <<live, old, command, acks, current, request, timely, exiting, aborted, elsewhere,
                   settled>>

(* The process is gone, or flush() returns.                                *)
DrainOver ==
    /\ Goto("drain", IF exiting THEN "over" ELSE "idle")
    /\ joined' = IF exiting THEN joined ELSE {}

(* A thread that was not started can't be joined: drain raises there, and  *)
(* takes nothing.                                                          *)
DrainRaises ==
    /\ at["drain"] = "joining"
    /\ joined \cap Unstarted # {}
    /\ aborted' = exiting
    /\ DrainOver
    /\ UNCHANGED <<live, old, command, acks, current, request, timely, exiting, elsewhere, settled>>

(* Mutant: it takes what is listed before the hooks are over.              *)
HooksIgnored == TRUE

(* The hooks are over, or the time of the drain is: at exit those that end *)
(* in it have then ended.                                                  *)
HooksOver == exiting => joined \cap timely \cap running = {}

(* All are joined, and it takes all that waits.                            *)
DrainTake ==
    /\ at["drain"] = "joining"
    /\ joined \cap Unstarted = {}
    /\ HooksOver
    /\ request' = [request EXCEPT !["drain"] = acks]
    /\ acks' = {}
    /\ elsewhere' = IF exiting THEN {e \in request["heartbeat"] : e[2] = "hook"} ELSE elsewhere
    /\ Goto("drain", "sending")
    /\ UNCHANGED <<live, old, command, current, joined, timely, exiting, aborted, settled>>

(* It sends them, if the server is known to take any, and forgets them     *)
(* whatever becomes of the request.                                        *)
DrainSent ==
    /\ at["drain"] = "sending"
    /\ settled' = settled \cup request["drain"]
    /\ Empty("drain")
    /\ DrainOver
    /\ UNCHANGED <<live, old, command, acks, current, timely, exiting, aborted, elsewhere>>

Ended == Gone /\ UNCHANGED vars

-----------------------------------------------------------------------------
Applying(a) ==
    \/ \E c \in Commands :
          Quarantine(a, c) \/ Stop(a, c) \/ First(a, c) \/ ListHook(a, c) \/ Acknowledge(a, c)
    \/ StartHook(a)

Taken == BeatTaken({}) \/ \E c \in Commands : BeatTaken({c})

Next ==
    \/ \E a \in Appliers : Applying(a)
    \/ \E h \in running : HookDone(h)
    \/ \E c \in Commands : Checkpoint(c)
    \/ EndRun
    \/ Beat \/ BeatFails \/ BeatRefused \/ Taken
    \/ \E exit \in BOOLEAN : Drain(exit)
    \/ DrainList \/ DrainRaises \/ DrainTake \/ DrainSent
    \/ Ended

Spec == Init /\ [][Next]_vars

(* Threads that apply commands or drain go on, the heartbeat keeps         *)
(* beating, and a server that has the endpoint takes one again and again.  *)
(* Hooks, the agent and flush() need do nothing.                           *)
Fairness ==
    /\ \A a \in Appliers : WF_vars(Applying(a))
    /\ WF_vars(DrainList \/ DrainTake \/ DrainSent)
    /\ WF_vars(Beat) /\ SF_vars(Taken)

FairSpec == Spec /\ Fairness

-----------------------------------------------------------------------------
(* Properties                                                              *)

(* "A quarantine's hook runs once per process", however many threads get   *)
(* it, and however often; a stop's runs once per run, unless two threads   *)
(* apply the first one at the same moment.                                 *)
HookOnce ==
    /\ \A q \in Quarantines : starts[q] <= 1
    /\ raced \/ \A s, z \in Stops : starts[s] + (IF s = z THEN 0 ELSE starts[z]) <= 1

Receipt(c) == <<c, "receipt">>

(* "At least once": a command that was applied is acknowledged to the      *)
(* server in the end, though heartbeats fail and the run ends, unless the  *)
(* server refuses the acknowledgement, a drain took it and failed to       *)
(* deliver it, or the process exits.                                       *)
AtLeastOnceUndrained ==
    \A c \in Commands :
        (c \in acked /\ ~old) ~> (Receipt(c) \in settled \/ Gone)

(* What that rests on: a receipt says that its command was applied, and a  *)
(* result that a hook of it is over; and each such report is listed, with  *)
(* the thread that sends it, taken or refused by the server, or sent by a  *)
(* drain, whichever threads send, fail, retry and list in between.         *)
Reported == acks \cup request["heartbeat"] \cup request["drain"] \cup settled

ReportsAccounted ==
    \A c \in Commands :
        /\ Receipt(c) \in Reported <=> c \in acked
        /\ c \in acked => IF c \in Stops THEN stopped ELSE c \in hooked
        /\ <<c, "hook">> \in Reported <=> \E n \in 1 .. starts[c] : <<c, n>> \notin running

(* "A script that ends right after a stop still finishes its containment,  *)
(* and says so": when the process exits, the hooks that ran when it began  *)
(* to, and end in the time the drain has, are over, and their results were *)
(* sent, but for those a heartbeat was sending at the time; unless a hook  *)
(* that was listed just then, and not started, made the drain raise.       *)
ExitReports ==
    Gone /\ ~aborted =>
        \A h \in joined \cap timely :
            /\ h \notin running
            /\ <<h[1], "hook">> \in settled \cup elsewhere

(* The same of every hook the drain at exit noted, however it ended, which *)
(* does not hold.                                                          *)
ExitFinishes == Gone => joined \cap running = {}
=============================================================================
