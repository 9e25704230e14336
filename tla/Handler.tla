------------------------------ MODULE Handler ------------------------------
(***************************************************************************)
(* The LangChain handler (langchain.py): LangChain tells it when chains,   *)
(* model calls and tool calls start and end, from whichever thread, and it *)
(* finds the Fences run they belong to by the outermost LangChain run.     *)
(* Branches of a graph run in parallel; when one fails, the graph is over  *)
(* while the others still run, and report to the handler afterwards.       *)
(***************************************************************************)
CONSTANTS
    Chains, Models, Tools, \* LangChain runs of each kind, one chain with others in it
    Foreign                \* an enclosing chain the handler was not given to

Nodes == Chains \cup Models \cup Tools

ASSUME HandlerAssumption ==
    /\ {Foreign, "outer", "none"} \cap Nodes = {}
    /\ Chains \cap Models = {} /\ Chains \cap Tools = {} /\ Models \cap Tools = {}

VARIABLES
    lc,       \* LangChain's own view of each of its runs
    joined,   \* the graph runs inside an @governed call
    root,     \* _root
    runs,     \* _runs: "own" (started here) or "outer"
    started,  \* _started
    holds,    \* _holds
    fences,   \* of each Fences run started here, whether it is open
    room,     \* of each model call, its entry in RunState.holds
    owner,    \* whose RunState that is: of a root started here, or "outer"
    unseen    \* history: calls whose end found no run

handler == <<root, runs, started, holds>>
vars == <<lc, joined, handler, fences, room, owner, unseen>>

TypeOK ==
    /\ lc \in [Nodes -> {"new", "starting", "running", "ending", "over"}]
    /\ joined \in BOOLEAN
    /\ DOMAIN root \subseteq Nodes /\ \A n \in DOMAIN root : root[n] \in Nodes \cup {Foreign}
    /\ DOMAIN runs \subseteq Nodes /\ \A n \in DOMAIN runs : runs[n] \in {"own", "outer"}
    /\ started \subseteq Models \cup Tools /\ holds \subseteq Models
    /\ fences \in [Nodes -> {"none", "open", "over"}]
    /\ room \in [Models -> {"none", "held", "finished"}]
    /\ owner \in [Models -> Nodes \cup {"outer", "none"}]
    /\ unseen \subseteq Models

Init ==
    /\ lc = [n \in Nodes |-> "new"] /\ joined \in BOOLEAN
    /\ root = [n \in {} |-> n] /\ runs = [n \in {} |-> "own"] /\ started = {} /\ holds = {}
    /\ fences = [n \in Nodes |-> "none"]
    /\ room = [m \in Models |-> "none"] /\ owner = [m \in Models |-> "none"]
    /\ unseen = {}

Goto(n, here, next) == lc[n] = here /\ lc' = [lc EXCEPT ![n] = next]

(* The chains n may be in: a running one, or one unknown here, or none.    *)
Parents(n) == {c \in Chains \ {n} : lc[c] = "running"} \cup {Foreign, n}

(* _run: the run of n, by its root.                                        *)
RunOf(n) ==
    IF n \in DOMAIN root /\ root[n] \in DOMAIN runs
    THEN IF runs[root[n]] = "outer" THEN "outer" ELSE root[n]
    ELSE "none"

(* table[n] = value, in Python.                                            *)
Entered(table, n, value) == [x \in DOMAIN table \cup {n} |-> IF x = n THEN value ELSE table[x]]

(* _enter, for n in parent (n itself: outermost).                          *)
Enter(n, parent) ==
    IF parent # n
    THEN /\ root' = Entered(root, n, IF parent \in DOMAIN root THEN root[parent] ELSE parent)
         /\ UNCHANGED <<runs, fences>>
    ELSE /\ root' = Entered(root, n, n)
         /\ runs' = Entered(runs, n, IF joined THEN "outer" ELSE "own")
         /\ fences' = IF joined THEN fences ELSE [fences EXCEPT ![n] = "open"]

(* _enter when the run may not start (quarantine, key rejected).           *)
StartRefused(n) ==
    /\ ~joined
    /\ Goto(n, "new", "over")
    /\ root' = Entered(root, n, n)
    /\ UNCHANGED <<joined, runs, started, holds, fences, room, owner, unseen>>

(* _exit: only the root of a run ends it, and forgets what was in it.      *)
Exit(n) ==
    LET isRoot == n \in DOMAIN root /\ root[n] = n
    IN  /\ root' = [x \in {x \in DOMAIN root : root[x] # n} |-> root[x]]
        /\ runs' = IF isRoot THEN [x \in DOMAIN runs \ {n} |-> runs[x]] ELSE runs
        /\ fences' = IF isRoot /\ n \in DOMAIN runs /\ runs[n] = "own" THEN [fences EXCEPT ![n] = "over"] ELSE fences

(* Mutant: a model call on its own does not end its run.                   *)
ExitNever(n) == UNCHANGED <<root, runs, fences>>

(* A model call on its own ends the run it started.                        *)
ExitIfRoot(n) == IF n \in DOMAIN root /\ root[n] = n THEN Exit(n) ELSE UNCHANGED <<root, runs, fences>>

-----------------------------------------------------------------------------
(* Chains                                                                  *)

ChainStart(c, parent) ==
    /\ Goto(c, "new", "running")
    /\ Enter(c, parent)
    /\ UNCHANGED <<joined, started, holds, room, owner, unseen>>

(* Its end, or its error, which leaves the branches beside it running.     *)
ChainEnd(c) ==
    /\ Goto(c, "running", "over")
    /\ Exit(c)
    /\ UNCHANGED <<joined, started, holds, room, owner, unseen>>

-----------------------------------------------------------------------------
(* Model calls                                                             *)

ModelStart(m, parent) ==
    /\ Goto(m, "new", "starting")
    /\ Enter(m, parent)
    /\ started' = started \cup {m}
    /\ UNCHANGED <<joined, holds, room, owner, unseen>>

(* precheck.hold in the call's run; no run or no price: nothing is held.   *)
ModelHold(m) ==
    /\ Goto(m, "starting", "running")
    /\ holds' = holds \cup {m}
    /\ \/ UNCHANGED <<room, owner>>
       \/ /\ RunOf(m) # "none"
          /\ room' = [room EXCEPT ![m] = "held"]
          /\ owner' = [owner EXCEPT ![m] = RunOf(m)]
    /\ UNCHANGED <<joined, root, runs, started, fences, unseen>>

(* precheck.hold refuses the call.                                         *)
ModelRefused(m) ==
    /\ RunOf(m) # "none"
    /\ Goto(m, "starting", "over")
    /\ ExitIfRoot(m)
    /\ UNCHANGED <<joined, started, holds, room, owner, unseen>>

(* Mutant: a hold is marked finished, be the call failed or not.           *)
FinishUnfailed(m, failed) == IF room[m] = "held" /\ owner[m] = RunOf(m) THEN [room EXCEPT ![m] = "finished"] ELSE room

(* finish() without a response, in the run there is now.                   *)
Finish(m, failed) ==
    IF room[m] = "held" /\ owner[m] = RunOf(m) THEN [room EXCEPT ![m] = IF failed THEN "none" ELSE "finished"] ELSE room

(* on_llm_end: finish() without the response.                              *)
ModelFinish(m) ==
    /\ RunOf(m) # "none"
    /\ Goto(m, "running", "ending")
    /\ started' = started \ {m}
    /\ holds' = holds \ {m}
    /\ room' = Finish(m, FALSE)
    /\ UNCHANGED <<joined, root, runs, fences, owner, unseen>>

(* on_llm_end's checkpoint, which takes every finished hold of the run     *)
(* with it, as they name no response; finally, a lone call ends its run.   *)
ModelRecord(m) ==
    /\ Goto(m, "ending", "over")
    /\ room' = [x \in Models |-> IF room[x] = "finished" /\ owner[x] = owner[m] THEN "none" ELSE room[x]]
    /\ ExitIfRoot(m)
    /\ UNCHANGED <<joined, started, holds, owner, unseen>>

(* on_llm_error: nothing is billed.                                        *)
ModelError(m) ==
    /\ Goto(m, "running", "over")
    /\ RunOf(m) # "none"
    /\ started' = started \ {m}
    /\ holds' = holds \ {m}
    /\ room' = Finish(m, TRUE)
    /\ ExitIfRoot(m)
    /\ UNCHANGED <<joined, owner, unseen>>

(* Either end when the call has no run, or no longer: nothing happens.     *)
ModelUnseen(m) ==
    /\ RunOf(m) = "none"
    /\ Goto(m, "running", "over")
    /\ unseen' = unseen \cup {m}
    /\ UNCHANGED <<joined, handler, fences, room, owner>>

-----------------------------------------------------------------------------
(* Tool calls                                                              *)

ToolStart(t, parent) ==
    /\ Goto(t, "new", "running")
    /\ Enter(t, parent)
    /\ started' = started \cup {t}
    /\ UNCHANGED <<joined, holds, room, owner, unseen>>

(* Neither on_tool_end nor on_tool_error ends a run.                       *)
ToolEnd(t) ==
    /\ Goto(t, "running", "over")
    /\ started' = IF RunOf(t) = "none" THEN started ELSE started \ {t}
    /\ UNCHANGED <<joined, root, runs, holds, fences, room, owner, unseen>>

Next ==
    \/ \E n \in Nodes : StartRefused(n)
    \/ \E c \in Chains : ChainEnd(c) \/ \E p \in Parents(c) : ChainStart(c, p)
    \/ \E m \in Models :
        \/ ModelHold(m) \/ ModelRefused(m) \/ ModelFinish(m) \/ ModelRecord(m) \/ ModelError(m) \/ ModelUnseen(m)
        \/ \E p \in Parents(m) : ModelStart(m, p)
    \/ \E t \in Tools : ToolEnd(t) \/ \E p \in Parents(t) : ToolStart(t, p)

Spec == Init /\ [][Next]_vars

-----------------------------------------------------------------------------
(* Properties                                                              *)

(* A Fences run started for a chain or a lone model call is open exactly   *)
(* while that is running, whatever ends it and whatever still runs inside; *)
(* and as long as an outermost run goes on, all that started in it finds   *)
(* it.  (A tool invoked on its own opens a run that nothing ends.)         *)
RunsMatch ==
    /\ \A n \in Chains \cup Models : fences[n] = "open" <=> fences[n] # "none" /\ lc[n] # "over"
    /\ \A n \in DOMAIN root \ Tools :
        LET r == root[n]
        IN  r \in DOMAIN root /\ root[r] = r /\ fences[r] # "none" => (RunOf(n) # "none" <=> fences[r] = "open")

(* In a run that is open, room is taken only by calls in progress: every   *)
(* end of a call gives back what its start took, unless it outlives the    *)
(* graph it is in, when the room it has in a joined run stays taken.       *)
RoomFollowsCalls ==
    \A m \in Models : room[m] # "none" =>
        \/ lc[m] \in {"running", "ending"}
        \/ owner[m] = "outer" /\ m \in unseen
        \/ owner[m] \in Nodes /\ fences[owner[m]] = "over"
=============================================================================
