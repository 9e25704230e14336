# Fences, verified

TLA+ models of the Fences SDK (`src/sdk/agentfences/`), checked with TLC and
proved about with TLAPS. Fences puts limits on an agent's runs: a budget that
parallel model calls and tools share, holds and pauses at a limit, stops from a
dashboard. All of it happens inside the agent's process, in wrappers around the
agent's own code, while a background heartbeat brings commands from a server
that may be down. The hard part is that every rule has to survive the agent's
own concurrency.

## The system

One `RunState` (run.py) is kept per governed run, and almost every function of
the SDK reads or writes it. The agent's threads and tasks make model calls,
checkpoints and guarded tool calls on it; one heartbeat thread per process
applies commands to it; the server's replies adopt new limits into it.

| Part | State | Operations | What is hard, and what makes it correct |
|---|---|---|---|
| **Budget ledger** (precheck.py, core.py, tools.py) | `cost_usd`, `reserved_usd`, `holds`, `last_breach` | `hold`/`finish` around a model call, `checkpoint`, `_open`/`_settle` around a tool | Parallel calls check and reserve against one budget, in five functions that add and subtract; tasks are cancelled between a worker thread's reservation and its return. The running sums must equal what calls hold and cost, and calls never overspend together. |
| **Waiting** (control.py, core.py, precheck.py) | `paused`, `pause_expired`, `held`, `stopped`, `stop_seen`, `last_breach` | `start_hold`, `wait_if_paused`, `end_hold`, `_after_hold`, `_result`, `apply` | One set of flags for all calls that wait; each has its own deadline, and commands, decided on what the run was like a round trip ago, change the flags meanwhile. A held call goes on only if a person acted, a stop wins over a release, a timeout leaves no trace. |
| **Circuit breaker** (client.py) | `failures`, `open_until`, `probing` | `allow`, `record` | Shared by all threads; answers that come when the breaker has opened, or tests; a call that ends in no way it foresees. A test call no other's end came in the way of is the only one, and calls go through again. |
| **Stops** (control.py, core.py) | `_live`, `RunState.thread`, `task`, `cancelled`, asyncio's own count | `_halt`, `_cancel`, `disarm`, `halted_outer`, `_stopped`, the wrappers | An exception raised from another thread lands at any instruction; several cancels of a task become one; one thread or task has nested runs, and a stream's code alternates with its consumer's. A stuck run ends, and neither halt nor cancel reaches the caller. |
| **Outbox** (outbox.py) | `_queue`, its unfinished count, the worker's list | `_put`, `_work`, `_send`, `wait` | Batching, drops and failed requests. Order per run, one run per request, and a count that always comes back to zero. |
| **Heartbeat** (control.py) | `_live`, `_acks`, `_backoff`, the thread | `_heartbeat`, `apply`, `drain`, `adopt`, `_hook` | Commands are sent again until acknowledged, acknowledgements may be lost with their heartbeat, hooks run once. |
| **Cloud mode** (core.py, tools.py, client.py) | the server's books, the run's copy of them (`cost_usd`, `budget_usd`), `dedupes_steps` | `_server_check`, `_decide`, `_check_with_server`, `_ask_server`, `_settle`, `_post` | Requests are lost, repeated, served late and answered out of order, and each answer replaces the run's totals. Overspending is bounded by what an answer made the run forget; nothing is counted twice; guards fail closed. |
| **Approvals** (approvals.py) | `approvals`, `awaiting`, `budget_usd` | `_ask`, `_answer`, `request_approval` | An answer races the deadline and the registration of the call; raises and limits commands race each other without a lock. An answer is heard, and the budget settles at the server's. |
| **Pricing** (pricing.py, precheck.py) | a price table | `worst_case_usd`, `read_usage`, `cost_of` | Caches and tiers. The worst case, held before the call, is no less than its cost. |
| **LangChain handler** (langchain.py) | `_runs`, `_root`, `_started`, `_holds` | its callbacks | Parallel branches outlive the graph that failed. Runs and holds follow the calls they are for. |
| **OpenAI hooks** (openai_agents.py) | `_holds`, by agent | `on_llm_start`, `on_llm_end` | No callback for a failed call. Its hold must go, and another's must stay. |
| **Wrappers, recording** (instrument.py, mcp.py, events.py, spans.py) | none of its own | wrappers that call `hold`, `finish`, `checkpoint` | Pass the response to `finish`. |
| **TypeScript SDK** (`src/sdk-js`) | as above | as above | A port onto one event loop. |

They interact through `RunState` (fields), `control._live` (the heartbeat finds
runs there), the shared `GovClient` (every request passes the breaker) and the
outbox queue. A checkpoint is a ledger step, then a verdict, then perhaps a
wait; a model call is a ledger check, then perhaps a wait, then a check again.
The models cut it there: Ledger has the money and Hold the waiting. In cloud mode
the same ledger is a cache of the server's, and Cloud has what that changes; the
integrations drive it through callbacks, which Handler and Hooks have.

PROJECT.json lists the hazards of this code by line and the properties that
answer each.

## Modules

| Module | Models | How |
|---|---|---|
| `Amounts` | what a set of calls adds up to | `Total(f)` is the cardinality of the set of units `f` counts, so that no recursion is needed and it can be proved about. |
| `Fence` | the promise, abstract | Each call owes an amount; it goes out only if that fits the budget beside what all others owe. |
| `Ledger` | the budget ledger of one run in local mode | One action for each critical section under `reserve_lock`: `Take`/`Refuse` (`precheck.hold`), `Fail`/`Finish` (`precheck.finish`), `Checkpoint`/`Step` (`_record_step` and the local verdict), `Ask`/`Open`/`Block`/`Enter`/`Settle` (a guarded tool), `CancelOpen`/`CancelSettle` (its task is cancelled while a worker thread runs). `phase` is where a call's own code is. Refines `Fence`. |
| `Hold` | waiting of one run's calls | One action per stretch between two points where another thread may step in: `Decide` (a checkpoint's verdict), `Short` (a model call that does not fit), `WaitOrLeave`, `StartHold`, `Wake`/`Expire` (`_pause_over`), `EndHold`, `EndPause`, `AfterBreach`, `AfterBudget`. Commands are apart from what brings them about: `OperatorPause`/`Unpause`, then `Pause`; a heartbeat reads the run (`ReadPaused`, then `ReadHeld`), the server answers that report (`AutoResume`) or an operator resumes (`OperatorResume`), the answer may be lost (`Unanswered`), and `Resume` applies it later, once or again, whatever the run does by then; `Stop`. Flags have their Python names; `sent` is how far a report and its answer got, `wanted` the operator's pause. |
| `Breaker` | the circuit breaker | `Call`/`Probe` (`allow`), `Record` (of any call, a test or not, whenever it ends), `Halted` (a `Halt` lands in `send()`), `Cool` (time passes, whatever calls are out), `Turn` (the server goes down or up). `hit` has the calls the server may have failed. |
| `Halt` | halting sync runs of one thread | The wrapper of `governed` step by step (`Start`, `Arm`, `Leave`, `Finally`, `Handle`, `Decide`, `Cleanup`), the agent being told of the stop (`Find`, `Tell`), the heartbeat (`Stop`, `Look`, `Raise`) and the interpreter (`Land`), which raises the pending exception wherever the thread happens to be. |
| `Cancel` | cancelling async runs and streams of one task | The wrappers of async functions and streams (`Start`/`Started`, `Leave`, `Yield`/`Resume`/`Close`, `Cleanup`), the agent being told (`See`), the heartbeat and the loop (`Stop`, `Overdue`, `CancelOnLoop`), the task's owner (`OwnerCancels`), and the task going on with the one CancelledError that all cancels so far became (`Deliver`), which agents' code may catch. `Exit` is `_stopped` and the `finally`. |
| `Acks` | commands with an id | Applying one step by step in the heartbeat's or the agent's thread (`Quarantine`, `Stop`, `First`, `Acknowledge`), its hook listed in `_running_hooks` and then started (`ListHook`, `StartHook`), the hook's end (`HookDone`), heartbeats and how they end (`Beat`, `BeatFails`, `BeatRefused`, `BeatTaken`), and `drain` from `flush()` or at exit: its time begins (`Drain`), it reads the list (`DrainList`), joins the hooks or raises at one not started (`DrainRaises`), takes the acknowledgements (`DrainTake`) and sends them (`DrainSent`). |
| `Delivery` | the outbox's promise, abstract | Records wait in one line and go from its front, a request's worth at a time; the server takes a request whole or it is lost; one is turned away only when a queueful waits. |
| `Outbox` | the outbox | `Put`, the worker's `Get` and `Send`, and the ends of a request: `Taken`, `Fail`, `Unsupported`. Refines `Delivery`. |
| `Cloud` | one run in cloud mode, with the network and the server | The run: `Prepare`/`Take`/`Refuse`/`TakeNone`/`Answer`/`Fail` (`precheck`), `Record` (`_record_step`), `Decide` and `DecideAlone` (`_decide` with a reply or without), `Reserve`/`BlockHere`/`GuardReply`/`GuardSilent`/`Approve`/`Disapprove`/`Settle`/`Settled` (a guarded tool). The client: `Retry` of a step, a check or a settlement, `Request`, `Closed`, `MayRetry` (`_post`). External: the network is a set of requests, each served at once, after its caller gave up, or never, and twice if it was sent twice; `Serve*`, `SetBudget` and `OthersSpend` are the server, as PROTOCOL.md has it. |
| `Approvals` | approval requests and the budget they raise | `Ask`/`Register`/`Reject` (`_ask` around its request), `Hear`/`TimeOut`, then `Raise` (the two halves of `+=` in `_answer`), `Desert` (the caller is cancelled), `ApplyLimits`/`ApplyAnswers` (`control.apply`, limits first) in two threads. External: the server and the people (`Store`, `Grant`, `Turn`, `Send`). |
| `Handler` | the LangChain handler | A callback is one action, but for those that call `precheck` or `checkpoint` in the middle: `ModelStart` then `ModelHold`/`ModelRefused`, `ModelFinish` then `ModelRecord`. The tables have their Python names; `lc` is where LangChain is with each run. |
| `Pricing` | prices, costs, worst cases | Operators named for what they work out: `Tiered` (a tier's rates over the others), `Tokens` (`read_usage` and clamping), `CostOf` (`cost_of`), `WorstCase` (`worst_case_usd`). |
| `Hooks` | the OpenAI Agents hooks, with Pricing | `Start`, `End`, and `Fail`, of which no hook is told. Extends Pricing, so that what is held and what is charged come from the same prices. Refines `Fence` up to where an agent's calls first cross. |
| `AmountsProofs` | what all sums rest on | Facts about `Total`, for the proofs of every module that adds up amounts. |
| `LedgerProofs`, `HoldProofs`, `BreakerProofs`, `StopsProofs`, `ReportsProofs`, `CloudProofs`, `HooksProofs` | proofs | Each extends one component's module. Four have a second one as a named instance: `HoldProofs` Approvals (`App`), `StopsProofs` Halt beside Cancel (`Sync`), `ReportsProofs` Acks beside Outbox (`Ack`), `HooksProofs` Handler beside Hooks (`Lang`). See below. |
| `MC*` | TLC instances | Model values and sets for the .cfg files. |

Variables marked "history" are not in the code: they record what an operator,
a bill or a deadline did, so that a property can say what the code should know.
Operators marked "Mutant" are not part of the models either: each is a plausible
bug, put in the place of the definition after it to see that a property notices.

`TypeOK` says what values a module's variables take. It is proved invariant for
every component (`Hooks` has `Types` in its proofs instead), and so is the outbox's
`InOrder`, which is part of what `Delivery` promises; the runs leave these to the
proofs.

## Runs

| Run | Checks | Shows |
|---|---|---|
| `ledger` | `ReservedIsHeld`, `NoOverspend`, `HoldsCoverBills`, `QuietBooks`, `FenceSpec` | Two priced model calls and a tool whose task may be cancelled, beside unchecked steps: `reserved_usd` is what the calls hold, a call's room is kept until its own checkpoint, calls never bill more than the budget together, and when all is over the books balance but for what a cancelled tool leaked. |
| `ledger_unpriced` | `NoOverspend`, violated | A call finished without its response is released by another call's checkpoint, and two calls overspend. |
| `hold` | `AloneHeldUntilPerson`, `ResumeIsNoTimeout`, `SeenStopSticks`, `StopBeatsRelease`, `StopLeavesFewSteps`, `StopEndsHolds` | A checkpoint that waits alone is let go only by a person, if no answer to an earlier report was on its way as it began to; a resume is not taken for a timeout, of this hold or an earlier one; a stop that was seen sticks and beats a release; from then on no call goes round its checks and holds again, and every wait ends, also one that starts after the stop. |
| `breaker` | `ProbingIsProbe`, `RecoversUncut` | `probing` is up exactly while a test call is out that no other call's end overtook, of which there is one at most; and calls resume once the server is back, with answers to calls from before the breaker opened at any time. |
| `halt` | `OneHaltStaysInside`, `StuckRunInReach`, `OverIsReported`, `StuckRunEnds` | Runs nested or in a row, each stopped at any time: a stuck run stays in the heartbeat's reach, with its halt on the way once it was sent, and so ends or sees the stop; and a single halt never reaches the caller or lands after the run. |
| `cancel` | `CancelStaysInside`, `OwnersCountKept`, `StuckRunInReach`, `SeenIsSpared`, `StuckRunIsCancelled` | Async runs and a stream nested or in a row, each stopped, and the task cancelled by its owner, at any await: a cancel of Fences' own stays in the run it is for, and not in a stream's consumer; an agent that saw its stop is spared; the owner's cancels stay counted on the task; a stuck run's task is known to the heartbeat, its cancel is on the way once it was sent, and it leaves its code, unless that cancel got lost. |
| `acks` | `HookOnce`, `ReportsAccounted`, `ExitReports`, `AtLeastOnceUndrained` | However often commands come, hooks start once; a receipt and a hook's result are true, and none vanishes between the threads that list and send them; a drain at exit that does not raise leaves the hooks that end in its time over and reported; and an acknowledgement gets out though heartbeats fail and the run ends. |
| `outbox` | `Accounted`, `OneLine`, `AllDone` | The count `flush()` waits on, and order, through batches, drops and failures: queue, worker's list and request behave as the one line of `Delivery`. |
| `cloud` | `OnlyForgottenOverspends`, `CountedOnce`, `BothHold` | However requests are lost, repeated, delayed and reordered, checked calls bill no more than the largest budget plus what replies took off `cost_usd`; the server counts nothing twice, neither a step nor a settlement that is sent again; a guarded tool runs only with its amount reserved on both sides. |
| `approvals` | `CountedAtMostTwice`, `AnswerHeard`, `BudgetAgrees` | A person's answer reaches the call that waits; a raise counts twice for a while at most, and in the end the run's budget is the server's. |
| `handler` | `RunsMatch`, `RoomFollowsCalls` | A run is open exactly while what it stands for goes on, everything in it finds it, and room is given back by each end of a call. |
| `hooks` | `NoOverspend`, `OnlyFailedLeft`, `FenceUntilCrossed` | At every usage, tier and cache rate the worst case covers the cost, so the run doesn't overspend; room is held only by a call in flight or by its slot's last one, if that failed, and the next call gives it back; until calls of one agent cross, the hooks are a `Fence`. |

### Findings

The violated run is a disagreement between the code and its own documentation;
PROJECT.json quotes both sides. `ledger_unpriced`: a call finished without its
response (langchain.py:155) loses its hold to another's checkpoint (core.py:482).
`ledger` has the property hold where every call is finished with its response.

What the code does in some other corners is left out of the properties by a
condition stated with each. `HeldUntilPerson`, `OneTest`, `ExitFinishes` and
`HaltStaysInside` are the same promises without their conditions: TLC finds each of
them violated when it is put into its module's .cfg.

- What a heartbeat reports is answered a round trip later, and the answer applied
  without another look (control.py:312-314, 333, 133). A run that is paused, not
  held, and should no longer be is sent a resume; a hold that begins while that is
  on its way is released by it, though ENFORCEMENT.md:75 has "A held run doesn't
  continue until a person acts" (`HeldUntilPerson`). `AloneHeldUntilPerson` excludes
  the calls whose hold began with an answer or a full report on its way
  (`crossed`), and covers every report made or half made while the run was held.
- `record` takes `probing` down at the end of any call (client.py:41), also one
  sent before the breaker opened, and a second test may go out beside the first,
  though the comment at client.py:36 has "one test call at a time" (`OneTest`).
  `requests`' timeout bounds each connect and each read, not a call, and a call may
  be sent twice (client.py:141-149), so such a call may well end during a test.
  `ProbingIsProbe` tells those tests apart (`overtaken`); the breaker gets over it
  (`RecoversUncut`).
- `_hook` lists a thread and then starts it (control.py:160-162), and `drain` joins
  what is listed, with no `try` (control.py:202): one that comes in between raises,
  and at exit leaves the hooks it had yet to wait for and every acknowledgement,
  though control.py:195 has "still finishes its containment, and says so"
  (`ExitFinishes`). `ExitReports` excludes a drain at exit that raised (`aborted`).
- A tool's task cancelled while its check or its settlement runs in a worker
  thread leaves its reservation behind, or its cost uncharged (tools.py:237),
  though ENFORCEMENT.md:60 has "settled whatever happens". `QuietBooks` counts
  those apart (phase `leaked`).
- Two checkpoints held at once share `paused` and `pause_expired`: the timeout of
  one releases the other, whose checkpoint returns ok (control.py:365), though
  ENFORCEMENT.md:75 has "A held run doesn't continue until a person acts".
  `AloneHeldUntilPerson` is about checkpoints that waited alone.
- Two nested async runs cancelled before their task goes on get one
  CancelledError. The inner run's wrapper takes it for its own (core.py:311-315),
  and an agent that catches the inner FencesStop goes on in the outer run, which
  is never cancelled again, while `task.cancelling()` stays raised. For sync runs
  `halted_outer` prevents just that. `StuckRunIsCancelled` and `OwnersCountKept`
  exclude it (`lost`), with cancels the agent's own code caught.
- An owner's cancel that comes with one of Fences' own reaches the owner as
  FencesStop; it stays counted on the task (`OwnersCountKept`). A task cancelled
  while its run starts (core.py:231, 260) leaves a run in `_live` that nothing
  ends (place `orphan`).
- A `Halt` that lands in the breaker's test call leaves `probing` set, and the
  process never calls the server again (client.py:150, against the docstring at
  client.py:22). `RecoversUncut` excludes it.
- A drain drops the acknowledgements of a heartbeat that fails (control.py:204),
  though PROTOCOL.md:227 says they are sent again. To `AtLeastOnceUndrained`
  and `ExitReports` what a drain sent is `settled`, delivered or not.
- `configure` may find the heartbeat thread alive as it is about to return
  (control.py:48, 331), and leave none running.
- A reply that another overtook, or the first after a lost step, takes costs off
  `cost_usd` that the run knew of (core.py:429). `OnlyForgottenOverspends`
  allows calls to overspend by as much. Nor is `adopt` under `reserve_lock`: a
  reply's total and a parallel call's `+=` may overwrite each other, which Cloud,
  where each is one step, leaves out.
- A breach reply may lift the budget to `None` between `_prepare` and `_take`,
  whose comparison then raises `TypeError` (precheck.py:81; `TakeNone`).
- A guard given up on after the server took its amount is blocked here, and the
  server keeps the amount (tools.py:209).
- A raise is in the limits command and added by `_answer` too (approvals.py:66),
  until the next limits command: `CountedAtMostTwice`. A grant that comes after
  the deadline raises the limits though the call was told "denied", and an answer
  nobody waits for is acknowledged. A cancelled `request_approval` leaves
  `awaiting` raised, and the heartbeat fast, for the rest of the run.
- Under LangChain: a tool invoked on its own opens a run that nothing ends
  (`RunsMatch` is about chains and model calls); a handler attached below a chain
  it doesn't know governs nothing; a refused start leaves its entry in `_root`;
  calls that outlive a graph inside `@governed` keep their room, and are never
  recorded (`RoomFollowsCalls` excludes them).
- Under the OpenAI hooks: one hooks object shared by an agent's concurrent runs
  takes the call in flight for a failed one (`crossed`), and an agent that never
  calls again keeps a failed call's room.
- `WorstCase` does not cover a custom price whose cache reads are dearer than
  other input, a gateway's own cost, or a response from another model than the
  one asked for. The first is `Consistent`, an assumption; `Usages` leaves out
  the others.
- `pause_expired` stays set after a pause nobody resumed, so a hold that starts
  later and is resumed ends as timed out. `ResumeIsNoTimeout` is about runs in
  which no pause expired, and about calls that waited alone.
- `_after_hold` assigns `last_breach = None` after the hold's end was decided, so
  a stop another call reports in between is erased. `SeenStopSticks` excludes
  runs in which a checkpoint was released from a hold.
- `last_breach` set by a refused call (precheck.py:58) is assigned anew by the
  next checkpoint's verdict, so a run with a refused call may end as a success.
- Two nested runs halted at almost the same time: the second halt can land in
  the handler or the cleanup of the first, leave a run unreported, or reach the
  caller. `OneHaltStaysInside` is about one halted run; `HaltStaysInside` is the
  unconditional form. A halt for an outer run may also cut the cleanup of an
  inner one, which `OverIsReported` allows.
- Two threads that apply the first stop at the same moment both find
  `run.stopped` unset and both start the `on_stop` hook (control.py:106).
  `HookOnce` excludes that moment.
- At exit, results that a heartbeat is sending while the drain takes the rest are
  not waited for, and a hook that takes its whole time may end just after the
  drain's, which is as long and began before the list was read (control.py:198-200).
  `ExitReports` excludes the former (`elsewhere`), and is about hooks that end in
  the drain's time (`timely`, any of those that were started when it began).
  A drain that `flush()` calls may raise as well; what it leaves is still listed.
- The outbox worker's own list has no bound (outbox.py:66).

### What is taken from the server

The server's code is not in the repository. What the models have it do is what
PROTOCOL.md says and the SDK relies on:

- Hold: it sends `resume` only in answer to a report of a run that is paused and not
  held, while no pause is in force (PROTOCOL.md:203, 248), or for an operator; any
  of its answers may be late, and a resume may come twice.
- Cloud: it counts a step it echoed the id of once (`dedupes`); a check it allowed
  is answered the same again, and a settlement is counted once for its `guard_id`
  (PROTOCOL.md:288, 364 "`guard_id` makes a repeat harmless anyway"). The client
  repeats a settlement whatever the server echoed (client.py:116), so that a cost
  is not counted twice is, for settlements, the server's doing: with one that adds up each
  it receives, `CountedOnce` fails. (PROTOCOL.md:364 also says that "Nothing is
  retried", which the client no longer keeps to.) A request that is lost is one that
  stays in the network and is never served; one that was sent twice may be served
  any number of times, which is more than can happen.
- Acks: commands come any number of times.

### Bounds

- Ledger: budget 3, amounts up to 2, so that one call fits twice but not three
  times, and two calls that each fit alone do not fit together; two model calls
  and a tool cover each pair of kinds of call in parallel. One unit of unchecked
  spend (`MaxUnchecked`) is enough for a step to take the run over budget. The
  proofs need none of these bounds.
- Hold: two calls, at once or in turn. The properties relate a call to one other
  call (or to one before it) and to commands, which are unbounded but for one report
  or its answer on its way at a time: a heartbeat waits for its reply.
- Breaker: three failures to open as in the code, three threads: one can hold a
  test call, one a call from before, one a new call. Time is a flag (`cooled`).
- Halt: three runs on a thread, as nested or consecutive as the agent likes;
  two are enough for an inner and an outer halt, the third for a run between.
- Cancel: two async functions and a stream, nested in any order or in turn: an
  inner and an outer cancel, a consumer that is governed or not, a stream within
  a stream's consumer's call. The owner cancels once, which is enough to meet each
  cancel of Fences' own.
- Acks: one run, a stop and a quarantine, each sent without limit to two threads;
  a reply brings one command. More runs would only multiply the entries, which
  do not depend on each other. At
  exit `flush` (core.py:618) runs before `drain` (control.py:212), as it was registered
  after it, and its drain is one of those from before.
- Cloud: two model calls and a tool, amounts and the budget of one unit, and one
  unit spent by others, so that each pair of calls competes for the last room, one
  reply can overtake another, and forgetting one cost lets one call too many
  out. The dashboard moves the budget between one and none as often as it likes.
- Approvals: two requests, so that raises meet raises as well as limits; each
  thread holds one reply at a time.
- Handler: two chains (nested either way or apart), two model calls in them or on
  their own, and a tool: a parent, a sibling, and calls that outlive both.
- Hooks: three calls for two slots, so that two meet in one; prompts below and
  above a tier's start, at a price with cache rates and one with a tier.
- Outbox: five items, a queue of three and batches of two: full queue, a batch
  cut by size and one cut by kind or run.

### Fairness

- Hold: every call's own code goes on (weak fairness of its steps). A waiting
  call looks at the flags at least every second, and commands come at most every
  two seconds, so strong fairness of `Wake`. A stop is sent again with every
  heartbeat. No operator need act and no deadline need pass.
- Breaker: the heartbeat and live runs keep posting, requests time out, and time
  passes. The server may stay down for ever (`RecoversUncut` is about when it does
  not), and `Halted` need never happen.
- Halt: the SDK's own code goes on, the heartbeat keeps looking, and the
  interpreter raises a pending exception. The agent's code has no fairness at
  all: it may loop for ever, which is what a halt is for.
- Cancel: the SDK's own code goes on, the heartbeat keeps looking, the loop runs
  callbacks and lets a cancelled task go on. The agent may await for ever.
- Acks: threads that apply commands or drain go on, the heartbeat keeps beating,
  and a server that has the endpoint takes a heartbeat again and again (strong
  fairness of `Taken`): no promise is made about one that never does.
- Outbox: the worker goes on and requests end.
- Approvals: the heartbeat goes on, and so do its thread and the calls that poll.
  People need not answer, deadlines need not pass, and checkpoints not happen.
- Ledger, Cloud, Handler and Hooks have safety properties only.

## Proofs

Everything below is proved for every value of the constants: any number of calls,
threads, runs or commands, any budget and bounds. The assumptions are those the
modules state of their constants (`LedgerAssumption` and its like: sets that are
finite, kinds that don't overlap, bounds that are numbers, `Consistent` prices).
For a module that is a named instance the assumption is a hypothesis of its
theorems, since an instance does not bring its own along: TLC evaluates it in the
module's run. Their properties are named through the instance, `Sync!OverIsReported`
and so on, and are the definitions that the modules' runs check.

Each proof has the same shape: an inductive invariant, checked with TLC on the
bounds of the module's run before it was proved; one lemma per action, or one for
actions that move a call alike; a theorem `Spec => []Inv`; and a short derivation of
each property from `Inv`.

| Module | Theorems | Beside the invariant |
|---|---|---|
| `LedgerProofs` | `LedgerTypeOK`, `LedgerReservedIsHeld`, `LedgerQuietBooks` | |
| | `LedgerCommitted`, `LedgerNoOverspend`, `LedgerHoldsCoverBills`, `LedgerImplementsFence` | `Unpriced = {}` |
| | `FenceKeepsBudget`; with the refinement, `LedgerWithinBudget` | the latter: `Unpriced = {}` |
| `HoldProofs` | `HoldTypeOK`, `HoldAloneHeldUntilPerson`, `HoldResumeIsNoTimeout`, `HoldSeenStopSticks`, `HoldStopBeatsRelease` and `HoldStopLeavesFewSteps` (of steps) | |
| | `ApprovalsTypeOK`, `ApprovalsCountedAtMostTwice` | `ApprovalsAssumption` |
| `BreakerProofs` | `BreakerTypeOK`, `BreakerProbingIsProbe` | |
| `StopsProofs` | `CancelTypeOK`, `CancelCancelStaysInside`, `CancelOwnersCountKept`, `CancelStuckRunInReach`, `CancelSeenIsSpared` (of steps) | |
| | `HaltTypeOK`, `HaltOneHaltStaysInside`, `HaltOverIsReported`, `HaltStuckRunInReach` | |
| `ReportsProofs` | `OutboxTypeOK`, `OutboxInOrder`, `OutboxAccounted`, `OutboxImplementsDelivery` | |
| | `AcksTypeOK`, `AcksHookOnce`, `AcksReportsAccounted`, `AcksExitReports` | `AcksAssumption` |
| `CloudProofs` | `CloudTypeOK`, `CloudOnlyForgottenOverspends`, `CloudCountedOnce`, `CloudBothHold` | |
| `HooksProofs` | `WorstCaseCovers`; `HooksNoOverspend`, `HooksOnlyFailedLeft`, `HooksImplementFence` | |
| | `HandlerTypeOK`, `HandlerRunsMatch`, `HandlerRoomFollowsCalls` | `HandlerAssumption` |

`AmountsProofs` has what every sum here rests on: `Total` is a natural, monotone,
splits over disjoint sets, and changes by the difference when one amount changes.

**Ledger.** `ReservedIsHeld` alone is not inductive: that a checkpoint subtracts the
right amounts depends on which calls are in `holds` in which phase. `Inv` adds
`Shape` (what each phase says of a call's hold and bill) and `CostIsCharged` (`cost`
is what recorded calls billed, plus unchecked steps). Each action moves one call
from one phase to another, and `OneCall` turns that into the change of the two sums;
a checkpoint releases several holds, hence `ReleaseFinished`. `Committed` is
invariant relative to `Inv`, and only when every answer is priced (`Unpriced = {}`):
the run `ledger_unpriced` shows why. The refinement maps `owed` to a call's bill
once recorded and to its hold until then, `admitted` to the calls that went out and
`outside` to unchecked spend; an action of the ledger is an `Admit`, a `Resolve`, an
`Outside` step or a stutter. That `Fence` itself keeps `WithinBudget` is proved of
the abstract specification, and the ledger has it by the refinement.

**Hold.** The flags are shared, so what a call may conclude from them must be said of
every call that may have set them. `TimeoutHasOwner` says whose timeout
`pause_expired` tells of, `AloneIsHeld` and `EndsAlone` who may end the wait of a
call held alone: nobody, while no report that leaves the hold out is complete, and
none can be, since it says what holds the run; `StopIsKept` that a stop the agent
saw is in `last_breach` but for the assignment in `_after_hold`; `Shape` ties a
call's place to its reason to wait.
Of steps, `FewerLeft` counts: once the run is stopped a call that moves has fewer
steps left (`StepsLeft`), which the loop from a release back to the check would break.

**Approvals.** `CountedAtMostTwice` bounds the run's budget by the server's and what
was raised here. To be inductive it must be said of each budget on its way as well
(`Twice`): one in a limits command a thread holds, and one that `+=` has read and
not yet written. `Stages` has `approvals` and `awaiting` match the calls that wait,
and says that who was told "granted" was told the truth.

**Breaker.** `FlagIsProbe` is about `Tests`, the test calls in flight that no other
call's end overtook: the flag is up exactly while there is one, or after a Halt
cut one off. It needs `OvertakenAreOut` (what was overtaken is a test still out) and
no more: nothing is assumed of the calls from before, which may end at any time.

**Cancel.** `Framed` has each run in one frame at most, all but the innermost waiting
in their agents' code. `Cancels` says where each of Fences' cancels is (pending,
travelling through the cleanup of an inner run, or lost), and `Counts` that the
task's count is the owner's cancels and one for each run that may take its own back.
`StuckRunInReach` follows from `Cancels` and from `Tasks`, which says whose task is set.

**Halt.** The interpreter may raise the exception at any instruction. `NoHalt` says
what holds until a run is halted, `OneHalt` where the exception of a single halted
run may be: waiting for its code, or in or on its way to its wrapper, before that
turned it into a FencesStop. `CutShort` is `OverIsReported` for the step to keep.
`StuckRunInReach` is about any number of halted runs, so it needs an invariant of its
own, `ReachInv`: who is on the thread is in `_live` (`Called`), and for each halted
run whose stop nobody saw (`Awaited`) either the exception is pending or the
innermost wrapper has it in hand (`Caught`), which passes it on if it may be an outer
run's (`_halted_outer`). `ReachPop` is what a frame that ends leaves.

**Outbox.** `TypeOK`, `InOrder` and `Accounted` are inductive together; the work is
in the lemmas about sequences that are split, joined and drained. The same lemmas
give the refinement of `Delivery`: what waits there is the worker's request, its
list and the queue end to end (`Backlog`), so that `Get` and `Send` move nothing
(`GetKeeps`, `SendKeeps`), and the end of a request takes it off the front (`Divided`).

**Acks.** `Numbered` numbers the starts of a hook, `Quarantined` and
`Stopping` say which threads may be about to list one, for a quarantine and for the
first stop, and who raced whom, and `Delivered` follows each hook's entry
from the list to the drain's request or a heartbeat's as the process exits.
`ReportsInv` holds of every report at any time: `Receipts` and `Results` say when one
is listed, with a thread that sends it, or settled, and
`Hands` that a drain has some only while it sends.

**Cloud.** `ModelStages` and `ToolStages` say, for each place a call is in, which of
its requests may still be in the network or with the server, a settlement that was
counted included; `NoDouble` that a step is sent twice, or on its way again after it
was counted, only if the server would know it; `Peaked`
what the largest budget covers; `Sums` has the run's and the server's books as
totals over the calls. Each step is about one call: `SumsMove` says how the
totals move with it, `ToolsStay` and `ModelsStay` that the other kind of call keeps
its place. A reply that replaces `cost_usd` may take costs off it that the
run knew of: by as much `forgotten` grows.

**Pricing and Hooks.** `WorstCaseCovers` is about any prices and tokens: the
worst case's tier is that of the whole estimate, no tier is cheaper (`Consistent`),
and a cached part of the input is priced at no more than `InputRate`. `HooksInv` adds
`Placed`: a call in flight has its slot to itself, for all it may cost, unless
another call took the slot (`crossed`). For the refinement a call owes what it may
cost while in flight, and then its bill (`owed`, `billed`); by `OwedWithin` that fits
what the run spent and holds, which is why a step of the hooks, one that drops a
failed call's room for the next call's included, is `Fence`'s.

**Handler.** `Roots` and `Opened` tie the tables to LangChain's own view: who is in
`_root` was seen to start, who is in `_runs` is a root, and the open runs are those
in `_runs`. `RoomOf` says that a call's room is in the run the call finds, or, if it
finds none any longer, in one that is over or that was joined; that is what lets
every end of a call, `Finish` in "the run there is now", find it again.

Model-checked only: what is promised to happen in the end (`StopEndsHolds`,
`RecoversUncut`, `StuckRunEnds`, `StuckRunIsCancelled`, `AtLeastOnceUndrained`,
`AllDone`, `AnswerHeard`, `BudgetAgrees`). It rests on fairness, and so on `ENABLED`,
which is beyond the prover. Each safety property that a passing run checks is proved.

## Plan

1. Done: all modules above, their runs, and a proof of every safety property.
2. Done: the refinements (Ledger and, until calls cross, Hooks of `Fence`; Outbox of
   `Delivery`), and the safety facts that the promises of liveness rest on
   (`StuckRunInReach` for halts and for cancels, `ReportsAccounted`,
   `StopLeavesFewSteps`).
3. Left: a second `configure`; the two halves of `awaiting += 1`, and of the check
   and the assignment in `apply` of an approval, each one step in Approvals; and an
   abstract specification of what calls may overspend in cloud mode.

## Not modelled

- A second `configure` (control.py:40). Streams
  whose items are asked for by several tasks, and Python before 3.11, where a task
  has no count of its cancels.
- Looking up prices by a model's name, and estimating tokens from a request's
  text: string matching. Redaction, spans, results: pure functions of their
  input. The ledger takes worst cases and costs as inputs, the cost at most the
  worst case; Hooks takes both from Pricing.
- Instrumented clients and MCP: they pass the response to `finish`, then
  checkpoint it or leave that to the agent, in the order Ledger has. What they
  record has no effect on a run.
- The TypeScript SDK: the same design on one event loop, whose interleavings are
  at the awaits only, and so among those of the Python models.
- Limits other than the budget (steps, tokens, time, loops): they may be crossed
  at any checkpoint (`other_limit`), but their counters are not kept.
- `fail_closed`, which ends the run at a lost checkpoint: less can happen then.
- Docs, packaging, price scripts: no logic of the SDK.
