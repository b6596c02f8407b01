# Persatrix in TLA+

Persatrix is a multi-agent orchestrator: a Go server (`internal/`,
`cmd/orchestrator`) that schedules workflows, routes channel conversations and
accounts for LLM spend, and Python agents (`agents/`) that talk to it over gRPC:
personas with event loops and memory, and task agents with tools. This directory
holds TLA+ models of the parts that carry state over several steps, TLC
configurations that check them on small instances, and TLAPS proofs, for every
value of the constants, about the lease ledger, leased calls, workflow runs,
channel interactions, event loops, the closing of a persona's interactions, the
tiers of its memory, and an agent's session, timers, routing and logs.

    tlc -workers 2 -config wallet_budgets.cfg MCWallet    # a run
    tlapm WalletProofs.tla                                # the proofs

`PROJECT.json` lists every run, the source lines each definition stands for, the
hazards, the mutants that show each property can fail, and the theorems.

## The system

### What its parts keep, do and promise

| part | state | operations | hard because | correct when |
|---|---|---|---|---|
| **Wallet** (`internal/wallet`, `internal/cost`) | leases in flight, holds, dollars per scope, tokens per interaction | AcquireLease, SettleLease, ReleaseLease, the reaper's tick, ResetDaily | handlers, reaper and reset on goroutines of their own; one ceiling is read before the lock | every lease is charged exactly once; cap, budgets and ceilings hold; every lease ends |
| **Leased LLM calls** (`wallet_client.py`, `llm_client.py`) | one lease block per call | acquire with retries, provider call, settle or release with retries | answers lost, requests duplicated, cancellation, crash | the charge is what the client knew of the call, or the full grant |
| **Planner** (`internal/planner`) | none beyond a call | Parse, ValidateDAG, Plan, the context-budget split | duplicate dependencies, parent pointers, integer division | cycles are rejected and only they; stages are a topological order; shares fit the total |
| **Scheduler** (`internal/scheduler`, `internal/state`, workflow handlers) | run records, in-flight set, semaphore, per-run goroutines | submit, delete, poll, execute run, stage and step, shutdown | every store call is atomic, nothing spans two; polls act on copies | a run executes once, in order, and ends consistently |
| **Channel interactions** (`internal/channels`) | the resolver's entry per channel, reply counters, vote tallies, tombstones, budget snapshots, the no-reopen ledger | publish, end vote, bounded close, idle rotation, channel delete | four mutexes never held together, so every publish is a dozen steps | a closed interaction is closed once and not reopened; nothing is lost or left resident |
| **Persona event loop** (`event_loop*.py`, `tick.py`, `dispatch.py`, `action_executor.py`) | a bounded queue, a supervisor and a lock per persona, handles callers await, timers | enqueue, dispatch (queued, reentrant, direct), handle a wake, stop in five phases | personas mention each other while somebody stops, gives up or fills a queue | every handle is settled or its waiter cancelled, no lock or cascade leaks, every dispatch and stop returns |
| **Closing an interaction** (`interaction_tracker.py`, `close_*.py`, `replay_*.py`, `finalize_close.py`, `vote_close.py`, `channel_catchup.py`) | open records per speaker, episodes pending or summarised | record a turn, nine ways to close a record, catch-up of every start, finalize, janitor | catch-up is cut off and repeated; live turns land in replayed records; crash between the two writes | every span becomes one episode, whole; none stays pending |
| **Memory** (`agents/memory`) | facts, notes, commitments, relationships, episodes, procedures, shared pool, each row with session, principal and epoch | one task per operation, statements interleave on one connection | reads and writes of one operation are several awaits; sweeps and eviction run beside them | the last assertion is believed, nobody reads another principal's rows, no update is lost, nothing just confirmed is evicted |
| **A turn** (`persona_runtime`, `response_gate.py`, `salience_bid.py`) | the turn's own: verdict, bid, calls, actions, publishes | gate, bid, compose with tool rounds, critique, confine, remember, execute | every await may time out or be denied; early returns everywhere | it speaks only when the floor is its own, remembers what it heard, answers once, tells a denial |
| **The prompt** (`memory_context.py`, `injection_gate.py`, `audience.py`, `conversation_window.py`) | sections, rosters, budgets, window cache | recall, gate, project, admit within budget; fetch and trim a transcript | rosters change while they are fetched; a cancelled turn leaves sections behind | nothing above the room's level or from a room somebody present was not in; the transcript is the room's recent past |
| **Task agents** (`base.py`, `task_tool_round.py`, `tools`, `sub_agents`, `decision`) | the loop's round, a subprocess, a delegation's rows | LLM loop, argument and permission checks, tools, merge, persist, roll back, decide | runs are cut off anywhere, writes fail part way, plug-ins answer anything | no tool acts outside its permissions, every call is answered, a delegation lands whole or not at all |
| **Model calls** (`llm_providers.py`, `llm_gemini.py`, `llm_watsonx.py`, `llm_offline.py`) | a call's history, the vendor's answer; the offline script's position | build a request, read an answer and its usage, append a tool round | four vendors correlate calls and results differently, answer without ids, cut off mid-call | every request is one the vendor takes, every reported token is counted, a scripted point is made once |
| **The agent process** (`server_reregister.py`, `migrations.py`, timers, `log_shipper.py`, `model_aliases.py`) | token, schema, anchors, log queue, alias map | register, upgrade, arm timers, ship, route | restarts of either side, crashes between statements, broken streams | it heals, upgrades completely, keeps its rhythm, loses no log silently, pays for every call |
| **Experiment EXP-001** (`evaluators/exp001`) | a meeting's processes and call log, the arm's stores; the run's windows, pairs, seal, packets, replies on disk | hold a try, watch its log, stop it, judge it; hold every pair, draw, judge, report | hangups during a stop, a log that grows after the meeting, kills between any two files | no try leaves a process or a memory behind, nothing discarded is scored, the cap holds, the judge is asked once |
| **Synthesis closes, floor rounds, convening, executor, society, audit chain, log buffer** (Go) | armed closes, floor queue, cadence counters, cache, approvals, hash chain, rings | | timers racing replies | not modelled yet |
| **Registry, accounts, REST decoding, metrics, CLI, web** | maps or rows behind single statements | | no protocol between operations | not worth a model |

### How they interact

* An agent's LLM call opens a lease at the wallet over gRPC and closes it
  afterwards. The wallet charges the cost ledger (a call under the wallet's
  mutex) and reads the interaction's ceiling from the channel router's budget
  snapshots (a callback, before the mutex).
* The router takes a snapshot when an interaction first commits a message and
  discards it a generation later; its bounded close reads the interaction's
  spend back from the wallet.
* The scheduler polls the state store that the REST handlers write, plans each
  run with the planner and dispatches its steps to task agents.
* The router delivers a message to an agent's servicer, which enqueues a wake at
  the persona's loop. The turn builds its prompt from memory and the channel's
  history, makes leased calls, and its actions go back to the router as
  publishes, or to other personas of the process through the dispatcher.
* Every message also feeds the persona's records; closing one writes an episode,
  whose finalize task summarises it and extracts facts into memory.

## The modules

| module | models | composes |
|---|---|---|
| `Wallet` | wallet service, cost ledger, budget snapshots | refines `LeaseLedger` |
| `LeaseLedger` | what the ledger promises: a lease opens once, closes once and moves its own scopes by its own charge | |
| `LeasedCall` | the client's lease block and the network | `EXTENDS Wallet` |
| `MeetingTry` | one try of an EXP-001 meeting: processes, watcher, verdict, stores | |
| `ScoredRun` | EXP-001's scored run: windows, pairs, retries, caps, drawing, judging, kills | takes from a try what `MeetingTry` gives |
| `Planner` | Parse's checks, ValidateDAG, Plan, the context split | |
| `Scheduler` | scheduler, state store, submit and delete handlers | assumes of a plan what `Planner` shows |
| `Interaction` | resolver, reply budget, end votes, bounded close, close latch, purge | |
| `EventLoop` | loops, dispatcher, in-process actions, RPC producers, stop | |
| `PersonaClose` | tracker, the doors that close a record, catch-up, two-phase episodes, janitor, crash | |
| `MemoryScope` | session, principal and epoch of a row and of a read | |
| `FactStore`, `RecordTiers`, `EpisodeTier` | facts; notes, commitments, relationships; episodes, procedures, eviction, shared pool | `EXTENDS MemoryScope` |
| `PersonaTurn` | one turn from event to publishes | |
| `MemoryInjection` | what memory reaches the prompt, and the recall tools | |
| `ConversationWindow` | the transcript and its cache | |
| `TaskAgent` | LLM loop, tool round, checks, sandbox, built-in tools | |
| `Delegation` | request, child run, merge, persist, roll back | `EXTENDS TaskAgent` |
| `Decision` | constrain, select, gate, record | |
| `AgentSession` | registration, tokens, channel watcher, orchestrator restarts | |
| `Migrations` | twenty schema versions statement by statement, crashes | |
| `PersonaTimers` | cadence writer, anchors on disk, timers over restarts | |
| `LogShipper` | queue, stream, acknowledgements, stop | |
| `ModelRouting` | alias map, start-up checks, lanes, price of a call | |
| `ProviderAdapters` | the Anthropic, OpenAI (and Ollama), Gemini and watsonx adapters: requests, answers, usage, tool rounds | |
| `OfflineScript` | the offline provider: a prepared answer per kind of request, one point per speaker | |
| `WalletProofs` | theorems about the ledger, the refinement of `LeaseLedger`, and the calls paid out of leases | `EXTENDS LeasedCall` |
| `SchedulerProofs`, `InteractionProofs`, `EventLoopProofs` | theorems about each | `EXTENDS` that module |
| `PersonaCloseProofs` | theorems about records, episodes and catch-up | `EXTENDS MCPersonaClose` |
| `MemoryProofs` | theorems about the tiers, and about the specification of the `memory` run | `EXTENDS MCMemory` |
| `PersonaProofs` | theorems about tool use and about a turn | `EXTENDS Delegation, PersonaTurn` |
| `AgentProcessProofs` | theorems about session, timers, routing and log shipper | `EXTENDS AgentSession, PersonaTimers, ModelRouting, LogShipper` |
| `MCPaidCalls` | | `LeasedCall`, `MeetingTry`, `ScoredRun`, `ProviderAdapters`, `OfflineScript` |
| `MCWorkflow` | | `Planner`, `Scheduler` |
| `MCMemory` | | `FactStore`, `RecordTiers`, `EpisodeTier` |
| `MCPersona` | | `PersonaTurn`, `MemoryInjection`, `ConversationWindow`, `Delegation`, `Decision` |
| `MCAgentProcess` | | `AgentSession`, `Migrations`, `PersonaTimers`, `LogShipper`, `ModelRouting` |
| other `MC*` | constants and symmetry of one module | |

Definitions keep the names of the functions they model (`AcquireLease` becomes
`BeginAcquire`, `DenyLease`, `GrantLease` and `RejectCollision`: the ceiling read,
and the critical section by outcome). A definition whose comment starts with
"Mutant" is a plausible bug of the definition that follows it; `PROJECT.json`
says which property it breaks.

The five composing `MC` modules put components side by side that share no
variables. Their variable `focus`, chosen in `Init`, says which component a
behaviour is about; the others stand still. Interleaving them would multiply the
states and show nothing, since no action of one reads what another writes.

### Wallet

An action is a critical section of `w.mu`. `ResetDaily` takes only the counter's
mutex, so it interleaves freely with the others, and `BeginAcquire` is the
ceiling read that `AcquireLease` makes before it takes the lock. A reaper's pass
visits the leases one by one in any order, as Go's map iteration does, but holds
the mutex throughout (`MuFree`). Dollars are integers; token totals per scope are
left out because only reports read them. A lease carries its age, which saturates
just past the last instant the code compares it with, so time needs no bound.
`account`, `overshoot` and `overrun` are history variables: what each lease was
charged and used, and by how much `CheckBudget` under-priced an estimate or a
settlement passed it. A settlement or release that finds its hold gone (the daily
reset took it) closes the lease and returns before the interaction's total is
adjusted, so the total keeps the grant: `account[l].residue` is what it keeps too
much or too little, and `InteractionTotalsAreCharges` says that only a lease a reset
cut through has one.

Not in production use, and modelled all the same under their documented
preconditions: `ResetDaily` has no timer in `main.go`, and `EvictInteraction` has
no caller. `RecordUsage` has none either and is left out.

### LeasedCall

Every request is a message that may be applied, applied and its answer lost,
or dropped. An acquire is retried `AcquireMaxAttempts` times and a close
`SettleMaxAttempts` times; a close may be applied late, after the client gave up,
or twice. A task may vanish at any step (crash, cancellation during cleanup). The
provider returns, raises, or is never contacted.

### MeetingTry and ScoredRun

The evaluators hold the meetings of EXP-001 on real processes and pay for them.
`MeetingTry` is `run_on_deployment`: the orchestrator starts first and stops last,
`_watch` cancels the try at the first failed call that bears on the meeting, and a
hangup may cancel it, and again while it stops. A failed call is its kind of
error, its purpose and whether it came once the meeting was over; a store is the
set of tries it remembers. `EndTry` is `channel_hold`'s verdict on the whole log.

`ScoredRun` is the loop over series and arms, one step per file the run writes,
so that `KillRun` may fall between any two and `OpenRun` goes on from the files
alone. A try is one step whose outcome and cost are free, since `MeetingTry`
shows what it may give. `holdings` is history: which holding a try belongs to.

### ProviderAdapters and OfflineScript

`ProviderAdapters` is one tool loop with one vendor: build the request from the
history and the alias's settings, take any answer of the vendor (text, thinking,
calls with or without ids, every stop reason, a usage that is whole, lacks the
cache's part, has null counts or is missing: the last two settle with zero tokens),
normalise it, append the tool round. What the vendors reject is external and
written down as `FieldsTaken` and `TurnGoesBack`. Texts are tags, arguments an
object, a list or garbled.

`OfflineScript` is the provider that needs no network: a persona bids with the
points a message calls for and it has not made, and posts the first of them, else
its catch-all, else a repeat. What it has made is replayed from its prompt's
window, which ends at the message being answered.

### Planner and Scheduler

`Candidates` is every dependency graph over four steps, with repeated
dependencies, a self reference and an unknown step, and every small context
budget with its per-step overrides. The depth-first search is an explicit stack
of the code's recursion.

A step of the scheduler is one store call, one channel operation or one return of
a callee, so the poll loop, the run goroutines, the step goroutines of a stage and
the REST handlers interleave where the code lets them. `ExecuteTask` is one step
that returns or fails. `outputs` is the map keyed by `output_key`; `executions`
and `sealed` are history.

### Interaction

One channel, since channels share nothing. `pub[p].pc` is where a publish is
between two critical sections:

    resolve -> [discard] -> reserve -> persist -> (release -> rejected)
            -> persisted -> [snapshot] -> endvote -> fanout -> tail -> bound -> [discard] -> mark -> [discard]

with `postclose` for suppressed traffic. Whether an eligible resolve finds its
idle window elapsed, whether a publish is at the cascade cap and whether spend has
crossed the soft budget are free choices. A floor speaker's reply waits at
`fanout` until its round's loop re-fans it, or ends there. `persisted`, `closes`,
`discharged` and `stranded` are history. Left out: the synthesis turn (the
channel has no chair that could be sent one, the `synthesisUnavailable` branch),
configuration changes, the previous-close attribution and the escalation and
agenda fields, the standing spend folded at a close, and delivery of close
notifications.

### The agent's asyncio code

The agents are single-threaded: between two awaits nothing else runs, so an
action is a stretch of code between awaits, and a statement of SQLite (through
aiosqlite) is an await. Locks are variables where the code holds one over an
await, and absent where it does not. A cancellation or a timeout may hit any
await the code does not shield.

* **EventLoop.** A task is a supervisor, a chat request or the detached resolver
  of a reentrant dispatch; `stack[t]` holds the cascades it is executing. What a
  persona decides is the set of agents its actions mention. `WaitInline` says how
  `asyncio.wait_for` runs its coroutine: in the caller's task (Python 3.12, the
  version of the project's images) or in a task of its own (3.11). All runs use
  the former; see the observations below for the latter.
* **PersonaClose.** The room's messages form one history with conversations
  (`Wires`) that follow each other. They arrive live once and again from the
  catch-up pass of every start, which is cut off by a budget. A record holds one
  speaker's turns. `ghost` remembers what was recorded live and what a crash, a
  cancelled handler or a failed insert dropped.
* **Memory.** An operation is a task with a program counter over its statements. A
  commit publishes whatever the tier's connection has open, another task's
  statements included, as SQLite does. Scores and decay are steps of a scale. A
  read of facts asks for its own room or, as a persona whose facts cross rooms does,
  for all of them. A level nobody knows is stamped `internal` and reads as `public`.
  An identity that cannot be written through becomes a note of the room. The chains
  in which two extractions of one instant raced are kept in a ghost, `history.raced`:
  `BeliefsAreCurrent` excepts them and judges every other tie.
* **PersonaTurn.** One event per behaviour, as the persona's lock serialises turns.
  Every field the response gate reads, every bid, every answer of one or two
  actions, every failure and publish outcome is a choice. Texts are sequences of
  parts, so folding and dropping prose can be seen.
* **MemoryInjection.** A row has a level, a room, a size and what provenance it
  stored. Two turns follow each other, the first possibly cut off; people come
  and go (`MaxMoves`) and a recall or fetch fails (`MaxFaults`) at any wait.
* **TaskAgent, Delegation, Decision.** An argument is a JSON type and a value, a text's
  length a table (`Lengths`); a narrowed argument is checked against its whole offered
  schema, its own type included. A path pattern is the set of files it matches after
  resolution; a command is the words `shlex` splits it into. Plug-ins of the decision
  answer anything.
* **AgentSession.** Two processes of one agent id, as in a rolling restart, against
  an orchestrator whose tokens live in memory, or one process alone against
  every fault. The orchestrator enforces tokens or does not (`AuthModes`), and a call
  without one is let in either way. The channel may flap at any time (`ChannelFlaps`), so a watcher may
  register while an earlier registration's answer is lost. `budget` keeps the
  faults left and, as history, who retired which token and whose registration was
  refused.
* **Migrations.** A data statement opens a transaction, a schema statement joins
  one or commits at once, and a commit makes the version rows before it durable.
* **PersonaTimers.** Monotonic seconds; a reboot sets the clock back. `foreign` is
  history: the timers whose anchor on disk was written before a reboot, or by a
  timer whose period or jitter the writer has edited since.
* **LogShipper.** Records are numbers in order of logging; the shipper's own
  warnings are records too.
* **ModelRouting.** Alias maps of two entries with every kind of vendor, endpoint and
  price. A call keeps the endpoint of the client it rides, which need not be its alias's.

## Runs

"States" are distinct states TLC finds, in a little over three minutes at most, with two workers.

| run | properties | question | states |
|---|---|---|---|
| `wallet_budgets` | `TypeOK`, `LeaseCapHolds`, `BudgetsHold`, `ScopesAreCharges`, `ImplementsLedger` | Do the lease cap, dollar limits and sums per scope stay right under two acquires, settlements, releases, the reaper and a reset, and does the wallet refine `LeaseLedger`? | 490,920 |
| `wallet_ceiling` | `CeilingHolds`, `InteractionTotalsAreCharges`, `LeasesPurged` | Is an interaction's total what its leases hold or used (but for the residue of a reset), within its ceiling, and is every lease eventually purged? | 503,680 |
| `paid_calls` | `CallsAreCharged`, `ExperimentIsSound`, `ModelCallsAreSound` | Is every lease charged what its client knew, or in full, over an unreliable network; does an experiment stop its tries whole, keep its cap and score each answer once over hangups, faults and kills; and is every request of a tool loop one its vendor takes, with all the tokens it reported counted? | 2,039,622 |
| `workflow` | `PlansAreSound`, `RunsAreCoherent`, `RunsSettle` | Does ValidateDAG reject exactly cycles and Plan order the rest within budget; is a run executed once, in order, ended consistently, for good, and gone once deleted? | 135,281 |
| `interaction` | `TrackingMatchesHistory`, `GovernanceIsReachable`, `ClosesAreSingle` | Do the router's maps stay consistent, leak-free and single-shot whatever interleaves? | 2,494,684 |
| `event_loop` | `DispatchIsSound`, `StoppedLoopIsSettled`, `LoopAnswers` | Is every awaited handle somebody's, does stop leave nothing, and does everybody get an answer? | 71,219 |
| `persona_close` | `SpansAreWhole`, `OneEpisodePerSpan`, `VoteSparesSuccessors`, `PendingIsSettled` | Does every conversation become one whole episode, summarised once, over crashes, catch-ups, votes and database failures? | 896,542 |
| `memory` | `BeliefsAreCurrent`, `MemoryKeepsItsScope`, `NothingIsOverwritten`, `ForgettingIsSafe` | Do the tiers stay right when the statements of two operations, sweeps and a crash interleave? | 1,893,652 |
| `agent_process` | `UpgradesAreWhole`, `TimersKeepTheRhythm`, `EveryCallIsPriced`, `SessionsHeal`, `ShipperKeepsAccount` | Does the process upgrade, wake, pay, re-register and log as promised over crashes and restarts? | 562,111 |
| `persona` | `TurnIsSound`, `InjectionIsGuarded`, `WindowIsTheRecentPast`, `ToolUseIsGoverned`, `DelegationHolds`, `DecisionRespectsChecks`, `TaskEnds` | Does a turn speak, remember and show only what it may, and do tools, delegations and decisions stay within theirs? | 582,523 |

A property that is a conjunction names its parts in its module, each with its own
comment; when it fails TLC's trace shows which.

Two runs end in a violation. Each takes a sentence of the repository at its word:

| run | the sentence | what happens |
|---|---|---|
| `prompt_projection` | "abstracting Alice's DM fact to `internal` and serving it in Bob's room still tells Bob there is such a fact" (`injection_gate.py:290`, on why a stand-in is judged by its audience) | rosters are fetched only for rows the level lets through, so the stand-in of a withheld row is judged against a roster nobody fetched; the verdict "fetch failed" is not enforced and the stand-in is shown |
| `migration_flag` | a bad flag "fails the migration loudly", since "silently falling back to `internal` would be the exact false assurance" (`_migration_protection.py:164`) | from version 15 the ALTER has committed by then; the next start finds the column and ignores the flag |

### Further divergences the models reach

These formulas state a documented claim, are defined in their module and fail when
added as an INVARIANT to the run named; no run keeps them.

| formula | run | the code, and what it is said to do |
|---|---|---|
| `NeverLosesSpend` (`LeasedCall`) | `paid_calls` | a call that used more than its grant and whose settlements are all lost is charged the grant; `wallet_client.py:383`: "never loses spend" |
| `ReleasedLeavesNoResidue` (`MCWallet`) | `wallet_ceiling` | a lease released after a daily reset leaves its estimate in the interaction's total for good (`wallet.go:365`); `interaction_budget.go:132`: "a fully-released interaction (every lease reversed to zero actuals) leaves no residue in the map" |
| `ClosedOnce` (`Interaction`) | `interaction` with `Autonomy = {TRUE}`, `Rotates = FALSE`, `Capped = FALSE` | the tombstone is discarded at the next close while a publish of the old id is on its way to its bounded close (`end_vote.go:402`); `interaction_close_latch.go:63`: "no production path closes the same id twice today" |
| `ParkedSupervisorUnblocks` (`MCEventLoop`) | `event_loop` | a resolver that stop() cancels before its first step never enters the `try` that settles its handle (`event_loop_lifecycle.py:131`); the supervisor waits out stop()'s limit and is cancelled, although `event_loop.py:309` has it that it "unblocks and drains gracefully" |
| `TiesKeepOneRow` (`FactStore`) | `memory` | two extractions of one instant, each of which inserts before the other looks for older rows, supersede each other and none is live (`_facts_supersede.py:251`, against its comments at 78-98) |
| `NoRemoteCallIsFree` (`ModelRouting`) | `agent_process` | an alias without prices passes because its `base_url` is local, but its calls go out: a lane of the seat's vendor rides the seat's client (`llm_client.py:279`), and vendors other than OpenAI and Ollama take no `base_url`; `model_aliases.py:226`: "an unpriced non-local entry is a loud `SystemExit`", so that no remote call leases at $0 |
| `NeverTwiceInAPeriod` (`PersonaTimers`) | `agent_process` | a timer with jitter that fired early fires again within its period after a restart (`server_persona_timers.py:131`, against `scheduled_wakes.py:4`) |
| `RevokedOnlyByOthers` (`AgentSession`) | `agent_process` | a registration whose answer is lost lands and retires the token held; its retry is refused, which marks it answered (`server_reregister.py:162`); the next call's "revoked" is then taken for another's doing and the process stops registering, although `server_reregister.py:204` has it "believed only while every registration has been answered" |
| `CleanStopLosesNothing` (`LogShipper`) | `agent_process` | stop cancels the reader of acknowledgements, so the last records may never arrive (`log_shipper.py:331`, against its docstring) |
| `PublishesOnlyInItsRoom` (`PersonaTurn`) | `persona` | an end vote that names another group passes the guard with the turn's prose folded into it (`single_channel_turn.py:65`, against line 3) |
| `NothingFromTheFuture` (`ConversationWindow`) | `persona` | a message that waited while more than `max_turns` rows arrived is answered with those rows before it (`conversation_window.py:346`, against line 317) |

Seen while modelling, and stated by no formula:

* The janitor runs from `on_tick` only, and a reactive persona, the default, gets no
  tick. A row such a persona's crash left pending stays so, and counts as derived at
  every later start, so that the span is never summarised; `replay_identity.py:230`
  has it that "the janitor converts it within its grace period, so the retry happens
  on the boot after instead".
* The reaper closes an expired lease on its next tick, so the late-settle window
  the comment at `wallet.go:454` promises is shorter by up to an interval;
  harmless, as a settlement after the purge is a no-op too. And
  `interaction_budget.go:139` ("actual usage never exceeds the granted estimate")
  is not enforced by the wallet; `overrun` measures it.
* `handleDeleteWorkflow` checks and deletes in two store calls, with the in-memory
  store too (`workflow_handlers.go:211` calls the race dormant). `RunsSettle` shows
  that the run at least stays deleted.
* A step's output is keyed by `output_key` (`stage_runner.go:52`); RFC 0001 says by
  step id, and the specification's own example does not resolve.
* A settle that finds the retiree's slot taken leaves its id's counters behind
  (`interaction_resolver.go:393` says this takes an idle window; three publishes
  in flight of which two are rejected are enough), and a settle that follows a
  channel's purge recreates the entry of the deleted channel. `Interaction` counts
  such ids as `stranded`; `GovernanceIsReachable` says nothing else is left behind.
* With Python 3.11 (`WaitInline = FALSE`) `wait_for` at `action_executor.py:464`
  runs the dispatch in a new task, which `_in_supervisor` does not recognise: a
  persona that mentions itself waits for its own queue until the timeout.
* A registration its sender gave up on may land late and retire the token of a
  newer one (`server_reregister.py:139`); the next refused call heals it.
* An anchor outlives an edit of its timer (`server_persona_timers.py:131`): after
  the writer changes an interval the first fire still comes at the old anchor,
  so it may follow the last one by less than the new period.
  `WakesKeepTheirPeriod` excepts such timers (`foreign`).
* Cancellation is not an `Exception`: it skips the rollback of a delegation
  (`spawner.py:386`) and leaves a shell's process behind (`builtin.py:240`).
  `allowed_tools` of a task is enforced nowhere (`task_types.py:44`), and a result
  field of the wrong type raises out of the agent (`task_agent.py:127`).
* Deregistration is a public route (`auth_policy.go:68`) and a token is checked only
  where authentication is enforced and a call shows one (`agent_token_check.go:80`).
  With the default `auth.mode: disabled`, or when the process that stops never got a
  token, its last call removes the registration of the process that replaced it.
  `StopIsFinal` claims the contrary only for a checked token.

### Bounds, and why they are enough

* **Wallet**: two callers and two leases, since every race is between two
  handlers or a handler and the reaper, and a lease cap of 1 (or 2 for the
  ceiling). Token pairs with entries from -1 to 3 cover a refused value, zero, and
  settlements below, at and above the grant. `TTL` and `ReaperInterval` of 1 give
  expiry, reap and purge at different ticks. Prices have input dearer than
  output, which is what `CheckBudget` mis-prices.
* **LeasedCall**: two tasks of one agent with a cap of 1 compete; two attempts
  each are a first try and a retry.
* **MeetingTry**: two advisers, so that one may be gone while the other still
  calls; two meetings (one that is the last and one that is not) of two tries, one
  failed call, and two hangups, one in the meeting and one in its stop.
* **ScoredRun**: two series in two arms of opposite order, a briefing and a plan,
  one retry, two attempts, two windows (the second fault ends the run), one kill,
  a window of one tick, a cap one try may pass and a judge's cap below the four
  packets there can be.
* **ProviderAdapters**: five vendors (a compatible endpoint is the fifth) and three
  settings that change a request; two tool rounds, so that a second request carries
  a first one's round; thirteen answers that mix parts, missing ids, signatures,
  unparsable arguments, stop reasons, kinds of tokens and ways to report them. **OfflineScript**: two
  speakers whose points call for each other's and a line that closes, five posts.
* **Workflow**: four steps hold every cycle length up to four, diamonds and
  diamonds with a tail. Two runs for one slot and two goroutines, a plan with a
  parallel stage; either both runs contend or one is deleted meanwhile.
* **Interaction**: two publishes at a time of three in all. Three ids hold a
  retiree, an open interaction and its successor; two generations in the ledger
  keep an id latched after its tombstone is gone. Reply budget 1, quorum 2,
  window 2 and two rounds are the least at which each limit can be met and missed.
* **EventLoop**: two personas (one with a loop, one without) and a chat request,
  a queue of 1, a cascade ceiling of 2 and three handles, one more than can be
  awaited at once.
* **PersonaClose**: three turns of two speakers in two conversations, two starts,
  every budget from none to all; an idle and a grace age of one tick; one failure, so
  that the second start's lookup, tidying or insert may raise; personas with and
  without ticks.
* **Memory**: two concurrent tasks per tier (interchangeable, hence symmetric)
  over agendas that hold every pair of operations on one row, two extractions of
  one instant among them, two sweeps, one crash, caps of 1 or 2; readers of two
  rooms, four levels.
* **AgentProcess**: upgrades start from eleven of the twenty versions (one before
  and after each step that rebuilds or backfills) with two crashes; one fault,
  one call and two restarts of the orchestrator for two processes, and three faults
  and two calls for one alone, with `Attempts` no less than their sum, since a
  registration that fails as often as it is tried is given up; five seconds and
  three starts hold a period of every timer and a restart within it, and the
  writer has two intervals for one channel; four records for a queue of two.
* **Persona**: two LLM calls and two revisions; stores of four to six rows that
  mix levels, rooms, tiers and missing provenance; four channel rows before a
  window of two; up to three tool calls a round and two rounds; every policy outcome over
  three candidates.

`CHECK_DEADLOCK FALSE` appears where the system really may stop: a workflow that
was planned, a try that was interrupted or an experiment that ended, a scheduler
that was shut down, publishes or events used up, a loop that was stopped, a turn
that ended.

### Fairness

* `Wallet`: weak fairness of `Tick` (time passes) and `Reap` (the reaper's
  goroutine is scheduled). Nothing is assumed of agents: `LeasesPurged` holds when
  none ever settles.
* `Scheduler`: weak fairness of the poll loop and of each run's goroutine. A step
  that waits for an agent ends because every dispatch is under a timeout. Nothing
  is assumed of clients; `PendingRunsEnd` excepts a shutdown, after which nobody
  polls.
* `EventLoop`: weak fairness of every task that can run, as asyncio's ready queue
  gives, and strong fairness of acquiring a lock, as `asyncio.Lock` is first come,
  first served. The dispatch timeout is not needed for `LoopAnswers`. The time limit
  of stop() is, for one case only: a supervisor that waits for a handle whose
  resolver was cancelled before its first step (`LeftWaiting`).
* `PersonaClose`: weak fairness of the handler that holds the lock, the sweep,
  finalize tasks, the clock and, for a persona that has them, ticks: a reactive
  persona (the default, `server_persona.py:392`) gets none, `OnQuietTick` is never
  enabled for it and no fairness makes it happen. `PendingIsSettled` is about
  processes that stay up, and excepts a reactive persona's rows whose task died.
* `AgentSession`: the loop's tasks run, the network answers or times out, and an
  orchestrator that is down comes back. `LogShipper`: the drain task and the stop
  run; a write may stay blocked for ever.
* `TaskAgent`: the loop, the tools and the timeouts run; an LLM or a command may
  take for ever, which the timeouts are for.
* `LeasedCall`, `MeetingTry`, `ScoredRun`, `ProviderAdapters`, `OfflineScript`,
  `Interaction`, memory and the prompt: safety only.

## Proofs

Eight modules hold theorems; each theorem is about the whole specification of a module,
for every value of the constants that satisfies the named assumptions. The bounds
of the runs (ids, publishes, starts, faults) are constants too, so they are
arbitrary here.

| theorem | says |
|---|---|
| `WalletProofs.TypeCorrect`, `LedgerInvariant` | `[]TypeOK`; the invariant of the ledger |
| `HoldsAlwaysMatch` | every hold is of a tracked, unsettled lease at its granted price |
| `CapAlwaysHolds` | no agent has more leases in flight than the cap |
| `BudgetsAlwaysHold` | dollars in a limited scope stay within the limit plus `overshoot` |
| `CeilingsAlwaysHold` | an interaction's tokens stay within its ceiling plus `overrun` |
| `ChargesAlwaysFinal` | dollars move only when a lease opens or closes, or at the reset |
| `NeverReopens` | a closed lease stays closed, a purged id never returns |
| `WalletProofs.WalletImplementsLedger` | `Spec => ImplementsLedger`: the wallet implements `LeaseLedger` |
| `WalletProofs.CallsAlwaysCharged` | `[]CallsAreCharged`: a closed lease was charged what its call used or was granted, an unclaimed one in full |
| `SchedulerProofs.RunsAlwaysCoherent` | `[]RunsAreCoherent`: executed once, in order, to a stamped end |
| `SchedulerProofs.SettledRunsAlwaysStay` | neither a deletion nor an outcome is undone |
| `InteractionProofs.InteractionsCloseOnce` | `[]ClosesAreSingle` |
| `InteractionProofs.TrackingAlwaysMatches` | `[]TrackingMatchesHistory` |
| `InteractionProofs.GovernanceNeverLeaks` | `[]GovernanceIsReachable`: what is kept of an interaction is reachable or stranded |
| `EventLoopProofs.DispatchAlwaysSound` | `[]DispatchIsSound`, in both modes of `wait_for` but for one conjunct (`WaitInline => NoSelfWait`) |
| `EventLoopProofs.StoppedLoopsAreSettled` | `[]StoppedLoopIsSettled`, in both modes of `wait_for` |
| `AgentProcessProofs.CallsAlwaysPriced` | `[]EveryCallIsPriced` |
| `AgentProcessProofs.SessionsAreHonest` | `[](RevokedForCause /\ StopIsFinal)`, the safety half of `SessionsHeal` |
| `AgentProcessProofs.RhythmAlwaysKept` | `[]TimersKeepTheRhythm` |
| `AgentProcessProofs.LogsStayInOrder` | `[]LogsKeepTheirOrder`, the safety half of `ShipperKeepsAccount` |
| `MemoryProofs.BeliefsStayCurrent` | `FactSpec => []BeliefsAreCurrent` |
| `MemoryProofs.RecordsStayWhole` | `[]NothingIsOverwritten` |
| `MemoryProofs.ForgettingStaysSafe` | `[]ForgettingIsSafe` |
| `MemoryProofs.MemoryStaysInScope` | `[]MemoryKeepsItsScope`, from `FactsKeepTheirPrincipal`, `NotesStaySecret` and `EpisodesKeepTheirPrincipal`, one per tier |
| `PersonaCloseProofs.SpansAreStoredOnce` | `[]OneEpisodePerSpan` |
| `PersonaCloseProofs.LiveSpansStayWhole` | the part of `SpansAreWhole` about types, live turns and mixed records, in every room |
| `PersonaCloseProofs.SpansStayWhole` | `RoomsRotate`, then `[]SpansAreWhole` |
| `PersonaCloseProofs.VotesSpareSuccessors` | `VoteSparesSuccessors`, an action property |
| `PersonaProofs.ToolUseStaysGoverned` | `[]ToolUseIsGoverned`, of a task agent alone or serving a parent |
| `PersonaProofs.TurnStaysAccountable` | `[](FloorIsKept /\ TurnLeavesItsTrace)`: all of `TurnIsSound` but `RoomHearsOneAnswer` |

Most inductive invariants are theorems too (`RefinementInvariant`,
`CallInvariant`, `SchedulerInvariant`, `InteractionInvariant`,
`DispatchInvariant`, `RoutingInvariant`, `SessionInvariant`, `TimersInvariant`,
`ShipperInvariant`, `CloseInvariant`). A proof has one lemma per action, or one
for a group of actions that change the same things, and frame lemmas for what an
action leaves alone.

### The inductive invariants

**Ledger.** None of the wallet's invariants is inductive by itself. `LedgerInv`
joins them:

* a grant charges dollars only after `CheckBudget`, a settlement changes them by
  the difference to its hold; for that difference to be bounded by `overshoot`
  the hold must be the lease's own granted price (`HoldsMatchLeases`), which in
  turn needs that a fresh id has no hold;
* `CeilingHolds` needs `CallsCarryCeilings`: the ceiling a pending call read
  before the lock, stale or not, is its interaction's, because the channel's
  budget is fixed when the interaction opens;
* `NeverReopened` needs `PurgedAreGone`.

**Refinement.** The mapping takes a lease's scopes and charge from the history
variable `account`, so a step of the wallet is a step of the ledger only if a hold
is worth what its lease was charged, at the scopes it was charged to, and an id
not yet minted is charged nothing: `AccountsMatch`. A pass of the reaper closes
one lease per step, and a settlement after a reset closes a lease whose hold is
gone, at the charge it already has.

**Leased calls.** A charge is right because of what every request in flight may
still do: `RpcInv` says it names its own block's lease and reports what the block
knew when it was left, `OwnerInv` that a lease is one block's, `PhaseInv` that a
block marks the call before the provider can use anything, `ServerInv` that an
open lease has its hold (`CallSpec` has no `ResetDaily`, which production never
calls), and `ChargeInv` that an open lease is held at its grant.

**Scheduler.** `GoInv` relates a goroutine's place to the record it works on:
what the store says of each step (`View`), which stages are done (`Progress`), and
that a record that is not deleted has the status the goroutine last wrote
(`Agrees`). With `InFlightMatches` a run has one such goroutine, so nothing
else moves its record.

**Interaction.** `TombstoneInv` is the heart: a closed interaction keeps its
tombstone as long as some publish may still come to close it, unless its id was
stranded. It needs to know which publishes may come (`PublishInv`,
`MintedInv`), that whatever treats an id as closed has a close behind it
(`ClosedInv`), and that an entry something is stored under is not taken away by a
rejected publish (`RootInv`).

That nothing leaks needs `ReachInv` on top: what is kept of an interaction is held
by the entry, or *covered* by a discard some publish or the purge has still to make.
The three discards of an interaction come in one order (`OrderInv`), so whoever
owes the first owes the others; a publish that may still write is of a covered
interaction (`UseInv`); and a reply counter that is not covered counts only slots
publishes hold right now (`SlotsInv`).

**Event loop.** A handle that is awaited is pending and on its way to be settled
(`PendingInv`) by one resolver, detached or in a wake (`OneResolver`), in a loop
that is up (`ResolverInv`); it is awaited by one task (`AwaitInv`), and with
`WaitInline` never from the awaiter's own queue (`SelfInv`). `LoopInv` and
`TaskInv` say what wake, stack and phase go with each program counter. `SelfInv`
is the only part that depends on `WaitInline`.

**Closing an interaction.** The parts build on each other. `TrackInv`: every record
is well formed and in one place (open, with the holder of the lock, or with the
sweep), and one is open per speaker. `StoreInv`: a tracked record's identity is in
no row and under no task (the rows of a failed derivation apart), and a task that is
about to write finds no summary under its identity, or its own and no facts; a derived identity (a replayed span's) is only fresh because of `MarkInv`,
which says that what a pass has replayed starts before the message it is at.
`SoundInv`: what a record holds and which message may join it, from the closes
that precede every turn. `SpanInv` is about catch-up: a record marked whole holds
its conversation, an open one everything of it behind the pass, and whatever is
behind the pass and in no open record is of a conversation with nothing to come or
of a speaker whose window was cut. `LinkInv` says which conversation a record's
wire can follow, which is what a late end vote compares.

**Memory.** A task acts on what it read some awaits ago, so each invariant says
what stays true of a plan meanwhile. *Facts*: `FactScopeInv` (stamps, ids, and who
recalled what), and `BeliefInv`: a row that is marked, or about to be marked by
some writer, has one that beats it, and a row left behind has a writer that will
mark it; and a row whose writer has yet to look for older ones is the last inserted
of its instant (`LatestOfItsInstant`), or the chain raced. *Records*: `NoteInv` (a turn lock is held from the count to the insert),
`PledgeInv` (one task has won the close it has not reported yet), `PairInv` (who
is about to write a profile holds the lock and has seen what is there).
*Episodes*: `EpisodeInv` (the plans of stores, recalls and evictions) and `PoolInv`
(whatever was pushed out is older than anything that is or will be written).
`MemoryIsItsTiers` then takes the run's specification apart.

**Log shipper.** What has arrived, is on the wire, in the drain's hand and in the
queue is *one* ascending sequence; a step only moves the seams, drops a prefix of
the queue that is counted, or loses what was on the wire.

**Tool use.** `ToolInv`: the results so far answer the calls of the round in order
(`RoundInv`), a subprocess runs inside its call or was left by a run that was cut
off, with no more time than the operator's limit or `MAX_TIMEOUT_SECONDS` (`ProcInv`), and the calls of the model stay
within a limit that is settled before the first (`CallInv`). What a tool does is in
bounds because of what the argument check hands on: every argument as it was sent
or converted, a number where the code computes with one (`AdmittedIs`), and of its
declared type where it is narrowed (`NarrowedIs`).

**A turn.** `TurnInv` goes with the program counter: which outcome a place allows
(`PhaseInv`), which calls have been made there (`CountInv`), what gate and bid said
of a turn that is composed (`GateInv`), whether its episode is written
(`EpisodeInv`), and that only a turn that acted publishes its actions, a denial
alone (`SentInv`). A turn given up while its bid is out is composed without a
verdict, so the clauses about the bid say what a verdict implies, not that there
is one.

**Routing.** The seat's client is its alias's, endpoint included, and every call in the
log is sound: an unpriced alias is local by vendor or by endpoint, a lane of another
vendor goes to its own endpoint, so only a shared client can carry it elsewhere.

**Session.** `IssuerInv` says who retired each token the issuer has passed,
`TokensAged` that nobody holds a token not yet issued, `LifeInv` when a
registration may be under way, `EntryInv` that a good token names its process in
the registry, `RefusalInv` that a "revoked" in flight has a reason, and `OwnInv`
that a token its own process retired counts as answered only after a refused
registration. Without that clause `RevokedForCause` is false: it is how
`RevokedOnlyByOthers` was found to fail.

**Timers.** `BlockInv` says the block's own timers are the operator's (with the
default tick written out if he relied on it); `AnchorsInv` that an anchor which is
not `foreign` lies at most a period ahead and, without jitter, that the last fire
was no earlier than it or a full period before it; `SavedInv` what a starting
process has read; `ArmedInv` that an armed timer does not fire before its anchor.

### Assumptions

Those named in the modules. `Wallet`: prices, limits and token counts are
naturals, the interval and the time to live positive, names of agents, workflows
and the global scope distinct (the code keeps them in separate maps), the set of
leases finite. `LeasedCall`: at least one attempt. `Scheduler`: what `Planner`
shows of a plan (stages partition the steps, dependencies lie in earlier ones), at
least one slot. `Interaction`: finitely many publishers, positive quorum, window,
rounds and generations. `EventLoop`: finitely many agents and handles, names of
agents, requests and handles distinct, a queue of at least one. `AgentSession`:
"nobody" is no process and "no token" no token. `ModelRouting`: an absent key is no host. `PersonaTimers`: numbers are
integers, no block repeats a timer id (such a block does not boot), a channel has
one interval in a list of specs (the writer keeps the later) and its own timer id.
`LogShipper`: queue, batch and backoff cap positive. `FactStore`: instants are
naturals. `RecordTiers`: finitely many tasks, at least one note per room, a call
has a session and one of the levels of a room, and two creations never share an id
(`uuid4`, `commitments.py:353`, `relationship_mutations.py:353`). `EpisodeTier`:
finitely many workers, procedures have a key and observations none. `PersonaClose`:
caps and ages positive, a budget names a room over the speakers and wires.
`TaskAgent`, `Delegation`: limits are integers, and so is what an argument of a
numeric kind stands for; a signature names no parameter twice. `PersonaTurn`: limits, depths and scores are integers.

One theorem has a hypothesis besides. `SpansStayWhole` takes `RoomsRotate`: every message
is stamped, a conversation's messages are consecutive, and none of a predecessor
comes after its successor's. The code tolerates stragglers and unstamped messages,
and then keeps what `LiveSpansStayWhole` says without a hypothesis; it does not
claim that a replayed record holds the whole of a conversation that another one
interrupted. Every room of the `persona_close` run rotates.

### Only model-checked

* Liveness, which is out of the prover's reach: `LeasesPurged`, `RunsSettle` (its
  action properties are proved), `LoopAnswers`, `SessionsHeal` and
  `ShipperKeepsAccount` (their safety halves are proved), `PendingIsSettled`,
  `TaskEnds`.
* `ScopesAreCharges` and `InteractionTotalsAreCharges`: sums over the set of
  leases, which take induction over that set.
* `PlansAreSound`: what the search of `ValidateDAG` and the queue of `Plan`
  compute, induction over paths.
* `UpgradesAreWhole`, `InjectionIsGuarded`, `WindowIsTheRecentPast`,
  `DelegationHolds`, `DecisionRespectsChecks`: the models fold over sequences of
  statements, rows, turns or candidates, and what a fold computes is induction
  over data again.
* `RoomHearsOneAnswer`, the rest of `TurnIsSound`: which actions the folding of a
  vote's prose keeps and drops (`FoldProse`, `Distinct`), selections and sorts of
  sequences.
* `ExperimentIsSound`, `ModelCallsAreSound`: long sequential programs over one try
  or one call, where the run's small set of inputs already holds the cases; not
  attempted.

### What the proofs changed

* `BeliefsAreCurrent` once said that every live row of before rooms is the newest
  of its chain. `CatchUp` could not be made inductive for it: a room that reasserts
  such a row hides the rows it beat, so a later write there does not find them.
  `LatestAssertionWins` now compares such a row with live ones only.
* `PoolIsBounded` once ignored a publish that died between its insert and the
  enforcement of the cap. Each leaves one row more behind; `stranded` counts them.
* `ShipperAssumption` asks for a positive queue, batch and backoff: with a queue of
  none every record evicts itself, and the account is of nothing.
* `ToolsStayInBounds` once said that every tool is called with all its required
  arguments and with no integer as text. A tool with a positional-only parameter
  has no specification (`arg_check.py:218`), so nothing is converted or required
  before Python binds the call (`Binds`); the clause now says what holds of each.
* A timeout that is no number is not capped: `min` raises in `_shell_timeout` and the
  call is answered with the error (`Comparable`).
* The whole-conversation clause of `SpansAreWhole` fails for a conversation whose
  messages straggle behind its successor's: hence `RoomsRotate`.

## Not modelled, and why

Text and data that no property tells apart (prompts, YAML and JSON decoding,
template expressions, SQL text, embeddings, the tripwire's matching), reporting
(metrics, traces, cost reports), maps behind one mutex (registry, accounts),
cryptography, offline evaluation (`scripts`, and `evaluators` but for the runs of
EXP-001), the vendors' SDK clients, and clients that only render answers (CLI, web).
Within modelled parts: EXP-001's practice run, arm D-prime's prefixes and cache
checks, its statistics and the texts of packets and reports;
`merge_artifacts` and the memories injected into a child's prompt (text),
working-memory compression (never called), the chair's moderation wording.
`PROJECT.json` has the reason for each part.

## Plan

What a next extension would take up, in this order.

1. Channels: the synthesis close on top of `Interaction` (arm, claim, timeout,
   disarm), then the floor round with its waiter and `PublishAndAwait`, then the
   convening cadence. Worth stating abstractly: an interaction is opened, closed
   once and followed by a fresh one, refined by `Interaction` while its tombstone
   is tracked.
2. Executor with its retries, deadline and cache in place of `ExecuteTask`;
   society approvals, the log buffer's sealing, rate limiter and circuit breaker,
   the audit chain's crash recovery.
3. Proofs of `ExperimentIsSound` and `ModelCallsAreSound`, whose invariants would go
   with the program counter.
