# AuroraBot in TLA+

A verification development beside the Python code of AuroraBot: TLA+ modules
translated from the source, TLC configurations that check them on small
instances, and TLAPS proofs of what matters most for every instance. Paths are
relative to the repository; `aurora_*` packages live under `src/src/`.

## 1. The system

AuroraBot runs a goal-driven bot on one asyncio event loop. Handlers interleave
only where they `await`; everything between two awaits is one step. What must
survive a restart is in the *world journal*, an append-only SQLite log, and in
the content store of `artifacts/`; every other state is a projection of the two
or lives for one run. `aurora_cli` manages the installed MCP apps on disk, in
processes of its own.

```
  console / host -> runtime -> engine -> aurora_agent.Run -> model gateway
                    ^     ^      |  \-> prompt, memory \-> tools: operations, MCP
                 clock  cadence  |                              |
                    |     |      |                          bot state
                    \_____|______|_____ world journal __________/
        all of them modules of, and called through, aurora_kernel
```

| Component | State | Operations | Hard behaviour | What makes it correct | Modules |
|---|---|---|---|---|---|
| `aurora_agent` Run | history, queue, call records, counters, status | `append_message`, `cancel`, `step`, `run`, `events` | input and cancellation at any await, unknown effects, limits | every call answered once, input delivered once in order, nothing replayed, terminal is final | AgentRun, RunContract, RunEvents |
| World journal (`world/store.py`) | rows, numbers per scope | `append_commits`, `head`, `delta`, `stream` | retried ids, rollback, cancelled commits, paging while appending, clock going back | dense numbers, idempotent ids, no commit skipped by a frontier | WorldJournal |
| Engine (`engine/`) | session and ledger of a run | `execute`, `cancel`, hooks | interrupted appends, failing hooks, shielded settlement, rival executions | a request precedes and a result follows each effect, one end record, the model acts on what it was shown | EngineRun |
| Bot state (`bot/`) | goals, wakes, version | `apply`, `snapshot` | concurrent commands, retries, restart | one line of versions, a command takes effect once | BotSubject, BotState |
| Clock (`clock/`) | next due wake | `initialize`, `evaluate_once` | reschedule or cancel during launch, end of the process between claim and result | a wake fires once and always settles | WakeClock |
| Cadence (`cadence/`) | cursor, pressure, plans | `initialize`, `evaluate_once` | state read before and used after awaits, errors between cursor and decision | no event counted twice or lost, one run per plan | Cadence |
| Operations (`operations/`) | requests and receipts, slots | `dispatch` | deadline against effect, crash between request and result | one effect, one receipt, one answer per identity | Operations |
| MCP (`mcp/`) | connections, catalogue, status, generation | `prepare_mcp`, `activate`, `close`, calls, events | callbacks racing with start and close | nothing it was told of an app is forgotten, no event past a shut gate, calls told as they happened | McpRuntime |
| `aurora_kernel` | values, revisions, watchers; modules and their tasks | transactions; resolve; prepare, activate, close | watchers that fail or recurse, failing hooks, concurrent close | serial transactions, an order that meets every need, everything released once | KernelContext, Resolution, KernelLifecycle |
| Runtime (`runtime/`) | counters, lock of cognition; fronts, monitor | `run`, `launch`, `run_runtime` | stop, failure and cancellation together; callers of one run id | one cognition at a time, errors told (all but the causes of a cancellation that meets a failing release), host released | RuntimeCore, Supervision |
| Console (`console/`) | a read and a stop task | lines | line, stop and cancellation together | each line handled once, in order | TerminalConsole |
| Model gateway (`ai/`) | attempts and deadlines | `complete` | timers racing with answers | attempts in turn, within the deadline | ModelGateway |
| Memory (`memory/`) | shared index, recalls, exposures, feedback | `recall`, source query, replay, feedback | an index ahead of or behind the reader, pages, cuts | a recall is a function of a frozen prefix; judgements look back | MemoryRecall, MemoryFeedback |
| Memory model (`memory_model/`) | kept projection, checkpoints | `rank`, save, restore | failing scores, checkpoints of another past | the ranking depends on the request alone | MemoryPolicy |
| Prompt (`prompt/`) | - | `compose` | room that is too small | what is needed is kept, interactions stay whole, what is missing is told | PromptAssembly |
| Artifacts (`artifacts/`) | objects, bindings, verified files | `put`, `read`, `stat` | crash between object and binding, two puts of one version, damage | a binding's content exists and has its digest | ArtifactStore |
| Instances (`instances/`) | summaries of runs | `find`, `resolve` | incremental reading, cut and repeated | one truth about a run, by both ways | Instances |
| Resources, scopes (`resources/`, `scopes/`) | merged directories | pages; `declaration` | a directory that changes between pages; overlapping patterns | browsing loses nothing; the narrowest declaration decides | ResourceCatalog, ScopeCatalog |
| `aurora_cli` apps | registry file, clones | install, register, remove, enable, disable | interruption between renames, no lock, a repository that moves | old or new state, only what was confirmed is run | AppTransaction, AppInstall |

`PROJECT.json` lists all parts with their status, those not modelled included,
and under `hazards` what is hard to test, each at its line.

## 2. Plan

Modelled and checked: the modules above, in the order of the table from AgentRun
to the applications. Proved (section 5): AgentRun with its history and its
contract, EngineRun with the records it leaves in the journal, WorldJournal,
BotState with the subject it implements, KernelContext, AppTransaction, AppInstall,
WakeClock, Cadence, Operations, McpRuntime, Supervision with its host,
TerminalConsole, RuntimeCore, ModelGateway, RunEvents, ArtifactStore, MemoryPolicy.

Left, in the order of importance:

1. theorems about what is computed from the journal: recalls, instances, directories,
   prompts, the order of construction;
2. the tool adapter of the operations and the storage of large payloads, the
   paged views of the bot state, the read-only queries and the migration of the
   journal;
3. composition of BotState with Operations, whose handlers it serves.

## 3. Modules

Conventions: one action per handler, or per stretch between two awaits; `at`,
`place`, `pc` or `call[..].place` name the await a task is at; history variables
are marked so. A cancellation may arrive at each await, and what was being
appended may have landed or not. An end of the process loses all variables but
those of the journal and the files. Bounds are constants called `Max...` (or are
commented as bounds) and stand in guards only. Operators named `Bug_...` are
one-slip variants of the operator after them; no action uses them. They document
which slip each property detects.

### The agent
**AgentRun** (`aurora_agent/run.py`, `messages.py`, `state.py`). `pc` says where
the driver is. The four awaits are `"assembling"`, `"inferring"`, `"policing"`,
`"executing"`; `"advance"` and `"returned"` are points between two awaits at
which hosts cannot act (`AtAwait`). A message keeps its role, the input or calls
it belongs to and its error flag. Model replies are any sequence of call ids up to
`MaxBatch`, repeated ids included, so histories the code must refuse do occur.
`DriverCancelled` is the cancellation of the driving task, `AwaitRaises` any other
exception. **RunContract** is what a run promises without the loop: accepted
messages are handed over in order, a call takes effect at most once and one at a
time, a lost effect closes the run, a closed run stays as it is. AgentRun
implements it (`KeepsContract`). **RunEvents** (`run.py:108-121, 275-282`):
`changed` is the flag of the shared `asyncio.Event`, `"woken"` a waiter whose
future was resolved by `set()`; a subscriber's `clear()` cannot take that back.

**PromptAssembly** (`prompt/composer.py`) grows a transcript of any shape an agent
makes and assembles it with any of the memories and any room. A text is its size.

### The journal and its readers
**WorldJournal** (`world/store.py`). An append holds the journal's lock over one
transaction; `StageItem` is one round of its loop, `CommitBatch` the commit,
`CommitUnseen` a commit whose task was cancelled meanwhile, `Rollback` an error, a
conflict, a cancellation or a crash. The observer reads its head one scope per
query, then delta pages; `ReadDelta` and `ReadMore` are the two queries of `delta`.
A page is the set of the positions it shows; a history variable, `repeated`, tells
whether one was ever shown again.
Every other module uses what this one shows: an append is one step, a number in a
scope is a rank there, ids are idempotent, cursors are dense.

**Instances** (`instances/provider.py`, `history.py`): `find` keeps the summaries up
to date page by page under a lock; `resolve` tells a version again from the run's
own scope. `Truth` is the fold of the journal both are compared with.
**ResourceCatalog** (`resources/catalog.py`, `artifacts/listing.py`,
`contracts/resource_paging.py`): pages merged from the assembly, the contents and
the runs, while both of the latter change between the answers to one page.
**MemoryRecall** (`memory/`): the index that every query shares, the recall up to a
cursor, the choice of bundles (a score is any order of the candidates), the source
query, the replay of a recall for a later page and the scan of the exposures.
**MemoryFeedback** (`memory/feedback.py`): judgements of what a request was shown,
executed again after a lost answer. **MemoryPolicy** (`memory_model/`): a projection
is the list of interactions the network was fed; it is kept for a request that
extends it, dropped when scoring fails, saved as a checkpoint and restored.

### Cognition
**EngineRun** (`engine/runtime.py`, `session.py`, `ledger.py`) composes AgentRun
(`Agent == INSTANCE AgentRun`) with the loop of `CognitionEngine`. `at` is the place
in `execute()`, `sub` what the session does inside an await of the run. Around each
append the caller may be interrupted before or after the commit landed
(`MayHaveLanded`). `WorldCommit` is any other writer, `RivalStarts` an execution of
the same run id in another process. `at = "abandoned"` is a run whose claim was
interrupted, `"unsettled"` a settlement that failed. A `Page` is the set of the rows
it shows; `Chosen` picks what is not stored yet, in its order.

**RuntimeCore** (`runtime/core.py`) is the entry before it: texts and events that are
committed first, commits, and launches wait for one lock; the run id is looked up
under it and claimed by the engine, here one step that may meet a rival.
**ModelGateway** (`ai/gateway.py`) is one `complete()`: the timers of an attempt and
of the request fire when they are due, in either order when both are; a
cancellation is no `Exception`, so no attempt follows it.
**TerminalConsole** (`console/shell.py`, `runtime/terminal.py`): the two tasks of a
read, input that ends or fails, the commit of a message and its dispatch, under a
supervisor that cancels.

### What makes the bot think
**BotSubject** is the abstract subject: a version, goals, wakes and one action,
`Change` (`_project`, `_validate_wake_transition`). **BotState** (`bot/store.py`) is a
set of `JournalBotState` objects on one scope, each with a lock, a projection and
steps between awaits: read a page, judge, append, look again after a refused
append. `Truth` is the subject the journal stands for; `KeepsSubject` is the
refinement. **WakeClock** (`clock/clock.py`) extends BotSubject: `apply` is one step
that holds or conflicts, as BotState shows. `Crash` loses the clock's memory at any
place; `StopRun` is the orderly stop whose cancelled run the engine still records.
**Cadence** (`cadence/cadence.py`): `mem` is `CadenceState`; the cursor and the
pressure move in memory and reach the journal only with the next decision, `Forget`
is what an end of the process loses. The policy may give any answer.

### Tools
**Operations** (`operations/registry.py`): `frames` is, per task, the stack of its
`dispatch` calls, as a handler may dispatch from its own task; `owner` is the lock of
a slot; `requested` and `receipt` are the two commits of an identity. A handler is
what the `Operation` protocol promises: it succeeds after its effect and fails
without one, or raises, or is cut off on either side of the effect.

**McpRuntime** (`mcp/`): `app` is what the runtime knows, `client` the connection
object, `server` the process at the other end, external to the code. Preparing goes app by app; notices of a changed catalogue or a lost
connection wait for the status lock, whose holder appends one status commit; the
generation gate of `events.py` stamps events on arrival (modern apps) or when they
are handled (legacy ones). `told` says what each caller of `close()` is told.

**ArtifactStore** (`artifacts/store.py`, `files.py`): each `put` and `read` is a worker
thread over files; links never replace a file, a read checks one open file.

### The kernel and the process
**KernelContext** (`aurora_kernel/context.py`): writes, and transactions that stage a
copy and commit it whole against a revision; watchers are told outside the lock, by
the caller, and fail, recurse, come or go. `Serial` says that each cell is as the last
recorded change of it left it. **Resolution** (`resolve.py`, `calls.py`):
skipping, choosing providers, shadowing, checks, the construction order, that of each
phase, and the routes of calls, for every list of three of nine shapes of modules, some
with several implementations of one call point.
**KernelLifecycle** and **Supervision** (`host.py`, `lifecycle.py`,
`runtime/supervision.py`, `run.py`): `acquired` lists cleanups and constructed modules
in the order they came, `todo` what a rollback or release still has to do; both are
tasks of their own, so a cancelled caller sets `interrupted` and goes on waiting.
`failed` collects every error that occurs, as history. `Raised` is what `run_runtime`
raises (`tasks.py`, `raise_with_cleanup`): the errors in hand with those of the release,
except that a cancellation is raised alone, with one group of causes, and a failing
release puts its own errors in the place of the causes that were there. The phases are the built-in
ones. Another closer of a running host is what
`tests/kernel/test_kernel_shutdown.py:17` and `test_kernel_failures.py:186` do.
**ScopeCatalog** (`contracts/scope.py`): the merge of declared patterns and the
matching of a scope, over paths of up to three characters.

### Applications
**AppTransaction** (`aurora_cli/commands/app/transaction.py`, `store.py`): commands as
processes over the registry file and the directories, without a lock; `cmd` is where
each is, `Mishaps` what may befall it. **AppInstall** (`service.py`, `install.py`,
`clone.py`, `github.py`, `verify.py`): one install from its arguments to the cleanup;
its commit is one step there and is taken apart in AppTransaction.

### Instances
Several components that share no state are checked in one run, side by side: the
root declares or instantiates each, a variable `part` says of which of them a
behaviour is, the others stay at one of their initial states, and each component's
fairness is guarded by `part`. Nothing is composed that way: it is one question
after the other, of one process of TLC.

| Root | Parts |
|---|---|
| `MCAgentRun` | AgentRun (with RunContract), PromptAssembly |
| `MCWorldJournal` | WorldJournal, MemoryPolicy, Instances, ResourceCatalog |
| `MCTurn` (extends `MCEngineRun`) | EngineRun, MemoryRecall, MemoryFeedback |
| `MCStores` | BotState (with BotSubject), KernelContext, AppTransaction, AppInstall |
| `MCPlanning` | WakeClock (with BotSubject), Cadence |
| `MCTools` | Operations, McpRuntime (calls, or events) |
| `ProcessParts` | RuntimeCore, TerminalConsole, RunEvents, ModelGateway, ArtifactStore |
| `MCSupervision` (extends `Supervision` and `ProcessParts`) | Supervision (with KernelLifecycle), Resolution, ScopeCatalog, EngineRun, the parts of ProcessParts |
| `MCEngineRun`, `MCApps` | one module each, for the disagreements below |

`McpRuntime`, `TerminalConsole` and `ModelGateway` are checked directly for theirs.
ProcessParts gives nothing a value, and the other roots give values in their
configurations only, so that theorems about the parts hold for every value:
ProcessProofs extends ProcessParts, and WorldJournalProofs, StoresProofs, PlanningProofs and
ToolsProofs extend the roots of their parts.
Call ids are model values; `MCTurn`, which checks safety only, takes those that name
tools for a symmetry set (no action or property names a particular one).

## 4. Runs

The invariants named in the configurations are conjunctions of named parts (for
example `RuntimeSound == TypeOK /\ OneAtATime /\ ConflictsAreForeign /\ CountsTrue /\
InputsKept`); each part has its own comment where it is defined.

| Run | Bounds and why they suffice | Shows |
|---|---|---|
| `agent_run` | 3 call ids, 2 model and 2 tool calls, replies of 2 calls, 2 inputs: two calls in one reply and a third in the next give RECONSIDER over settled and pending calls, both limits are reached with work left, input arrives before, during and after assembly. Prompts: transcripts of 5 messages, memories that share commits, rooms around every limit | `IInv`, `HistorySound`, `NoNewWorkAfterCancel`, `KeepsContract`, `Ends`; `PromptSound` |
| `world_journal` | 3 scopes (2 watched), 4 batches, pages of 2, clock readings 1 and 2: a batch with two commits of a scope, a retry with overlap, a conflict, an input that changes scopes, a clock that goes back, more commits than a page. Memory model: 4 facts, 2 revisions of the weights, 2 requests, 2 mishaps. Instances: 2 runs, 2 finders, 3 commits. Resources: pages of 1 and 2 over two declared, published and running ones | `LogSound`, `ObserverSound`, `CatchesUp`; `RankingSound`; `InstancesSound`; `CatalogSound` |
| `engine_run` | 3 calls (one names no tool), 2 model and 2 tool calls, 1 foreign commit: a sealed batch with an unknown tool, a foreign commit at each await, a rival. Memory: a chain of 3 facts over 2 scopes, pages of 2, a recall, its replay and a source query, 2 at a time. Feedback: a judgement, its correction and one of another goal. Both with any number of cuts and restarts | `RecordsSound`, `EndIsLast`, `DrivesTheAgent`; `MemorySound` |
| `stores` | Bot state: 2 stores, 1 goal, 1 wake, 3 commits, pages of 2: a page boundary, another writer, two stores racing for a version, a retry after a cancelled append. Context: 2 callers, 2 cells, a watcher that fails and recurses. Apps: 2 of 6 commands at once, 3 in all, cut or crashed. Installation: the kinds of sources, refs and commands that differ | `BotSound`, `KeepsSubject`; `ContextSound`; `AppsSound`; `InstallSound` |
| `planning` | 2 wakes (one with a goal), clock 0..2, 5 changes, 2 ends of the process: one during the recovery from another, a conflict at each append. Cadence: a reactive and an ordinary event, 2 plans, clock 0..1, 1 fault: an event before and after a plan, a plan made on a tick, a decision that waits for its next check | `WakesSound`, `PlansJustified`, `EveryWakeEnds`; `CadenceSound`, `EventsAndPlansSettle` |
| `tools` | 4 identities, 2 tasks, 3 calls, a deadline, 1 fault: a retry beside the first call, one after a fault, a nested call cut off by its caller's deadline. MCP: 2 apps, one of each protocol, one that changes and vanishes, a change each, 1 event, 1 call, 2 callers of `close()`; calls and events apart, as they touch different state | `OperationsSound`, `CallsReturn`; `McpSound`, `StartAndCloseEnd` |
| `supervision` | 2 modules with every hook, 2 fronts, 2 cancellations, 1 other closer: a failure at each hook, two failures at once, a cancellation during the join and again during the release. Resolution: every list of 3 of 9 shapes of modules under every naming. Scopes: every two declarations of seven paths under at most one of the project. Console: 3 lines. Entry: two texts that name one run, a launch, a rival, 1 end of the process. Gateway: 3 policies. Events: 2 subscribers, 4 events: one waits, one clears. Artifacts: one version put twice beside a read, 1 damage or crash. Execution: a reading tool, 2 foreign commits, pages of 1, 1 host message: `has_more` with a page in between | `SupervisionSound`, `ProcessStops`; `ResolutionSound`; `EntrySound`; `GatewaySound`; `EventsSound`, `SubscriptionsDrain`; `ArtifactsSound`; `NothingSkippedElsewhere`, `ExecuteEnds` |

Five more runs each check one property that TLC finds violated; see below.
Deadlock checking is off where a program really stops: a finished run, a journal
with nothing left to append.

**Fairness.** Only the component's own steps are fair: awaited services answer or
raise (model calls, tools and the connections of MCP have timeouts of their own; the
journal is local), so the driver goes on. Hosts, users, servers and other writers
owe nothing: no fairness on input, cancellation, catalogues or foreign commits.
AgentRun has fairness on the driver, RunEvents on each subscriber, EngineRun on the
loop, the run's steps and interruptions (something happens at each await),
WorldJournal on an open append and on the observer, WakeClock on the clock and on
time, Cadence on the consumer, Operations on each task's steps, McpRuntime on
starting and closing, Supervision on the process, the monitor, the release and on
tasks and fronts that were told to stop. Changes by others, crashes and failing
launches are finitely many, as a settlement that meets a conflict each time has no
promise to end.

**Disagreements found.**

`engine_run_arrived` states what `docs/rfc/0300-design-philosophy.md:74` asks for:
before acting the model has seen the disclosures that have arrived. The ledger
advances its frontier by its own commits' numbers (`ledger.py:67`, `:163`). If another
writer commits in a scope a tool both observes and publishes to (bot commands do),
between the run's last look and the run's own commit, the frontier passes the
foreign commit and it is never shown. `NothingSkippedElsewhere`, which is checked and
proved, says that scopes the run does not publish to are safe.

`mcp_failed` states what the table of outcomes in
`apps/docsite/src/architecture/runtime-core.md:24` says of *failed*: refused, or known
to have had no effect. A remote tool that did its work and answers with an image or
a resource is told as failed (`mcp/tool.py:138`).

`apps_interrupted` states what the docstring of `install_transaction`
(`transaction.py:140-142`) promises: what is registered is installed. A Ctrl-C that
arrives after the registry file was replaced and before `_atomic_write` returns is
taken for a failed write, whose undo moves the published clone away.

`causes_lost` states the docstring of `raise_with_cleanup` (`aurora_kernel/tasks.py:29`):
a cancellation carries every cause of failure. `supervise` raises the cancellation of
the process from a group of what the fronts and the monitor failed with; if a cleanup
or a shutdown hook fails then, `tasks.py:37` raises that same cancellation from a new
group, and the front's failure is in nothing that `run_runtime` raises. `ErrorsReported`
says that this is the only way to lose an error, and which errors can be lost by it.

`console_left` states the docstring of `_run_fronts` (`runtime/supervision.py:57`): no
running task is left before the resources are closed. A terminal that is cancelled
inside `asyncio.wait` (`console/shell.py:120`) leaves its reading task behind;
`ConsoleSound` shows that a front that ends by itself leaves none.

## 5. Proofs

Every theorem is of a specification with all its constants left open: any sets of
calls, wakes, scopes, stores or tasks, any limit, any number of commits and of
crashes. The assumptions are those the modules declare (`RunAssumption`,
`EngineAssumption`, `JournalAssumption`, `StateAssumption`, `SubjectAssumption`,
`ClockAssumption`, `PacingAssumption`, `OperationsAssumption`, `LifecycleAssumption`,
`SupervisionAssumption`): bounds are natural numbers, pages hold at least one commit,
delays are positive, placeholders (`NoId`, `NoGoal`, `"none"`) are no members of the
sets they stand beside, inputs are of the types the code checks before it uses them
(a batch repeats no id, a change names goals and wakes and their statuses), and no
two wakes are due at the same time, which stands for the tie-break by wake id.
Theorems about a part of a root state what they need of its constants themselves:
`EntryAssumption` (finitely many callers), `Policies` (timeouts, totals and counts are
natural), the bound on mishaps, `StoreAssumption` (a put is no read), `CellsAssumption` (a key stands in a
namespace, which is a cell itself), `RequestsAssumption` (a request has the fields the
command line has), `AppsAssumption` (an installation has a path, other commands have
none, the apps installed before share no package and no path), a positive number of
events and of MCP apps.

Each component has one inductive invariant, proved by one lemma per action and in it
one step per conjunct that the action can disturb; the properties follow from it. The
runs check the property; the invariant is what makes its proof go through.
**ProofLemmas** holds facts about least and greatest numbers and about sequences
(concatenation, prefixes, reversal, removal, distinct elements).

**AgentRunProofs** (`IInv`): `TypeOK`, `UncertainEffectEndsRun`,
`ExecutedAtMostOnce`, `NoNewWorkAfterCancel`, `TerminalAbsorbing`. `TypeOK` alone is not
inductive: a budget tested before an await must still hold after it
(`BudgetHeld`), the driver's place must fit the status (`ControlPoints`), entries
must match call records (`EntriesMatchCalls`) and every record must have been
proposed (`RecordsProposed`), so that a valid reply, which proposes fresh ids only,
never resets a call that ran.

The second half (`HInv == IInv /\ Told`): `HistorySound`, `OutcomeIsFinal` and the
refinement `KeepsContract`. That a history is valid does not last by itself: what it leaves
open must be what the records leave unsettled (`Paired`); calls must be settled from
the front, so that the first pending call is the one the next tool message answers
(`Ordered`); and what the assembler was given must still be the head of the queue,
with no call waiting, when the prompt is delivered (`Assembling`), because hosts
append to the queue meanwhile. `CompletedMeansAnswered` needs all three.
The refinement maps the queue and what was delivered of it to the contract's
messages, `executions` with `calls` to its effects, the status to its outcome.
`AppendMessage` is its Accept, `AssembleReturns` its Deliver, `StartTool` its Start,
`ToolReturns` its Settle, every end of the run its Close, a lost effect its Close
with the effect left unknown; the contract does not see anything else. The
limits, the cancellation flag and the history itself are hidden by it.

**EngineRunProofs** (`EInv`): `DrivesTheAgent`, `RecordsSound`, `EndIsLast`,
`NothingSkippedElsewhere` (as `NothingIsSkipped`). The first
says that every action of the engine, those that interrupt it included, is a step of
AgentRun or leaves the run alone; it needs `Asked`, that the answer the session holds
while it is being recorded is one a model may give. So `HInv` holds of the run in the
engine (`RunInvariance`), and so does `OutcomeIsFinal`, that a settled call keeps its
outcome and stays unentered; the rest uses no more of the run than that (`RunFacts`,
`Onward`). `EInv` adds the journal, for any number of calls, foreign commits,
interruptions and records written twice:

- `Driven` and `Ending` tie the place of the session to the place of the driver:
  nothing is left to record (`ToRecord = {}`) when a step begins or a run is closed,
  the output comes before the end, a run that is being settled has ended;
- `Beginning`: before the claim there are only claims and foreign commits, and the
  claim that landed is the only one, a rival's included;
- `StepRows`: of a model call no record is there that its place still has to write,
  and what the model was shown for a call is only there if the call was answered or
  the run is over;
- `Sealing`: pending calls of the catalogue are sealed all together and one is entered
  only when sealed, so when the first of them is not sealed none is, and no request of
  theirs is in the journal: requests that a cancelled append left there end the run;
- `Results`, `Ends`: a result, an output or an end that is in the journal without being
  noted in the ledger was left there by a cancelled append, the settlement is on, and
  the record is literally the one that the settlement is about to write. This is the
  reason why it is never refused.

`Seen` is about scopes that only others write to: the frontier of such a scope is
not past its rows, is 0 as long as the scope is not observed, and what it has passed
was shown. An append of the run's own moves no such frontier (`AppendLeavesForeign`),
a row that arrives is ahead of it, and a page, being what is first ahead, leaves
nothing behind its last row (`PageIsFirst`).

**WorldJournalProofs** (`IInv`): `LogSound` and `ObserverSound`. The rows of the open
transaction must continue the log (`Sound(Rows)`: dense, ordered in time, distinct
ids), the writer's cached numbers must be one ahead of both (`Writing`), and inputs
that were looked at are recorded in the two together, which is why a commit may
acknowledge all of them. For the observer: a frontier stands at a number of the log
and what was disclosed is behind it (`Behind`); density then says that a page cut
anywhere leaves nothing of a scope below its last number.

MemoryPolicy (`PolicyInv`): `RankingSound`. `CacheKept`: the state is the projection of the
history it is kept under, verified or not, and all of it was told. `Saving`: what a save
holds was such a state of these weights when it was taken, and goes on being one while
requests change the kept one. `Stored`, `Saved`: so is what was stored and told, which is
why a state that is restored can be extended once its history is verified. The graph
of a request is a recursive function; that it exists and holds facts only is proved by
the least number for which it would not. No more of its order is used.

**StoresProofs** (`IInv`): `BotSound` and the refinement `KeepsSubject`. Between
the judgement of a command and the end of its append other stores commit. What
lasts (`Judged`, `Unused`): the command is new, and if the version it expects is
still untaken nothing lies between the projection and the end of the log, so the
append is made from the state it was judged against. A projection is the subject at
its position (`Follows`). An append that lands, acknowledged or not, is a `Change`
of the abstract subject; nothing else moves it.

KernelContext (`CtxInv`): `ContextSound`. It says nothing of copies that are staged, of
who still owes a telling, nor that callers owe different ones, and is not inductive.
`Recorder`: a cell is as its last change left it. `Spaced` holds of the data and of
each staged copy. `Staged`: a copy at the current revision differs from the data only
where its transaction changed it. `Teller`, `Apart`: callers that tell have distinct
changes, which were made. `Owing`, `Subscribers`, `AllTold`: a change still to be told to
a watcher was not told to it, and when nobody tells any more all are told.

AppInstall (`InsInv`): `InstallSound`, which only speaks of the end. `InsDirs` says place
by place which directories exist, `InsPlan` where launch and clone come from,
`InsServer` that the server of the app runs only after the plan was accepted,
`InsOutcome` what was told.

AppTransaction (`AppInv`): `AppsSound`, which says nothing of a command under way. Every
action has one of a few effects (`Effect`: a command begins, goes on, stops, dies,
publishes, quarantines, writes, takes back, restores, discards), and the invariant is
proved by effect. `Placed`: what a place tells of a command's clone and quarantine;
`OneAtATime` is about commands that do not overlap, as the last three parts are.
`PublishedKept`: a clone that was published is there until a removal of its path begins.
`OneEntryEach`: packages stand once in the registry, and the running command's
judgement of it still holds, that of a removal from its beginning on. `EntriesKept`: an entry without clone has it in a
quarantine, and two entries have one path only if a removal died with the clone
(`Abandoned`, which lasts). `Told`: what the running command has done since it began.

**PlanningProofs** (`IInv`): `WakesSound`, `PlansJustified`, `DeliveryOneWay`. Between
its awaits the clock acts on what it read; `Knows` says, place by place, what of it
still holds if the version has not moved (a claim is of a pending wake that is due,
a settlement of one that runs) and what holds in any case (a wake that was launched
is running: nobody else takes it back). `Records` ties the runs to the starts, so an
`INTERRUPTED` is never recorded of a run that ended. `Plans` makes a cancellation of a
goal take its wakes with it.

Cadence (`RhythmInv`): `CadenceSound`, which does not relate the memory to the log. The
proof is of logs: `LogSound(l)` has what was judged (`JudgedTo`), the exact pressure
(`Pressed`), the reactive event that is remembered (`Remembered`), plans in turn
(`InTurn`), and there is a lemma for each kind of row that is added (`OutsideRow`,
`ResultRow`, `DecidedRow`, `PlannedRow`). `Standing`: the memory is the last record, moved
only over what does not count, except while one commit is judged (`Judging`). `InHand`
is what the consumer knows at each await, `TrueResults` that a result recorded agrees
with its run.

**ToolsProofs** (`IInv`): `OperationsSound`, that a receipt is final, and that no
two tasks are past the lock of one identity. `Stacks` says how nested calls and
slots fit: all but the innermost call of a task are inside their handlers, a task
never asks twice for a slot, and a slot is held by exactly the call that is past the
lock; with it `HoldersProgress` is about one call per identity, and what that call
knows of its request, its effect and its receipt at each place is not disturbed by
the others. `Causes` is what a restart leaves: an effect comes from an entry.

McpRuntime (`MInv`): `McpSound`. What lasts is said app by app (`AppSound`): how far it was
started, what is known of its catalogue, which losses were told or will be, and that
its gate is open exactly while the runtime runs. The number of apps, of calls and of changes
is open; a connection is lost once at most, as the code opens none again. `Calling` is
about the calls, `Closing` about the order of the release, `Owned` about the one caller
that does it while others wait.

**ProcessProofs** (`IInv`): `SupervisionSound`, that nothing is released twice
(`NothingReleasedTwice`) and that the end is final. `Releasing`: what was released,
followed by what is still to be, is what was acquired, reversed. `AcquiredOnce`;
`Placed`, what the place of the process says of the host, the fronts and the monitor;
`Accounted`: every error that occurred is in somebody's hand, although errors are
collected by tasks that are cancelled, until `Raised` takes those of the process; what it
raises is all of them but in the case of `causes_lost`, in which only errors of fronts,
background tasks and the monitor are left out. `AllTold` is that at the end; `Sorted`
says of which kinds the errors are that `supervise` hands over, and that a failed start
leaves one error only. Beside it, of the parts of the process:

- TerminalConsole (`CInv`): `Lines`, `Reading`, `Rows`, `Answering`, which line is in whose
  hands at each await;
- RuntimeCore (`RInv`): `Queued`, the lock and its queue; `Looked`, that a run that was
  not found is still not there or was taken by a rival; `Counting`, what became of
  each call;
- ModelGateway (`GInv`): `Attempting`, the open attempt is the last one and is not older
  than its timeout;
- RunEvents: `EventsSound` itself is inductive;
- ArtifactStore (`AInv`): `Signed`, that a file changes together with its signature, so
  that what was verified once need not be read again; `Published`, that what is there is
  whole, and that a call past the object finds it, unless somebody else touches the
  files; `OneTouch`, that publishers alone use up one attempt of a reader; `Described`.

Model-checked only:

- liveness (`Ends`, `CatchesUp`, `ExecuteEnds`, ...): fairness and ENABLED are out of
  the prover's reach;
- what is computed from the journal: recalls and feedback (`MemorySound`), runs
  (`InstancesSound`), directories (`CatalogSound`), prompts
  (`PromptSound`), and resolution and scopes (`ResolutionSound`): most of them are folds,
  selections and sorted sequences, and what these compute for every input takes
  induction over data, which is out of reach.

## 6. Not modelled

- *Numbers*: the networks of `memory_model/` and `rhythm/`, their training, and the
  features the cadence observes; the models take any answer they may give.
- *Values*: what is checked of names, URLs, manifests, arguments and stored records,
  the codecs between records and JSON, and the wording of prompts and messages. A
  value is accepted or refused; which text is accepted is not modelled.
- *Terminal, network and database*: LiteLLM, the MCP protocol library, prompt_toolkit,
  git, SQLite and the file system stand for what the code relies on.
- *Wiring*: `runtime/assembly.py`, `factory.py`, `kernel/` of the bot, the catalogue of
  agents and of tools, settings and configuration files, which are computed once
  before anything runs; module discovery, which imports Python modules.
- *Views*: the paged views of goals and wakes, `snapshot_at` outside of recalls, the
  read-only queries of the journal, what the console prints.
- `aurora_cli` apart from the commands on apps; the playground, sites and scripts.

Much of the code is of these kinds: the map covers a small share of the lines of
the repository although nearly every component that keeps state across an await is
modelled. The state that is shared, the order of the steps and the ways they fail
are in the remaining lines, and those are what the modules are about.
