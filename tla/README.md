# Verification of the local AI agent

TLA+ modules, TLC configurations and TLAPS proofs for the agent server in
`src/src/local_ai_agent` and its web client `src/web/src`: an asyncio program that runs tools for a
locally served language model, behind a deterministic safety gate and human approvals. Paths below
are relative to `src/src/local_ai_agent/` unless they start with `src/`.

Contents: [1 inventory](#1-inventory), [2 interactions](#2-how-the-components-interact),
[3 modules](#3-modules-and-the-code-they-model), [4 runs](#4-what-the-runs-check),
[5 disagreements](#5-where-the-code-and-its-documentation-disagree), [6 proofs](#6-what-is-proved),
[7 plan](#7-plan), [8 not modelled](#8-what-is-not-modelled-and-why), [9 use](#9-running-the-checks).

## 1. Inventory

Everything on the server runs on one asyncio event loop in one process, so a step is atomic from one
`await` to the next; concurrency is the interleaving of tasks at awaits, cancellation delivered at an
await, child processes, Docker, remote hosts, threads only for blocking file work, and the browser.

| Component | State it keeps | Operations | What is hard | What makes it correct | Modules |
|---|---|---|---|---|---|
| Approval registry (`modules/safety/approval.py`) | `_records`: id to record | `request`, `approve`, `deny`, `consume`, `get`, `sweep`, `pending`, `purge_terminal` | expiry is applied lazily by whichever call looks; calls come from several sessions | single use, only an approver grants, never past the deadline, no move backwards | `PendingApprovals` |
| Gated dispatcher (`modules/safety/dispatcher.py`) | the registered tools | `register`, `dispatch`, `execute_approved` | the gate is asked again at execution; replays; tools registered in between | only safe actions run ungated, blocked ones never, the rest once per grant and as granted | `Dispatcher`, `GatedExecution` |
| Safety gate (`modules/safety/gate.py`) | none | `classify` | rule order against the allowlist | the strictest rule wins, whatever the allowlist says | `SafetyRules` |
| Agent session, loop (`modules/orchestrator/`) | `_actions`, `_pending` (futures), two tasks; budgets of a run | `run`, the reader, `obtain_approval`, disconnect | timeout against late decision, cancellation at each await, decisions before the future exists | decisions stay in their session, the budgets bind, every run ends, the audit explains what ran | `AgentSession` |
| Audit sink (`modules/safety/audit.py`) | none (output) | `record` | who writes what, when | | `AgentSession` |
| Model manager (`modules/model_manager/`) | `_state`, `_handle`, `_loaded_file`, `_lock` | `start`, `stop`, `switch`, `launch_*`, `state` | queue on the lock, crash noticed on read, readiness timeout, shutdown with loads queued | one engine at most, truthful report, none left after shutdown | `EngineController` |
| Execution sandbox (`modules/exec/sandbox.py`, `module.py`) | `_created`, `_volume`; one container, one volume | `run`, file operations, `_ensure`, `_kill`, `close`, clean-ups of `start` | concurrent first calls, a timeout kills everybody's command, crash and restart under one name, two pipes read one after the other | fresh workspace, nothing left after a stop, a timed-out command is gone, truncation is told | `ExecSandbox`, `SubprocessRunner` |
| Execution policy (`modules/exec/policy.py`) | none | checks of commands, paths, settings | text | paths stay in the workspace | `Containment` |
| Module registry (`core/registry.py`, `app.py`) | registered and started modules, errors | `start_all`, `stop_all`, `health`, availability | dependencies, cycles, a start that raises | start after and stop before what one depends on, offer only what works | `ModuleRegistry`, `ServerProcess` |
| Ingest store (`modules/docqa/ingest.py`) | records in memory, files on disk | `register`, caps, `rebuild_from_disk` | failure or kill between write and register | disk and records agree, caps hold | `IngestStore`, `ServerProcess` |
| MCP client (`modules/mcp/`) | connected servers, their tools | `start`, `stop`, `call_tool` | one server failing, hanging or dying | no process outlives a stop, names are unambiguous | `McpServers`, `McpNames` |
| Remote storage (`modules/storage/`) | one shared connection, a lock | `list`, `stat`, `read`, `write`, `delete`, `move` | lost connection under concurrent calls, retry of what was already done | one connection, honest replies, every call returns | `RemoteStorage`, `Containment` |
| LLM serving and adapter (`modules/llm_serving.py`, `modules/orchestrator/model_adapter.py`) | default parameters | stream accumulation, payload, `parse_turn` | interleaved fragments | calls are not mixed up and keep their identifiers, chats are clamped | `ModelCalls` |
| Gateway, authentication (`core/gateway.py`, `auth.py`) | none of its own | REST routes, `/ws` | many credentials, order of checks, the engine's state in three places | transports agree, what is offered is served | `Endpoints` |
| Browser (`modules/browser/`) | none between calls | `web_answer` and its parts | names that change address between check and use, redirects | requests go only where they were checked for | `WebAnswer` |
| Document QA (`modules/docqa/`) | none shared | load, chunk, summarise, gather, rank, answer | chunk arithmetic, reduction, caps | the text is covered, the reduction ends, what is left out is told | `DocumentWork`, `DocumentAnswers` |
| Configuration, composition root (`config.py`, `main.py`) | none | validation, construction | settings valid one by one but not together; a dozen flags | what starts can be used; a tool is gated by what it does | `Configuration`, `Composition` |
| Web client (`src/web/src/api/client.ts`, `state/`, `App.tsx`) | socket, back-off, run, prompts | connect, reconnect, sign-in and -out, run, decide | frames of an old run, timers, reconnects | no decision twice, no prompt of a dead socket, answers to their own tasks | `WebClient` |
| Presentation, demo, views, scripts, tests | — | — | — | — | (`Composition` for their modules) |

## 2. How the components interact

The web client opens a WebSocket; the gateway authenticates it and, for a `run_task` frame, hands it
to `AgentSession.run`, which creates an orchestrator task and a reader task. The orchestrator
alternates model turns (HTTP to the serving engine) and tool calls. A call goes through
`ToolDispatcher.dispatch`, which asks the gate: a safe one runs, a blocked one is refused, and a
`needs_confirmation` one is enrolled in the **process-wide** `PendingApprovals`. The session prompts
the client; the reader turns the answer into `approve` or `deny` on the registry and sets a future
the orchestrator waits on; `execute_approved` consumes the grant and runs the tool. A disconnect ends
the reader, and `run` cancels the orchestrator at whatever await it stands.

Tools act on components that all sessions share: the sandbox (one container), remote storage (one
connection), MCP servers, the ingest store. The serving engine is started, stopped and switched by
REST routes whose work runs on in background tasks. `build_application` reads the ingest store back
from disk and registers the modules; `ModuleRegistry` starts them in dependency order and stops them
in reverse, after the web server has waited for its handlers.

The compositions follow the sharing:

- `Dispatcher` EXTENDS `PendingApprovals` (direct calls in one process), and `AgentSession` EXTENDS
  `Dispatcher` (each session calls the one dispatcher).
- `ServerProcess` EXTENDS `ModuleRegistry`, `McpServers` and `IngestStore`: one process after the
  other over one disk.
- `WebClient` has both ends of the socket; its server half is what `AgentSession` and the `/ws`
  handler look like from the wire.
- `Composition` EXTENDS `SafetyRules` and `ModuleRegistry`: the tools that are built, under the gate
  they are built with, from modules the registry can start.
- The engine, the container, the storage connection, a summary and a web answer share no state with
  these or with each other; a tool call of a session is a slot of `Calls` there.

## 3. Modules and the code they model

| Module | Code | State |
|---|---|---|
| `PendingApprovals` | the approval registry, one action per method, and the clock | `records`, `issued` |
| `Dispatcher` | the dispatcher over the registry | plus `registered`, and histories `runs`, `grants`, `ungated` |
| `GatedExecution` | abstract: what gate, registry and dispatcher promise together | `phase`, `binding`, `performed`, `performedSafe` |
| `AgentSession` | session and loop over the dispatcher | per connection, see below |
| `EngineController` | model manager, its lock, its process, the routes that call it | as in the code, plus the process |
| `ExecSandbox` | sandbox, its module, Docker | as in the code, plus Docker |
| `SubprocessRunner` | one subprocess with two output streams | reader, pipes, what was read |
| `RemoteStorage` | tools, connector and transport of one storage connector | calls, connection, lock queue, remote file |
| `WebClient` | API client, run and approvals controllers, and the server on the wire | client, frames both ways, server |
| `ServerProcess` | process lifetime over the next three | phase, modules to start and started |
| `ModuleRegistry` | start order, availability, health | none (operators) |
| `McpServers` | start and stop of the MCP module | position, subprocesses, clients |
| `IngestStore` | uploads, rebuild | disk, records |
| `DocumentWork` | chunker and summarizer, one loop turn at a time | chunks, summaries, prompts |
| `WebAnswer` | search, fetches with redirects, answer | hits, hop, addresses, pages |
| `SafetyRules`, `Composition`, `Configuration`, `Containment`, `ModelCalls`, `DocumentAnswers`, `Endpoints`, `McpNames` | functions of their input | none (operators) |
| `Ordering` | `sorted` of Python, of a set under a strict order | none (operators) |
| `Algorithms` | the functions above on one input, beside `WebAnswer` and `SubprocessRunner` | `sample`, the input |
| `MC*` | values for TLC | |
| `*Proofs` (eight) | theorems, section 6 | |

Definitions whose comment says *Mutant of* are altered forms of the definition they name. No
action uses them; substituting one shows which property that part of the code upholds.

### PendingApprovals

An action is one whole method call, including the lazy expiry (`_get_live`) it begins with and
including refusals: a refused call still marks a stale record expired. `Touch` is that expiry and
`Store` an update after it. A record's `left` is the time left before `expires_at`; `Elapse` is the
clock, one unit at a time; it stops one unit past the deadline because the code only compares. The
boundary is the code's: `now >= expires_at` is stale, that is `left <= 0`. Only a pending record can
expire, so only those count down; what is left then stays as the time the decision had to spare.
Principals are arbitrary, and the approve scope is the set `Approvers`. Actions are opaque, and
`Fingerprint` maps them to what `_fingerprint` computes; `NoFingerprint` is an action whose arguments
cannot be serialised, which `request` refuses. `issued` remembers ids after a purge: the id factory
is assumed not to repeat itself.

### Dispatcher and GatedExecution

The actions `Dispatch...`, one per outcome of `dispatch`, and `ExecuteApproved` each model the whole
method: gate, registry, tool. The run of a tool is recorded where the code starts it, in the same
step as the consume, since there is no await between. What a tool does is not modelled here.
`Verdict` is the gate's answer for an action and `ToolOf` its tool; both are constants, total,
otherwise arbitrary. `GatedExecution` has slots that are proposed, granted, performed or closed;
time, expiry, purge, replay and re-classification do not occur in it.

### AgentSession

`pc` is the await at which the orchestrator task is suspended: `model` (model turn), `announcing`
(event of a tool call), `asking` (send of the prompt), `waiting` (future), `giving_up` (send of the
timeout notice), `tool` (tool execution), `reporting` (event of its result). A step runs from one
await to the next, so everything the code does between is one action with its calls to the
dispatcher. The reader task is the actions `ClientApproves`, `ClientDenies` and the disconnect; each
handles one message in one step because the registry does not await. Cancellation is two steps as in
asyncio: `run` requests it (`cancelSent`), and it is delivered at the await where the task stands. A
`wait_for` whose future is already set may swallow it, and a tool may turn it into a failure (as
`call_tool` of the MCP client does); both are modelled. The deadline and the decision timeout count
down with `Clock`, which also advances the registry's deadlines: one clock for all. `cutOff`,
`started`, `logged` and `decisions` are histories. The model may propose any batch of up to
`MaxBatch` calls at each turn, or a final text.

### EngineController

`start`, `stop` and `switch` are sequences of steps under `_lock`, which hands over in order
(`holder`, `waiters`). `pc` names the await: `queued` (lock), `spawning`, `probing`, `sleeping`,
`ending` (terminate of a stop), `expiring` (terminate of a failed start). Reading `state` is an
action: it reconciles a ready engine whose process has exited. The process may exit at any moment
(`Crash`), and a probe's answer may be older than the exit. A background task accepted by a route is
`created` until it first runs, and the model lets it stay there arbitrarily long, which includes the
real order. `Shutdown` is `stop` of the module, called when no HTTP handler is in flight (`Quiet`:
the server waits for handlers before it stops the modules) but with background loads possibly
queued. `Calls` are slots, reused, so they bound the calls in flight and not their number.

### ExecSandbox and SubprocessRunner

Each `docker` invocation is a client process which a call awaits: `reply` is `asked` until Docker
has acted, then what the client will tell. A timeout kills the client and (for a command) the
container; a cancellation only stops awaiting. Docker is external: an abandoned `exec`, `kill` or
`rm` acts at once or never; an abandoned `docker run`, which may be fetching the image, may act at
any later time, even after the process (`late`). A server process starts (`Boot`, `RemoveOrphan`,
`Wipe`), serves, and stops or crashes; the next has the same container and volume names. `failed`
records that Docker failed this process of its own accord or that it crashed, and `overtaken` that
a late `docker run` may act in it; properties that cannot hold then say so. At most one abandoned
`docker run` per call slot is kept.

In `ExecSandbox` a command may simply never be answered before its timeout. `SubprocessRunner` is why
that can happen: the child writes a script of pieces to two streams of bounded capacity, and the
runner drains stdout to its end or past twice the cap, then stderr, then waits for the exit.

### RemoteStorage

A tool call is a script of transport calls (`Script`: a move is two `realpath`s and a rename, a write
a `realpath` and two requests), each one or more SFTP requests on the connection that `_ensure` gave it and
repeated once, from its first request, when the connection is lost. The `asyncio.Lock` is a queue
whose head holds it or has just been handed it; a cancelled waiter leaves the queue, a cancelled
holder strands the connection it was setting up. The server executes a request and then answers it;
the network may drop a connection before either, and drops every request on it. `remote` is one file
that the calls compete for, `did` counts how often a call changed it.

### WebClient

A JavaScript callback with the listeners it calls is one step. Both timers, the back-off's and the
run's, may fire at any time while they are armed. Frames are queues in both directions, lost with
the socket. The server half takes a task when idle, hands every other frame to the session while one
runs (which answers an unknown decision with an error, as `_handle_decision` does), echoes other
frames when idle, asks for approvals, times out and answers. The operator signs in and out,
starts a run when the form allows it, and decides on prompts on offer.

### ServerProcess, ModuleRegistry, McpServers, IngestStore

`Boot` is `build_application`, with the rebuild of the ingest store. `StartReturns`, `StartRaises`
and `StopModule` are turns of the loops of `start_all` and `stop_all`; the start of the MCP module is
several steps, one per await. The two recursive procedures of the registry are recursive functions
over their calls: `Visits` over what is to be visited, what is being visited and the order so far,
`Available` over a name and the names above it. A registration may name unknown modules and may have
cycles there; `ServerProcess` alone assumes that dependencies end (section 6).

An upload has no await in its critical section, so it is one step, but the disk may fail in it
(`UploadFails`: nothing, part or all of the file is there) and the process may be killed in it
(`KilledInUpload`). `Kill` may happen at any time; subprocesses of MCP servers end with their pipes.
A disk file keeps the size it was meant to have, which the code does not know. The bytes in use are
the number of elements of `Bytes`, a place for each byte of each file: the sum of the code, in a form
that adds without recursion.

### DocumentWork and DocumentAnswers

`DocumentWork` takes the splitter's loop (`Cut`, `DropTail`) and the summarizer's (`Ask`, `Pack`,
`RoundOver`) one turn at a time, over texts of four kinds of characters, with model answers of any
size in `SummarySizes` or a failure. A break may fall at any place `_find_break` prefers, computed as
the code does. `DocumentAnswers` has the parts before and after that: listing a tree with links,
loading, gathering chunks under three caps, ranking and choosing, and the two bounded parsers.

### WebAnswer

One `web_answer` from search to answer. Each hop resolves its host to an arbitrary set of addresses,
at any time another one; `pinned` is what the check of this hop saw, and the request goes to one of
those, as `_pin_target` builds it. A redirect to what `urljoin` cannot parse ends the whole call
(`RedirectMalformed`, stage `raised`). The total time may be used up at any moment, which the code looks
at only between pages.

### Algorithms

A behaviour picks one input of one of the `Kinds` and keeps it in `sample`, or is one run of
`web_answer`, or one of a subprocess; these share no state. `IsInput` says what an input of a kind
is, for any size: it is what a caller in the code can pass, not what TLC enumerates. `Samples` is
the set of inputs of a kind; `MCAlgorithms` gives it its bounded value and contains nothing else.
The properties `Every...` are about the input that was picked.

What the code computes with a loop or by recursion is a recursive function over the loop's state or
the calls (`Visits`, `Resolved`, `AllFolded` and others), never an operator declared
RECURSIVE, so that every module can be proved about.

### The operators

- `SafetyRules`: the verdict for a call given what each pattern finds in it (`finds`) and the
  allowlist; the rules in the order of the code.
- `Composition`: modules, tools, safe tools and runtime of every set of flags.
- `Configuration`: what the validators accept, and what the components' constructors and first uses
  raise for.
- `Containment`: the four path checks, against the place a path really leads to.
- `ModelCalls`: the stream accumulator, the parsed turn, and the parameters of a chat. A call keeps the
  identifier the engine sends in any of its fragments, `Given(id)`, or else gets the one made up from
  its index, `MadeUp(index)`. `Callers` are those who ask for a chat: `POST /chat`, whose number of
  tokens is clamped; the agent, which gives none; the tools on documents, which give a configured
  number that nothing clamps.
- `Endpoints`: the credential checks, the routes and their handlers. Authentication comes to a
  principal, a refusal or a failure: `hmac.compare_digest` raises for a key, presented or configured,
  that is not ASCII ("odd"), whatever token comes with it. `Admission` is the status of a route's
  dependency, 200 when the handler is reached, and `Handshake` what becomes of the socket. An
  application (`IsApp`) is a registration, the health of its modules and the state of the engine,
  from which `Health` derives that of the manager and the serving module; discovery (`ModuleRegistry`)
  reads health, the handlers (`Handled`) ask the engine.
- `McpNames`: registered names of MCP tools as sequences of characters, for these alone are about
  characters; the characters that the policy's pattern treats alike are one.

## 4. What the runs check

Ten runs pass; two show a disagreement (section 5). The counts are distinct states. A property of a
run may be a conjunction of named parts, each defined and explained above it in its module; the
table names the properties and says what their parts are.

| Run | Instance | Shows |
|---|---|---|
| `dispatcher` (7 503) | two ids, two principals of which one approves, five actions (safe, two to confirm, blocked, one without a fingerprint) on two tools, timeout 1 | `ApprovalsAreSound`: records are well formed and grants authorised, in time. `ApprovalsOnlyAdvance`: an approval only moves forward, a stale one is never granted. `RunsAreGated`: one run per approval, only of what was approved. `ImplementsGatedExecution`: the refinement |
| `session_pair` (412 884) | two sessions of two approvers, one action to confirm, two ids, one turn, decision timeout 1 | `ImplementsDispatcher`: the composition does nothing to the shared registry but dispatcher steps. `SessionsAreSound`: the two dictionaries follow the await, decisions stay in their session, live approvals without a prompt come from a cancellation only. `AuditExplainsRuns` |
| `session_loop` (168 579) | one session, three actions, two ids, two turns of up to two calls, budget 2, deadline 2, decision timeout 2 against registry timeout 1 | `BudgetsBind`, and the reported status is the bound that was hit. With fairness every run ends (`RunsEnd`) and every approval is purged or was cut off (`RegistryDrains`) |
| `engine` (76 077) | three calls in flight, two files, two process identities, two polls | `EngineIsAccountedFor`: one engine at most, its handle known. `ReportedFileIsServed`, `ShutdownLeavesNoEngine`, `ServingIsNotDisturbed`: only a call that stops takes an engine out of service. With fairness `CallsReturn` |
| `sandbox` (67 783) | two calls in flight, two server processes | `SandboxIsBacked`: a container behind what the code believes, a fresh workspace. `CleanStopLeavesNothing`, `TimedOutCommandsAreGone`. With fairness `ToolCallsReturn` |
| `storage` (370 998) | two calls (read, write, move), three connections, two drops of the network | `ConnectionIsShared`: one connection, a request never repeated on the one that failed. `RepliesCanBeTrusted`: what a reply says happened to the file; one drop spares a call. With fairness `CallsReturn` |
| `web` (127 444) | two approvals, three tasks, four sockets, two failed handshakes, three frames each way | `OneDecisionOneAnswer`: at most one decision per request, nothing pending on a dead socket, an answer shown for its own task unless a run timed out. `NeverStuck`. With fairness `PromptsSettle` |
| `server` (483 545) | six modules, two MCP servers of which one may be misnamed, three uploads under caps of two files and three units, two processes | `ModulesRestOnTheirDependencies`: start and stop order, offers that can be used. `StoreIsSound`: disk and records agree over crashes, caps hold. `ShutdownClosesServers`. With fairness `ProcessSettles` |
| `documents` (377 524) | every text of up to four characters of four kinds and four longer ones, 14 sets of arguments, answers of 1, 3, 5 characters or a failure | `SplittingIsSound`: coverage and progress of the windows. `ReducingIsSound`: prompts fit, nothing is lost. `EveryPassShrinks`. With fairness `SummaryEnds` |
| `algorithms` (401 796) | every input of a bounded set for each function; every run of `web_answer` over two hosts and two addresses; every run of a subprocess with up to five writes | `EveryToolIsGated` (gate, tiers of tools in all 4 096 builds, module sets, names), `EverySetupIsSound` (settings, start order, availability), `EveryModelCallIsFaithful` (streams with and without identifiers, clamp), `EveryDocumentIsAccountedFor` (paths, gathering, choice, parsers), `EveryRequestIsAdmittedAlike` (credentials and transports; routes that answer as discovery offers), `WebAnswersAreSound`, `OutputIsAccountedFor` |

Every property has a mutant, and the conjunctions have one for several of their parts: a plausible
slip in one definition (a boundary, a dropped clean-up, a missing guard, a swapped order) under which
the run fails. They are listed in `PROJECT.json`.

### Bounds, and why they are enough

- *Ids, sessions, calls.* Interference needs two parties: two approvals show what one call does to
  another's record, two sessions what one does to the other's prompt, two sandbox or storage calls
  what a timeout or a lost connection of one does to the other. The engine has three calls because the
  lock's order matters only with one holder and two waiters. A slot of `Calls` is used again in the
  engine and the sandbox, so sequences are unbounded there; in `storage` a slot is one call.
- *Time.* A timeout of 1 or 2 gives the instants before, at and after the deadline. In
  `session_loop` the decision timeout is longer than the registry's, in `session_pair` shorter, so
  each runs out first.
- *Batches and budgets.* Two turns of up to two calls against a budget of two reach a budget that is
  hit inside a batch, between two batches, and not at all.
- *Polls, files, processes.* Two polls give a first, a later and no further probe; two files tell a
  stale report from a true one; two process identities tell an old process from a new one.
- *Connections and losses.* Two drops take both the first connection and its replacement; three
  connections are what two callers with one retry each can open one after the other.
- *Sockets, tasks, frames.* The second socket shows what is left of the first, and the fourth follows a
  refused token and a sign-out; a third task follows a timed-out one and the one whose answer it
  mixes up. Three frames hold a prompt, its timeout and an answer at once.
- *Lives, boots, uploads.* Two server processes give the one crash and restart every cleanup is for.
  What a third would find is what the second found. The third upload is the one a cap refuses;
  identifiers are only compared, so an upload takes any one that is unused.
- *Texts.* Four characters hold every pair of boundary kinds with a character before and after; the
  longer ones hold several chunks with each kind of boundary. A budget of one to five characters
  is below, at and above the lengths of joined summaries.
- *Functions.* Each rule's inputs are all combinations of what the rule looks at (which flags are
  set, which credential is present, which pattern matches); numbers are on both sides of each limit.
- The ids of an instance limit the approvals it can enrol; a session starts a run only while enough
  are left (`IdsSuffice`), so no run is cut short by the bound, and a purged id is not used again.

Symmetry (permutations of the ids) is used in `session_pair` only, which checks no liveness; the ids
are interchangeable there because no operator orders them. Deadlock is checked in `dispatcher`,
`session_pair`, `session_loop`, `engine` and `late_approve`. The other systems may stop: after their
last process, call, socket or chunk, or with the one input a behaviour of `algorithms` picks.

### Fairness, and why the code justifies it

- `AgentSession`: weak fairness of the clock and of each session's next step. The code bounds the
  wait for a person (`wait_for` with the decision timeout) but not a model turn, a tool or a send;
  that those awaits end is an assumption.
  Nothing is assumed of the client: it may never answer, decide late, or leave.
- `EngineController`: weak fairness of each call's next step: a spawn, a probe (which has a timeout),
  a sleep and the terminate of a process return. The process itself may hang; the readiness bound is
  what ends the loop, and the lock's order is what makes per-call weak fairness enough.
- `ExecSandbox`: weak fairness of each call's next step, because every Docker client the code awaits
  runs under a timeout, the kill included.
- `RemoteStorage`: weak fairness of each call's next step. A dial, a subsystem start and a request
  end, with an answer or an error; the code sets no timeout on them, so this is an assumption. What is
  shown is that the lock and the retry add no wait of their own.
- `WebClient`: weak fairness of the client hearing what is queued for it, of the server reading, and
  of both timeouts. Nothing is assumed of the operator or of the network.
- `ServerProcess`: weak fairness of the startup and of the shutdown. Every `start` and `stop` returns
  or raises: an MCP server that hangs is given up after `connect_timeout`.
- `DocumentWork`: weak fairness of its next step: a model call returns or fails.

## 5. Where the code and its documentation disagree

Two are runs that TLC ends with a counterexample.

| Run | Says | Does |
|---|---|---|
| `late_approve` | a timeout denies, and "a late approve can't run it" (`session.py:17-18`, `112-114`) | the timeout is put on record and its notice sent before the deny; an approve handled during that send is granted and the tool runs |
| `wrong_answer` | the run controller "tracks the single in-flight run, and resolves it on the terminal `task_result`" (`src/web/src/state/run.ts:1-3`) | after a run timeout the server still runs the old task; the next `run_task` is read by the old session as an unknown decision, and the old task's result is shown as the answer to the new one |

The rest are notes. Where a property has an exception, the exception is one of these.

Sessions and approvals:

- The send of the prompt is outside the `try` (`session.py:100`): a disconnect during it leaves the
  approval pending, and nothing in the program calls `sweep` (`LeftoversComeFromCancellation`).
- The future is created after the prompt's send has returned (`session.py:102`): a decision handled
  earlier sets nothing, and the orchestrator waits out the timeout.
- A disconnect during a tool's execution ends the run without a dispatch record, although every
  outcome "is recorded here" (`safety/audit.py:3`). `AuditExplainsRuns` claims the record only of
  runs that were not cut off.
- `agent_deadline_seconds` has no validator: a deadline of zero or less passes the startup, and every
  task then fails with the orchestrator's `ValueError`. `jwt_expiry_minutes` and
  `chat_max_tokens_ceiling` have none either.
- In `main.py:274` the arguments `history_char_cap` and `ingest_store` follow a `#` on the line of
  another argument, so they are comments: the runtime is built without them, and a task with
  attachments is always answered "attachments unavailable" (`session.py:183-186`).

Engine and sandbox:

- A switch requested while another switch is stopping the old engine, or waits for the lock, is
  accepted, although `ModelBusy` is for "a load/switch [...] requested while one is already in
  progress" (`model_manager/module.py:26-27`, `111`). `ServingIsNotDisturbed` says what this may do.
- After a command timeout the container is dead and `_created` stays true: later calls report the
  status of a `docker exec` that ran nothing as the command's (`sandbox.py:261`).
- Two first calls both `docker run` one name, and the second fails although Docker works
  (`sandbox.py:225`). A `docker run` left on its way by a timeout or a cancellation may make the
  container after `close`; `CleanStopLeavesNothing` names this exception (`overtaken`).
- Commands are "cancellable (container kill)" (`exec/module.py:17`), but only a timeout kills: a
  command whose call is cancelled runs on (`sandbox.py:105`).
- A command that writes past twice the cap and the pipe's capacity, or fills stderr while stdout is
  open, is not `truncated` as `ProcResult` says (`sandbox.py:48-49`): it ends as a timeout with empty
  output and a killed container, and `read_file` as `ExecTimeout`, not `ExecTooLarge`
  (`OnlyFloodsBlock` says exactly when).
- `contain_workspace_path` says that a `..` above the root is blocked; its lexical join accepts
  `../workspace/x`. With the root `/` it refuses every path. An `exec_user` of root passes the
  settings, and every call is then blocked.

Storage, MCP and modules:

- Two calls that lose one connection reset one after the other: the second closes the connection the
  first has just opened (`ssh.py:137`, `159`). A connection whose `start_sftp_client` fails or is
  cancelled is left open (`stranded`).
- "One server's failure is isolated" (`mcp/module.py:91`) fails for a name that the configuration
  accepts and the policy's pattern refuses: `start` raises, the servers connected before stay up, and
  the module is never stopped (`ShutdownClosesServers` names this exception).
- A timed-out MCP call is reported as `McpUnavailable`, never `McpTimeout`; health counts the servers
  that connected at the start, also after they died.
- The rebuild of the ingest store checks no cap (`ingest.py:274`): after a failed write, files that no
  record counted can take it over its caps (`OnlyFailedWritesOverrun`).
- A key that is not ASCII, in `X-API-Key` or in the configuration, makes `compare_digest` raise
  `TypeError` (`auth.py:76`): `authenticate` is to give a principal "or raise 401" (`auth.py:81`), but a
  REST route answers 500, even beside a valid token; `authenticate_ws` is to return `None` "rather than
  raising" (`auth.py:137-138`), but catches only `HTTPException`, so that the handshake fails.
  `CredentialsAgree` names this exception and no other.
- `/capabilities` lists a capability when any provider is available, and `invoke` asks only the first.
  On the WebSocket a bad token in the query hides a good `Authorization` header.

Documents, model and web:

- `chat_max_tokens_ceiling` is a "hard clamp on per-request max_tokens" (`config.py:116`), but only for
  `POST /chat` and stored defaults: answers, summaries and image questions on documents ask for their
  own configured numbers (`qa.py:178`, `summarizer.py:94`, `multimodal.py:97`), which need only be
  positive. `TokensAreClamped` says which of the two holds for whom.
- A redirect whose `Location` is malformed makes `urljoin` raise outside `_guarded` (`fetcher.py:288`):
  a raw `ValueError` ends the whole `web_answer`, pages already fetched included, although the loop is
  to "skip a page that is blocked/unreachable/too-large; keep the rest" (`browser/tools.py:165`).
- `_StreamAccum` promises the first non-empty name and keeps the last (`llm_serving.py:55`, `90-91`).
- An argument whose expansion raises turns the block rules after it into a confirmation (`gate.py`).
- The terminal combine of the summarizer sends a prompt over the budget (`PromptsFit` excepts it), and
  chunk ends go backwards when the overlap is more than half a chunk (`EveryChunkReachesFurther`).
- `list_documents` returns resolved targets, so that a link can bring in an unsupported or hidden file
  or the same file twice; one unreadable document fails the query of a whole directory; a cap that
  is reached exactly still opens the next document.
- `web_answer` keeps error pages (`BrowserNotFound` is never raised by the fetcher in use), and the
  total timeout, "wall-clock" in `config.py:117` and `tools.py:113`, is looked at between pages only.
- A model refresh that returns after the view was disposed of starts the poll timer again
  (`src/web/src/state/model.ts:137`).

## 6. What is proved

Every invariant, action property and refinement of every passing run is a theorem, for all values of
the constants; in the `algorithms` run that means inputs of any size. Liveness is model-checked only.
The theorems assume what the modules that declare the constants assume, by name; TLC evaluates each
in the runs:

- a constant has its type, a number is not negative, a "nothing" is not a value, or there is
  something to choose from: `ApproversAreKnown`, `TimeoutPositive`, `NoRecordIsNoRecord` (registry),
  `ToolOfIsTotal`, `VerdictIsTotal` (dispatcher), `PrincipalOfIsTotal`, `BudgetsNonNegative`,
  `DeadlineIsPositive`, `DecisionTimeoutPositive`, `NoIdIsNoId` (sessions), `PollsPositive`,
  `NothingIsNothing` (engine), `LivesPositive` (sandbox), `RunnerNumbers` (subprocess),
  `TextsAreText`, `ParametersAreArguments`, `SizesAreSizes` (documents), `AddressesAreAddresses`,
  `ThereIsAHost`, `BoundsAreNumbers` (web answers), `ConnectionsBound`, `LossesBound`,
  `ThereAreCalls`, `KindsAreTools` (storage), `BoundsAreNat` (web client), `BootsBound`,
  `RegistrationIsAList`, `McpIsNotMoody`, `ServersAreNamed`, `CapsArePositive`, `SizesAreNat` (server),
  `OddIsOdd` (model calls: what is of the wrong shape is neither a call nor a response),
  `CeilingIsNumber`, `ScopesAreNamed` (algorithms);
- `SamplesAreInputs`: the inputs a behaviour of `Algorithms` picks from are inputs (`IsInput`);
- `DependenciesEnd`: the registered modules do not depend on each other in a circle. The code would
  accept a circle, and `main.py` builds none: `ModulesAlwaysFitTogether` proves that of every combination of flags.
  Only the order in which modules start and stop rests on it; the theorems about the start order and
  about availability by themselves hold for any registration, circles included.

The theorems about functions state what they ask of the input, the same as `IsInput`: a credential is
one of those a client can hold (`Credentials`), "no token" is not a token (`NoToken`), a module is
registered once, a tree of documents is a tree of names with links (`IsTree`), a stream is the
chunks of a response cut anywhere (`IsStream`), a limit is positive. `EveryToolIsAlwaysGated` and its
four companions conclude from them, by the kind of the input, about every state of `AlgorithmsSpec`.

| Theorem | Module | Says |
|---|---|---|
| `RegistryIsSound` (from `ApprovalsTypeCorrect`, `GrantsStayAuthorised`) | `AgentSessionProofs` | records are well formed, and what is approved or consumed was decided by an approver in time |
| `RegistryOnlyAdvances` (from `LifecycleIsOneWay`, `StaleStaysUngranted`) | | no sequence of calls moves an approval backwards or grants a stale one |
| `DispatcherIsGated` (with `OneRunPerApproval`, `RunsHaveGrants`) | | an approval starts a tool at most once, and only what was approved |
| `DispatcherImplementsGated` | | the dispatcher implements `GatedExecution` |
| `SessionsImplementDispatcher`, and from it `SessionsAreGated` | | any number of sessions take only steps of the dispatcher on what they share, so that its theorems hold of them |
| `SessionsStaySound` (with `SessionsStayTyped`), `BudgetsAlwaysBind`, `AuditStaysTrue` | | all safety properties of sessions and loop |
| `EngineStaysAccountedFor` (from `EngineTypeCorrect`, `NoEngineStrays`), `ReportIsTrue`, `ServingStaysUndisturbed`, `ShutdownStaysClean` | `EngineControllerProofs` | all safety properties of the engine |
| `SandboxStaysBacked` (from `SandboxTypeCorrect`, `CreatedStaysBacked`, `WorkspaceIsFresh`), `CleanStopIsClean`, `TimeoutsAreFinal` | `ExecSandboxProofs` | all safety properties of the sandbox |
| `OutputStaysAccountedFor` (from `RunnerInvariance`) | | an answer that does not say it was cut is all the child wrote, and only a flood past the cap blocks, for any caps, pipes and output |
| `TheConnectionIsShared`, `TheRepliesCanBeTrusted` (from `StorageInvariance`) | `RemoteStorageProofs` | all safety properties of remote storage, for any number of calls, connections and losses |
| `OneDecisionGetsOneAnswer`, `TheClientIsNeverStuck` (from `WebInvariance`) | `WebClientProofs` | all safety properties of the web client, for any number of tasks, prompts, sockets and frames |
| `ModulesAlwaysRest`, `StoreIsAlwaysSound`, `ShutdownAlwaysClosesServers` (from `ServerInvariance`) | `ServerProcessProofs` | all safety properties of the server process, for any modules, servers, uploads and caps |
| `SplitterIsSound` (from `SummaryTypes`, `SplitterCovers`, `SplitterMovesForward`), `ReductionIsSound` (from `PromptsStayInBudget`, `SummaryIsWhole`), `PassesShrink` | `AlgorithmsProofs` | all safety properties of the splitter and the summarizer |
| `WebAnswersStaySound` (from `WebTypes`, `FetchesAreContained`, `PagesAreReal`) | | fetches are contained, answers rest on pages that were fetched |
| `EveryToolIsAlwaysGated` | | calls, builds and tool names, from the four theorems on them below |
| `EverySetupIsAlwaysSound` | | settings and registrations |
| `EveryModelCallIsAlwaysFaithful` | | streams and the parameters of a chat |
| `EveryDocumentIsAlwaysAccountedFor` | | paths, trees, choices of chunks, parsers |
| `EveryRequestIsAlwaysAdmittedAlike` | | credentials, and offers against routes |
| `TheGateIsStrict` | `FunctionProofs` | any allowlist and call: catastrophes are blocked, only the allowlist makes a call safe, finding more never lowers a verdict |
| `ModulesAlwaysFitTogether`, `ToolsAlwaysMatchTheirTier` | | any combination of flags that builds: modules have different names and start after what they depend on; a tool runs without approval exactly when it only reads |
| `NamesAreAlwaysKept` | | names of any length over any alphabet: a registered name has one reading, the server and tool it was made of |
| `AcceptedSettingsSuit` | | any numbers: what the validators accept, the components can compute with |
| `StartOrderIsAlwaysSound` (from `StartOrderPlaces`) | | any registration: each module starts once, after each registered one it depends on that does not lead back to it |
| `AvailabilityIsAlwaysTransitive` (from `AvailabilityLooksAllTheWay`) | | any registration: a module is available exactly when all it needs, at any distance, is registered and healthy |
| `TurnsAreAlwaysUntangled` | | streams of any length, interleaved and cut anywhere: each call under its own identifier, sent or made up, with the arguments sent for it or none |
| `TokensAreAlwaysClamped` | | any defaults in any order: a chat of a request or of the agent asks for no more than the ceiling, a tool on documents for its own number |
| `ContainmentIsAlwaysReal` | | paths of any length, links of any shape: what is accepted ends within the root |
| `GatheringIsAlwaysHonest` | | any tree and caps: the first chunks of the first documents, and what is left out is told |
| `ChunksAreAlwaysBest` | | any index and limits: the best chunks, in the order of their rank, that fit |
| `ParsersAlwaysStayBounded` | | archives and PDFs of any length: read one byte or page past the bounds at most |
| `CredentialsAlwaysAgree` | | any keys, tokens and scopes: a key or a token decides beside the other as it does alone, on HTTP and on the WebSocket, a key that cannot be compared failing both |
| `OffersAreAlwaysServed` | | any registration, health and state of the engine: the routes answer as discovery offers, nothing that rests on the serving module is offered without it |

**Registry.** `ApprovalsTypeOK` is inductive. `StepCases` says what a step may do to one record: the
lazy expiry, or one of the four moves. The action properties and `GrantsAreAuthorised` follow from
it by cases on the status; the last is inductive once typed.

**Dispatcher.** `AtMostOneRunPerApproval` alone is not inductive: nothing in it stops a second
`consume`. `DispatchInv` adds `RunsOnlyWhenSpent` (a tool that ran under an id left its record
consumed or forgotten, from where `LifecycleOnlyAdvances` lets nothing return) and
`ApprovedHasGrant` (an approved record has a grant with its fingerprint in the history).
`RegistryInside` shows that the dispatcher only takes steps of the registry, so that all of the
registry's theorems hold of it.

**Refinement.** The mapping sends an id to a slot whose phase is read from its record and its runs
(`SlotPhase`). Lazy expiry makes a stale pending record stay *proposed* until somebody looks; that is
sound because it can then only be closed. Each step is shown to be a step of the abstract system or
a stutter: enrolment proposes, an approve grants, an execution performs, every other change closes.

**Sessions.** `SessionInv` says what each await of a session may rely on; with it every session step is
a dispatcher step or a stutter (`SessionStepIsDispatcherStep`), and `DispatchInv` comes for free. The
rest builds on it, each conjunct kept given the ones before. `BudgetInv` ties the counters of a run to
its await point. `DictionariesInv` says which entries of `_actions` and `_pending` an await leaves;
`RequestsInv` that the approval a session is obtaining is its own, enrolled for its principal and for
the call it is handling; `DecisionsInv` that whoever decides is the one who asked. Given these
`LeftoversComeFromCancellation` is inductive; together they are `SoundnessInv`. The audit needs three
facts of its own (`GrantsAreTold`, `DeniedNeverRan`, `ExecutionsAreLogged`). That a step of one session
leaves the others alone is `SessionsStepAlone`.

**Engine.** The lock alone says little; what is needed is that each transient state belongs to one
call at one await. `EngineInv` adds `LockIsHeld` (whoever works on the engine holds the lock),
`TransientHasWorker` (a `loading` or `stopping` engine has the holder at the matching await) and
`WorkersFindTheirState` (what is behind the handle while that call waits). The steps fall into those
outside the lock (`OutsideKeepsInv`), those after which the worker waits again (`WorkerSuspends`) and
those with which it ends (`WorkerReturns`), and a crash. The shutdown rests on the order of the lock's
queue: `QueueInv` says that a call queues in one place (`EachQueuesOnce`) and that nobody queues behind
the shutdown (`ShutdownIsLast`), so that when it returns nobody is in flight.

**Sandbox.** `SandboxInv` adds to the properties what an await may rely on when it resumes
(`AnswersHold`, `KillsHold`), that a process begins with nothing (`StartsBlank`), and how a fresh
workspace comes about: containers are collected before the volume is removed
(`CollectedBeforeWipe`), from then on only this process writes (`OwnWorkspace`), and `close` knows
of every volume (`StopsFindAll`).

**Documents.** Three invariants, each kept by every step given the ones before. `Shape` is the types
with what is empty in which phase (`PhaseShape`). `Splitting` adds where the splitter stands
(`CutPosition`): the next chunk starts inside the last one or at its end, at most an overlap back; and
`CutInWindow` shows that a cut is more than half a window away, so that with an overlap of at most a
half every chunk reaches further. `Reducing` adds that summaries, prompts and answers tile the chunks
in order, which each of ask, pack and combine keeps.

**Web answers.** `WebInv` adds `HopIsChecked` (what is pinned was checked for the present URL, so the
request built from it is contained, and the requests of a hit are as many as its hops) and
`PagesFollowHits` (pages come from hits already started, the present one excepted while its fetch
goes on).

**Storage.** The two properties are about a call that is made again and about what a whole script did,
so `StorageInv` says where each call is. `LockIsFair`: the calls in line are those in the lock's queue,
each once, and only the holder connects, while no connection is shared; `OneConnection` follows the
same cases. `DeadStayDead`: connections are numbered as they are opened, and the one that failed under
a call is neither open nor, once the call is in line again, the shared one; without it a retry could
meet its own dead connection. `CallsFollowTheirScripts`: what a call in flight has changed is counted
by its place in the script and its attempt (`ChangesCounted`), and what it may say at its end follows
from that (`Accounted`). `TornByAWriter` names a writer for a half-written file, and
`OneDropIsSurvived` a call that a first loss leaves with a connection nobody will take away.

**Web client.** `AnswersMatchUnlessTimedOut` looks at what is shown; to keep it, the task that the
client runs must be in one place: on its way, at the session, or in the one frame that ends it
(`OneTaskUnderWay`). A run timeout breaks exactly that, and the invariant gives it up for good then:
the disagreement of section 5. `WireIsOfTheSocket` ties frames and session to an open socket,
`SentIsDecided` an undecided prompt to no decision sent, `RetriesCounted` the timer to the count of
failed handshakes.

**Server process.** The start order and availability are those of `FunctionProofs`. `RegistryInv` says that what is started, what is to start and
what failed are apart (`EachOnce`) and that each module's dependencies are before it or failed
(`InPlace`, with `RestsOn`), which starting the next, failing it and stopping the last keep. `McpInv`
says at which await of `McpModule.start` the registry can be (`McpIsWhereTheRegistryIs`) and who holds
each subprocess (`ServersAreHeld`). `StoreInv` divides the files into those a client has an id of and
those failed writes left (`FilesAreAccountedFor`), keeps the records a part of the disk
(`RecordsAreRead`) and the caps for the files of clients alone (`AckedAreWithinCaps`): with all files
it would not be inductive, for the rebuild checks no cap.

**Subprocess.** `PiecesAreKept` counts: what was written to a stream is read, in the pipe or still to
come. `DrainedInOrder` says what having left a stream means, at its end or past the cap; truncation
and blocking are read off from the two.

**Functions.** What the recursive functions compute is not taken from TLC. `RecursionDefines` shows
that a definition whose calls descend in a well-founded order has a solution, and `ListRecursion` is
its case for a loop over a list. No induction rule is used: a claim about every call follows from
the least call, or the least number, at which it would fail (`Stepwise` states that once for the
numbers up to a length). The arguments, in the order of the module:

- *Gate.* By cases over its rules (`SafeIsEarned`).
- *Names.* A separator elsewhere would begin a tool with an underscore, end in the middle of a server,
  or stand inside one of them, all of which the pattern refuses (`OneReading`).
- *Settings.* An overlap is a percentage below a hundred of the chunk, so shorter (`OverlapIsShorter`).
- *Credentials.* What each way in computes is an open door or a token that decodes
  (`AuthenticatedIs`), unless the key cannot be compared; what a route then needs is a case of
  `NeedIs`.
- *Offers.* The registry's answer for `chat` comes down to the health of the serving module and of the
  manager under it, hence to the engine (`ServingIsOffered`), and the answer of each route is computed
  from the same engine (`ChatAnswers`, `ParamsAnswer`, `InvokeAnswers`, `HealthAnswers`).
- *Start order, availability.* `VisitCalls` descend by the names not yet visited and the length of the
  list, the calls of `Available` by the names not above them (`VisitIsSound`, `AvailableIsHeld`).
  `Needs`, the reference, is shown to be the least set closed under dependencies.
- *Builds.* The modules and the tools are rows of two tables from which the flags take some; their
  names differ (`NamesDiffer`), so a tool or module found by name is the row it was made from, and a
  claim about a build is one about each row.
- *Sorting.* `InOrderSorts`: a finite set has exactly one list of its members in a strict order.
- *Chunks.* `ChosenWell`: after any number of ranked chunks, what is chosen is within the budget, and
  every chunk passed over came when the next would have broken it.
- *Paths.* A path is followed one segment at a time (`WalkIsEntered`): the place it comes to has at each
  depth the segment that was last entered there, and it is within the root when those agree with the
  root's (`AgreesWith`). Where links are
  followed, the check is made on the place after the last of them.
- *Documents.* `GatheredWell`: with each document taken, the chunks so far are the prefix of all chunks
  up to the caps; sums over prefixes are those of `Sums`.
- *Streams.* `Tracks`: the slot of an index holds the identifier, the name and the text received for that
  index (`Held`), and nothing else. Each fragment keeps it, so each chunk and the stream do (`FragmentTracks`,
  `ChunkTracks`, `StreamTracks`), and the turn is read off the slots (`ResponseIs`, `TurnIs`).
- *Parameters.* The last setting of each key wins; the clamp is applied after all of them.

**Only model-checked.** Liveness, with the fairness of section 4: `RunsEnd`, `RegistryDrains`,
`PromptsSettle`, `ProcessSettles`, `SummaryEnds`, `ToolCallsReturn` and the two `CallsReturn`. The prover
has no support for fairness and ENABLED. What is checked there on one instance rests on bounds that
are proved for all (`BudgetsBind`, `PassesShrink`, the readiness loop's polls).

## 7. Plan

Done: every component with state or with a decision to take has a module and a run, and every safety
property a run checks is proved. What would come next is a session whose client is `WebClient`: the two
ends are now checked each against a small model of the other.

## 8. What is not modelled, and why

- Text: patterns of the gate, commands, markup, prompts, transcripts. The models take which pattern
  matches, which argument is malformed, where a boundary lies; what a regular expression accepts is
  not checked, except for the names of MCP tools.
- Ranking scores, rendering of pages and of PDF, extraction of text: pure functions of their input.
- The engine behind a model turn: a turn is a choice of outcomes. That an engine may be switched under
  a request (`llm_serving.py:230`) changes which model answers; the code could not notice, because
  every engine answers under the same name.
- Late callbacks of an old socket (`src/web/src/api/client.ts:149`, `161`): the handlers do not compare
  the socket, but the client never opens one while another is alive, and a browser delivers no event
  after `close` of a socket whose handlers were dropped; so the case does not occur in the model.
- A second `start` of the MCP module after its `stop` (`mcp/module.py:119`) would count every server
  twice; the program starts a module once per process.
- The history of a session, attachments and usage figures: output only, or never wired in (section 5).
- The audit sink's files, presentation, demo, views and layout: output only. How `argv` and the
  environment of child processes are put together.
- Requests whose body the web framework refuses (422): one that is not JSON before the credentials are
  read, one that does not fit the route's schema after them.
- Which exception a refused call raises, where nothing depends on it; wording and logging.
- Scripts and tests.

## 9. Running the checks

    tlc -config MCDispatcher.cfg MCDispatcher.tla        # any MC configuration with its module
    tlc -config MCSessionPair.cfg MCAgentSession.tla     # MCSessionLoop, MCLateApprove likewise
    tlc -config MCWrongAnswer.cfg MCWebClient.tla
    tlapm AgentSessionProofs.tla                         # any module with theorems

The longest passing run takes about two minutes on two cores, the proofs of `FunctionProofs`
ten minutes or more, and those of the other modules a few minutes each.
`PROJECT.json` lists the components, runs, mutants, the source lines behind each definition, the
findings, the hazards and the theorems.
