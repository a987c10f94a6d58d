# TLA+ verification of steuer-spar-erklaerung-mcp

This directory models the program in `src/` as far as it decides *who may act on
the tax application, when, and what a caller is told about it*: the processes and
their queues, the operations from call to answer, and the files they write. TLC
checks the models on small instances, TLAPS proves the most important properties
of the core for every instance.

## 1. The system

The program drives a closed desktop application (SSE) on behalf of an MCP client.

```
MCP client --stdio--> MCP process (mcp-main, tools, ApiSupervisor)
                         | loopback HTTP, one pinned instance
                         v
                      API process (api-server, api-runtime)
                         | execute(operation)
        +----------------+------------------+----------------------+
        v                v                  v                      v
  worker bridge     Qt native runtime   local file executors   composite executors
  worker.ts         qt-native-runtime   archive, backup, ...   scenario, launch, ...
  + warm pool       + brokers                                  (worker calls again)
        v                v
  PowerShell worker   broker process --> C++ bridge in SSE's GUI thread
        +-------> SSE <--+
```

| Component | State it keeps | Operations | Talks to |
|---|---|---|---|
| Worker bridge (`worker.ts`) | queue, running flag, latched failure, per call: timers, abort, process, argument file | `callWorker`, events of the worker process | warm pool (same turn), executors (promise) |
| Warm pool (`worker-prewarm.ts`) | spares, their stages, counters, shutdown and retry flags | enable, ensure, take, shutdown, handshake, timers | worker bridge, worker processes |
| API server (`api-server.ts`, `api-runtime.ts`) | `inFlight`, `stopping`, `closing`, per request: body, abort, answer | POST operation, POST shutdown, signals, forced end | HTTP clients, executor, log |
| API supervisor (`mcp-api-supervisor.ts`) | control state, bound process, instance and child, pending restart | operation, status, stop, start | API over HTTP, child process, other MCP processes through the endpoint |
| Archive (`archive-executor.ts` and the file helpers) | open handles, copies, manifest, journal of the run | `archive_cases` and its rollback | file system shared with SSE, cloud clients, users |
| Qt sessions (`qt-native-runtime.ts`, `qt-native-broker.ts`) | sessions per window, retirements, one startup, selected window | client, beforeWorker/afterWorker, desktopStart/Stop, close | broker processes, SSE |
| Backup, working copy (`backup-executor.ts`, `working-copy-executor.ts`) | local to one call: copies, folder, manifest, a late open | copy with manifest, exclusive copy, rollback | file system |
| Launch, case creation (`launch-executor.ts`, `case-create-*.ts`, `case-file.ts`) | local to one call: the started process, what is on the screen | start and probe, walk through the assistant, save, end or keep | worker bridge, SSE |
| Desktop helpers (`native-desktop-*.ts`) | the marker file | start, status, stop of the hidden desktop | helper process |
| Table cursor and mutation (`table-*.ts`) | cursor lease, model fingerprint, local to one call | seek, prove, write, read back | worker and Qt client |
| Qt client (`qt-native-client.ts`) | pending requests, acknowledgment flag, latched failure | request, requestAcknowledged | broker stream |
| Qt operations (`qt-native-receipt-*.ts`, `-goto`, `-classify`) | local to one call: what was edited, saved, opened | edit, link, press, go to, classify, with rollback | Qt client |
| Executor (`api-executor.ts`, `profile-operation-policy.ts`) | none beyond the call | gates, parsing, routing, export directories | every executor below it |
| Composites (`scenario.ts`, `workspace*.ts`, `verify-executor.ts`, `*-plan*`, `ustva*.ts`) | local to one call: results so far, deadlines | several worker calls and files in order | executor, worker bridge |
| API client, CLI, MCP call (`api-client.ts`, `api-busy-retry.ts`, `api-cli*.ts`, `mcp-registry.ts`) | per call: deadline, attempt, budget; journal file | call, busy retry, journal, judgement of the outcome | API |
| Own files (`api-first-run.ts`, `atomic-files.ts`, `jsonl-logger.ts`) | configuration, staged files, log | create once, replace together, rotate | file system |
| Schemas, catalogs, telemetry, rendering | none that interleaves | registration, validation, wording | supervisor |
| PowerShell worker, C++ bridge, plugin bundle | external to `src/src`, or generated | one operation per process; GUI-thread requests | SSE |

What is hard about it: Node runs one turn at a time, but every `await`, timer,
abort and child-process event is a point where others run, and what was read
before may be stale after it; processes outlive their callers, survive kills and
die between two steps; HTTP answers get lost after the work was done; file
operations race with other programs and crashes. A tax case is changed at the
other end, so an operation that is repeated, overlapped, forgotten or misreported
is damage that nobody sees at once. `PROJECT.json` lists the hazards at their
lines, and which property covers each.

What makes each component correct, in short: calls take turns and everyone is
answered (bridge); no process is lost, used twice or started after the end
(pool); one operation, a quiet stop, truthful refusals, a shutdown that completes
(server); one bound instance, no takeover, no work after a stop, no start beside
a living API (supervisor); no case lost, truthful answers, nothing foreign
touched (archive, copies, backup); no broker forgotten or doubled, no action
before exits are seen, no silent reconnect (Qt sessions); an action at most once
after its fate is unknown, a rollback that spares what the user wrote, a lease
given back, a process ended only if nothing is lost, and above all an answer that
never says "nothing happened" of something that happened or still may (operations,
composites, clients).

## 2. The modules

One action is one turn of the event loop, that is one handler with all the
synchronous calls it makes; a handler with `await` is one action per stretch
between two awaits. Names follow the source. Operators named `Buggy...` are the
code with one plausible mistake; no specification uses them. They show that a
property can fail: each property is tried on one of them in place of the true
operator. `MC...` modules hold only model values and bounds.

**WorkerQueue** (`worker.ts`). `queue`, `running`, `failure` are the module's
variables; a call goes through new, queued, active, settled, done. `settled` is
the moment between the settlement of the inner promise and the microtask in
which the queue moves on (`Finish`). `CallWorker` is a call with its admission,
`Abort`, `CallTimer`, `GraceTimer`, `HardTimer`, `TooMuchOutput`, `ChildError`,
`ChildClose` are the handlers, `ChildExit` the process. `orphaned` is a worker
whose direct process has exited while a descendant holds its pipes.
`KillMayFail` says whether `child.kill()` can fail on a process that lives.

**ExclusiveWorker** is what the bridge promises, without queue, timers, signals
or files: callers take turns; whoever is answered has no turn left; the one
exception closes the bridge for good. `WorkerQueue` implements it with
`holder` = calls with a living process tree, `status` from the promises,
`broken` = the latch.

**WarmPool** (`worker-prewarm.ts`). The state is one record, the functions are
operators from records to records, so that they can be used within turns of the
bridge. The list of spares is a set: spares are numbered in the order of their
birth, which is the order of the list, and "the first that is ready" is the least
of them. **WorkerRuntime** composes both: a call that starts may take a spare in
the same turn, the pool is refilled a turn later (`RefillLater`) and when the
queue moves on; a spare that was given to a call is the call's process.

**ApiServer** (`api-server.ts`, `installApiShutdown`). Requests are split into
head and body, so any number can be past the head when one is admitted.
`inFlight`, `stopping`, `closing` as in the code; `stopDue` is the pending
`setImmediate`; `ForceTimer` is the forced end of the connections.

**ApiSupervisor** (`mcp-api-supervisor.ts`, `api-owned-readiness.ts`). Each task
of the MCP process (operations, status calls, stop order, start order with
`ensureApiSingleton`) has a `step`; `Answered` is the arrival of a probe's
answer, and the task goes on in a later step with what it then `seen`. API
processes, also those of other MCP processes, start, listen, close and die by
themselves. A stop order travels separately, can be lost before it arrives, and its
answer can be lost on the way back. `stops` is a history variable.

**ArchiveTransaction** (`archive-executor.ts`, `archive-file-copy.ts`,
`owned-file.ts`, `local-file-transaction.ts`). `pc` and `cur` are the place in
the run; names and handles hold a file that is original, own, partial, foreign,
or a removed name that stays until the handle closes. `Disturb` lets others
touch anything between two steps; every step may fail. Crashes need no action:
an invariant speaks of every state, hence of what a crash at that point leaves.

**QtNativeRuntime** (`qt-native-runtime.ts`, `qt-native-broker.ts`,
`qt-native-worker.ts`). `session`, `retiring`, `selected`, `start` are the maps
and variables of the closure; `settled` marks a retirement whose `close()`
settled without proof of exit. `revision` and the abort of a startup always
change together while a startup runs, so one flag `cut` stands for both. One
operation is under way at a time (proved for the API server), a startup may
outlive it. The content of the desktop marker is left open: each comparison may
come out either way.

**WorkerParts** puts WorkerQueue and WarmPool beside each other, one of them in
a behaviour, so that one run gives both their own fairness and larger bounds
than the composition can have.

**WorkingCopy**, **LocalBackup** and **LocalFiles** (`working-copy-executor.ts`,
`backup-executor.ts`). A content is a version of the case, or a copy made here
that is empty, partial or torn. The open that creates the copy may be answered
after the abort; the late file is closed and removed by a callback nobody waits
for. LocalBackup calls WorkingCopy for every case of a folder; LocalFiles lets
one of the three file operations, with ArchiveTransaction, run from its call to
whatever it leaves behind. A case that changes while it is copied gives a torn
copy: the removal compares with the hash of the source, so the torn copy stays,
and the answer says so (`targetStillOwned: false`).

**Operations** has one behaviour per operation with a state machine of its own,
per client call, and per duty of the program's own files. The API runs one
operation at a time (proved for ApiServer), so they need not be interleaved with
each other; each is interleaved with a person, the product, other programs and
lost replies. Its parts:

| Module | Source | State and actions |
|---|---|---|
| LaunchCase | `launch-executor.ts` | started once, then only looked at; the reply may be lost whether or not the program was started |
| CaseCreate | `case-create-executor.ts`, `case-create-state.ts` | the walk through the assistant and the save dialog; a reply is done, refused, interference or lost; after a failure the program is ended or kept |
| CaseFile | `case-file.ts` | headers of case files read a few at a time, or one file whole, each compared before and after; what is read of a file saved meanwhile may say anything |
| DesktopHelpers | `native-desktop-*.ts`, `desktop-marker.ts` | a helper run between two looks at the marker |
| TablePosition, TableCursor, TableMutation | `table-cursor-*.ts`, `table-add-*.ts` | lease taken, moved under, given back; a walk; one write between two models of the table; a second try of an addition |
| ApiExecutor | `api-executor.ts`, `profile-operation-policy.ts`, `receipt-interaction-policy.ts` | the gates beside what capabilities promises; the directories of `export_csv` |
| Workspace | `workspace.ts`, `workspace-executor.ts` | listing with hashes, reading, writing of text files others write too; bytes read meanwhile may be torn |
| Scenario | `scenario.ts` | steps, cleanup and report, with the division of the time; a unit is 200 ms, the least a step gets |
| CollectVerify | `collect-verification.ts`, `verify-executor.ts` | comparison with expectations, done here only where the worker's comparison can be reproduced and two reads found the same file; names with their folding, amounts with their notation, to at most `Places` decimal places |
| WorkerPlans | `bulk-plan-executor.ts`, `checker-executor.ts`, `page-objects-executor.ts` | one plan for one worker call, trapped, lost or finished |
| Ustva | `ustva.ts`, `ustva-executor.ts` | a reading of the page, then one change or click bound to it; a nested call that fails passes its own kind on |
| QtSession | `qt-native-client.ts` | the channel, and the actions whose fate nobody knows |
| QtUpdate, QtLink, QtPress, QtGoto, QtClassify | `qt-native-receipt-*.ts`, `qt-native-goto.ts`, `qt-native-classify*.ts` | actions and readbacks over one session, rollback and cleanup; polling is nondeterminism, a late effect may show at any time |
| ClientCall | `api-client.ts`, `api-busy-retry.ts`, `api-cli*.ts`, `mcp-registry.ts`, `mcp-operation-budget.ts` | one writing call of a command line, with or without attempts and journal, or of an MCP tool, against an API that stops, is replaced, is busy |
| HostFiles | `api-first-run.ts`, `atomic-files.ts`, `jsonl-logger.ts` | configuration made once, texts replaced together, rotation; the process may end between any two steps |

Only control that some answer depends on is kept: a readback is equal or not, a
proof of identity holds or not, an input did or did not land. What these
modules abstract on purpose:

- ClientCall: the server goes on with a request whose client gave up, which is
  the cautious choice (the code aborts it); a foreign program on the port is a
  failed check; read-only calls and tools composed of several calls are left
  out; `--busy-attempts 1` is the plain call.
- QtClassify has one option per kind; classifying is a matter of which kinds were
  saved, not of the texts.
- TablePosition: a worker whose reply to the acquisition is lost has left no
  lease that anybody was told of; its process is ended by WorkerRuntime.
- ApiExecutor: a disabled profile cannot come out of `loadProductProfile`, its
  gate is modelled all the same. "conditional" in capabilities promises nothing.
- Scenario: the time between two steps is none.
- Workspace, CaseFile, CollectVerify: a write that falls into the time a file is
  read shows in its size, its times or its place, which is what the code compares.
- HostFiles: `replaceTextFilesFromStaging` is called by tests only; it is kept,
  since its promise is the one a crash breaks most easily.

Some behaviours of the code that the answers are true to, but that a reader
should know: `receipt_manager_link` trusts its first look when nothing seems left
to do; `receipt_manager_update` may answer a known outcome after the press that
closes the detail had an unknown fate, since the fields themselves were proven;
`receipt_manager_action` answers `resultingState: "unknown"` for an acknowledged
press whose effect was not seen in time; a bulk plan of the receipt manager whose
worker was trapped does not ask for a cleanup as the other plans do; a positioning
given up with its lease answers an unknown outcome without an attempt. A report
of a scenario that meets a foreign file is built again without its compact form
(`scenario.ts:561-569`) and may then be too long to be kept; `ScenarioAnswerIsTrue`
therefore excepts that case. `workspace_file_read_text` looks at the path again
after the read but not at the file's state (`workspace-executor.ts:104-114`), so a
text that somebody writes to meanwhile may be answered torn; `ListingIsTrue` says
so. A failure that an operation on the VAT return passes on keeps the kind of the
worker call (`executor-errors.ts:13-20`, `ustva-executor.ts:181`): its "timeout"
and "aborted" may come after the change, while those that the executor itself
states come before it.

## 3. The runs

| Run | Question | Bounds |
|---|---|---|
| WorkerParts | turns, no unnoticed survivor, the first reason of a termination wins over whatever the process still delivers, refinement of ExclusiveWorker, every call answered; books of the pool, spares taken for good, starts end | 3 calls, depth 2; 2 places, 3 spares, 2 environments |
| WorkerRuntime | every process accounted for, none after the end, with kills that may fail | 2 calls, 1 place, 2 spares |
| WorkerQueueKillFails | finding: two living jobs if a kill fails | 3 calls, depth 3 |
| ApiServer | one operation, quiet stop, refusals, records, no unattended work, shutdown completes | 2 operations, 2 stops |
| ApiSupervisorSafety | proof of stops, no takeover, no work behind a stop | 3 API processes, 1 operation, 1 status call |
| ApiSupervisorLive | every stop and start order ends | 2 API processes, 1 status call |
| ApiSupervisorTwoStatus | finding: a late status answer reopens an uncertain stop | 2 API processes, 2 status calls |
| ApiSupervisorRestart | finding: a failed restart cannot be repeated | 2 API processes, 1 status call |
| QtNativeRuntime | brokers accounted for, cleanup before work, no silent reconnect | 3 windows, 2 processes, 3 brokers, 2 sessions |
| LocalFiles | archive, working copy and backup: nothing lost, true answers, others' files kept | 2 cases each |
| Operations | every other operation, client call and own file: true answers, see below | see below |
| ScenarioReport | finding: the answer of `scenario_run` names another's file | 1 step |

The properties of Operations are conjunctions of what its modules state; one that
is violated names its module by its first false conjunct.

| Property | Says |
|---|---|
| ProgramAnswersAreTrue, EndedOnlyIfNothingLost | `launch`, `case_create` and the desktop helpers answer what became of the programs; a started program is ended only while nothing of it can be lost |
| TableAnswersAreTrue | at most one write, "ok" only if this row and no other changed, every lease given back or asked to be cleaned up |
| FileAnswersAreTrue | a listing is complete, and each hash, also of a file disturbed meanwhile, is of a text that stood at its name; what is said of a case one header of its file has borne out; a comparison is of the named content, twice found in the same file; an expectation is met by every field it may mean, a difference is the nearest cent |
| CompositeAnswersAreTrue | plans and VAT operations answer what they have changed; a value is changed, a section clicked, only on its page, a manual field of the overview only after this call has read the flag as on; a failure the executor states itself means nothing was done |
| ScenarioIsSound | main steps after a failed one only read, the cleanup only reads and closes, it is not starved, the report where the answer says, but for finding 4 |
| ExecutorIsSound | what capabilities allows is not refused and what it blocks is not done; export directories neither left nor taken from others |
| QtAnswersAreTrue | nothing repeated after an unknown fate, the user's values kept, "restored" only if it is |
| CallAnswerIsTrue, JournalIsTrue | an error that denies the write is only given when it has not run and will not; the journal is never behind |
| HostFilesWhole | a configuration is never replaced, texts are whole, the log is bounded |

Why the bounds are enough for the cases of interest. *Three calls, depth 2*:
the running call counts towards the depth, so one runs, one waits and can be
taken out of the queue by an abort, and a third is refused as busy. With two
waiting calls the queue runs in WorkerQueueKillFails, and the proofs cover every
depth.
*Three spares for two places*: one can be replaced while another waits. *Two operations and two stops*: each
pair of requests of equal and of different kind meets in every order; which
other request it is does not matter, and the proofs cover every number.
*Three API processes*: the bound one, its replacement, and a stranger at the
same endpoint. *Two cases* in the archive and the backup: one is done when the
other fails, in both roles; the loop treats each case alike. *Three windows for
two processes*: two windows of one process conflict while a third window reaches
the session limit (2 here, 4 in the code). *Three brokers*: one held, one
retiring, one starting. In Operations: two rows, fields, receipts and kinds, so
that one is changed when the other fails and a rollback has an order; three form
pages, so that paging passes one that is not wanted; three case files read two
at a time, so that a batch is followed by another; two steps per phase of a
scenario whose time (6 units) is less than they may ask for; amounts of at most six
decimal places, of which four are rounded away; two API instances
and three attempts, so that a repetition can meet a replaced API; two starters
of the first start; a log of four units with records of up to two. Every bound on
a counter stands in a guard or is the finite set of calls, requests or processes.

Deadlock is not checked: in every model the finite set of calls, requests or
processes is used up, or the one operation has answered, and the system then
rests; the liveness properties say that what was begun is finished. Symmetry is
used only in runs whose properties are invariants and action properties.

### Fairness

- WorkerQueue (in WorkerParts): the three timers fire, an event that is due (`error`, `close`) is
  delivered, and a settled promise is continued. Nothing is assumed of a worker
  process: it may run for ever.
- WarmPool (in WorkerParts): startup timer and the events of ended processes. Nothing makes a spare
  announce itself.
- ApiServer: the `setImmediate` of a stop, the force timer and the callback of
  `server.close`. Clients may keep connections and bodies open for ever, an
  executor may never return.
- ApiSupervisor: the stop task and the start task go on when their probe was
  answered, and a probe is answered (it has a timeout). The restart's deadline
  needs strong fairness, `SF(ReadinessEnds)`: the loop asks for the time at every
  pass, so it is enabled again and again while probes keep it busy. Nothing is
  assumed of API processes.
- LocalFiles, Operations, QtNativeRuntime: none. Their properties are about what
  is so at each moment and when an answer is given; that an operation ends is the
  timeout of its call, which the worker bridge and the API server enforce.

## 4. The proofs

| Module | Theorems | Property of the runs |
|---|---|---|
| WorkerQueueProofs | TypeCorrect, NoCallLost, ResultsAreFinal | (in no run) |
| | CallsTakeTurns*, SurvivorsAreReported* | OneLiveJob, NoSilentSurvivor |
| | NoLateStart, ReasonsAndAnswersStay | NoStartAfterAbortOrFailure, FirstReasonWins |
| | BridgeImplementsPromise* | ImplementsExclusiveWorker |
| WorkerRuntimeProofs | PoolAlwaysAgrees, HandedOutForGood | PoolAgrees, TakenForGood (the pool alone) |
| | QueueUnharmed | the composition refines WorkerQueue |
| | ProcessesAlwaysAccounted, PoolAgreesInRuntime | EveryProcessAccounted, PoolAgrees |
| | NothingStartsAfterEnd | NoProcessAfterEnd |
| ApiServerProofs | ApiTypeCorrect | (in no run) |
| | OneOperationAtATime, StopIsQuiet, RefusedNeverRuns | OneOperation, StopFindsNothingRunning, RefusedNotExecuted |
| | ExecutionsAlwaysLogged, NobodyRunsUnattended | ExecutionsLogged, NoUnattendedExecution |
| ApiSupervisorProofs | StoppedIsAlwaysProven**, UncertainStopNeverReopened**, NothingSentBehindStop** | StoppedIsProven, UncertainStopStaysClosed, NoWorkBehindStop |
| | ReplacementNeverTakenOver | NoTakeover |
| QtNativeRuntimeProofs | BrokersAlwaysAccounted, NobodyActsBesideBrokers, NeverReconnectedSilently | BrokersAccounted, WorkBehindCleanup, NoSilentReconnect |
| OperationsProofs | HostFilesAlwaysWhole, EndedOnlyHarmlessly | HostFilesWhole, EndedOnlyIfNothingLost |
| | CallAnswerAlwaysTrue, JournalAlwaysTrue | CallAnswerIsTrue, JournalIsTrue |
| | ProgramAnswersAlwaysTrue, ExecutorAlwaysSound | ProgramAnswersAreTrue, ExecutorIsSound |
| | CompositeAnswersAlwaysTrue, TableAnswersAlwaysTrue | CompositeAnswersAreTrue, TableAnswersAreTrue |
| | ScenarioAlwaysSound, FileAnswersAlwaysTrue | ScenarioIsSound, FileAnswersAreTrue |
| QtOperationsProofs | QtAnswersAlwaysTrue | QtAnswersAreTrue |
| LocalFilesProofs | NothingIsEverLost, ArchiveAnswerIsTrue, CopiesAreAlwaysTrue, OthersAlwaysKept | NothingLost, AnswerIsTrue, CopiesAreTrue, OthersKept |

\* assumes `KillMayFail = FALSE`; with TRUE the first is false, finding 1.
\*\* assumes `OneStatusCall`; with two the second is false, finding 2.
Every other assumption is a named ASSUME of a module (finite sets of calls,
disjoint kinds of requests, positive bounds), which TLC evaluates in each run.
The theorems hold for any number of calls, spares, requests, API processes,
windows, brokers and files. Each inductive invariant below was checked by TLC on
a small instance before it was proved.

**WorkerQueueProofs.** `TypeCorrect` by one step per action; the only hard leaf
is the removal from the middle of the queue (`SpliceProperties`).
`NoLostCall` and `ResultIsFinal` are not inductive. `Bookkeeping` strengthens
them with what the code relies on tacitly:

- `Turns`: at most one call is active or settled, and only while `running`.
- `Waiting`: a queue with calls in it implies `running`; the queued calls are
  distinct, and they are exactly the calls in phase `queued`, none of them aborted.
- `Unanswered`: a call that has not ended has no answer.
- `Results`: a call answered with a result has no process left, no recorded
  reason for termination and no argument file.

`Isolation` is `OneLiveJob` with `Survivors`: a live process tree belongs to the
active call, or to a call that was answered with the reason of its termination,
and then the latch is set. It is needed because a call may be answered while its
process lives, and it yields `CallsTakeTurns`, `SurvivorsAreReported` and the
refinement `BridgeImplementsPromise`: every step is a step of `ExclusiveWorker`
or a stutter (`RefinementStep`). `NoLateStart` and `ReasonsAndAnswersStay` are
action properties, proved from `Bookkeeping`.

**WorkerRuntimeProofs**, the pool. Its functions are operators on records, so the
lemmas are about them and not about actions: `DiscardGood`, `StartSparesGood`,
`EnsureGood`, `AfterTakeGood`, `ShutdownGood`, `ReadyGood` and `FailedGood` say
that each keeps a record `Good` and `Keeps` what was handed out or thrown away.
`Good` is `PoolAgrees` strengthened by the order of births: the spares that were
never born are those behind the last one, without which a new spare could take
the place of an old one. The counter is a cardinality, so these proofs rest on
the library's facts about finite sets (`SpareSets`, `OneFirst`).

**WorkerRuntimeProofs**, the composition. Its steps restricted to the queue are
steps of the queue (`QueueTurn`), hence `QueueUnharmed`, and restricted to the
pool they keep it `Good`. `RInv` adds `Jobs` (the spares that were handed out are
exactly those of the calls that began, each of one call), `Running` (only spares
that were born have processes) and `Begun` (a failure is the work of a call that
began; so the pool is not enabled after it).

**ApiServerProofs.** The inductive invariant `ApiInv` is type correctness, the
five safety invariants of the run, and two parts that make them inductive:

- `Stages`: a request that has not ended has no answer; an operation counts as
  executed only while it executes or afterwards; one that has not begun has no
  log record, one that executes has been counted and not yet logged; a stop order
  never executes.
- `Connections`: a request has a connection from its first moment on; an
  operation whose connection closed while its body was read has been told
  (`aborted`); a server that has completed its close was closing and has no open
  connection.

`NobodyRunsUnattended` rests on `Connections`: an operation cannot pass from
reading to executing unaware of a closed connection, and the server cannot
complete while one is open.

**ApiSupervisorProofs.** `SupInv` has one part per order, because what is proved
of a stop depends on who else may act meanwhile:

- `TaskPlaces`: where each kind of task can stand; none begins before the tools
  are registered.
- `Known`: a child was started here, tasks have seen only what ran, and a stop
  order was sent only to what was seen.
- `StartOrder`: `starting` exactly while a restart runs; it keeps other orders
  out, begins with a proven end, and its child was never told to stop.
- `StopOrder`: a stop order keeps other orders out and goes to the bound instance.
- `LateStatus`: a status call that looks for a given-up restart leaves no room
  for an order. Here `OneStatusCall` is used, and here finding 2 sits.
- `Binding`: the properties themselves.

`ReplacementNeverTakenOver` needs only `TakeInv` and no assumption.

**QtNativeRuntimeProofs.** `QtInv`: `Accounts` (each broker has one place in the
books), `StartStands` (a startup with a broker keeps its window free),
`Limit` (and a place below the limit), `OneEach` (one broker per process),
`OwnersLive`, `OpStands` (what an operation of each kind has to wait for) and
`PastKept` (a broker that was held and not dropped is still held, or its product
process has ended). The last gives the action property.

**LocalFilesProofs.** For the archive `Control` says where the executor stands:
forward the case at hand is one past those moved, the rollback goes down from the
last of them. `Whole` says where a case is that nobody else has touched: until
the rollback comes to it, a moved case has its whole copy in the archive; a copy
is removed only of a case that is back. `NothingLost` alone is not inductive: it
does not say which of the two places the next step may empty. For the copies,
`Opens` and `CopyHolds` relate the unanswered open, what was written and what the
name holds; `Untouched` says that a copy still to be made has no trace, so that
no late open of an earlier one meets it; `Made` and `Verified` carry what was
verified from one copy to the final answer; `BackupControl` orders the steps of
the backup. `OthersAlwaysKept` is proved step by step from the same invariant.

**OperationsProofs.** One operation runs at a time, so each component has an
invariant of its own; a step of another operation leaves its variables alone
(`ExecutorStep`, `CompositeStep` and the like), and the theorems are about
`OperationsSpec` as a whole.

- *Host files* (`HostKnown`): a start that made the configuration has come past
  its link (`StartersKnown`); the texts are staged and renamed in the same order,
  so that those still staged are exactly those still old (`StagedInOrder`), which
  an undo needs; the logger never takes the log for shorter than it is. Assumed is
  that no starter has the name the model gives to nobody or to somebody else.
- *Client calls* (`CallKnown`, `JournalKnown`), for any number of API processes and
  attempts: what the server has done with a request is what its place and its answer
  say (`ServedOnce`), what the client can conclude at each place of its own
  (`ClientKnows`), and what it has told its caller stays true (`ToldTruly`), though a
  request given up for lost may still be on its way.
- *Launch, creation, helpers* (`LaunchKnown`, `CreationKnown`, `HelperKnown`): from
  which place on the program is the one that was started, what the marks of a failure
  have to name meanwhile, and that a helper ends only what it has read to be its own.
- *Executor* (`ExecutorKnown`): what the gates decide agrees with what capabilities
  advertise (`GateAgrees`); the directories of an export are a chain (`AboveExists`,
  `TopmostMade`) of which those from `firstMade` on are ours, and the removal goes
  up from the deepest, so that what it leaves has something in it.
- *Plans and the advance VAT return* (`PlanKnown`, `UstvaKnown`): nothing is changed
  before the last step, which is bound to the page that the operation needs and, for
  a manual field of the overview, comes behind this call's own reading of that page
  with the flag on.
- *Tables* (`TableKnown`): the move of the cursor (`PositionKnown`), the walk
  (`ReadKnown`) and the change (`MutationKnown`) each say who answers for an open
  lease and what remembers that the cursor was moved. The move is proved once
  (`MoveKeeps`) and used by the change of a row, by the search for a free row and
  by the beginning of a walk.

- *Scenarios* (`ScnKnown`): a step is taken up only behind one that let it go on
  (`ScnPhases`), what was sent has a record and what succeeded was sent (`ScnSent`),
  and while no call overran its time a unit is left for every cleanup step to come
  (`ScnInTime`). That the division of the rest among n steps leaves one to each of
  the others is `FairShare`; that the reserve is enough in the first place rests on
  the schema's limit of 100 steps and on `CleanupAsks`, what the steps ask for.
- *Comparison* (`VerifyKnown`): a decimal stands for its amount whatever trailing
  zeros were taken off (`DecimalStands`), equal decimals are equal amounts
  (`EqualStands`), and the rounded difference is the nearest cent, an even one
  between two (`NearestMultiple`, `DifferenceIsNearest`), for amounts of any size
  and number of places; the place that `resolveMatch` finds is the one that may have
  been meant (`MatchIsMeant`). Both reads have found the named content (`ReadTwice`)
  when the comparison begins.
- *Case files* (`CasesKnown`): what a read or the answer says of a file is among what
  its headers have borne out (`CasesTold`); what a header says, up to the first record that is not
  parsed, is `ParsedIsReadable` and `ToldIsTrue`. The answer holds all batches before
  the one in hand.
- *Text files* (`FilesKnown`): a text that nobody disturbed is listed or still to be
  looked at (`FilesSeen`), and the bytes of what is open are a text that stood there,
  or torn, and then the change shows (`Opens`).

Sums over steps and powers of ten are recursive. The library's induction theorems
cannot be instantiated by these provers; where a proof needs induction it takes
the least counterexample of a set of numbers (`LeastMember`, from the library's
well-foundedness of `<`), which has a predecessor or is zero.

**QtOperationsProofs.** What an action that was sent can have come to is one lemma
about the session (`Acknowledged`); each operation then has an invariant of its own
that follows the receipt, or the form, through all places of the operation.

- *Press* (`PressKnown`): nothing is pressed before the one press.
- *Go to* (`OneWay`): of the three ways to a page one at most is under way, whether
  the program has taken the activation or may still take it.
- *Link* (`LinkKnown`): what is shown and what is kept, before the button of the
  dialog (`BeforeButton`) and after it (`AfterButton`); what is kept changes only by
  applying (`ApplyMarked`), and only one action may still come (`SentOnce`).
- *Update* (`UpdateKnown`): an edit may still come only when the failure says so
  (`EditSent`); where the operation promises that the receipt is as it was, every
  field that the user has not written is (`EditKnown`).
- *Classify* (`ClassKnown`): the kinds that have been saved are those from the first
  on, and are taken back from the last (`Countdown`); those behind them are as they
  were, except the one whose dialog is just being saved (`StillOld`); those before
  the one in hand have been proved (`ProvedBefore`); and what a dialog has shown is
  what is kept until somebody else changes it (`DialogKnown`). `ClassifyAnswerIsTrue`
  alone is not inductive: without the order of `todo` a rollback could leave a kind out.

**Only model-checked.** All liveness: fairness and ENABLED are outside the prover's
reach. Every invariant and every action property of a passing run is stated by a
theorem.

Two things in the models came to light by proving. `FileAnswersAreTrue` once
demanded more of a comparison than the code promises: when the caller counts an
occurrence of a page, another page of that name may have an exact label. It now
speaks of the fields that an expectation may mean (`Meant`). And the claim about a
case's header follows from the last record that could say otherwise, not from
every one. The history variables `versions` (Workspace) and `borneOut` (CaseFile)
keep what each file has held since the call began, so that the claims reach the
files disturbed meanwhile; no guard reads them.

## 5. Findings

1. **A failed kill frees the queue** (`worker.ts:504`, run WorkerQueueKillFails).
   The `error` handler takes every `error` event for a failed start. Node emits it
   also when `child.kill()` fails on a living process. The call is settled, the
   queue moves on without the latch, and two jobs live at once; the comment above
   `workerRuntimeFailure` and `docs/ARCHITEKTUR.md:412` promise the opposite.
2. **A late status answer reopens a stop** (`mcp-api-supervisor.ts:506`, run
   ApiSupervisorTwoStatus). `controlStatus` sets `running` after its probe
   without a second look; of two status calls the later can undo a stop order
   sent in between. With at most one status call at a time the property holds.
3. **A failed restart cannot be repeated** (`mcp-api-supervisor.ts:523`, run
   ApiSupervisorRestart). The instance is cleared when the child is spawned; if
   that child ends early, a start order has no instance to name.
4. **A scenario's answer names a foreign file** (`workspace-executor.ts:140`, run
   ScenarioReport). When somebody else has taken the requested name, `runScenario`
   writes its report beside it and answers that name;
   `test/scenario-control-flow.mjs:488` expects it. `executeWorkspaceOperation`
   replaces it by the requested reference, under which the other's file lies.

## 6. What is not modelled

`PROJECT.json` gives the reason per component. In short:

- constants, schemas, OpenAPI text, registration of tools and rendering: no state.
  `result-contract.ts`, `result-mutation-fields.ts`, `operation-catalog.ts`,
  `mcp-tools-*.ts` and `mcp-schemas-*.ts` are of this kind;
- operations that only read (over Qt: snapshot, find, tables, pages, receipts,
  help, checker, status; over the worker: inventories and collecting): they change
  nothing, and their readings succeed or fail. The readings within the operations
  modelled are steps of theirs;
- the PowerShell worker, the C++ bridge and SSE itself: outside; every way in
  which they can end is in the models of their callers;
- telemetry: nothing is decided by it; the plugin bundle: generated.

Within the modelled parts, hashes, identities, markers, texts and the contents of
requests are reduced to what decisions depend on: equal or not, valid or not,
own or foreign.

One hazard is listed without a property: between the last look at a case and its
removal by the archive lies the probe of the process list. The code accepts that
window; `OthersKept` leaves this one step out.

## 7. Plan

Done: every component that the inventory calls modelled, with proofs of every safety
property that a run checks.

Next, in this order:

1. An abstract specification of the supervisor (one instance, bound until a
   proven end) and of the archive (each case is here or there), implemented by
   the modules above, each step proved to map to a step or a stutter.
2. The Qt session and the warm pool as promises of their own, which the operations
   over them may rely on.
