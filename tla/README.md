# Navisworks MCP desktop: TLA+ models, checks and proofs

An Electron application (`navisworks-desktop-electron`) lets a language model
look at and change a Navisworks document through a plugin
(`navisworks-plugin`) that runs inside Navisworks and listens on a named pipe.
What must never go wrong is a *modifying* tool call: it may not be repeated
blindly, may not run beside another one on the same document, and the durable
record of it may not lie. The models start there. Around it stand the things a
user relies on in every conversation: sessions are kept and deleted ones are
gone, a run answers once and can be stopped, a task is what its verdicts made
it, the model is told what changed, a search finds everything once, and the
settings on the screen are those a run works with.

Paths are relative to the repository; `main/` is
`navisworks-desktop-electron/src/main/`, `renderer/` is beside it, `plugin/` is
`navisworks-plugin/src/NavisworksCodexMcp.Plugin/`.

## 1. The system

| Component | State | What makes it correct | Model |
|---|---|---|---|
| Document operation lock, `main/agent/executionLedger.ts` | map key → last promise of a chain | exclusion per document, order of arrival, no leaked entry, nobody waits for ever | `DocumentOperationCoordinator` |
| Execution ledger, same file | records in memory, `writeTail` | legal transitions, a durable verdict stands | `ExecutionLedger` |
| Ledger file, same file | primary, backup, temporary file | a crash costs nothing that was acknowledged | `LedgerFile` |
| Tool ladder, `main/navisworks/toolExecutor.ts`, `runBinding.ts` | one call: flags, exception | write-ahead, honest records and reports, at most one retry | `ToolExecution` |
| Bridge, `main/bridgeClient.ts`, `plugin/BridgeServer.cs`, `UiDispatcher.cs`, `BridgeEndpointRegistry.cs` | one exchange; pipes, workers, what is posted to the UI thread | "not sent" is true, the server listens again and can be unloaded | `BridgeLink` |
| Chat runs, approvals, questions, `main/ipc.ts`, `main/question/` | active runs, pending requests, the deletion of a session | one terminal event, every run settles, no request outlives its run | `ChatRuns` |
| Window, `renderer/App.tsx` | active run, cards, watchdog, transition lock, messages | what it shows is the run there is | `ChatWindow` |
| Sessions, `main/ipc.ts` (`PersistenceFacade`), `main/sessionRepository.ts` | write tail, tombstones, two files | no lost update, no resurrection, either file will do | `SessionStore` |
| Settings, same files | settings file, keys | what was answered is stored, nothing is switched on unasked | `SettingsStore`, `SettingValues` |
| Task manager and the rounds of a run, `main/agent/taskManager.ts`, `main/agentRuntime.ts` | tasks, write tail; round, snapshot of the task | completed means judged complete, nothing is left running | `TaskRuns` |
| Repetition guard, `main/agent/doomLoopGuard.ts` | results, warnings, decision per signature | two equal results at the start of a call's history and no third execution; one question | `DoomLoopGuard` |
| Request to the model, `main/agent/contextManager.ts`, `main/toolOutputStore.ts`, `toolResultDelivery.ts` | frames, protected turn, task block, stored results | turn and rounds are told in order, results of tools fit, what is read is what was stored | `ModelRequest` |
| Context engine, `main/context/` | epoch in memory and on disk | every change is told once, the cached prefix only grows | `ContextEpochs` |
| Documents and instances, `main/agent/contextState.ts`, `documentScope.ts`, `main/navisworks/instance*.ts`, `runPreflight.ts` | known instances, selection, current document, facts and reference sets | facts are of the current document, no change is missed | `DocumentContext` |
| Model providers, `main/model/` | one request: headers, chunks, timer | the caller gets what arrived, or its own error | `ModelStream` |
| Model catalog and the ring of the composer, `main/model/catalog/`, `renderer/contextRing.ts` | settings, resolved model | screen and run agree | `ModelWindow` |
| Capabilities and tools, `main/capability/`, `main/tool/registry.ts` | providers, owners of tools, one run | each provider gets its calls and every outcome | `CapabilityRuns` |
| Search and item cache, `plugin/NavisworksToolService.cs` | scan, pages, FIFO cache of ids, identity | every match once, no id rebound | `ItemSearch` |
| Planner, verifier, prompts, skills | - | - | their outcomes, after all attempts, are choices (`Decisions`, `NewPlans`, `Verdicts`) in `TaskRuns` and `ContextEpochs` |
| Wiring, senders, layout, installers, knowledge base | - | - | not modelled (section 6) |

How they meet. A chat run binds itself to the selected Navisworks instance and
its document, asks the context engine what to tell the model, and then goes
round: request, answer, tools. A modifying call goes through the ladder: look
for an ambiguous record of the same modification, write a record, ask the user,
validate the binding, take the document's lock, write `executing`, check the
identity again, call the plugin, write the verdict. Several conversations run at
once in one Node process: every `await` is a point where they interleave. The
plugin executes requests one at a time on the UI thread of Navisworks, whenever
Navisworks gets to it, on whatever document is active at that moment.

Sessions go the other way round: the renderer owns the copies the user sees and
saves them whole, runs and `/compact` add to the stored ones behind its back,
and all of them share one list in one file. Settings share its write tail.

Hard in this code: the interleaving of conversations between two `await`s,
answers that come after a timeout, aborts at any moment, saves that are merged
or refused, crashes between two file operations, events that arrive after what
they are about, and a user who switches documents at any time. `PROJECT.json`
lists each hazard at its line, with the property that covers it.

## 2. The modules

| Module | What it is | Checked by |
|---|---|---|
| `ToolCalls` | the calls, shared by the others | |
| `ExclusiveService` | abstract: exclusive service per key in the order of arrival | |
| `DurableFile` | abstract: a file that changes as a whole and keeps what was acknowledged, until the disk loses something | |
| `DocumentOperationCoordinator` | `runExclusive`: promise chain and map | `MCLedgerParts` |
| `ExecutionLedger` | records, transitions, write-behind saves, crash and recovery | inside `ToolExecution` |
| `LedgerFile` | `save()`/`load()`, one action per file operation | `MCLedgerParts` |
| `ToolExecution` | the ladder: lock, ledger, dialog, pipe and document composed | `MCToolExecution` |
| `SessionStore` | write tail, tombstones, merge, two files, and their clients | `MCSessions` |
| `ChatRuns`, `ChatWindow` | the main process of the chats; the window and the messages between them (extends `ChatRuns`) | `MCRuns` |
| `TaskRuns` | tasks, their file, and the loop of an agent run around them | `MCRuns` |
| `BridgeLink` | client, pipe, server, UI thread | `MCRuns` |
| `ModelStream` | one request to a model backend | `MCRuns` |
| `ItemSearch`, `DoomLoopGuard`, `ContextEpochs`, `DocumentContext`, `ModelRequest`, `SettingsStore`, `SettingValues`, `ModelWindow`, `CapabilityRuns` | as in section 1 | `MCServices` |
| `<module>_proofs` | theorems about a module; those of the lock and of the ledger are in `ToolParts_proofs`, those of `MCServices` in `MCServices_proofs`, `MCStores_proofs` and `MCRequests_proofs`, for their size | |

`ToolExecution` composes the lock and the ledger, which it extends; `ChatWindow`
extends `ChatRuns`. `MCLedgerParts`, `MCServices` and `MCRuns` compose nothing: they
are sums. A
behaviour chooses a part at the start and is a behaviour of that part; the names
`x1`, `x2`, ... stand for the variables of whichever part it is, through
`INSTANCE ... WITH`. The state space is the sum and not the product, each part
keeps the bounds it needs, and a property of a part reads `part = "..." => ...`.
Where parts really meet, the meeting is in the module: the notice of a document
change and the run that is told it (`DocumentContext`), the summary of a session
and the epoch (`ContextEpochs`), runs and the store (`SessionStore`), the call
over the pipe and its record (`ToolExecution`, for which `BridgeLink` justifies
the three ways an exchange ends).

The operators marked *Slip* are single mistakes that could be made in the code;
no specification uses them.

### DocumentOperationCoordinator

`runExclusive` has one `await` before the task: the code up to it is `Chain`
(read the map entry, become the map entry), the return from it is `Enter`, the
`finally` block is `Release`. A promise is named by the call that created it.
`chained = previous.then(() => gate)` is resolved when the promise before it is
and the gate is open; as a gate is opened only after the previous promise was
resolved, `phase = "released"` says both. `ticket` is auxiliary.

### ExecutionLedger and LedgerFile

`#persist` chains a save and awaits it; the save evaluates `this.all()` when its
turn comes. So `writeTail` is a queue of callers, `SaveStarts` takes the
snapshot, `SaveSucceeds` and `SaveFails` settle the head. A refused save rejects
only its caller. `LedgerCrash` keeps `file`; `LedgerRestart` is `initialize()`,
and the recovery save it awaits is `RecoverySaved` (if it fails the application
does not start, which is a crash again). `file` is one atomic value: `LedgerFile`
shows that it may be, by splitting one save into `copyFile`, `writeFile` and
`rename` with crashes and refusals at every step and mapping it to
`DurableFile`. Contents are numbers of saves there, since only old and new
matter. `Damage` is the loss of a primary that was renamed but never flushed.
Records are never removed by the code; the model's set of calls is finite.

### ToolExecution

`pc[c]` is the `await` at which call `c` is suspended and every action is the
code between two of them:

| Action | Code (`toolExecutor.ts` unless said) |
|---|---|
| `BindRun` | `runPreflight.ts` 41-82: the run is bound to what the plugin reports |
| `BlockRetry`, `BeginRecord` | 86-111 |
| `RequestApproval`, `OpenDialog`, `Approve`, `Denied` | 112-125 and `ToolApprovalRegistry.request` |
| `ValidationFails`, `Validated` | 126-133, `runBinding.ts` 92-144 |
| `ResolveAmbiguous` | 147-149 |
| `QueueUp`, `MarkExecuting`, `MarkExecutingFails` | 169-189 |
| `SendCall`, `CheckFails` | `callWithNavisworksRunBinding`: identity once more, then the call |
| `ResultArrives`, `ErrorArrives`, `AnswerLost` | the three ways an exchange ends, `bridgeClient.ts` |
| `Reading`, `Verdict`, `Catch`, `Settle` | the catch block, 192-234 |
| `SaveRejected` | an awaited save failed: into the catch block |
| `Abort` | `chat.abort`: the signal of the run |
| `PluginApplies`, `PluginRefuses` | the request reaches the UI thread, now or long after the client gave up |
| `DocumentChanges`, `HostRestarts` | `ResetSessionState`; a new plugin process |
| `Crash`, `Restart`, `SaveStep` | the desktop process and the ledger |

A document in the model is instance + bridge session + document instance: the
plugin mints a fresh GUID for each, so identities do not come back. Arguments
are opaque (`Op`); `ItemOp` are those that name items, which resolve only in the
document that minted them. Calls that only read are left out (they take neither
lock nor record); runs without a binding are left out; which of several
ambiguous records `findAmbiguous` returns is left open; a tool is applied as a
whole (`isolate` hides the rest and then shows the items: `failed` means
"answered with an error", not "changed nothing").

### SessionStore

`#serializeWrite` is a queue of numbered changes. The one at its head loads,
changes its session and writes: `WriteStarts`, `PrimaryReplaced`,
`BackupReplaced`, `WriteReturns`, or one of the ways out (`WriteRefused`: the
tombstone or an unreadable pair; `WriteSkipped`: nothing to change;
`WriteFails`: `save()` returned false). `await this.#writeTail` is
`Settled(n)`, with the tail found when the call was made. Contents are the
numbers of the changes they come from; a list also bears the number of the
change that wrote it. `kept` and `gone` are auxiliary. The clients: `Send`,
`Retitle`, `TerminalArrives` save a copy on the window's account, `Load` and
`CompactReloads` take one; `ReadHistory`, `RunSucceeds`, `RunFails` are what a
run does to the store; `Compact*` is `/compact`; `Delete`, `DeleteWaited`,
`Deleted`, `DeleteRefused` is a deletion from the dialog to the list. Left out:
results stored apart, pinning, and the window's cache of background runs.

### ChatRuns and ChatWindow

A run goes through `preparing`, `running`, `waiting` (a question or an
approval), `closing` and `over`; the code between two of them is one action, an
abort takes effect at the next point where the code looks for it, and a `Deaf`
run is one whose tool or model does not. `Tell` is the terminal event, which is
sent before `Settle` removes the run. A deletion is `Delete`, then `RunsSettled`
or `WaitTimesOut` (the three seconds), then row, scope and tasks, each of which
can fail. Between main process and window there is a FIFO of messages
(Electron keeps the order on one channel); `Emit` to a window that is gone drops
(`lost`). The window's side is one action per message and per button. The
watchdog of `stop()` fires at any time after it is set; `overtaken` marks that
it released a run that was still underway or of which something that tells of it
(the answer to `chat.start`, text, the terminal event) was still to arrive, and
properties that speak of the active run are excused from there on. The answer to
`chat.start` belongs to these: a run stopped late leaves its watchdog behind, which
can release the next run of the session before that answer is there, and the
answer then names the run after it (`App.tsx`, `stop` and `sendText`). This takes three
runs; it came to light as the counterexample to an earlier invariant.

### TaskRuns

`pc` is the await at which a run of the agent is suspended: at the model
(`Answers`), the planner, a tool, the verifier, or in the task file's queue
(`Mutate` changes memory first and queues the write, as `#mutate` does, and
`then` says where the run goes on). The run keeps `seen`, the snapshot it got
from its last call of the manager, and decides by it. Verdicts, plans and
failures of the model are choices. `shared` and `loose` are auxiliary: tasks two
runs worked on, and tasks a failed write or an unheeded verdict left behind;
the properties except exactly those.

### BridgeLink

A connection is named by its call. `client` is the promise of `exchange`
(`connecting`, `writing`, `waiting` and how it ended), `conn` the worker,
`posted` the queue of the UI thread. Nothing removes a posted call. `Dispose`
runs on that thread: nothing posted runs until it returns (`Disposed`), which it
does after its bounded waits whatever the workers do.

### ItemSearch

`content` and `object` tell what Navisworks shows from the object the service
holds; `Execute` derives the identity. A search takes slices of `Fuse` items on
the UI thread (`Slice`), ends in a page (`Built`, `Answer`), and its session may
be resumed by whoever sends the same query. Ids are numbers of a generation in a
FIFO cache of `Cached`.

### ContextEpochs, DocumentContext

An epoch is baseline, seed (the summary it starts with) and updates; a source is
a value the world changes at will, `Silent` values being those it renders to
nothing. `Load`, `Reconcile`, `Settle` are the engine within one run, `Compact`
is `/compact` and `CompactsItself` the compaction during a run. Another baseline
starts the next generation; a damaged or missing file starts at generation 1
again, since `load()` has nothing to go on from (`NewEpoch`). `DocumentContext` has a host per
instance, the registry with its joined refreshes (`awaiting`), the selection, the
current document with its list of transitions, and per session the run and the
revision it has seen; `told` is auxiliary.

### ModelRequest, ModelStream, DoomLoopGuard

Messages have sizes instead of texts; a frame says which turns and rounds it
holds. A result is a sequence of items of size 1, and either a list or not. Each
pass of the loop is `Compact` (`tryCompact`, with rounds of this run if there are
enough of them and the history else; the summary has any size of
`SummarySizes`, also a larger one than what it replaces), `Assemble` (trimmed to
the budget), and the model's answer: `Answers` ends the run, `GoesOn` is a text the
completion gate does not accept, so the model is asked again, and `Calls` opens a
round. In it `Tool` delivers in full or by pointer and is the only step that looks
at the budget (`FitsInline`, at the time of the call); `Notes` is what the program
answers by itself (an error, a refusal of the guard, a question, a skill); `Read` is
`read_tool_result`, which `InternalToolExecutor` answers before the ladder is ever
reached: a page of a list, or the whole of anything else, put in the exchange
without a look at the budget. `RoundEnds` closes the round. The block that tells of
the task is written anew in `GoesOn`, `Calls` and `RoundEnds` (`Refreshes`), after
what was checked against it. `last` is auxiliary: what made the request longer last.
The provider's account of its usage is any value (`Pressed`), except that the first
pass has none and estimates. `CallIds` is the assumption on the provider: here no
id is given twice.

`ModelStream` takes one request from the call to the error the
caller gets; a body is a list of lines as the backend sends them, arriving in
chunks, with the timer, the user's abort and the network failing in between.
`DoomLoopGuard` is one signature of one run; a result is its fingerprint.

### SettingsStore, SettingValues, ModelWindow

`SettingsStore` is the read-change-write of `updateSettings`, `saveApiProfile`
and `deleteApiProfile` behind the write tail, with `getSettings` and its
migration of plaintext keys; contents are switches, profiles and keys. A save
brings a key, clears it or leaves it, and switches its profile on, off or leaves it
(`Saves`); `Refuses` is a request turned down before its write.
`SettingValues` follows one numeric setting through four places: the file
(`clampInteger` and its nullable kin), the screen (`boundedInt`), the user's
choice (the schema) and the runtime (`clampInt`), over the values at and around
every limit, fractions, zero, null and text. `ModelWindow` is the window,
reserve and effort a run works with and those the composer shows; a profile may
lack the address or the name of the model (`Profiles`), and without a name no run
starts (`Available`).

### CapabilityRuns

Providers with manifests that may clash, be unwilling to start, to prepare, to
finish or to stop; the tools they own, the permission gate of a call, and one
run from `prepareRuns` to `finishRuns`. `executed` is auxiliary.

## 3. The runs

| Run | Instance | Shows |
|---|---|---|
| `ledger_parts` | lock: 4 calls, 2 documents; file: 5 saves, 3 crashes, 2 damages; no symmetry | `LockInv` (in line, exclusive, no leak), `EveryoneGetsIn`, `ServesInOrder` (implements `ExclusiveService`); `FileInv`, `ActsAtomically` (implements `DurableFile`), `DamageCostsOneSave` |
| `tool_faults` | 2 calls, 2 documents, 1 refused save, 1 abort | `SerialPerDocument`, `HonestRecord`, `ReportedUntouched`, `FaultsExplain` |
| `tool_retry` | 2 calls after a third that is ambiguous, 1 crash, 1 refused save | `RecordInv`, `CrashLeavesSuspicion`, `RetriesAreConfirmed`, `DurableVerdictStable` |
| `tool_ends` | 2 calls, 1 document, 1 abort, no symmetry | `LetThroughOrAbortedEnds` |
| `session_store` | 2 sessions, 4 changes, 1 refused write, 1 crash, 2 damages | `StoreInv`, `EitherFileWillDo`, `HistoryIsCurrent`, `PairActsAtomically` (implements `DurableFile`) |
| `chat_and_tasks` | 2 chat runs, 2 sessions, 2 moves, 1 fault; 2 agent runs, 2 tasks, 1 fault | `RunsAnswerOnce`, `WindowFollowsRuns`, `TasksAreHonest`, `FinalIsFinal` |
| `services` | nine services, bounds in the cfg | one property or two for each service (12) |
| `ends` | chats (1 move), tasks (3 rounds), pipe (2 calls, 2 instances), streams (7 bodies) under fairness | `WaitsEnd`, `StopReleases`, `BridgeComesAndGoes`, `CallsRunAsReported`, `AnswerIsTheBody` |

Why these bounds. Two calls are the smallest number that contend for a lock, a
save or a record; three and four on the lock alone give every position in a line
(first, middle, last). One crash separates a life before from a life after; the
ledger's file gets more because it is small. Two documents: the bound one and
another. One refused save is enough to leave memory ahead of the file at every
save of the ladder. `tool_retry` starts where a first call was left without an
answer (`RetryInit`, a reachable state of `Spec`: one approved call, one
timeout); its two later calls then meet the ambiguous record at every relative
position. Four changes of sessions are a save, a deletion, and two that may come
late; two sessions, so that a change of one can lose the other's. Two runs in
two sessions are one to stop or delete and one beside it; a run more meets
only one thing of its own, the watchdog of a late stop (`overtaken` in section 2),
and for that there is the theorem, which takes any number of runs. A task needs two rounds for a
verdict after tools and a third (in `ends`) for a replan after it. A page, a
cache and a document of two items make the first, the last and the evicted one;
three searches, a start, a resumption and a search after them. A budget of seven
with results of one and two, a task block of none or one and summaries of one or
five has results that fit, that fit only after trimming, and that do not, and
requests that a page, a note, the block or a summary makes too long; four passes
of the loop are enough for a compaction of this run's own rounds (one kept, two
replaced) and a request after it. Six calls of one signature are two executions, a
warning, a question and two calls after the answer. The providers of a capability
may share a source and a tool (`Source`, `ToolName`), so that registering the
second one fails on either. The figures of the windows lie on both sides of the
smallest window and of the room it leaves for an answer. What these bounds do not
reach is the limit of a scan (`Fuse`), which two items stay below: there every
search would count as cut short and nothing be left to state; the theorem takes
any limit. Two callers and three requests of settings are every
order of read and write. The theorems of section 5 hold without bounds.

`CHECK_DEADLOCK FALSE` is said where the program may come to its end: every call
made, every document opened, every run started. `ToolExecution`, `LedgerFile`
and `SessionStore` have a `Finished` step instead, so TLC looks for deadlocks
there.

### Fairness

Settled continuations run, because the event loop has nothing else to do; file
operations settle; timers fire; what a channel accepted arrives; threads of the
plugin are scheduled. In the ladder an exchange ends because of its timer
(`bridgeClient.ts` 193), not because the plugin answers; an abort closes an open
dialog. In `ends` a run of the agent goes on (`RunStep`: every wait on a model has
the timeout that `ModelStream` shows to end it), a model stream has its timer
only, a call over the pipe its own, and `Disposed` is fair because its waits are
bounded. No fairness for the user, for a deaf run, for a server's answers, for
crashes or document changes. `tool_ends` does not say that a dialog is ever
answered.

## 4. Disagreements between code and comments

Four runs end in a counterexample on purpose; each states what a comment says.

| Run | What is said | What happens |
|---|---|---|
| `summary_lost` | the renderer does not carry the compact summary, so its saves never wipe one (`ipc.ts` 1093, 1158) | a copy fetched after a restart carries it; the save of the next turn puts the old summary over the one that turn made |
| `facts_misfiled` | no stale engineering reference can survive a document switch (`contextState.ts` 52) | a result is filed under the document that is current when it arrives, which may be the next one |
| `silent_fallback` | an explicit error instead of a silent fallback (`ipc.ts` 1643) | an enabled API profile with the name of a model and no address passes `resolveChatEndpoint` and the check of `ipc.ts` 768; the runtime takes an endpoint without an address for none and uses the local model, which is switched off (a profile without a model name is refused: MODEL_NOT_CONFIGURED) |
| `in_flight_compacted` | every tool exchange of the current turn stays verbatim, only history is compacted (`contextManager.ts` 106, 295) | a run with enough rounds of its own replaces all but the last few of them by a summary (`contextManager.ts` 301) |

Others were met while modelling. The models contain what the code does, the
properties say what is left to hold:

* **Ladder.** An ambiguous modification blocks the same one of another run only
  if that run looks after it became ambiguous: the look-up (`toolExecutor.ts` 88)
  comes before the record, the dialog and the lock. Check and use of the document
  are two requests (`runBinding.ts` 89): an operation without items reaches a
  document opened in between. That one with items does not
  (`ItemsKeepToTheirDocument`) is a single condition of the plugin and no merit of
  the desktop. A dialog
  for a document that is gone stays open: `cancelForDocument` and
  `cancelForEnvironment` (`ipc.ts` 963) have no caller. If the status call of the
  preflight throws, a later call of a Navisworks tool finds no state and ends in
  a `TypeError` instead of the error `runPreflight.ts` 25 announces.
* **Ledger file.** `save()` copies the primary over the backup without reading
  it: after a start from the backup, a damaged primary replaces it, and a crash
  before the rename loses both. `DamageCostsOneSave` speaks of the damage itself: it
  does not see a later save copy a torn primary over the only good backup. The bridge errors INVALID_RESPONSE,
  RESPONSE_ID_MISMATCH and RESPONSE_TOO_LARGE count as plain failures although
  the call ran.
* **Window.** The watchdog of a stop (`App.tsx` 898) is set even if nothing was
  aborted and names the session only: it may release a run the user did not
  stop. After `/compact` the cache of background runs keeps the whole transcript.
* **Tasks.** A `complete` verdict beside tool calls leads to `markRunning` of a
  completed task, which throws; the run then ends as a model error. With two runs on one task the bound on replans is one higher
  (`ReplansBounded`).
* **Guard.** `terminate` does not end the run, as the comment above
  `#handleDoomLoop` has it (`agentRuntime.ts` 1587): the call gets an error for a
  result (1597) and the run goes on with a failed round (1327), which the
  completion gate may or may not end. The guard wants every result of a call to be
  the same (`doomLoopGuard.ts` 146): after results a, b it stays away for the rest
  of the run, so a, b, b, b, ... is executed until the rounds run out. Failed calls
  leave no trace in it. `RepetitionIsNoticed` therefore says where the guard steps
  in and where not, and that nothing is executed once it did.
* **Search.** A full page whose answer is lost is gone for the repeated query;
  ids handed out right after models arrive are wiped by the next call's reset; a
  scan that reaches its limit on the last item of a slice is never complete. The
  first is excepted as `spoilt`.
* **Context.** A second `/compact` in an epoch is told as a volatile block and
  not adopted as its seed; overlapping runs of a session overwrite each other's
  epoch. After a crash between settlement and save the session has no summary.
* **Requests.** A stream that ends early without an error is a complete answer; a
  call cut off after its name runs without arguments; fragments without an index
  are merged into the first call. A summary is the first frame trimmed. What
  is held against the budget is the result of a tool, and at the time of its call
  only. Answers of the program itself (errors, questions, skills, pages) are not:
  `agentRuntime.ts` 1278 says they are small, but a stored result that is no list
  comes back whole whatever offset and limit are asked for (`toolOutputStore.ts`
  209), so the result that did not fit is put in the exchange after all. Nor are
  the pointers, the task's block, which is written anew between the check (1534)
  and the next request (1012), and a summary, which may be longer than what it
  replaces. `FullResultsFit` says what is left: the result of a tool put in full is
  never the last thing that makes a request too long. A paged result is observed by
  its pointer and lost after seven days.
* **Settings.** A settings file that cannot be read, for whatever reason, loads as
  defaults, and the next write replaces it, keys included (`misread` in
  `SettingsStore`). The migration of keys writes outside the write tail
  (`overtaken`), and a plaintext key is lost if encryption is unavailable when
  something is saved. `plannerMaxTokens: null` becomes 2048 on the screen and in
  the file although the runtime honours it. A window reported for a model stays
  shown after the profile's window changed; answers of `model.info.get` are shown
  in the order they arrive (`crossed` excepts those).

## 5. The proofs

A theorem holds for every set of calls, documents, sessions, runs and providers
and for all bounds that satisfy the assumptions of its module:

| Assumption | What it says, and why the code has it |
|---|---|
| `NoCallAssumption`, `NoKeyAssumption`, `LedgerConstants`, `FileConstants`, `StoreConstants` | null values lie outside their sets; bounds are numbers |
| `ToolExecutionConstants` | a subject is a document and an operation: `findAmbiguous` compares these two |
| `ServicesConstants` | bounds are numbers; a page holds an item at least (`limit` is 1 to 100, `NavisworksToolService.cs` 285) and so does the item cache; lengths, summaries and task blocks, the budget of a request and the frames kept in it are numbers, and a summary stands for one frame at least (`COMPACT_MIN_COMPRESSIBLE_FRAMES`); what a search matches is among the items; the null values of documents, keys and providers are no values; the first profile exists (`LEGACY_PROFILE_ID`); providers are a list |
| `WindowConstants`, `ValueConstants` | windows, sizes and the figures of the local model are numbers, the smallest window positive; `null` and a value that is absent are none of the numbers, and a blank reference is no model |
| `StreamConstants` | a backend numbers the calls of an answer and their fragments as the protocol has it (`WellFormed`) |
| `RunsConstants` | null values lie outside their sets; there is a session (the window begins with a draft if it finds none); a run may take one round and one call (`maxToolRounds` is clamped to 1 or more), the plugin has a pipe instance; agent runs are finitely many, as `MaxReplans` plus their number is a bound |

`MCServices_proofs`, `MCStores_proofs`, `MCRequests_proofs` and `MCRuns_proofs` prove
about the sums of section 2: each section begins with the names its part's variables have there,
shows the part's invariant kept by each of its actions, and concludes with
`PartStays`: a behaviour is one of one part.

### The ladder

* **Lock** (`ToolParts_proofs`). Exclusion is not inductive:
  nothing in it speaks of the callers that wait. `ChainInv` says that the calls
  on a document stand in the order of their tickets, that whoever waits does so
  for the immediate predecessor, that whoever has nothing to wait for is first,
  and that the map entry is the last. `LockHolds` collects chain, exclusion and
  the absence of leaks; `FirstComeFirstServed` maps each step to a step of
  `ExclusiveService`, with "ahead of me" = a smaller ticket.
* **Ledger** (`ToolParts_proofs`). `LedgerInv`: file, snapshot and memory
  are three points of one history. From it `FileIsBehind` and `VerdictsStand`.
* **Ledger file** (`LedgerFile_proofs`). `FileInv`: until the first damage the
  primary is never torn and at least as new as what was acknowledged; so `load()`
  never needs the backup, which a crash can leave torn. `PrimaryIsGood`,
  `SavesAreAtomic`; `DamageIsCheap`: where there is a backup that parses, the loss of
  a primary costs the last save and no other.
* **Composition** (`ToolExecution_proofs`). `CoreInv` adds to the two component
  invariants that the position of a call determines its place in the lock.
  `SerialExecution`, and the ledger's theorems carried over.
* **Records** (same module). Write-ahead needs to know that the save a call awaits
  is a save of `executing`: `RecordInv` says whose saves are in the queue (one per
  suspended call), what a snapshot under way holds for a call at `marking`, where
  a request can have left, and what each exception says about it.
  `NothingSentUnrecorded`, `RecordsAreHonest`, `ReportsOfNothingAreTrue`.
* **Crashes, retries and faults** (same module). `CrashesLeaveSuspicion` follows
  from the records and from `NoneLeftExecuting`: recovery turns every `executing`
  into `ambiguous`, and a call that was cut off marks none again.
  `FaultsAreExplained` needs `FaultInv`: which exception found the record in which
  status (`StatusTells`), since the catch block decides by the status whether it
  may still be marked. `RetriesAlwaysConfirmed` needs `RetryInv`: a retry and the
  call it repeats are of one document and operation, whatever copy says `resolved`
  has a retry that said so, the save a retry awaits is a save of the resolution,
  and of two retries at most one marked it. Each of the three is inductive only
  together with `RecordInv`.

### Chats, tasks and the bridge

* **Sessions** (`SessionStore_proofs`). `DeletedForGood` is about files; a save of
  the deleted session may still be in the queue, in a run or in a copy. `GoneInv`
  adds: the list being written contains no deleted session (`WritingWithoutGone`),
  a file whose turn is over holds that list (`FilesWritten`), a deleted session
  without a tombstone (after a restart) is in no copy, run or save (`NoWayBack`),
  and nothing is deleted that the user interface never had (`KnownOnly`). For the
  clients the proof has one rule, `ClientChange`, which every client step is shown
  to follow. `StoreHolds`.
  `KeepInv` says of every list, in a file or on its way there, that it keeps what
  was acknowledged and is older than the changes still queued (`ListsKeep`), and
  that the memory a `/compact` puts back is none a run has replaced meanwhile
  (`MemoryPutBack`). From it `OneFileIsEnough`, and `FilesActAsOne`, the refinement of
  `DurableFile`. `HistoryStaysCurrent` needs `HistoryInv`: a run that reads waits
  for its own save, and until it has read nothing older can be acknowledged.
* **Runs** (`MCRuns_proofs`). `RunsAnswerOnce` rests on `ChatInv`. `RunsInv`: while
  the process is up the registry is the set of runs that are not over, a run waits
  if and only if one pending request is its own, and once the process quits
  everything alive is aborted. `DeletionInv`: a deletion waits for every living run
  of its session, past its wait there is none, and past each step what that step
  took apart stays apart. `RestInv`: what is alive, listed or on screen is stored,
  being deleted or excused, so nothing starts a run in a session that is gone.
  `RunsAlwaysAnswerOnce`.
* **Window** (`MCRuns_proofs`). `WindowFollowsRuns` speaks of the screen; what comes
  next to the screen is in the channel. `FollowInv` therefore speaks of the order
  of the messages: while nothing was overtaken, one run at most is underway or
  still told of (`Heard`), it is the one the window believes active and its message
  is the open last one of its session (`Shown`); a terminal event is the last
  thing that tells of its run (`InOrder`); a pending request is on its card with
  nothing on the way that takes it off, or is on the way itself with nothing of
  that kind behind it (`CardComes`, `Spoils`). `WindowAlwaysFollows`.
* **Streams** (`MCRuns_proofs`). `StreamInv` says that what is at hand is what the
  lines read so far make of an empty answer, which is a fold; that this fold exists
  and can be taken one line further is proved from the least counterexample
  (`Least`), and `CallsInOrder` that fragments end up with the call of their index.
  `AnswersAlwaysTheBody`.
* **Tasks** (`MCRuns_proofs`). `TaskInv`: what a run's position says about its copy
  of the task (`ControlInv`), when that copy is true (`CopiesInv`), that the file's
  successes are memory's with the plan they were judged by (`DiskInv`), and how many
  runs are still behind a bound on replans (`ReplansInv`). `TasksAlwaysHonest`,
  `FinalAlwaysFinal`.
* **Bridge** (`MCRuns_proofs`). `RunAsReported` is what the ladder takes for granted
  of an exchange: a request runs once at most, an error without doubt means that it
  never does, a result means that it did. `NoDoubtNoRun` speaks of calls that have
  ended; `LinkInv` says the same of those still silent (idle, connecting or unsent):
  no worker has their request, they are not posted and did not run. `OnceInv` says
  that what waits for the thread is what workers have posted, each once and without
  a reply, and that what ran has a reply, so no worker reads its frame again.
  `CallsAlwaysRunAsReported`. An error response is not a statement of that kind: a
  result over the limit of a frame becomes one (`BuildDegradedFailure`) although the
  call ran. `ToolExecution` leaves that out, as the results of modifying tools are
  counts and names (`NavisworksToolService.cs` 747, 828).

### Services

* **Search** (`MCServices_proofs`). Matches that were delivered, plus those at hand,
  are what the scan has passed, all of one content (`ExactlyFound`); identifiers at
  hand are `Issued`, so a new one is none of them; two callers on one search spoil
  it. `SearchAlwaysExact`. `IdentityStandsForContent` from `IdentityInv`: an identity
  in use is the last one minted, and what was reported under it is what the
  document holds.
* **Guard** (`MCServices_proofs`). What is executed after a warning depends on the
  order of three tests in `beforeCall`; `GuardInv` says that a decision exists only
  after a warning, a question only with a decision, and that nothing was executed
  last where a warning was given; `Repeating` needs all results to be the first,
  so a third result can be there only if the first two differ.
  `RepetitionAlwaysNoticed`.
* **Epochs** (`MCServices_proofs`). `EpochInv`: the copy a run works on tells its
  snapshot as the file does, and goes on as the file until it is settled.
  `PrefixStays`, `ContextAlwaysTold`.
* **Capabilities** (`MCServices_proofs`). `CapabilityInv` is about two loops over the
  providers, stopped anywhere: what is registered, and who has been told the run's
  outcome, is exactly what the loop has passed. `CapabilitiesAlwaysServe`.
* **Settings** (`MCStores_proofs`). A write changes what it has read earlier;
  `SettingsInv` says that writers stand in one queue whose head alone has read the
  file (`InOneQueue`), and that what the head has read is what was answered last
  (`HeadIsCurrent`). `SettingsAlwaysKept`, `NothingElseSwitchedOn`.
* **Window figures** (`MCStores_proofs`). `WindowInv`: when no question to the main
  process is open and no answer crossed another, the last answer to come (`Latest`)
  is what the settings say. **Values** (same module). `ValueInv`: what main, the
  screen and the run hold, and what the user chose, is what main makes of the file
  (`MainValue`); the lemmas are about filtered sequences and the first override of
  each reference.
  `ShownAlwaysRuns`.
* **Documents** (`MCStores_proofs`). `DocumentInv` relates each remembered identity to
  the revision it was seen at (`AtRevision`): what a session was told, and what its
  run works with, was the current document at that revision.
  `DocumentAlwaysCurrent`.
* **Results** (`MCRequests_proofs`). That a pointer is to its own result needs the
  ids of calls: `StoreInv` says that a call of the round under way has an id under
  which nothing is stored before its result is delivered, and that what was read of
  a list is a beginning of it and what is no list was read whole or not at all.
  `ResultsAlwaysReadable`. A provider that repeats ids breaks it (`CallIds` is a
  parameter; the theorem is for `FreshIds`, where no id is given twice).
* **Requests** (`MCRequests_proofs`). `RequestIsWhole` speaks of the moment a request
  is sent; `WholeInv` says why that moment comes out right. The frames are history,
  turn and rounds in this order (`FramesInForm`); they keep their order, every round
  is in one of them and the last `Keep` rounds stand alone at the end (`StoryIsKept`);
  what is sent is the end of the frames, cut before the turn or where it fits
  (`RequestIsEnd`); and as long as nothing was added after a result in full, turn,
  rounds and this round's results fit (`RoundFits`), a statement about sums of
  sizes: compaction may keep it only where the summary is no longer than what it
  replaces, and a longer one of rounds counts as added. `RequestsAlwaysWhole`.
  What it needs of sums (that they exist, grow, agree on equal parts, and shrink
  when a summary replaces frames) is proved from the least counterexample
  (`Least`), since the library's induction theorems take an operator.

### Only model-checked

Everything under fairness, which is beyond the proof system: `EveryoneGetsIn`, the
fair part of `ServesInOrder`, `LetThroughOrAbortedEnds`, `WaitsEnd`, `StopReleases`,
`BridgeComesAndGoes`. Every invariant and every action property that a passing run
checks is also a theorem. The properties of the four runs that expect a
violation are false of the code and stay counterexamples.

## 6. Not modelled

* Reading tools of the plugin other than `find_items`, partial effects inside one
  tool, and read-only calls and unbound runs in the ladder: they touch neither
  record nor lock.
* One run of the agent as a whole. Its loop appears once per concern (tasks,
  request, context, capabilities, guard); their product is out of TLC's reach,
  and they meet in few places: a round's end, an abort and the settlement, which
  each of the modules has.
* The cache of background runs in the window, pinning, layout and the display
  components; prompts and the parsing of model answers (`TaskRuns` takes any
  verdict); skills beyond being a source of the context.
* `index.ts` beyond the order of quitting, checks on senders and URLs, preload,
  the plugin kernel (a library), build, installer and the knowledge base:
  conditions without state, or no part of the program's logic.

Worth proving next, with what is there: a composition of `BridgeLink` with
`ToolExecution` in place of its exchange actions. What these need of the pipe is
`CallsAlwaysRunAsReported`; that both together serve one request of one call is not
stated anywhere.
