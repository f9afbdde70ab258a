# Lucid Fin: TLA+ models of the Run system

Lucid Fin is a desktop studio for generated films. A user talks to a *Chat*; each request starts
a *Run*, a durable agent loop that calls a model provider, calls tools, edits the project, waits
for the user, pauses, is cancelled, survives a crash, and delegates to child Runs. Around
that loop stand the authorities it works on: the Project's documents and decisions, the owners of long
and paid work, the Chat and its records, the media library. This directory models the loop and these
authorities. Paths below are relative to `src/`.

## 1. The system

```
 renderer --IPC--> main process: host commands --> storage authorities (one SQLite transaction each)
                        |  notifyDurableRunWork          ^
                        v                                |
                 runtime controller --starts/aborts--> coordinator (one async task per Run)
                                                         |  quote, stream, tools (awaits)
                                                         v
                                             model provider, owners, ffmpeg, browsers
```

Everything runs in one JavaScript thread. Storage is synchronous (`withImmediateTransaction`), so
a transaction is atomic and two transactions interleave only where the coordinator awaits.

### Inventory

| Component | Source | State | Operations | What is hard | What makes it correct |
|---|---|---|---|---|---|
| Run and Inbox | `authorities/runs.ts`, `internal/run-control.ts`, `contracts/src/run.ts` | status, revision, Inbox rows, Activation rows | follow-up, pause, resume, cancel, deliver, consume, start/end Activation, terminalize | commands land between any two steps of the task | contract tables, FIFO exactly-once service, nothing after the end |
| Harness | `authorities/harness-runtime.ts`, `internal/operation-dispatch.ts`, `internal/model-attempt-records.ts` | attempts, tool calls, dispatches, open journal step | prepare, mark, settle attempt; prepare, settle dispatch; atomic tool boundaries; recovery closure | settlement races with control, crash between any two transactions | one unresolved frontier, steps bracket work, one settlement |
| Coordinator | `runtime/src/index.ts` | request head, program counter | `coordinateRun`, `runActivation`, `runModelAttempt`, tool execution | state read before an await and used after | re-reads before writing, no lost message |
| Runtime controller | `apps/desktop-main/src/runtime-controller.ts` | tasks, abort signals, notification generation | sweep, start, abort, drain, boot, reconcile, close | lost wake-ups, late aborts | queued work is served, stopped Runs release their task, restart recovers |
| Host interactions | `storage/src/host/index.ts` | pending questions and confirmations | answer, confirm, deny | the Run moves while the user thinks | a waiting Run can be answered |
| Run tree | `internal/child-run-delegation.ts`, `internal/run-control.ts`, agent tools | parent links, grants, open waits | spawn, send, wait, result, cancel, subtree control | parent pauses or ends while children work | no orphan, no work under a paused ancestor, authority only narrows |
| Tool programs | `authorities/harness-runtime.ts`, `runtime/src/index.ts` | a child Run's steps and calls | delegate, prepare, settle, advance, aggregate | cancellation and exits between a call and its step | the parent hears once, of a child that is over |
| Root acceptance | `internal/root-run-acceptance.ts` | Chats' Runs, command ids | accept, replay, crash retry | duplicated commands, crash between closure and retry | one active root per Chat |
| Resource ledger | `internal/run-resource-ledger.ts`, `run-budget.ts`, `operation-cost-ledger.ts` | reservations, settlements, exposure, hard limit | reserve, settle, release, mark unknown | operations overlap on one budget; entries are replayed | held and charged cost never exceed the limit, every reservation closes once |
| Owner operations | `authorities/generation.ts`, `media-derivations.ts`, `delivery-operations.ts`, `result-assessments.ts`, `internal/operation-owner-records.ts` | operation attempts, cost, cancellation requests | prepare, submit or claim, poll, settle, cancel | work whose outcome is unknown, two clients on one attempt | never submitted twice, outputs exist, cancellations end |
| Protected mutations | `internal/protected-mutations.ts`, `internal/protection-guard.ts` | protections, held plans | plan, hold, apply, deny | the plan is shown on one state and committed on another | exactly what was shown, by exactly one answer |
| Canvas, Sequence, Project | `authorities/canvas.ts`, `sequence.ts`, `projects.ts` | revisioned documents, receipts, Project events | create, mutate, rename, archive, replay | two authors on stale revisions, repeated requests | no lost update, well-formed documents, exact answers |
| Production, Choices, Delivery | `authorities/production.ts`, `user-choices.ts`, `delivery.ts` | objects and relations, decisions, protections, plans, Manifests | mutate, decide, protect, undo, place, freeze | undo over later changes | decisions cite Choices, undo restores, a Manifest keeps |
| Chat and records | `conversations.ts`, `task-lists.ts`, `compactions.ts`, `internal/run-journal.ts` | Messages, TaskList, compactions, journal | send, rename, archive, page; manage; stages | the same revision is read by several writers | rows are what the journal tells |
| Media store and library | `internal/filesystem-media-cas.ts`, `authorities/global-media.ts`, `project-media.ts`, `media-preview.ts` | files by hash, assets, references, preview grants | pick, import, remove, attach, preview, list | awaits inside an import, exits, repeated requests | a recorded file is complete, one asset per request |
| Event feed | `ipc/push-gateway.ts`, `ipc/router.ts` | subscriber cursors | publish, retry | failed sends | not modelled |
| Store kernel, schemas, plugins, renderer, media engine | `kernel/`, `contracts/`, `plugins.ts`, `desktop-renderer/`, `media-engine/` | - | - | I/O, parsing, UI | taken as given |

`PROJECT.json` lists each with its status; its `hazards` are the places where the code can go wrong
in a way a test hardly reaches, each with the properties that speak about it.

## 2. Modules

| Module | What it is |
|---|---|
| `RunContract` | the shared state tables (`contracts/src/run.ts`), as sets and functions |
| `RunMailbox` | abstract specification: what a Run promises to its messages |
| `RunHarness` | the detailed specification of one Run: rows, coordinator task, controller, crash and recovery |
| `SpendAccount` | abstract specification: what a Run's ledger promises under a finite budget |
| `Generation` | paid generations: attempts, ledger entries, the task and the cancellation sweep, an external provider |
| `RunTree`, `AgentTools`, `ToolProgram` | Runs under Runs: control of a tree and its tasks; the answers that act on Runs below; programs of read tools |
| `RunForest` | the three put together with root acceptance, process exits and the start of the application |
| `OwnerAttempts` | what the other owners of long work share: the attempt row, its transitions, cancellation |
| `MediaDerivations`, `ResultAssessments`, `DeliveryOperations` | the owners, each with its transactions and the resumptions of a client |
| `OwnerOperations` | the owners put together: calls, task, sweep, local work, provider, edits, exits |
| `OwnerScheduling` | when the Run's task takes an open call up again: throws, notifications, the next start |
| `ProjectLedger` | what every command on a Project shares: the Project row, request receipts, Project events |
| `SequenceAuthority`, `CanvasAuthority` | the documents and their commands |
| `Workspace` | a Project with both, edited by Wire requests and by `canvas.mutate` calls |
| `ProductionAuthority`, `UserChoices`, `DeliveryPlan` | Production objects; decisions, protections and undo; Deliveries and Manifests: how a change is planned |
| `ProtectedMutations` | the same changes asked by the user and by Runs: planned, held, confirmed, committed |
| `RunJournal`, `TaskLists`, `Compactions`, `Conversations` | the journal of a Run; the records kept beside it; Chats and Messages |
| `ChatRecords` | a Chat, its Run and all these records together |
| `MediaStore`, `MediaLibrary` | bytes on disk; the library, references, previews and lists over them |
| `RunHarnessProofs` | the inductive invariant of `RunHarness`; its action properties and the refinement of `RunMailbox` |
| `GenerationProofs` | the inductive invariant of `Generation` and its theorems, the provider's side of it, and its refinement of `SpendAccount`; an account that holds before it pays stays within its limit |
| `RunForestProofs` | the inductive invariant of `RunForest`, its safety invariants, and who may ask the model |
| `OwnerOperationsProofs` | the inductive invariant of `OwnerOperations`: outputs exist, paid work is accounted, recorded cancellations win |
| `MediaLibraryProofs` | the inductive invariant of `MediaLibrary`: bytes behind records, one asset per request, previews, lists read by pages |
| `WorkspaceProofs` | the inductive invariant of `Workspace`: documents keep their shape, events tell the story, answers agree, tools are told |
| `ProtectedMutationsProofs` | the inductive invariant of `ProtectedMutations`: containment, what decisions and plans cite, what protected fields and undos keep to |
| `ChatRecordsProofs` | the inductive invariant of `ChatRecords`: records follow the journal, lists stay trees, Messages are whole, pages read by a reader |
| `MC...` | the instances TLC checks |

How they build on each other (EXTENDS):

```
 RunContract <- RunHarness (implements RunMailbox)
             <- RunTree <- AgentTools <- ToolProgram <- RunForest
 OwnerAttempts <- MediaDerivations, ResultAssessments, DeliveryOperations <- OwnerOperations <- OwnerScheduling
 ProjectLedger <- SequenceAuthority <- CanvasAuthority <- Workspace
               <- ProductionAuthority <- UserChoices <- DeliveryPlan <- ProtectedMutations
               <- RunJournal (and RunContract) <- TaskLists, Compactions --+
               <- Conversations ------------------------------------------+- ChatRecords
 MediaStore <- MediaLibrary            Generation (implements SpendAccount)
```

A module that takes one thing apart sees the rest of the system coarsely: a Run is a program counter over its
rows in `RunHarness`, its last model answer and its open call in `RunForest`, a flag in `OwnerOperations`. What
one module takes as an action (`BoundCall` of `RunHarness`, `ExportCall`, `ProtectedCall`) is the subject of another.

### `RunHarness`

*State.* `status`, `revision`, `inbox`, `activation`, `attempt`, `call`, `step`, `interaction` are the
durable rows (only the latest Activation, attempt and call, since earlier ones are settled and never read
again by the modelled code). `task` is the coordination promise: a program counter, the journal head
and Inbox length its frozen request was built from, and its abort signal. `host` is the main process,
`woken` the notification generation against the last one the controller has seen.

*Actions.* One action is one immediate transaction, or one resumption after an await. The counters
`quoting`, `streaming`, `executing` are the awaits of `runModelAttempt` and the tool executor: only
there (`Awaiting`) may a user command come between. At the other counters the thread runs straight on, so
only `Crash` may come between two transactions, which is exactly what a process exit can do.

| Code | Action |
|---|---|
| `sendFollowup`, `controlRun`, `interaction.answer`, `confirmation.respond` | `SendFollowup`, `Pause`, `Resume`, `Cancel`, `AnswerQuestion`, `RespondProtected`, `ApproveExport`, `DenyExport` |
| controller sweep | `StartTask`, `AbortTask`, `OtherWork` (another Chat's command moves the shared generation) |
| `coordinateRun` | `Defer`, `CoordinateFailure`, `ReenterActivation`, `Deliver`, `StartActivation` |
| `runActivation`, `runModelAttempt` | `ConsumeInbox`, `QuoteDiscarded`, `QuoteYields`, `PrepareAttempt`, `QuoteThrows`, `MarkRunning`, `StreamDiscarded`, `StreamThrows` |
| `settleModelAttempt` and the boundaries | `FinalAnswer`, `ReadCall`, `ProtectedCall`, `ControlCall`, `BoundCall`, `ExportCall`, `AskQuestion`, `AtomicCallRejected`, `ProviderFailure`, `ProviderLost`, `FailRun` |
| tools | `PrepareDispatch`, `ReadReturns`, `OwnerReturns`, `OwnerDiscarded`, `ToolThrows`, `ProtectedCommits`, `ProtectedHolds`, `ProtectedThrows` |
| exit, start, reconciliation | `Crash`, `Boot`, `ReconcileDone`, `CloseInterrupted`, `ReconcileThrows` |

*Abstractions.*

- About forty tools are five: they differ, for control, in how the call is settled. `control` settles
  attempt, dispatch and effect in one transaction; `read` needs a prepared dispatch and a later settlement;
  `bound` leaves a dispatch open while an owner works (generation, derivation, `agent.wait`, `tool.program`);
  `export` is held for a confirmation and then runs; `protected` commits or is held.
- `revision` counts the journal heads the Run advances to; events and hashes are left out. The request's
  freshness (`OnlyInboxGrew`, `SuffixLegal`) is read off it as the code reads it off the event suffix.
- User commands carry an expected revision. A stale one is rejected and the user sends it again, so the
  accepted command is the only one with an effect.
- Skill proposals and the finish reasons `length` and `content_filter` make the coordinator throw and are part
  of the reply `throw`.
- When the abort signal is set and the Run is runnable again, `coordinateRun` returns at once without a write
  and is called again at once: a stuttering step.
- A held dispatch is not part of `RecoveryRequired`: the code asks only while the Run is `running`.
- No code moves a Run to `recovering`; the state stays in the table only.
- After a crash retry the new Run is another instance of this module; `RunForest` has both.

### `RunMailbox`

Messages are waiting, taken or withdrawn; a Run is open, completed, stopped or cancelled. Messages are taken
in order, at most once; a completed Run has taken all; an ended Run takes none; cancellation withdraws all but,
at most, the one the Run already holds. `RunHarness` implements it under
`queued, delivered -> waiting`, `consumed -> taken`, `cancelled -> withdrawn`.

### `Generation`

One `BoundCall` of `RunHarness`, opened up: the call `generation.submit` and everything that happens to its
operation until it ends, for all operations of one Run.

*State.* `row` is the attempt row with its two reservations, cost and count; `dispatch` and `run` are the
rows of the call and of the Run; `stale` marks operations whose Project was edited since. `client` holds the two
in-process actors that may await on the same operation: the Run's task and the sweep that drains requested
cancellations. `job` and `wire` are the provider and the way to it.

*Actions.* An action is one resumption: the thread runs over one or more transactions to the next await. The
transactions are functions of the row (`Prepared`, `Recorded`, `Unknown`, `GivenUp`, `Paid`, `Claimed`,
`CancelRequested`), and a resumption ends by `Store`, `Returns` or `Throws`. `behind` says whether the row moved
since the client read it, which is all the code's revision comparisons ask; `moves` counts the revisions within
a resumption and is 0 between actions. A process exit between the receipt and what follows it in the same
resumption is `CrashAfterReceipt`; at every other point one resumption is one writing transaction, or a throw.

| Code | Action |
|---|---|
| `settleGenerationSubmitStartBoundary`, `executeGenerationSubmitBoundary` | `Call`, `Enter`, `Settle` |
| `generation.submit`: quote, `prepareGeneration`, answer | `QuoteRejected`, `Submit`, `Submitted` |
| `generation.reconcile`: look up, cancel, resubmit | `Reconcile`, `Reconciled`, `CancelAnswered`, `VerifyFails`, `Resubmit` |
| `processProviderState`, `finishWithReceipt` | `Processes`, `Publish` |
| `operation.cancel`, `controlRun` cancel, `drainRequestedOperationCancellations` | `CancelOperation`, `CancelRun`, `Sweep` |
| adapter and provider (external) | `Arrives`, `Refuses`, `LosesSubmission`, `Ends`, `RepliesTruly`, `RepliesVaguely` |

*Abstractions.*

- The provider works once per idempotency key, and what it says is true when it says it; an answer may be
  late, vague or lost. `"late"` in `Events`, which the run leaves out, lets it also say `not_submitted` while a submission is on
  its way (section 3).
- An edit of the Project, the target or a reference is one bit per operation: publication and resubmission
  compare them and throw or give up. An expired quote is the choice to give up in `NotSubmitted`.
- Pausing is not an action here: it aborts the task, which leaves the row as it is and enters the open dispatch again
  after resume. `Throws` and `Crash` followed by `Enter` give the same sequences.
- One sweep drains at a time; a second drain would be one more client like it.
- Amounts are naturals: money is a decimal string in the code, compared exactly.
- Outputs are published or not; their contents and the Project events are left out.

### `SpendAccount`

Holders hold an amount once, are closed once for at most what they held, and the balance of both stays within
the limit. `Generation` implements it with the exposure of the Run as the balance.

### `RunForest` (`RunTree`, `AgentTools`, `ToolProgram`)

*State.* `runs` holds each row with its place in the tree (`above`), what it was given (`grant`) and told, what its Activation
has open (an attempt, a wait, a program), whether that attempt's request is `fresh`, and whether a Run it waits for has
`moved`. `task`, `sweep` and `attempted` are the controller; `host` and `todo` the start of the application.

| Code | Action |
|---|---|
| `run.sendFollowup`, `controlRunSubtreeInTransaction`, `message.send` | `enqueueFollowup`, `Pause`, `Resume`, `Cancel`, `acceptRootRun` |
| `drainRunnableRuns`, `coordinateRun` | `Sweep`, `Defer`, `Fail`, `Begin`, `RefuseProgram`, `Resumed`, `Continue`, `Discard`, `Throw` |
| `settleAgentSpawn` ... `settleAgentWaitBoundary` | `settleAgentSpawn`, `settleAgentSend`, `settleAgentResult`, `settleAgentCancel`, `settleAgentWaitStart`, `PollWait`, `WaitTimesOut`, `ReenterWait` |
| `settleToolProgramBoundary`, `advanceToolProgramChild` and its executor | `settleToolProgram`, `ExecuteToolProgram`, `SettleToolProgramChildCall`, `AdvanceToolProgramChild`, `ToolProgramThrows` |
| `recoverAndReconcile` | `Crash`, `Boot`, `reconcileInterruptedRun`, `recoverRun`, `acceptCrashRetryRootRun`, `Started`, `Restart` |

*Abstractions.* A right stands for a tool, a policy, a budget or a piece of context: delegation compares them as sets. A
request's freshness is one bit, cleared whenever another transaction moves the Run. A program's steps run in order and
its calls read only, so a call is open or over. A wait may time out at any poll. Aborting a model request or a wait ends its task in the
same turn; the executor of a program is not interrupted (`stopped`), and what becomes of its aborted task is `AbortedReturns`.

### `OwnerOperations` (`OwnerAttempts`, `MediaDerivations`, `ResultAssessments`, `DeliveryOperations`), `OwnerScheduling`

*State.* One `row` per call with its ledger flag, its `dispatch`, the two clients that may stand between two awaits of the
same attempt (`task`, `sweep`), the `job` (a child of the process, or the provider's), the store (`cas`), the `file` at an
export's destination and the grants in memory. `kind` picks the six kinds of work: local derivation, transcription, local
check, provider judgement, Review Cut, export.

*Actions.* One resumption of a client each: `Execute`, `Prepare...`, `Continue`, `Verified`, `Resolved`, `Worked`, `PutBlob`, `Publish`,
`Stopped`, `Answered`, `Settle`; the sweep (`Sweep`); the user (`PickDestination`, `AnswerExport`, `CancelOperation`, `CancelRun`); the
provider (`Reply`, `Vague`, `Provide`, external), local work (`Work`), `Edit`, `GrantExpires`, `Crash`. A client that was overtaken is
no longer `fresh`, which is what the code's revision comparisons ask; a transaction that throws returns `Refused`.

*Abstractions.* What a call froze (source, subjects, Project revision) is current or not. Costs are a flag, since `Generation`
does their arithmetic. A film at a destination is absent, being written, or complete.

*Scheduling.* `OwnerOperations` lets an open call be executed at any time, which is all its theorems need. `OwnerScheduling` adds who does it:
the coordination task, which a throw of an executor or a settlement ends (`Threw`), as does waiting for the user. A sweep starts another only
for a notification (`Notified`): of a command that decides or cancels, of any other that may give a Run work, or of the next start. A
notification that comes while the task still goes is remembered (`again`). The start of a task is one step with the notification that
allows it: nothing durable can tell the two apart. A start that fails because re-entering the call throws is a throw here, and the
next one a notification.

### `Workspace` (`ProjectLedger`, `SequenceAuthority`, `CanvasAuthority`)

*State.* `project` is the row or `Absent`; `sequences`, `canvases` and `receipts` are tables, functions on the ids that have a row; `events` is
the Project's chain;
`heads` the Production objects a document may show. `answers` is history: every response a caller was given.

*Actions.* A command is one immediate transaction, so one action, and a command that throws is not taken. `MayRun` and
`Replay` are `executeWireMutation`: a request that ran is answered from its receipt when it asks the same, refused otherwise;
a dispatch runs once. The operations on a Sequence or a Canvas are the operators with the source's names. Authors
act on a revision they read now or one change ago.

*Where it begins.* `Seeds` is a parameter: the empty store, or Projects edited before. `SeedsAssumption` asks of each what `SeedStands` says: documents
their validators took, whose events tell of them; TLC evaluates it, and the proofs show that every state reached is such a Project again.

*Abstractions.* Positions, sizes and z-indexes are small numbers, texts are two names. `MaxZ` and `MaxBatch` are parameters, so that
their refusals happen.

### `ProtectedMutations` (`ProductionAuthority`, `UserChoices`, `DeliveryPlan`)

*State.* `objects`, `choices`, `deliveries`, `manifests`, `media` are the content; `runs` and `dispatches` the Runs that ask for changes
and wait.

*Actions.* `plan...` operators return the set of plans of an input on the present rows: none when the code throws, one otherwise. A
plan names the rows it writes, the protected fields it touches and the Choices that protect them.
`executeWireMutation` commits the user's plan; `prepareProtectedMutationBoundary` commits a Run's plan at once or holds it;
`respondProtectedMutationConfirmation` plans again on what everything is then and commits only the change that was shown. Freezing, project
media (`attach`, `detach`, `link`) and `RunLeaves` go on meanwhile.

*Where it begins.* `Seeds` are Projects that stand (`SeedStands`: the empty one, or rows and Choices as earlier commands leave them), without a
Manifest, a receipt or an open call. TLC evaluates this of the seeds of the runs; the proofs show that every state reached stands in the same way.

*Abstractions.* Ids a command creates are named after its author. The content of an object is one of few values; the effect of a
Choice is kept as the values it set. Hashes of plans and targets are the plans and targets.

### `ChatRecords` (`RunJournal`, `TaskLists`, `Compactions`, `Conversations`)

*State.* The Chat with its Messages and their search documents, one root Run with Inbox, Activation, attempt and question, its
`journal`, `taskList`, `transactions` and `views`; `walk` is a reader between two pages.

*Actions.* `createChat`, `mutateChat`, `acceptRootRun`, `sendFollowup`, `answer`, `cancelRun` by the user; `deliver` ... `settleFinalAnswer`, `settleTaskManage`,
`settleInteractionAsk` by the Run; the four stages of a compaction; `closeInterruptedActivation` after an exit; the pages of a reader.

*Where it begins.* `Stories` are Chats with what was said in them and, of a Run in any state, its journal and its list, as `StoryStands` asks: the row
counts the Messages, the journal names the answer and tells of the list revision by revision. No compaction has begun.

*Abstractions.* A batch of events is its payloads, of which only those another record refers to are told apart. What a Message
says is whether it has text. Of the TaskList schema only what makes a list a tree is kept: its bounds (1000 items, 100 child Runs of an item, which
adding and updating do not look at) are left out, so `EditsKeepTheTree` says nothing of them.

### `MediaLibrary` (`MediaStore`)

*State.* The user's `file`, the picker's capabilities, the content-addressed `objects`; the rows of blobs, assets, references and
results; imports on their way (`calls`) with their receipts; preview `grants` and one response; one list being read.

*Actions.* An import is five resumptions (`importGlobal`, `WritePart`, `LinkPart`, `Verify`, `Commit`), between which the user edits the file, another
import of the same request runs, an object is damaged from outside or the process exits. `issue`, `respond`,
`openVerifiedFileRange` and `EndOfBody` are a preview; `BeginList`, `ListPage`, `CloseList` a list.

*Abstractions.* A content stands for its bytes and its hash. Time moves or stays between two writes, so rows may share a timestamp.
A hash collision does not happen.

## 3. Runs

| Run | Question | Result |
|---|---|---|
| `core` | one root Run with its task, user, provider, tools and an exit | pass, 203,264 states |
| `paid` | paid generations: one under every disturbance, two that compete for the budget | pass, 268,294 states |
| `run_tree` | a root and two children under agent tools, a program and two commands of the user | pass, 670,187 states |
| `run_calls` | two roots and a child: a wait, a program of four steps, a command, an exit and recovery | pass, 145,357 states |
| `owner_operations` | each kind of long work, two clients, every disturbance, throws and notifications | pass, 147,596 states |
| `workspace` | a Sequence and a Canvas edited by two requests and a tool call | pass, 69,907 states |
| `decisions` | the user and two Runs change, decide, protect and undo | pass, 407,008 states |
| `delivery` | the same for a Delivery, with freezing and media that moves | pass, 368,649 states |
| `chat_records` | a Run keeps its records while its Chat is used | pass, 128,901 states |
| `media_library` | imports, previews and lists beside each other | pass, 1,616,378 states |
| `question_binding` | can a waiting Run always be answered? | violated: a follow-up moves the revision |
| `startup_recovery` | does the application always start again? | violated by an interrupted child Run |

What each property says is in the comment above it. In short:

- *One Run.* `RunSafety` joins the invariants of `RunHarness`: `StepBracketsWork` and `OneFrontier` say what an exit may find,
  `WaitingHasInteraction` that a waiting Run waits for something, `CompletedRunAnsweredEverything` and `ServedInOrder` that no message
  is lost, skipped or served twice. `SettledOnce` and `NothingAfterTheEnd`: an answer that comes late changes nothing it must not.
  `ImplementsMailbox` is the refinement. `CalmMessagesAreServed`, `StoppedRunReleasesTask` and `CalmRestartsRecover` are its liveness. The first
  says that pauses and resumes at any await, late messages and an exit strand no message, but in the two ways it names: `Spins` and
  `LeftOpen` (both below). Without either exception TLC finds it violated.
- *Money.* `LedgerFollowsAttempt` and `SpendIsCovered` relate it to attempts, `NeverSubmitsCancelled` says what a late client may no longer do,
  `ImplementsAccount` is the refinement, `CancellationDrains` says that a cancellation ends.
- *Trees.* `OnlyRecoveryOrphans`, `AuthorityNarrows`, `PausedTreesRest`, `ProgramsEndWithTheirChild`, `CallsBelowReturn`.
- *Owners.* `SucceededOutputsExist` and `PaidWorkIsAccounted` hold across exits and lost answers; `LocalCancellationWins`,
  `RequestedCancellationsEnd` and `OpenCallsReturn` say how a call ends. Nothing but a notification brings a task back that threw, for
  instance because the store failed, so `OpenCallsReturn` has `[]Stranded` as its last way out: no command and no start ever follows.
- *Documents.* `DocumentsWellFormed`: no legal sequence of commands leads to a document its own validator would refuse.
  `EventsTellTheStory`: no lost update. `AnswersAgree`: a repeated request is answered alike. `ToolsAreToldWhatChanged`, `ArrangedStandApart`.
- *Decisions.* `DecisionsRule` (`ProtectedFieldsHoldStill`: nothing protected moves but by the user or by exactly what was approved; `UndoRestores`),
  `DecisionsCiteTheirChoices`, `PlanCitesItsChoices`, `ContainmentIsForest`.
- *Records.* `RecordsFollowJournal`, `EditsKeepTheTree`, `MessagesAreWhole`, `WalksReadEveryMessageOnce`.
- *Media.* `LibraryIsBacked`, `OneAssetPerRequest`, `PreviewsShowTheirMedia`, `WalksShowWhatStood`.

### Bounds

*`core`.* Its world is chosen in the beginning. In the rough one every reply and every fault may come. In the calm one nothing throws without
a cause, no atomic call is answered after a message that came behind its request, and nothing protected is changed (the first is the hazard at
`harness-runtime.ts:2426`; an exit just before a protected boundary keeps the application from starting, as in `startup_recovery`). Three messages (two in the rough world) make "newer than the
trigger" happen; two attempts make a tool call and its continuation, or an attempt that a pause took away and the next; two controls make
pause and resume (and pause, cancel); one exit may come at any step, and recovery runs after it. In the calm world a pause does not take
the last attempt the bound allows (`PausesLastAttempt`), after which the model could not go on. Liveness is asked in the calm world, since in
the rough one a throw may strand a Run until the next start (below).

*`paid`.* Its corner is chosen in the beginning: one operation with clock, edits, lost and vague answers, cancellation and an exit, or two
that compete for a ceiling of one with nothing but cancellation. A client touches only its own row, so one operation is enough for what
two clients do to a row, and the budget needs two. Charges below and above the quote both occur. Unpriced quotes, unlimited budgets
and larger ceilings are covered by the theorems, not by this run.

*`run_tree`, `run_calls`.* In `run_tree` two children, so that a tree is two deep or two wide, and two commands, so that what was paused is
resumed, there or elsewhere in the tree, at any step; no exit. In `run_calls` one child, a program of a map of two calls, a pure step, a
validation and a call, one command and one exit, and two roots, so that a crash retry and a next message find their Run. Both have two
calls; one right is essential and one is context, so that a child may be without either. Together they would not end in time.

*`owner_operations`.* One call, of any of the six kinds, with both clients: attempts share nothing but the store and the budget. One exit.

*`workspace`.* It begins with no Project, or with a Sequence of two scenes, two shots and a clip and a Canvas with three placements in
which everything is linked to something; two commands are answered, of two requests and a dispatch. Two are enough for
one to overtake the other, and the furnished document makes every operation possible at once; `AnswersAgree` needs a third, repeated one,
which `Replay` does not count.

*`decisions`, `delivery`.* Two answered commands, after decided and undecided Projects (with a selection and a content protected) and
Deliveries of two items (with and without a protected order); two Runs that may hold a confirmation while the user and the
other Run go on; one Manifest, one move of media.

*`chat_records`.* A Chat with an earlier exchange and no Run, a Run in the middle of an attempt, and one with a TaskList of two levels;
two requests, nine events, two edits of the list, one compaction; of a reader, a list and a compaction one at a time (`MaxBusy`), because
they meet only in the Run's revision.

*`media_library`.* Two imports under way of one request, two contents, two assets, pages of one row, one capability; one fault of any sort;
two things under way at a time.

`CHECK_DEADLOCK` is off in every run: a Run that has ended, a Project nobody edits and a request that is answered really stop.

### Fairness

- `RunHarness`: weak fairness of the task (a promise that is settled is resumed; providers and tools have time-outs and settle
  their promises), of the sweep (`StartTask`, `AbortTask`) and of start-up (`Recovery`: a user opens the application again). None of a user
  command, a fault or an exit.
- `Generation`: weak fairness of the task and of the sweep, which comes round at every wake and start; of the provider's `Arrives`, `Ends` and
  its answers to the task (an adapter call settles); strong fairness of true answers to the sweep: a provider that is asked again and
  again does not stay vague for ever. None of users, edits, losses or exits.
- `RunForest`: weak fairness of the sweep and of each task's resumptions: the event loop runs what is ready, timers fire, a read tool
  returns. None of model answers: a Run below that never ends is what the time-out of a wait is for.
- `OwnerScheduling`: weak fairness of resumptions, of local work, of the provider, of the sweep, which comes round at every wake and start, and of
  a task that goes (`TakesUp`); strong fairness of true answers and of a store that writes, for the same reason as above. None of
  notifications: a call whose task threw waits for one.
- The other modules state safety only: their commands are single transactions that callers may or may not send.

### Findings and observations

Each of the two violation runs shows a behaviour of the code that a comment, a check or a plan of the repository says otherwise
about; `PROJECT.json` quotes them. Others were met while modelling and are not kept as runs:

- A follow-up that arrives while the answer is an atomic tool call makes its boundary throw (`harness-runtime.ts:2426`); the attempt
  stays open and the Run is not served until the next start closes it.
- A Run that is paused and resumed before its aborted task is back gets no new task (`runtime-controller.ts:201`): the old one calls
  `coordinateRun` with its aborted signal, which returns without an await on anything but settled promises, again and again. The event loop is not given
  back, so the main process hangs. `Spins` is this state in `RunHarness`, and `run_tree` reaches it too (`host = "hung"`): a program's tool is at work, `Pause`, `Resume`, and the tool answers. The read
  tools shipped today answer at once; a media process that is being stopped does not.
- A receipt that is processed at another instant than its generation was counted is a conflict of the ledger entry
  (`run-resource-ledger.ts:288` compares `recordedAt`), so such an operation cannot be booked: `Unbookable` in `Generation`.
- Recovery closes a root without looking at what lives below it (`harness-runtime.ts:12651`, against `runs.ts:269`): `OnlyRecoveryOrphans` names
  this exception.
- A child that waits for a sweep while its parent's `agent.wait` polls is started only when something else notifies the
  controller (`runtime-controller.ts:251`); the wait ends by its time-out.
- A Chat may be archived or deleted under a live Run (`conversation-write.ts:400`), whose final answer is then refused, and whose crash retry
  stops the start (`root-run-acceptance.ts:795`).
- A program's child with open calls that is interrupted at exit stops the start too when its id sorts before its parent's
  (`scheduling.ts` lists Runs by id): it is ended before its parent, whose program still counts on it.
- A Run that is paused when the process exits keeps an open read dispatch that reconciliation does not look at
  (`runtime-controller.ts:171`): once resumed it is deferred until the next start (`LeftOpen` in `RunHarness`).
- An executor that throws, for instance because the media store does not write, ends its task with the call open. There is no timer:
  the Run stays runnable and untouched until some command notifies (`runtime-controller.ts:213`, `:251`; `Stranded` in `OwnerScheduling`).
- `not_submitted` said of a submission that is still on its way closes the operation as cancelled while the job runs: with
  `"late"` in `Events`, `SpendIsCovered` fails. The adapter calls that answer authoritative, so the kept run excludes it.

## 4. Proofs

`RunHarnessProofs` proves `Spec => []IndInv` for all values of the constants, under `BoundsAssumption` and
`KindAssumption` only (bounds are naturals, replies and faults come from their sets), and from it

- `Invariant`, `StepsBracketWork`, `CrashLeavesOneFrontier`, `WaitingIsDecidable`,
  `CompletionAnswersEverything`, `MessagesServedInOrder`, and `RunsAreSafe`, which joins them (`RunSafety`).

*Why a strengthening.* None of the invariants is inductive alone. `IndInv` adds what a transaction relies
on without reading it again: `HeldTaskDrivesRun` (between two awaits nothing but the task moved the Run, so
`MarkRunning` or `PrepareDispatch` still find it active), `WorkFollowsTrigger` (an attempt
belongs to an Activation whose trigger is consumed), `WorkNeedsActivation` (only an active Activation has open
work; a held call means waiting) and `WithdrawnOnlyByCancel`. It splits in two halves, `WorkInv` over the work
in flight and `InboxInv` over the messages, each preserved by every action (`WorkStep`, `InboxStep`), above
`TypeStep`. The lemmas before them say once what the writing helpers preserve.

and, further down, the action properties and the refinement:

- `EndedRunIsFinal`, `WorkStartsOnlyWhileRunning`, `VerdictsAreFinal`, `WritesFollowContract`, and
  `Refinement` (`Spec => Mailbox!Spec` without fairness).

Its argument is a classification (`MailStep`): every step of the Run is, for its messages, one of five moves:
a message is posted, handed over, consumed, withdrawn with the others by cancellation, or the messages are kept.
Each move is a step of `RunMailbox` or a stutter, and each is allowed by the Inbox table; the Run's, the
Activation's and the calls' tables are settled action by action in `RunTable`, `PhaseTable` and `MessageTable`.

`GenerationProofs` proves, for any finite set of operations and any quotes (unpriced ones included), charges, limits
(or none), events and number of crashes (`OperationAssumption`, `AmountAssumption`, `EventAssumption`),

- `TypeCorrect`, `LedgerCorrect`, `GenerationLimit` (invariants), `VerdictIsFinal`, `AttemptContract`,
  `OnlyOpenSubmissions` (action properties);
- `SpendCovered`, provided `"late"` is not in `Events` (see section 3: with it the property is false);
- `LedgerIsAccount` (the refinement `ImplementsAccount`) and `HardBudget` (`Exposure <= Ceiling`), provided `Ceiling` is an amount.

*Argument.* A resumption is a chain of row transactions. `Advance(r, s)` is what any such chain may do to a live row: it
stays entitled to its ledger, follows the transition table, never changes once ended, and counts its revisions.
Each transaction is an `Advance` (lemmas `Advance...`), and advances compose (`AdvanceTwice`); so each way a resumption
ends is an `Outcome` (lemmas `...Outcome`), whatever the other client did during the await. `StoreStep` commits an
outcome: the invariant `IndInv` is kept, and so is `Kept`, which the action properties follow from. `IndInv` adds to the type
and the ledger that a client at work has a row (`Bound`) and that one that verifies references and was not
overtaken still faces an open, uncancelled operation (`Verified`): the fact `Resubmit` relies on, since `behind` only
compares revisions. `GenerationLimit` adds that only `Submit` creates a row, and that no row is counted again.

*The provider's side.* `Covered` relates what clients were told to what the provider has: while a client holds `not_submitted`, or a refusal,
nothing of the operation is at the provider or on its way (`Truthful`), because only the task submits and the sweep looks only at
operations that are to be cancelled, which are never submitted again (`Sweeping`); what was released was never taken on (`ClosedRight`).
`Does` says what a resumption may do to the ledger: nothing, release an operation the provider does not have, or settle it within its
quote; every `...Does` lemma is one way a resumption ends, `DoesCovered` commits it.

*The account.* `Exposure` is a fold over a set. `SumExists` shows that its recursive function exists, `SumsDiffer` that two sums whose terms
differ in one place differ by as much. Both argue by a smallest counterexample, which `WFMin` of the library gives without an operator
parameter (`LeastNatural`, `SmallestSubset`). With `Fitting` (no quote exceeds the ceiling) each change of the ledger is then a `Hold`, a
`Close` or a stutter (`HoldAccount`, `CloseAccount`, `QuietAccount`).

`SpendWithinLimit` says that an account which holds before it pays and closes once for at most what it held stays within its limit; its
proof uses nothing of how `Generation` maps to the account. `HardBudget` is that theorem and the refinement put together.

`RunForestProofs` proves, for any Runs, rights, programs, bounds and numbers of commands and exits (`TreeAssumption`,
`StepsAssumption`: roots and children are apart, `Essential` and `Topics` are rights, bounds are naturals),

- `ForestInvariant`, `ForestTypes`, `OrphansOnlyByRecovery`, `AuthorityOnlyNarrows`, `ProgramsEnd` (invariants) and
  `RestUnderPause` (action property).

*Argument.* The tree is kept as the set `above` of each Run, so that "closed upwards" (`Tree`) replaces an induction over
depth. Around it stand `Rules` (one root above each child, whose grant bounds what is given and told below it: a message from a
Run far above is not bounded by the receiver's parent, but by their common root), `Orphans`, `Carriers` (a program's child has no
Runs below it and an Activation as long as its life, which is why ending it needs no look at the tree) and `Calling` (an open
program is a program's child). `Outcomes` relates a program to its child: no call of an ended child is open unless the child was
cancelled from outside, and then it stays so until its parent is told. `Tasks` says where a task may stand: one that is past its
first look has nothing paused at or above its Run, which is the fact `Continue` relies on without looking up.
A transaction is a change of one row (`RowStep`), of many rows that keep their place (`ManyRows`), or a new row (`Newborn`); each
kind keeps the `Forest`, and `Follows`, `Calm` and `Endings` say what tasks and programs may rely on across it. Every action is then
one or two such changes and a move of a task. `RestUnderPause` adds that every transaction but a request only lowers `fresh`
(`Lowers`, `Asks`).

`OwnerOperationsProofs` proves, for any number of operations of each kind, bounds and exits (`OwnerAssumption`),

- `OwnersInvariant`, `OwnerTypes`, `SucceededExists`, `PaidWork` (invariants) and `CancellationWins` (action property).

*Argument.* Attempts share nothing but the store, so `OwnersInv` is about single rows: `Fits` relates the row of an operation to its job, its
file and its dispatch, and `Stands` says what a client that stands between two awaits may rely on there: its answer is still true (`Holds`),
the bytes it stored are there, its attempt exists (and is to be cancelled, when the sweep looks at it), an assessment it compared is still
open. `Posted` says which client may stand where in which kind of work. A resumption is a `Turn` of one client: it `Advances` the row from
one live state to another, `Closes` it only with an end it is entitled to, and `Engages` the job; each way an owner's code goes on is one
lemma about a turn, and a turn leaves the other client what it relies on. `CancellationWins` follows from the same turns: what closes local
work as succeeded has seen the row in the same transaction, without a request to cancel.

`MediaLibraryProofs` proves, for any number of assets, references, imports, previews, contents, faults and page sizes (`MediaStoreAssumption`: the
marks for a missing or damaged object are no contents; `MediaLibraryAssumption`: asset ids are finitely many positive numbers),

- `LibraryInvariant`, `LibraryBacked`, `ImportedOnce`, `WalksShow` (invariants) and `PreviewsShow` (action property).

*Argument.* `LibraryInv` has six parts: objects hold what they are named after (`DiskOK`), rows back one another (`RowsOK`), an import that comes
to its transaction has put its bytes where they belong (`CallsOK`), a receipt names its asset (`OnceOK`), a reader's asset is still referenced
and so cannot be removed (`PreviewsOK`), and the cursor divides what a list has shown from what is to come (`WalkOK`). The last needs that
keys are totally ordered (`PrecedesIsAnOrder`), that a finite set of keys has a first and a last (`FirstKey`, `LastKey`, by the same smallest
counterexample over the number of keys before) and what one page takes from it (`PageDivides`); `Unsettles` names the rows a step moves, which
is what takes them out of "stood still".

`WorkspaceProofs` proves, for any number of documents, items, placements and commands, and any Projects to start from that stand
(`WorkspaceAssumption`: ids of Sequences, Canvases and the Project are apart, `Absent` is none of them, items are finitely many, z-indexes
are numbers; `SeedsAssumption`, see section 2; with the empty store alone it holds of itself),

- `WorkspaceInvariant`, `DocumentsKeepTheirShape`, `EventsTell`, `RequestsAnsweredAlike` (invariants) and `ToolsAreTold` (action property).

*Argument.* The inductive invariant is `SeedStands` of the present store: documents that stand, one row at most for each id, events whose last word on
every row is its revision, and no document without an event. It needs more than the properties say: the columns of every row and,
for a Sequence, that ordinals run without gaps below every item and that a clip's result belongs to the Shot above it.
Each operation has a lemma that it leaves a document standing, whatever document it is given. For a Sequence these are about order: `Sorts` shows
that items whose ordinals differ can be put in order (the rank of an item is the number of those below it, so no induction is needed),
`InOrderLists` that the order lists each once, `Numbered` and `InsertLists` that a list numbers its items 0, 1, ... also after one is inserted;
with `ItemsReplaced` a move between two parents is two such lists. For a Canvas each lemma also computes `Differences`, what really changed
table by table, and finds it equal to the receipts. `StoryGrows` says what one more event does to a log that is continuous; `SequenceTurn`,
`CanvasTurn` and `ProjectTurn` put a document and its event together, and every command is one turn, or writes nothing. `AnswersKept`
is the rest: a request has a receipt for its answer, because it may run only while it has none.

`ProtectedMutationsProofs` proves, for any number of objects, results, Deliveries, items, users' requests and Runs' calls, and any Projects to start
from that stand (`LedgerAssumption`, `ProductionAssumption`, `ChoicesAssumption`, `DeliveryAssumption`: ids of different kinds are apart, `Absent` is
no row, numbers are naturals; `RunsAssumption` with `SeedStands`),

- `ProtectedInvariant`, `ContainmentStaysForest`, `DecisionsCite`, `PlanCites` (invariants) and `DecisionsRuled` (action property).

*Argument.* `Invariant` says of containment what needs no induction over depth: a parent and its child are told apart by a set that holds all the
child contains (`ContainmentStands`); a new link joins two such sets (`OneLink`). Of an object it says that each decision and protection is the effect
of the Choice it names (`DecisionsStand`), of a Delivery that its items are numbered through and each field is what its Choice says (`PlanStands`).
The part that none of the properties shows is about undo (`ChoiceStands`): a Choice whose revision is still the owner's last one can be taken back, to
exactly what the owner showed before it. For a Delivery it also says that what was taken back can be done `again`, because an undo is a Choice
that may be undone in turn. Every change counts the revision up, which is why nothing is asked of older Choices.
`ObjectDecided`, `ProductionPlanned` and `DeliveryPlanned` say what a plan may be, whatever was asked; one lemma for each command
(`...Plan`) shows that what it plans is that. Placing, removing and reordering items and their undo change an order, about which `InsertLists`,
`RenumberedStands` and `RestoredOne` argue as in `Workspace`. `Commits` is what every commit of a plan does: all stands, Choices are kept, an undo restores, and each protected field it moves is
named by the plan, with its owner and somebody who protects it (`NamesIt`). The steps then only ask who commits: a user, a Run whose plan has nobody to
ask (so it names nothing protected), or an approval of a confirmation that holds this plan's fields, owner and effect.

`ChatRecordsProofs` proves, for any number of Chats, requests, list items, compactions and views, pages of any length, and any stories to
begin with that stand (`ConversationsAssumption`, `TaskListsAssumption`, `CompactionsAssumption`, `StoriesAssumption`),

- `ChatInvariant`, `RecordsAreTold`, `TreesStayTrees`, `NothingIsHalfSaid` and `PagesShowAll` (invariants).

*Argument.* `ChatInv` adds to the properties the shapes of the rows (`Typed`), that a Chat's revision counts its Messages and the changes told of it
(`ChatsStand`), that nothing is recorded before there is a Run (`RunStands`), and for each transaction of a compaction which events tell of it and in
which order (`Staged`). A command of the Run is a batch: what it tells of a type is what was told and what the batch holds (`TellsMore`, `TellsNoMore`, `TellsOneMore`),
so each command has one lemma about its batch and one about the rows it writes. That lists are trees is again a statement about sets: an item is not above
itself when some set upwards of it leaves it out (`NotAbove`); a new item and a removed one move their siblings, and no place is taken twice. A reader holds a
cursor, and what lies between it and where the reader began was shown; what is said meanwhile lies above (`WalkStands`).

*What the runs and the theorems share.* The runs add constraints (`calm`, `corner`, the scheduling of `OwnerScheduling`) to the specifications the theorems are
about, so what is proved of `Spec` holds in them. `WorkStartsOnlyWhileRunning`, `WritesFollowContract`, `VerdictIsFinal`,
`AttemptContract` and `GenerationLimit` are proved and are no longer properties of a run.

*Only model-checked.* Liveness: fairness and `ENABLED` are out of the prover's reach. Induction with an operator parameter is too (the
library's induction theorems cannot be instantiated); where an induction was needed, a smallest counterexample or a count replaced it. `ArrangedStandApart` is about sums along a row or
a column, which are folds: it stays with TLC. All other safety properties of the passing runs are theorems.

## 5. Plan

Done: the loop of one Run; paid operations and the account they implement; the Run tree with root acceptance and recovery; the
other owners; the documents; decisions, protections and Deliveries; the records of a Chat; the media library; and the proofs of each.
Left, in this order:

1. The places listed under hazards without a property: a follow-up in the middle of an atomic tool call, the abort signal that outlives a pause, an
   open read of a Run that is paused at exit, an archived Chat under a live Run. They are faults the models already reach (section 3); a property needs a version of the code that handles them.
2. The tokens and cost of model attempts in the same ledger.
3. The event feed: publisher cursors over persisted events, with failed sends.
4. Plugins and Skills: grants that a Run's catalog is frozen from.

## 6. Not modelled

- The event publisher and IPC push, plugins and Skills, and the token side of the ledger: state machines of their own, left for later.
- Schemas and codecs (data validation), ffmpeg wrappers, browser plugins, prompt and context construction, read tools, search queries,
  the encryption of private material: they compute data the properties do not tell apart, or are I/O.
- The renderer: its commands are the actions of the user in every module, in every order.
- SQLite is taken to commit or roll back a transaction as a whole, the file system to link a file or not.
