# A TLA+ project for the Sesame agent daemon

The Sesame agent is a Go daemon (`internal/v2`) that runs language-model agents
for the sessions of a workspace, with a terminal client, a web console and a
command line.  This directory holds TLA+ models of it, configurations that check
them with TLC, and theorems that the TLA+ proof system checks.  Source paths are
relative to `src/internal/v2` unless they start at the root of the repository.

1. [Inventory of the system](#1-inventory-of-the-system)
2. [Modules and how they correspond to the code](#2-modules-and-how-they-correspond-to-the-code)
3. [Runs](#3-runs): what each one asks, its bounds, and what it shows
4. [Fairness](#4-fairness)
5. [Disagreements between the code and what is said of it](#5-disagreements-between-the-code-and-what-is-said-of-it)
6. [Proofs](#6-proofs)
7. [Behaviour worth knowing](#7-behaviour-worth-knowing) that no run shows
8. [What is not modelled](#8-what-is-not-modelled)
9. [What could come next](#9-what-could-come-next)

To repeat a run: `tlc -workers 2 -config MCSessionManager.cfg MCSessionManager`.
To repeat a proof: `tlapm SessionManagerProofs.tla`.

## 1. Inventory of the system

One daemon process, one SQLite database (one connection, so statements and
transactions are serial), many goroutines.  Clients talk HTTP to `app/routes.go`.

| Component | State | Operations | Talks to |
|---|---|---|---|
| Session manager `session/manager.go` | per session: active turn, its cancel function, queue, cached counters; one mutex | Register, SubmitTurn (start, preempt, enqueue or merge), CancelTurn, runTurn, finishTurn, QueuePayload | starts the agent in a goroutine per turn; called by routes, report service, agent runner |
| Agent turn loop `agent/agent.go`, `agent/model_adapter.go` | turn row, session row, messages, events | RunTurn, failTurn, executeToolCalls | store, model, tools |
| Compaction and budget `agent/compaction.go`, `microcompact.go`, `context_budget.go`, `context.go` | boundary and summary in the messages, snapshots | compactPriorIfNeeded, buildContext | model, store |
| Model providers `src/internal/model` | a stream being read | requests, parsing of streams | network |
| Task manager `tasks/manager.go` | task rows, the copy in memory, running contexts, waiter channels; one mutex | Create, Start, Fail, Cancel, Wait, runTask, finishRun | runners, report service |
| Agent and shell runners `tasks/*_runner.go` | task row, specialist session and turn rows | Run | session manager, whose turn's row they poll |
| Report delivery `reports/service.go` | report rows with a delivered flag; one mutex | DeliverTaskReport, FlushWorkspace, SubmitQueued | session manager; called by the task manager and a ticker |
| Workflow executor `workflows/service.go` | run rows, approval rows; no lock | Trigger, TriggerAsync, Resume, executeRun | task manager, routes |
| Automations `automation/` | automation rows, dispatch records | Reconcile, Pause, Resume, dispatch | task manager, workflow executor, watcher scripts |
| Roles `roles/service.go` | role.yaml, prompt.md and snapshots on disk | Create, Update, InstallRoleFromPath | disk |
| Memory and context blocks `memory/`, `contextsvc/`, `contextasm/` | memory rows, block rows | write, recall, clean-up, preview, visibility | tools, routes |
| Project state `agent/project_state_update.go` | one summary row, a setting, a mutex | background update, PUT | model |
| Tools and policy `tools/` | the workspace's files | file_read, file_write, file_edit, glob, grep, ... | disk |
| Event stream and clients `app/routes.go`, `tui/`, `client/`, `src/web/console` | event rows, each client's cursor, buffer and screen | append, stream, timeline, reconnect | HTTP |
| Daemon and command line `app/daemon.go`, `src/cmd/sesame` | processes | start-up, markInterrupted, loops | everything |

Interactions that are hard, and what has to hold of them:

- *A turn outlives its tenure.*  CancelTurn and preemption take the session from a
  turn whose goroutine is still in the agent, writes rows later and calls
  finishTurn last.  One goroutine at a time may act for a session, its late end
  must not end the next turn, nobody may wait behind an idle session, and rows must
  say what became of a turn.
- *A task exists twice* (row and memory), is written with the manager's lock and
  without it, and ends in two store writes.  Ends must be final, the copies must
  agree, waiters must be woken, and after a restart no row may go on saying that a
  dead goroutine is at work.
- *Check, then act.*  SubmitQueued asks whether a session is idle, lists reports,
  submits a turn and flags the reports; the watcher looks for an earlier dispatch,
  creates a task and records it; a file tool checks a path and then uses it; a
  clean-up lists memories and deletes them.  Everybody else moves in between.
- *Rows as the only lock.*  Workflow runs, approvals, automations and roles are read
  and written back in several steps.
- *Histories are cut and stitched.*  Messages are stored in parts, compacted,
  truncated and translated for two providers that refuse what is not well-formed.
- *Streams are cut and stitched.*  Connections break, pages end, deltas are
  buffered and timelines replace screens.
- *Failure.*  SQLite is busy, contexts die, deadlines pass, the daemon dies and starts
  again, sometimes beside a living one.

`PROJECT.json` lists every component with its status and every hazard with its line
and the properties that address it.

## 2. Modules and how they correspond to the code

| Module | Models | Composition |
|---|---|---|
| `TurnLine` | what a session promises, abstractly | implemented by `SessionManager` |
| `SessionManager` | `session/manager.go` | `TL == INSTANCE TurnLine WITH ...` |
| `TurnLifecycle` | turn and session rows: `agent/agent.go`, the handlers of turns and interrupts, the agent runner's polling, the restart | EXTENDS `SessionManager`, conjoins its actions |
| `ReportDelivery` | `reports/service.go` and what it depends on | EXTENDS `SessionManager`, conjoins its actions |
| `TaskManager` | `tasks/`, the callers of the manager | -- |
| `Workflow` | `workflows/service.go`, approval handlers | uses tasks as TaskManager promises them |
| `Automation` | `automation/` with its handlers and tools | -- |
| `Conversation` | what the model is shown of a history, and what is stored of a response | -- |
| `ModelStream` | the providers' stream parsers, the agent's collection and execution of calls | -- |
| `EventStream` | events, the server's stream and timeline, terminal and web console | -- |
| `RoleFiles` | `roles/service.go`, `role_update`, `delegate_to_role` | -- |
| `Knowledge` | memories, context blocks, visibility, the clean-up | -- |
| `ProjectState` | `agent/project_state_update.go` with its routes | -- |
| `FileTools` | the five file tools under a role's policy | -- |
| `Launch` | clients that start daemons, and the daemon's start | -- |
| `*Proofs` | theorems about the module they extend | EXTENDS it and TLAPS |
| `MC*` | values for the constants | EXTENDS what it instantiates |

A critical section, a store statement or a store transaction is one action.  Where
code holds a lock over several writes between which the daemon may die, every write
is an action of its own and a variable says who holds the lock.  A definition whose
comment begins with *Mutant:* is a plausible wrong version of the one after it; no
specification uses it.

### SessionManager, TurnLine

`active`, `cancel`, `queue` and `counters` are fields of the session's runtime;
`stage` follows a turn and its goroutine through *new*, *queued*, *spawning*,
*running* (in the agent), *returned* (about to call finishTurn) and *done*, or to
*merged* and *withdrawn*; `cancelled` is the set of turns whose context is dead.
SubmitTurn is `StartIdle`, `Preempt` or `Enqueue`; CancelTurn is `CancelActive` or
`CancelQueued`; finishTurn is `FinishActive` or, for a turn that has lost its
session, `FinishStale`.

`TurnLine` has no goroutines, contexts or counters: a session has a live turn and a
line.  The mapping does not use ActiveTurnID: the live turn is the one *whose
goroutine is under way with a context that is alive*.  `ImplementsTurnLine` then says
that, seen through what may really act, sessions are serial and pass on in the same
step.  Turns start in queue order, with the exception that `TurnLine` names: a user
message takes a session over from a batch even while an earlier one is queued.

### TurnLifecycle

`row` and `sess` are the rows; `pc` is where RunTurn is for a turn, from *mark*
(state running) over *model*, *answer* and *tools* to *complete*, or to failTurn with
its three writes *fail*, *clear*, *idle*.  The agent's writes ignore the context, so a
cancelled turn notices at its next call of the model or transaction only.  `ask` is the
interrupt handler, five steps; `runner` the task runner's ticker and its giving up,
two steps.  `answered` are the turns whose answer reached the messages.  Until the row
says running the agent may leave without a trace, for an error of the store or because
AGENTS.md cannot be read (`MarkRunning`); `LeftUnmarked` names the turns it has left so.

### TaskManager

`row` and `mem` are the two copies of a task, `running` and `waiter` the manager's
maps, `settling` the operation that holds `m.mu` between the final row and the report,
`run` and `copy` the runner's goroutine and the value it was started with, `caller` and
`by` the code that created the task and its next call.  `linked` and `text` abstract
the fields that the agent runner adds to a row.  `unsaved` are the tasks of which
finishRun failed to write the final row: the code logs this and goes on.

### ReportDelivery

`at`, `flushing` and `list` are the position of the one caller in SubmitQueued: `Look`
is the idle check, `List` the query, `Submit` the call of SubmitTurn, `Mark` one row
update per report.  `contents` says which reports a batch quotes and `persisted` which
batches have reached the history.

### Workflow

`row[r]` is a run's row and `job[e].row` the copy that execution e carries and writes
back whole; `pc[e]` is its place in Resume, executeRun or finalizeAsyncFailure.
`Persist` is persistRun with its error path; `lost` remembers synchronous executions
that returned a store error.  `ReadApproval` and `UpdateApproval` are the halves of
handleUpdateApproval, `CreateApproval` the handler that adds one.

### Automation

`pass` is the reconcile loop: `ListAutomations`, then per automation `Take`,
`RunWatcher`, `LookUp`, then `CreateOwnerTask` and `StartOwnerTask`, or `TriggerWorkflow`,
and `RecordRun`.  `request` is a handler or tool that has read an automation and is about
to write it back.  `made` counts tasks or runs created for a signal, `recorded` are the
rows by which a later pass finds that it was dispatched.

A workflow's run is made in two steps by two goroutines: `TriggerWorkflow` stores it as
queued, or finds the one that has the signal's reference, whatever became of it; `waking`
are the queued runs with a goroutine about to begin them, and `BeginRun` is that
goroutine's first write, which makes the run a running one (`started`).  A restart ends the
goroutine and leaves the row queued; recovery lists running rows only.  `setup` says what
an automation finds: its role, its watcher, a workflow that can be triggered (it exists, in
the automation's workspace, with a trigger that is supported) and steps that can be
parsed; without them dispatches fail for as long as that lasts, and no bound counts these
failures.  `RunsOnce` are the automations whose `@every` schedule cannot be parsed.

### Conversation, ModelStream

`Conversation` has the limits with the code's own constants (180 000, 167 000, 13 000,
40 000 tokens).  A message is kind, turn, step and size; a summary *covers* the
positions that its input told.  A turn takes up to `MaxSteps` steps, each a call of the model
and the results of its tools.  `Compact` is compactPriorIfNeeded, `Persist` and
`ToolResults` the two transactions of a step, `Accepted` ValidateConversationItems, and
`ToAnthropicMessages` and `ToResponsesInput` what goes over the wire.  `ModelStream`
reads one response frame by frame: names, pieces of arguments, done events and ends,
in every order the protocols allow, over `tracker`, the parser's table of calls.

### EventStream

An event is its number.  Per client `link` is a connection with what is in transit;
`term` has the streamer's cursor (`lastSeq`), its batch (`buffer`), what was applied and
what the screen shows; `web` the console's latest number, its cached timelines and the
numbers it `claimed` for the user's own messages.

### RoleFiles, Knowledge, ProjectState, FileTools, Launch

`RoleFiles`: each file is written atomically, the three files of a version are not;
`overlapped` and `torn` remember that two writers met or one gave up half-way.
`Knowledge`: `VisibleTo` is IsVisibleToScope; `Leading` is a sort and a cut, for readers as for
the clean-up; `cleaner` is Cleanup between its
count, its list and its deletes.  `ProjectState`: `update` is the goroutine of
a turn, `mutex` is projectStateMu, a summary the set of turns that were worked in.
`FileTools`: a tool is its check as given, its check with links resolved, and its use,
while other turns' tools run; `touched` are the real files of the last step.  `Launch`:
`daemon` goes through *starting*, *marking* (markInterrupted), *marked* and *serving*;
listening on the address is the last step, so that only then one of two fails.

## 3. Runs

| Run | Instance | Distinct states | Question |
|---|---|---|---|
| `session_manager` | 1 session, 3 user turns, 2 batches | 94 k | do sessions stay serial and live under all interleavings? |
| `turn_lifecycle` | a task's message and a batch; 2 interrupts, store errors or restarts | 1.1 M | do the rows say what becomes of turns, and does the runner hear of it? |
| `task_manager` | 2 tasks of every origin, 1 fault, 1 restart, symmetry | 539 k | do rows, memory, waiters and reports agree? |
| `progress` | 2 tasks, 1 restart; or one of 3 automations (a task, a workflow, a schedule that cannot be parsed), 1 signal, 2 errors or restarts | 120 k | do tasks settle, and are signals dispatched, once? |
| `report_delivery` | 2 reports, 1 user turn, 3 service batches, 1 client's batch, 4 troubles | 166 k | is delivery safe between its steps, and does it happen? |
| `workflow` | 2 runs of task, gate, task with one reference; 2 executions, 3 troubles | 632 k | does a run take its steps in order, strand nothing, and end? |
| `services` | the modules without shared state, one at a time | 1.3 M | their properties, below |
| `task_reported_twice`, `report_lost`, `workflow_resumed_twice`, `history_forgotten`, `session_stuck` | small | -- | expected violations, section 5 |

`MCServices` and `MCProgress` put modules that share no state into one run: `focus`
says which of them a behaviour is about, and all others rest.  Properties that
`services` checks:

| Property | Says |
|---|---|
| `RoleHistoryIsKept` | while writers do not overlap, no version's snapshot is replaced, over failing writes, restarts and files edited by hand, and a role at rest says what its version's snapshot says |
| `CompactionIsWhole` | what a turn is shown after it compacted is all of what it had, in the summary or as it was |
| `CallsAreAnswered` | a request the validation accepts becomes messages in which sides alternate and each call is answered at once, for both providers |
| `CallsRunWhole` | nothing runs before the response is complete, and then every call, once, whole |
| `StreamsAreExact` | over broken connections, pages and batches a client applies each event once, in order |
| `ScreenIsWhole` | when a turn has ended, the terminal shows the stored answers |
| `ToolsKeepToPolicy` | what a tool really touches is in the workspace, unprotected and permitted |
| `RecallIsRight` | readers get what is for them, nothing else, and limits do not count what they may not see |
| `RemovalsAreRight` | the clean-up deletes only what it had listed and what enough others were as good as, and an erased block stays erased |
| `SummaryNeverForgets` | no background update loses what an earlier one worked in |
| `OnlyTheDeadAreInterrupted` | a daemon's start interrupts the work of the dead, all and only |

Every property of a passing run is violated by a mutant of a mapped definition, listed
in `PROJECT.json`.

Why the bounds are enough for the interesting cases:

- Three user messages and two batches are the fewest turns with which a batch is
  active, another one queued or merged, a user message waits and another one preempts.
  Sessions share no state but the mutex, so one suffices.
- In `turn_lifecycle` two turns are enough for a hand-over after an interruption; the
  runner's time-out and failing models cost none of the two troubles.
- Two tasks make the manager's lock contended.  One fault at any write and one restart
  between any two steps reach every error path; retry loops stay below their limit.
- The report service needs one batch per report, fault and restart, so that it never
  runs out of batch ids (`FreshBatch` is always defined).
- A gate between two tasks has an order before and after the gate.
- Three turns of two steps, with sizes of 30 000 and 50 000 against a limit of 100 000, reach
  compactions in a row, a microcompaction, and a step after the first results; with four turns
  (in `history_forgotten` and `session_stuck`) a further turn follows a compaction.
- Automations share nothing but the loop, which takes them one by one: a behaviour creates one
  of the three.  Two errors or restarts fall between any two steps of a dispatch, of the next
  pass that makes up for it, and of a run's beginning.
- Four events with pages of two, and two breaks, cut a stream in and between pages.
- Two writers and two versions let updates overlap and role.yaml lose its version.
- `MaxFaults`, `MaxCrashes`, `MaxLoad`, `MaxTroubles` and the constants named
  `...Troubles` or `Max...` are counters in guards; every other bound is a set.

Passing workflow runs let one execution resume and one request decide at a time; with
two resumptions `TasksAreSerial` is violated, as section 5 shows.

Deadlock checking is off in all configurations: when every turn has been used, every
task has ended and no restart is left, nothing remains to be done.

What the properties say is in the comment above each.  Some that took thought:

- `CompletedIsAnswered`: a row says completed, or a runner reports success, only with
  the answer in the messages, where the runner reads it, although interrupt handler and
  time-out overwrite rows without looking.  `QuietSessionShowsIdle` holds although
  failTurn clears a session that may already run its next turn: that one's end makes
  up for it.
- `RunningIsAlive` and `TasksSettle`: what `docs/v2-integration-checklist.zh-CN.md`
  lines 228-229 ask for (a restart leaves no task running for good, cancelled tasks
  converge) holds unless a final row could not be written.
- `AnswerIsKept`: the specialist's answer survives, because finishRun reads the row
  again before it writes it.
- `OneBatchUnderWay` and `FlushDisturbsNobody` hold although the idle check and the
  submission are not atomic: in the worst case the batch is queued.
- `OneDispatchPerSignal` counts store errors and restarts: every extra task is paid for
  by one.  README.md:148, "dispatches exactly one task to the owning role", is true
  only without them.  What is recorded as dispatched was started, if it is a task; a run of
  a workflow is recorded when it is in the queue, and begins later or, after an error or a
  restart, never.
- `SignalsAreDispatched` is about automations that have a next pass and find what they need
  from some time on.  It ends with a start, or with a run that was stored and abandoned
  (`Abandoned`): every later pass finds that run and dispatches nothing.
- `RunnerHears`: as long as the store works the runner hears of its turn's end by polling,
  unless the agent has left before its first write (`LeftUnmarked`), of which it hears by
  its time-out.
- `StreamsAreExact` is about every number of the terminal, and about the numbers that the web
  console has not given to its user's own messages.  `ScreenIsWhole` is about the timeline that was asked for last,
  `RoleHistoryIsKept` about writers that do not overlap, and `RunningHasAgent` about a store
  that has not failed: section 7 says what happens otherwise.

## 4. Fairness

- *SessionManager*, *TurnLifecycle*: weak fairness of each turn's goroutine (the Go
  scheduler runs it, and the agent's loop has a step limit), of the runner's ticker, and
  of an interrupt handler that has begun.  Nothing obliges clients, and no time-out is owed.
- *TaskManager*: strong fairness of goroutine and caller steps, which compete for
  `m.mu` (a `sync.RWMutex` does not starve a writer); weak fairness of the second store
  write.  Shell commands and specialist turns have time limits.
- *ReportDelivery*: SubmitQueued runs on (weak); each session is visited again and again
  by the flush ticker, whose turn to get the mutex may be delayed (strong fairness of
  `Look`); sessions are registered at start-up; goroutines go on.
- *Workflow*: executions run on, and running tasks end (what `TasksSettle` shows, an
  assumption here).  Cancelling, deciding, resuming and deadlines are never owed.
- *Automation*: the reconcile loop goes on, the goroutine of a queued run is scheduled while its
  daemon lives, and a schedule comes due again, unless it is one that due cannot parse.
  What a watcher reports and that roles and workflows are there is owed to nobody.

`services` checks no liveness: its modules end in requests of clients.

## 5. Disagreements between the code and what is said of it

Each is a run whose violation TLC finds; `PROJECT.json` quotes the lines.

- `task_reported_twice`: finishRun retries the whole delivery of a report when the
  database is busy.  If its first half (the row) was done, a second row is created.
- `report_lost`: a batch is flagged as delivered on submission, but a user message that
  preempts it before the model's first answer leaves it in no history.
- `workflow_resumed_twice`: Resume does not claim the run; two requests execute the
  remaining steps side by side.
- `history_forgotten`: the boundary and the summary are stored after the messages that
  the compaction kept, and the next turn starts from the boundary: the kept messages,
  which no summary covers, are not shown again.
- `session_stuck`: a turn that ends between storing its tool calls and storing their
  results leaves a history that no later request of the session can be made of.

## 6. Proofs

Each theorem holds for all values of the constants that satisfy the named assumptions
of its module, not for the instance of a run.  In every proof an inductive invariant is
stated in parts, one lemma per operation shows that it is kept, a step lemma splits on
the disjuncts of `Next`, and the temporal theorem follows.  Each inductive invariant was
checked with TLC on the instance of its run before it was proved.  The column *in a run*
names the checked property that a theorem states.

| Module | Theorem | States | In a run |
|---|---|---|---|
| `SessionManagerProofs` | `InductiveInvariant` | `Spec => []IInv` | |
| | `TypeInvariant` | `Spec => []TypeOK` | |
| | `MutualExclusion` | `Spec => []LiveRunIsActive` | yes |
| | `NobodyWaitsIdle` | `Spec => []NoIdleWaiters` | yes |
| | `AtMostOneQueuedBatch` | `Spec => []OneQueuedBatch` | yes |
| | `CountersNeverStale` | `Spec => []CountersCurrent` | yes |
| | `SubmissionsDoNotInterrupt` | `Spec => UserTurnNotInterrupted` | yes |
| | `SessionsAreLines` | `Spec => TurnLineSafety`, the safety half of the refinement | |
| `TaskManagerProofs` | `TaskInvariant`, `HistoryInvariant` | `Spec => []TaskInv`, `Spec => []HistoryInv` | |
| | `TypesOfTasks` | `Spec => []TypeOK` | |
| | `RowsThatRunAreAlive` | `Spec => []RunningIsAlive` | yes |
| | `MemoryTellsTheRow` | `Spec => []MemoryMatchesRow` | yes |
| | `SleepersAreWoken` | `Spec => []NoMissedWakeup` | yes |
| | `StoredEndsAreFinal` | `Spec => EndIsFinal` | yes |
| | `ReportsTellTheTruth` | `Spec => []ReportsAreFaithful` | yes |
| | `AnswersAreKept` | `Spec => AnswerIsKept` | yes |
| `ReportDeliveryProofs` | `ReportInvariant`, `BatchInvariant` | `ReportSpec => []ReportInv`, `ReportSpec => []BatchInv` | |
| | `FlagsAreTrue` | `ReportSpec => []FlagIsTrue` | yes |
| | `FlushesDisturbNobody` | `ReportSpec => FlushDisturbsNobody` | yes |
| | `OneBatchAtATime` | `ReportSpec => []OneBatchUnderWay` | yes |
| | `SessionsStayInOrder` | the manager's four invariants under deliveries and restarts | |
| `TurnLifecycleProofs` | `LifecycleInvariant`, `RunInvariant` | `LifecycleSpec => []LifecycleInv`, `LifecycleSpec => []RunInv` | |
| | `TypesOfTurns` | `LifecycleSpec => []LifecycleTypeOK` | |
| | `CompletedTurnsAreAnswered` | `LifecycleSpec => []CompletedIsAnswered` | yes |
| | `RunningTurnsHaveAgents` | `LifecycleSpec => []RunningHasAgent` | yes |
| | `QuietSessionsShowIdle` | `LifecycleSpec => []QuietSessionShowsIdle` | yes |
| | `ManagerKeepsOrder` | the manager's four invariants under interrupts and restarts | |
| `WorkflowProofs` | `WorkflowInvariant`, `GateInvariant` | `Spec => []WorkflowInv`, `Spec => []GateInv` | |
| | `TypesOfWorkflow` | `Spec => []TypeOK` | |
| | `ReferencesHaveOneRun` | `Spec => []OneRunPerRef` | yes |
| | `WaitingRunsCanBeAnswered` | `Spec => []WaitingIsAnswerable`, a conjunct of `NothingIsStranded` | |
| | `OneResumerWorksAlone` | `OneResumer => (Spec => []Alone)` | |
| | `ClaimInvariant` | `Spec /\ []Alone => []AllInv` | |
| | `NothingOfARunIsStranded` | `Spec /\ []Alone => []NothingIsStranded` | yes |
| | `TasksOfARunAreSerial` | `Spec /\ []Alone => []TasksAreSerial` | violated without `Alone` |
| | `EndsAreFinal` | `Spec /\ []Alone => EndIsFinal` | yes |
| | `StepsAreInOrder` | `Spec /\ []Alone /\ []Undisputed => []StepsInOrder` | yes |
| `AutomationProofs` | `DispatchInvariant` | `AutomationSpec => []DispatchInv` | |
| | `TypesOfAutomation` | `AutomationSpec => []AutomationTypeOK` | |
| | `SignalsAreDispatchedOnce` | `AutomationSpec => []OneDispatchPerSignal` | yes |
| `ServiceProofs` | `StartUpInterruptsTheDead` | `LaunchSpec => []OnlyTheDeadAreInterrupted` | yes |
| | `SummaryInvariant` | `SummarySpec => []SummaryInv` | |
| | `UpdatesNeverForget` | `SummarySpec => SummaryNeverForgets` | yes |
| | `RoleInvariant` | `RoleFilesSpec => []RoleInv` | |
| | `RolesKeepTheirHistory` | `RoleFilesSpec => []RoleHistoryIsKept` | yes |
| | `FilesInvariant` | `FilesSpec => []FilesInv` | |
| | `FilesKeepToPolicy` | `FilesSpec => []ToolsKeepToPolicy` | yes |
| | `StreamInvariant` | `StreamSpec => []StreamInv` | |
| | `StreamsStayExact` | `StreamSpec => []StreamsAreExact` | yes |
| | `ScreensEndWhole` | `StreamSpec => []ScreenIsWhole` | yes |
| | `CallsInvariant` | `ModelStreamSpec => []CallInv` | |
| | `CallsAreRunWhole` | `ModelStreamSpec => []CallsRunWhole` | yes |
| | `KnowledgeInvariant` | `KnowledgeSpec => []KnowledgeInv` | |
| | `ReadersAreShownTheirs` | `KnowledgeSpec => []RecallIsRight` | yes |
| | `RemovalsStayRight` | `KnowledgeSpec => RemovalsAreRight` | yes |
| `ConversationProofs` | `ConversationIsWhole` | `ConversationSpec => []ConversationInv` | |
| | `CompactionKeepsAll` | `ConversationSpec => []CompactionIsWhole` | yes |
| | `AcceptedIsAnswered` | `ConversationSpec => []CallsAreAnswered` | yes |

*SessionManager.*  `IInv` is `TypeOK /\ Placement /\ CountersCurrent`.  None of the safety
properties is inductive: `LiveRunIsActive` is lost when a queue holds a turn that
already has a goroutine, since a hand-over would start it again; `OneQueuedBatch` is
lost when the merge looks at a queue that does not list all queued turns.  `Placement`
says where a turn is: a new one has no home, and one that is queued or in flight has one
(`Homes`; a turn that was rejected ends without any); the cancel function is that of the
active turn; a queue holds turns of its session in stage *queued*, all of them, each once
(`QueueContent`, `QueueComplete`, `QueueDistinct`); who queues has somebody in front; a
goroutine with a live context belongs to the active turn and the other way round
(`LiveMeansActive`); cancelled turns have been started.

*The refinement.*  `TurnLine`'s live turn is mapped to the turn whose goroutine is under way
with a live context.  `MapsToActive` reads that off `IInv`: it is the active turn.  With it,
`MappedInit` and `MappedStep` show that every initial state is one of `TurnLine` and every
step one of its steps or a stutter: a turn that starts in an idle session is *Begin*, one that
preempts a batch *TakeOver*, one that queues *Join* or *Merge*; a queued turn that is cancelled is
*Withdraw*, an active one that is cancelled or finishes *PassOn*; a stale finish and the steps
inside a goroutine are stutters.  What remains to TLC of
`ImplementsTurnLine` is its fairness.

*TaskManager.*  No property alone is inductive either: `EndIsFinal` needs that a runner
that will write has a task whose row is not terminal, which needs that every live goroutine
belongs to a running row, and that finishRun holds the lock between its two writes.
`TaskInv` gives each task's row, memory, goroutine, waiter, caller and operation under way
as one consistent picture, stated per task so that the steps of one task are shown not to
disturb the others once (`OthersFit`).  `HistoryInv` adds what the task's texts and reports
are: a pending task's are fresh, a runner has not stored an answer before its last write,
and every report repeats the final row (`TextFits`, `ReportFits`).
Assumptions: `NoneIsNothing`, `OriginsAreReal`, `Bounds`.

*ReportDelivery.*  `ReportInv` ties the position of SubmitQueued to what it has listed, what
it has submitted and what is flagged; while nothing has failed, what any batch quotes is
flagged or about to be.  A step of the session manager is shown once to move turns only
forward (`SessionGoesOn`).  `BatchInv` adds the session manager's own `IInv`, which a
restart re-establishes (`NewManagerIsInOrder`), and `NoneUnderWay`: while the service has
looked at a session or listed its reports, no batch it made is under way there.  That is why
the idle check and the submission need not be atomic: between them users may take the
session, but only the holder of the service's mutex makes batches, and turns that have left
the line never return to it.

*TurnLifecycle.*  `LifecycleInv` has two orders of writes: the answer is stored before anybody
says *completed*, agent or runner (`AnsweredFirst`), and, while the store works, the end of a
turn is in its row before the session's row is cleared (`EndedBeforeCleared`).  Neither property
is inductive without the position of the agent between the two writes.  `RunInv` joins the
agents to the session manager below them: an agent is at work only in the goroutine of its own
turn (`AgentsRun`), cancellations reach known sessions only, and what a session's row shows is
taken back by an agent that is still at work, its marker in one step and its state in the next
(`RowIsTakenBack`), which is what `QuietSessionShowsIdle` needs when a late failTurn clears the
row of a session that already runs its next turn.  Assumptions: `LifecycleBounds`, `TurnKinds`.

*Workflow.*  An execution holds a copy of its run and writes the whole copy back.  `WorkflowInv`
says that the copy has the reference of the stored row it will replace (`CopiesFit`) and that an
approval is about a stored run (`ApprovalsAreAbout`), so that no write gives a reference a
second run.  `GateInv` says that a run which waits does so at an approval step of its
workflow, with an approval of its own that is open or granted, and that copies which will be
written back say *running*.  Both hold however many requests resume and decide at once.
Assumptions: `WorkflowParameters`, `NoneIsNoRow`.

*What one execution at a time is worth.*  The other properties are false when two requests
resume a run side by side (`workflow_resumed_twice`) or, for `StepsInOrder`, decide an approval
side by side.  `WorkflowProofs` therefore proves them under hypotheses that name exactly
this and nothing else: `Alone`, no two executions are at work on a run, and `Undisputed`, no
two requests hold an approval that is still to be decided.  They are hypotheses about
behaviours, because the code does not enforce them.  `OneResumerWorksAlone` shows that the first
follows if one request at a time resumes runs: two triggers never meet on a run, however often
they are retried.  The instance of the run `workflow` satisfies both.  `ClaimInv` says that as long
as an execution is alone its copy names every task that its run's row names, that at most the task
it waits for works, and that a running row has an execution or is counted as lost.  `OrderInv`
adds that every step before the execution's has been passed and that its own step's task is
created once.

*Automation.*  `DispatchInv` keeps the account that `OneDispatchPerSignal` states: every task but
the last of a signal, and the last one if it is neither recorded nor at hand, is owed to a store
error or a restart of its own (`EachIsPaidFor`: the set of those tasks is no larger than the number
of mishaps).  That a recorded signal is not dispatched again rests on `NotRecordedYet`: the loop is
the only goroutine that records.  What a record means is `StartedFirst`: a started task, but of a
workflow only a stored run.  What that is worth is `RunsBegin`: a stored run has begun, or has its
goroutine, or an error or a restart came before its first write; it is kept by the loop, which may
find such a run any number of times (`DispatchKeeps`), and by the goroutines beside it
(`BeginningKeeps`).  Assumption: `AutomationParameters`.

*Launch.*  `LaunchInv` says, while no daemon was started beside a living one, that at most one
is alive, that whoever works serves, and that the rows a starting daemon has yet to mark are
on its list.  *ProjectState.*  `SummaryInv` says that an update which has read the summary holds
the mutex and that what it read has all that is stored.

*RoleFiles.*  `RoleInv` says, while no two writers have met, that the one who writes is alone, that
the version it writes is newer than every snapshot (`NewestVersion`), which also holds when
role.yaml has lost its number and the snapshots are counted instead, and how far it has come
(`Halfway`).  That the largest number of a finite set is one of the set is proved with
well-founded induction (`LeastNumber`, `MaxIsLargest`).

*FileTools.*  `FilesInv` says that what a tool is about to use was checked where it really is:
links move only while no tool works, a tool's own step never turns a link, and a real path
has no link on its way (`RealIsNoLink`).

*EventStream.*  `StreamInv` says of each client that what it has, what is on its way to it and how
far the server has sent join up without a gap (`Has`, `FollowsOn`, `Reaches`, together `Fits`);
connecting, paging, breaking off and flushing a batch each keep that, for any page size.
For the screen, `TurnFits` ties the agent's storing of an answer to the end event that it
writes, and `LoadsFit` what the terminal asked for to what has come.

*ModelStream.*  `CallInv` says that what the tracker has of a call is what was sent of it until
it is handed on, that a call which was handed on has been sent to its end, and that what a late
delta leaves in the tracker begins in the middle of the arguments and can be handed on no
more: such a stream fails instead of running a call twice.

*Knowledge.*  `KnowledgeInv` says that ids are keys, that a note from memory_write is marked as the
tool marks it, that erased blocks are not in their list, and that whatever the clean-up is about to
delete ranked behind `KeepCount` others when it was listed.  A reader's limit is stated without
sorting: a note leads if fewer than that many visible ones are ahead of it.  If one does not lead,
take one with the fewest ahead of it: all of those lead, so the limit is reached
(`LeadersAreEnough`); and no two leaders have equally many ahead of them, so no more than the
limit lead (`LeadersAreFew`).

*Conversation.*  The operators of this module compute lists by recursion over lists, as the code
does.  `Recursion` shows that a recursive function over the numbers up to n exists and `UpTo`
proves by well-founded induction what holds of all its values; so `WithoutPicks` can say that a
filtered list is what it keeps, in order, and `SentInRuns` that what Anthropic is sent are the
maximal runs of one side.  `CompactionIsWhole` is not inductive: that no result loses its call
depends on the split being made between turns, hence on the stored messages of a turn standing
together, and on the results of a step coming after its calls and before the calls of the next
(`ExchangesInOrder`); that a summary tells everything depends on what it covers being positions
of the history, which microcompaction does not change (`Alike`).  `ConversationInv` says this of
the store (`Stored`), of what the turn itself has said (`OwnIsWhole`) and of what it goes on with
(`PriorIsWhole`).  `HistoryGrows` shows once that a history stays one when a turn stores more, and each
operation's lemma only what it stores.  For `CallsAreAnswered`, a result that ValidateConversationItems
lets pass answers a call that is open, and all calls of a run are answered before the other side is heard again:
the results that follow a run are as many as its calls, by a bijection (`AnsweredAtOnce`).
Assumption: `ConversationParameters`.

Only model-checked:

- all liveness, since the fairness of an action is about ENABLED, which the prover does not
  handle, and with it the fairness half of `ImplementsTurnLine`.

Every safety property of a passing run is stated by a theorem.  No module declares a recursive
operator: `Conversation` uses recursive functions, and `EventStream`, `ModelStream` and `Knowledge`
say what a page, a list of calls or an answer is (these elements, in this order) instead of
computing it.  What the folds over sizes (`Tokens`) come to is not needed by any proof: where the code
splits or cuts a list does not matter to the theorems, only that it does so between turns or messages.

## 7. Behaviour worth knowing

Met while modelling, and shown by no run: nothing in the repository says otherwise, a
property exempts it by name, or it needs an actor that is left out.

- *Two daemons on one store.*  A client that finds the daemon slow (four looks, half a second
  apart), or two clients at once, start a second daemon, which marks the first one's live
  work as interrupted (app/daemon.go:43) before its ListenAndServe fails.  Hence the
  exemption `sideBySide` in `OnlyTheDeadAreInterrupted`.
- *Rows of interrupted turns.*  failTurn of an interrupted turn overwrites *interrupted* with
  *failed* (agent/agent.go:484; docs/v2-integration-checklist.zh-CN.md:82 has it otherwise).
- *Turns that stay created or running.*  A turn of a workspace whose AGENTS.md cannot be read
  keeps its row *created* (agent/agent.go:89), and a task's runner polls it until its time-out;
  an error of the store between the row's *running* and the first call of the model keeps it
  *running* until the daemon starts again.
- *Approvals.*  Two deciders can both find an approval pending, and both decide it
  (app/routes.go:1276, 1300); the run's own end stays (`EndIsFinal`).
- *Tasks that stay pending.*  delegate_to_role (tools/namespace_roles.go:383) and the automation
  service do not fail a task whose Start returned an error.
- *Runs that stay queued.*  A run that is queued when the daemon dies is not found by the restart
  (workflows/service.go:160), as docs/v2-backend-runtime-manifest.zh-CN.md:122 says: the
  exception in `RunsSettle`.  An automation's next pass finds it by its reference and records
  the signal as dispatched: the exceptions in `OneDispatchPerSignal` and `SignalsAreDispatched`.
- *Schedules.*  An automation whose `@every` schedule cannot be parsed runs once per start of the
  daemon (automation/service.go:311); one with any other text that is no schedule is always due.
- *Histories that are refused.*  A response whose text follows a tool call is stored as it is and
  refused ever after; the truncation of a request can separate a call from its result.
- *Streams.*  An Anthropic call that the output limit cut off is run without arguments;
  the agent emits the events of a call before the stream has ended.
- *The web console* counts the user's own message as an event: a connection that begins before the
  next event skips that one (docs/v2-integration-checklist.zh-CN.md:105 asks for none to be lost), the
  exemption in `StreamsAreExact`.  It takes over the latest number when it changes sessions.
- *The terminal's* older timeline can overwrite a newer one: the exemption in `ScreenIsWhole`.
- *Memories and blocks.*  One row with an unknown owner or visibility makes every recall of its
  workspace fail, and every search or preview that comes to it.  The preview of memories ranks
  only the fifty latest (contextsvc/service.go:336, memory/service.go:51), those that it may not
  show among them: `RecallIsRight` asks it for nothing but that it shows no others.  The clean-up deletes, by id, a memory that was
  refreshed after it was listed.
- *Project state.*  A client's PUT is overwritten by an update that read earlier; turns that
  the token threshold skips are not worked in later.
- *Files.*  file_edit reads and writes without a lock: of two concurrent edits one is lost.  A link
  that the user or a shell changes between a tool's check and its use is followed: in
  `FileTools` links change only while no tool runs.

## 8. What is not modelled

- *Rows written by hand* (`POST` and `PUT /v2/workflow_runs`): a client can put a run into any
  state, or overwrite an execution's progress with a row it read earlier (app/routes.go:1100).
- *Traces* of workflow runs but for the step of an approval request.  *Panics* and their recovery.
- *Task output files and task traces*: a capped file, and a rendering of it.  The cap reaches
  TaskManager as a runner that fails.
- *The other tools* (listings, the shell, skill activation): each is one call of a store, of the
  operating system or of the loaded catalog.
- *Prompt layout, wording of summaries, search ranking, key handling, rendering, parsing of
  requests and settings, authentication, schema and migrations*: input, output or formatting.
- *Skills, configuration, metrics, contracts and shared types*: nothing concurrent or ordered.
- *What a model, a watcher, a shell command or a role's text says* is a choice from a small set.

## 9. What could come next

1. Two daemons at work on one store, in TaskManager and ReportDelivery.
2. Shell tool and process groups.
