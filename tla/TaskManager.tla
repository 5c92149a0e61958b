----------------------------- MODULE TaskManager -----------------------------
(***************************************************************************)
(* internal/v2/tasks/manager.go and the runners it starts, with the        *)
(* callers that create, start, fail, await and cancel tasks, SQLite errors *)
(* and restarts of the daemon.                                             *)
(*                                                                         *)
(* A task is stored twice: as a row of the store and as a copy in the      *)
(* manager's memory.  Every operation of the manager holds m.mu; the       *)
(* runner's goroutine writes the row without it.  Ending a task takes two  *)
(* store writes under m.mu (the row, then the report), between which the   *)
(* daemon may die, so it takes two actions here and `settling' is the      *)
(* operation that holds the lock in between.                               *)
(*                                                                         *)
(* What DeliverTaskReport does with a report is the subject of             *)
(* ReportDelivery; here it creates a row and fails or succeeds.  Tasks     *)
(* have a report session, as all callers give them one.                    *)
(***************************************************************************)
EXTENDS Naturals, Sequences

CONSTANTS
  Tasks,       \* task ids; an id is created at most once (primary key)
  None,        \* no task value: no row, no copy in memory
  Origins,     \* the pairs of a kind and a caller with which tasks are created
  MaxFaults,   \* bound on store operations that fail
  MaxCrashes   \* bound on daemon restarts

Kind == {"shell", "agent", "unsupported"}
Caller == {"http", "tool", "workflow"}

\* handleCreateTask takes any kind; delegate_to_role and the automation service
\* (both "tool") and workflow steps create agent tasks.
ASSUME OriginsAreReal ==
  Origins \subseteq (Kind \X {"http"}) \cup ({"agent"} \X {"tool", "workflow"})

\* Below databaseBusyRetryLimit, so that no retry loop runs out of attempts.
ASSUME Bounds == MaxFaults \in 0 .. 20 /\ MaxCrashes \in Nat

VARIABLES
  row,       \* the task rows of the store
  mem,       \* m.tasks
  running,   \* the keys of m.running
  waiter,    \* m.waiters: "none", or the channel is "open" or "closed"
  settling,  \* the operation that holds m.mu between its two store writes
  kind,      \* the task's kind, when it has been created
  run,       \* where the goroutine of runTask is
  copy,      \* the task value that the runner holds
  dead,      \* the tasks whose run context has been cancelled
  caller,    \* where the code that created the task is
  by,        \* which code created the task
  reports,   \* the report rows of the task, oldest first
  unsaved,   \* the tasks whose final row finishRun gave up writing
  faults, crashes

memory == <<mem, running, waiter, settling>>
goroutine == <<run, copy>>
history == <<reports, unsaved>>
vars == <<row, mem, running, waiter, settling, kind, run, copy, dead, caller, by,
          reports, unsaved, faults, crashes>>

Terminal == {"completed", "failed", "cancelled"}
State == {"pending", "running"} \cup Terminal

\* linked: the row names the specialist session and turn that execute the task.
\* text: FinalText is empty, the specialist's answer, or a default sentence.
Value == [state : State, linked : BOOLEAN, text : {"empty", "answer", "default"}]

\* No task and no operation is nothing.
ASSUME NoneIsNothing ==
  None \notin Value /\ None \notin [task : Tasks, value : Value, retry : BOOLEAN]

\* The goroutine is between Start and the end of finishRun.
Alive == {"spawned", "working", "answered", "writing"} \cup Terminal

\* The launcher of a workflow step waits for its task; others do not.
CallerAt == {"idle", "created", "fail", "cancel", "wait", "blocked", "done"}

IsTerminal(v) == v.state \in Terminal

Unlocked == settling = None

\* A store operation returns an error and has had no effect.
StoreFails == faults < MaxFaults /\ faults' = faults + 1

-----------------------------------------------------------------------------

Init ==
  /\ row = [t \in Tasks |-> None]
  /\ mem = [t \in Tasks |-> None]
  /\ running = {}
  /\ waiter = [t \in Tasks |-> "none"]
  /\ settling = None
  /\ kind = [t \in Tasks |-> "shell"]
  /\ run = [t \in Tasks |-> "none"]
  /\ copy = [t \in Tasks |-> None]
  /\ dead = {}
  /\ caller = [t \in Tasks |-> "idle"]
  /\ by = [t \in Tasks |-> "http"]
  /\ reports = [t \in Tasks |-> <<>>]
  /\ unsaved = {}
  /\ faults = 0
  /\ crashes = 0

Fresh == [state |-> "pending", linked |-> FALSE, text |-> "empty"]

\* Create.  If the row cannot be stored, nothing has happened.
Create(t, k, c) ==
  /\ Unlocked
  /\ caller[t] = "idle"
  /\ <<k, c>> \in Origins
  /\ row' = [row EXCEPT ![t] = Fresh]
  /\ mem' = [mem EXCEPT ![t] = Fresh]
  /\ waiter' = [waiter EXCEPT ![t] = "open"]
  /\ kind' = [kind EXCEPT ![t] = k]
  /\ by' = [by EXCEPT ![t] = c]
  /\ caller' = [caller EXCEPT ![t] = "created"]
  /\ UNCHANGED <<running, settling, goroutine, dead, history, faults, crashes>>

\* handleCreateTask with "start": false leaves the task pending.
LeavePending(t) ==
  /\ caller[t] = "created"
  /\ by[t] = "http"
  /\ caller' = [caller EXCEPT ![t] = "done"]
  /\ UNCHANGED <<row, memory, kind, goroutine, dead, by, history, faults, crashes>>

\* Start writes the copy in memory to the row and hands it to the goroutine.
Start(t) ==
  LET v == [mem[t] EXCEPT !.state = "running"] IN
  /\ Unlocked
  /\ caller[t] = "created"
  /\ mem[t].state = "pending"
  /\ kind[t] # "unsupported"
  /\ row' = [row EXCEPT ![t] = v]
  /\ mem' = [mem EXCEPT ![t] = v]
  /\ running' = running \cup {t}
  /\ run' = [run EXCEPT ![t] = "spawned"]
  /\ copy' = [copy EXCEPT ![t] = v]
  /\ caller' = [caller EXCEPT ![t] = IF by[t] = "workflow" THEN "wait" ELSE "done"]
  /\ UNCHANGED <<waiter, settling, kind, dead, by, history, faults, crashes>>

\* Start fails: cancelled meanwhile, no runner for the kind, or the row cannot
\* be written (memory is put back to pending).  The HTTP handler and a workflow
\* step then call Fail; a tool and the automation service only pass the error on.
StartFails(t) ==
  /\ Unlocked
  /\ caller[t] = "created"
  /\ \/ (mem[t].state # "pending" \/ kind[t] = "unsupported") /\ UNCHANGED faults
     \/ mem[t].state = "pending" /\ kind[t] # "unsupported" /\ StoreFails
  /\ caller' = [caller EXCEPT ![t] = IF by[t] = "tool" THEN "done" ELSE "fail"]
  /\ UNCHANGED <<row, memory, kind, goroutine, dead, by, history, crashes>>

-----------------------------------------------------------------------------
(* Ending a task that no runner owns: Fail and Cancel *)

\* The first store write of Fail and Cancel succeeded: the report is next.
EndWith(t, v) ==
  /\ row' = [row EXCEPT ![t] = v]
  /\ settling' = [task |-> t, value |-> v, retry |-> FALSE]

\* Fail, called after Start has failed.
Fail(t) ==
  /\ Unlocked
  /\ caller[t] = "fail"
  /\ caller' = [caller EXCEPT ![t] = "done"]
  /\ IF IsTerminal(mem[t])
     THEN UNCHANGED <<row, settling, running, dead, faults>>
     ELSE /\ running' = running \ {t}
          /\ dead' = dead \cup (running \cap {t})
          /\ \/ EndWith(t, [mem[t] EXCEPT !.state = "failed", !.text = "default"])
                /\ UNCHANGED faults
             \/ StoreFails /\ UNCHANGED <<row, settling>>
  /\ UNCHANGED <<mem, waiter, kind, goroutine, by, history, crashes>>

\* Memory, or the row when the manager does not know the task (any more).
Known(t) == IF mem[t] = None THEN row[t] ELSE mem[t]

\* Mutant: Cancel ends a running task itself.
CancelRunningToo(t) ==
  /\ Unlocked
  /\ row[t] # None
  /\ mem' = [mem EXCEPT ![t] = Known(t)]
  /\ IF IsTerminal(Known(t))
     THEN UNCHANGED <<row, settling, dead, faults>>
     ELSE /\ dead' = dead \cup (running \cap {t})
          /\ \/ EndWith(t, [Known(t) EXCEPT !.state = "cancelled", !.text = "default"])
                /\ UNCHANGED faults
             \/ StoreFails /\ UNCHANGED <<row, settling>>
  /\ UNCHANGED <<running, waiter, kind, goroutine, by, history, crashes>>

\* Cancel: a running task only has its context cancelled, and ends when its
\* runner returns; any other task that has not ended is cancelled on the spot.
Cancel(t) ==
  /\ Unlocked
  /\ row[t] # None
  /\ mem' = [mem EXCEPT ![t] = Known(t)]
  /\ IF IsTerminal(Known(t))
     THEN UNCHANGED <<row, settling, dead, faults>>
     ELSE IF t \in running
     THEN dead' = dead \cup {t} /\ UNCHANGED <<row, settling, faults>>
     ELSE /\ \/ EndWith(t, [Known(t) EXCEPT !.state = "cancelled", !.text = "default"])
                /\ UNCHANGED faults
             \/ StoreFails /\ UNCHANGED <<row, settling>>
          /\ UNCHANGED dead
  /\ UNCHANGED <<running, waiter, kind, goroutine, by, history, crashes>>

\* handleCancelTask, at any time; and a workflow step that gives up.
ClientCancels(t) == Cancel(t) /\ UNCHANGED caller

StepCancels(t) ==
  /\ caller[t] = "cancel"
  /\ Cancel(t)
  /\ caller' = [caller EXCEPT ![t] = "done"]

-----------------------------------------------------------------------------
(* The runner's goroutine *)

\* runTask looks the workspace up under m.mu.  An agent's runner then creates
\* the turn and writes the row from the copy it was started with.
RunnerStarts(t) ==
  /\ run[t] = "spawned"
  /\ Unlocked
  /\ IF kind[t] = "agent"
     THEN /\ copy' = [copy EXCEPT ![t].linked = TRUE]
          /\ row' = [row EXCEPT ![t] = copy'[t]]
     ELSE UNCHANGED <<copy, row>>
  /\ run' = [run EXCEPT ![t] = "working"]
  /\ UNCHANGED <<memory, kind, dead, caller, by, history, faults, crashes>>

\* The specialist's turn has completed: persistFinalText reads the row, or
\* falls back to the runner's copy ...
ReadRow(t) ==
  /\ run[t] = "working"
  /\ kind[t] = "agent"
  /\ \/ copy' = [copy EXCEPT ![t] = row[t]] /\ UNCHANGED faults
     \/ StoreFails /\ UNCHANGED copy
  /\ run' = [run EXCEPT ![t] = "writing"]
  /\ UNCHANGED <<row, memory, kind, dead, caller, by, history, crashes>>

\* The state finishRun will give the task: runTask asks for ctx.Err() when the
\* runner has returned, and an error counts only if the context is alive.
Verdict(t, failed) ==
  IF t \in dead THEN "cancelled" ELSE IF failed THEN "failed" ELSE "completed"

\* ... and writes it back with the answer, if there was one.
WriteRow(t) ==
  /\ run[t] = "writing"
  /\ \/ /\ \E text \in {"empty", "answer"} :
             row' = [row EXCEPT ![t] = [copy[t] EXCEPT !.linked = TRUE, !.text = text]]
        /\ run' = [run EXCEPT ![t] = Verdict(t, FALSE)]
        /\ UNCHANGED faults
     \/ /\ StoreFails
        /\ run' = [run EXCEPT ![t] = Verdict(t, TRUE)]
        /\ UNCHANGED row
  /\ UNCHANGED <<memory, kind, copy, dead, caller, by, history, crashes>>

\* Run returns: a command exits or fails, an agent's turn fails or is
\* interrupted, the timeout passes, the output limit is reached, the turn
\* cannot be set up, or the context was cancelled.
RunnerReturns(t) ==
  /\ run[t] \in {"spawned", "working"}
  /\ Unlocked \/ run[t] = "working"
  /\ \E failed \in BOOLEAN :
       /\ ~ failed => kind[t] = "shell" /\ run[t] = "working"
       /\ run' = [run EXCEPT ![t] = Verdict(t, failed)]
  /\ UNCHANGED <<row, memory, kind, copy, dead, caller, by, history, faults, crashes>>

-----------------------------------------------------------------------------
(* finishRun, and the second half of Fail and Cancel *)

\* The default sentence stands in for a final text that nobody set.
Ended(v, state) ==
  [v EXCEPT !.state = state, !.text = IF @ = "empty" THEN "default" ELSE @]

\* Mutant: finishRun ends the copy in memory, which the runner never writes.
FinishFromMemory(t) ==
  LET v == Ended(mem[t], run[t]) IN
  /\ Unlocked
  /\ run[t] \in Terminal
  /\ row' = [row EXCEPT ![t] = v]
  /\ settling' = [task |-> t, value |-> v, retry |-> TRUE]
  /\ run' = [run EXCEPT ![t] = "none"]
  /\ UNCHANGED <<mem, running, waiter, kind, copy, dead, caller, by, reports,
                 unsaved, faults, crashes>>

\* Mutant: the final state stays in memory.
FinishInMemory(t) ==
  /\ Unlocked
  /\ run[t] \in Terminal
  /\ settling' = [task |-> t, value |-> Ended(row[t], run[t]), retry |-> TRUE]
  /\ run' = [run EXCEPT ![t] = "none"]
  /\ UNCHANGED <<row, mem, running, waiter, kind, copy, dead, caller, by, reports,
                 unsaved, faults, crashes>>

\* finishRun starts from the row, or from memory if the row cannot be read; the
\* write is retried while the database is busy, and at last given up.
FinishRun(t) ==
  /\ Unlocked
  /\ run[t] \in Terminal
  /\ \E seen \in {row[t], mem[t]}, saved \in BOOLEAN :
       LET v == Ended(seen, run[t])
           lost == (IF seen = row[t] THEN 0 ELSE 1) + (IF saved THEN 0 ELSE 1)
       IN /\ faults + lost <= MaxFaults
          /\ faults' = faults + lost
          /\ row' = IF saved THEN [row EXCEPT ![t] = v] ELSE row
          /\ unsaved' = IF saved THEN unsaved ELSE unsaved \cup {t}
          /\ settling' = [task |-> t, value |-> v, retry |-> TRUE]
  /\ run' = [run EXCEPT ![t] = "none"]
  /\ UNCHANGED <<mem, running, waiter, kind, copy, dead, caller, by, reports, crashes>>

\* Mutant: the waiters are not woken.
CloseSilently ==
  LET t == settling.task IN
  /\ running' = running \ {t}
  /\ mem' = [mem EXCEPT ![t] = settling.value]
  /\ UNCHANGED waiter
  /\ settling' = None

\* The task ends in memory, its waiters are woken and the lock is released.
Close ==
  LET t == settling.task IN
  /\ running' = running \ {t}
  /\ mem' = [mem EXCEPT ![t] = settling.value]
  /\ waiter' = [waiter EXCEPT ![t] = "closed"]
  /\ settling' = None

\* Mutant: the report is made from the copy in memory.
AddReportFromMemory ==
  LET v == mem[settling.task]
      r == [status |-> settling.value.state, text |-> Ended(v, v.state).text] IN
  reports' = [reports EXCEPT ![settling.task] = Append(@, r)]

AddReport ==
  LET r == [status |-> settling.value.state, text |-> settling.value.text] IN
  reports' = [reports EXCEPT ![settling.task] = Append(@, r)]

\* deliverReportLocked: the report row is created and the delivery accepted.
Report ==
  /\ settling # None
  /\ AddReport
  /\ Close
  /\ UNCHANGED <<row, kind, goroutine, dead, caller, by, unsaved, faults, crashes>>

\* The delivery fails, before or after its report row was created.  finishRun
\* repeats all of it while the database is busy, and gives up on any other error; Fail and Cancel give up at once.
ReportFails ==
  /\ settling # None
  /\ StoreFails
  /\ AddReport \/ UNCHANGED reports
  /\ \/ Close
     \/ settling.retry /\ UNCHANGED memory
  /\ UNCHANGED <<row, kind, goroutine, dead, caller, by, unsaved, crashes>>

-----------------------------------------------------------------------------
(* Wait, as a workflow step calls it *)

\* Wait looks at the state and goes to sleep on the waiter channel.
Wait(t) ==
  /\ Unlocked
  /\ caller[t] = "wait"
  /\ caller' = [caller EXCEPT ![t] = IF IsTerminal(mem[t]) THEN "done" ELSE "blocked"]
  /\ UNCHANGED <<row, memory, kind, goroutine, dead, by, history, faults, crashes>>

Wake(t) ==
  /\ caller[t] = "blocked"
  /\ waiter[t] = "closed"
  /\ caller' = [caller EXCEPT ![t] = "wait"]
  /\ UNCHANGED <<row, memory, kind, goroutine, dead, by, history, faults, crashes>>

\* The step's context ends: the task has ended too, or the step cancels it.
WaitAborts(t) ==
  /\ Unlocked
  /\ caller[t] = "blocked"
  /\ caller' = [caller EXCEPT ![t] = IF IsTerminal(mem[t]) THEN "done" ELSE "cancel"]
  /\ UNCHANGED <<row, memory, kind, goroutine, dead, by, history, faults, crashes>>

-----------------------------------------------------------------------------

\* Mutant: a task that was running stays running.
RestartForgets ==
  /\ crashes < MaxCrashes
  /\ crashes' = crashes + 1
  /\ UNCHANGED row
  /\ mem' = [t \in Tasks |-> None]
  /\ running' = {}
  /\ waiter' = [t \in Tasks |-> "none"]
  /\ settling' = None
  /\ run' = [t \in Tasks |-> "none"]
  /\ copy' = [t \in Tasks |-> None]
  /\ dead' = {}
  /\ caller' = [t \in Tasks |-> IF caller[t] = "idle" THEN "idle" ELSE "done"]
  /\ UNCHANGED <<kind, by, history, faults>>

\* The daemon dies and starts again: markInterrupted fails the tasks whose row
\* says running before the first request is served.  It reports none of them.
Restart ==
  /\ crashes < MaxCrashes
  /\ crashes' = crashes + 1
  /\ row' = [t \in Tasks |-> IF row[t] # None /\ row[t].state = "running"
                             THEN Ended(row[t], "failed") ELSE row[t]]
  /\ mem' = [t \in Tasks |-> None]
  /\ running' = {}
  /\ waiter' = [t \in Tasks |-> "none"]
  /\ settling' = None
  /\ run' = [t \in Tasks |-> "none"]
  /\ copy' = [t \in Tasks |-> None]
  /\ dead' = {}
  /\ caller' = [t \in Tasks |-> IF caller[t] = "idle" THEN "idle" ELSE "done"]
  /\ UNCHANGED <<kind, by, history, faults>>

GoroutineSteps(t) ==
  RunnerStarts(t) \/ ReadRow(t) \/ WriteRow(t) \/ RunnerReturns(t) \/ FinishRun(t)

CallerSteps(t) == Fail(t) \/ StepCancels(t) \/ Wait(t) \/ Wake(t)

Next ==
  \/ \E t \in Tasks :
       \/ \E k \in Kind, c \in Caller : Create(t, k, c)
       \/ LeavePending(t)
       \/ Start(t)
       \/ StartFails(t)
       \/ ClientCancels(t)
       \/ WaitAborts(t)
       \/ GoroutineSteps(t)
       \/ CallerSteps(t)
  \/ Report
  \/ ReportFails
  \/ Restart

\* Goroutines and pending calls are scheduled and the holder of m.mu goes on.
\* m.mu is handed on without starvation (sync.RWMutex), hence SF where a step
\* needs it.  A runner returns: commands and agent turns have timeouts.
Fairness ==
  /\ WF_vars(Report)
  /\ \A t \in Tasks : SF_vars(GoroutineSteps(t)) /\ SF_vars(CallerSteps(t))

Spec == Init /\ [][Next]_vars /\ Fairness

-----------------------------------------------------------------------------
(* Invariants *)

\* Every variable has its type; only a task with a row is known to the manager.
TypeOK ==
  /\ row \in [Tasks -> Value \cup {None}]
  /\ mem \in [Tasks -> Value \cup {None}]
  /\ running \subseteq Tasks
  /\ waiter \in [Tasks -> {"none", "open", "closed"}]
  /\ settling \in [task : Tasks, value : Value, retry : BOOLEAN] \cup {None}
  /\ kind \in [Tasks -> Kind]
  /\ run \in [Tasks -> Alive \cup {"none"}]
  /\ copy \in [Tasks -> Value \cup {None}]
  /\ dead \subseteq Tasks
  /\ caller \in [Tasks -> CallerAt]
  /\ by \in [Tasks -> Caller]
  /\ reports \in [Tasks -> Seq([status : Terminal, text : {"answer", "default"}])]
  /\ unsaved \subseteq Tasks
  /\ faults \in 0 .. MaxFaults
  /\ crashes \in 0 .. MaxCrashes
  /\ \A t \in Tasks : mem[t] # None => row[t] # None

\* The row of t is being ended: finishRun has returned from its goroutine.
Settling(t) == settling # None /\ settling.task = t

HasRunner(t) == run[t] \in Alive \/ Settling(t)

\* A row says "running" only while a goroutine stands behind it that will end
\* it, restarts included, unless finishRun could not write the final row.
\* Conversely every goroutine can be cancelled: its task is in m.running.
RunningIsAlive ==
  \A t \in Tasks :
    /\ row[t] # None /\ row[t].state = "running" => HasRunner(t) \/ t \in unsaved
    /\ run[t] \in Alive => t \in running /\ row[t].state = "running"

\* Whenever the lock is free, memory and row agree on the state of a task: what
\* the API answers from memory is what a restart would find in the store.
MemoryMatchesRow ==
  Unlocked => \A t \in Tasks \ unsaved : mem[t] # None => mem[t].state = row[t].state

\* A sleeper is never left behind: an open waiter channel means that the task
\* has not ended, a closed one that it has (so that Wait does not spin).
NoMissedWakeup ==
  \A t \in Tasks :
    /\ waiter[t] = "open" => ~ IsTerminal(mem[t])
    /\ waiter[t] = "closed" => IsTerminal(mem[t])

\* What was reported is what the row says, unless the final row was lost.
ReportsTellTheRow ==
  \A t \in Tasks \ unsaved : \A i \in 1 .. Len(reports[t]) :
    reports[t][i] = [status |-> row[t].state, text |-> row[t].text]

\* As long as the store has not failed, a task that ends has one report, and
\* none before; only a restart can swallow it.
OneReport ==
  faults = 0 => \A t \in Tasks :
    /\ Len(reports[t]) <= 1
    /\ row[t] # None /\ IsTerminal(row[t]) /\ ~ Settling(t) /\ crashes = 0 =>
         reports[t] # <<>>

\* The session hears of a task's end once, and hears what the store has.
ReportsAreFaithful == ReportsTellTheRow /\ OneReport

\* A task is reported at most once.
ReportedAtMostOnce == \A t \in Tasks : Len(reports[t]) <= 1

-----------------------------------------------------------------------------
(* What a step may never do *)

\* The stored end of a task is final, over cancels, late runners and restarts.
EndIsFinal ==
  [][\A t \in Tasks : row[t] # None /\ IsTerminal(row[t]) => row'[t] = row[t]]_vars

\* The specialist's answer and the link to its turn, once stored, outlive every
\* later write of the row, as long as no store operation fails in that step.
AnswerIsKept ==
  [][\A t \in Tasks : row[t] # None /\ faults' = faults =>
       /\ row[t].text = "answer" => row'[t].text = "answer"
       /\ row[t].linked => row'[t].linked]_vars

-----------------------------------------------------------------------------
(* What must happen *)

\* A cancelled task ends: a task whose context is cancelled, or which Cancel
\* ended itself, is terminal in the store, unless the final write was lost.
CancelConverges ==
  \A t \in Tasks : t \in dead ~> (row[t] # None /\ IsTerminal(row[t])) \/ t \in unsaved

\* Nobody waits for ever for a task that was started.
WaitReturns == \A t \in Tasks : caller[t] = "blocked" ~> caller[t] # "blocked"

\* Tasks come to an end, and those who wait for them are let go.
TasksSettle == CancelConverges /\ WaitReturns
=============================================================================
