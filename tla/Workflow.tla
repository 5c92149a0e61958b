------------------------------- MODULE Workflow -------------------------------
(***************************************************************************)
(* internal/v2/workflows/service.go, the executor of workflow runs, with   *)
(* the approval handlers of app/routes.go that open and close its gates.   *)
(*                                                                         *)
(* A run is a row of the store that nobody locks.  An execution (a request *)
(* that triggers or resumes a run, or the goroutine of an asynchronous     *)
(* trigger) reads the row once, keeps its own copy, and writes the whole   *)
(* copy back at every step.  Approvals are decided by other requests,      *)
(* which read the approval, check it, and write approval and run in one    *)
(* transaction.                                                            *)
(*                                                                         *)
(* Tasks are those of TaskManager, reduced to what it promises: a started  *)
(* task ends.  Of a run's trace only the step of each approval_requested   *)
(* event is kept, which is all that Resume reads of it.  Rows that clients *)
(* write by hand (POST and PUT /v2/workflow_runs) are not modelled: under  *)
(* them a row says whatever the client says.                               *)
(***************************************************************************)
EXTENDS Naturals, Sequences, FiniteSets, SequencesExt

CONSTANTS
  Runs,         \* run ids
  Steps,        \* the workflow: a sequence of "role_task" and "approval"
  Executors,    \* requests and goroutines that trigger runs
  Resumers,     \* those of them that also resume runs
  Deciders,     \* requests that decide approvals
  Refs,         \* trigger references of asynchronous triggers
  None,         \* no row, no run, no reference
  MaxLoad       \* bound on runs, approvals that clients ask for, store
                \* operations that fail and restarts of the daemon, together

ASSUME WorkflowParameters ==
  /\ Steps \in Seq({"role_task", "approval"})
  /\ Resumers \subseteq Executors
  /\ None \notin Runs \cup Refs
  /\ MaxLoad \in Nat

VARIABLES
  row,        \* the run rows of the store
  approvals,  \* the approval rows, in the order of their creation
  tasks,      \* the tasks that were created for each run, likewise
  pc,         \* where an execution is
  job,        \* what an execution works on, with its copy of the run's row
  deciding,   \* the approval that a decider has found pending, or 0
  lost,       \* the runs of which a row write was given up
  faults, crashes

store == <<row, approvals, tasks>>
vars == <<row, approvals, tasks, pc, job, deciding, lost, faults, crashes>>

RunState == {"queued", "running", "waiting_approval",
             "completed", "failed", "interrupted"}
TaskState == {"pending", "running", "completed", "failed", "cancelled"}
ApprovalState == {"pending", "approved", "rejected", "expired"}

\* A run's row: task_ids and approval_ids, and the deduplication reference.
Row == [state : RunState, ref : Refs \cup {None},
        tasks : SUBSET Nat, asked : Seq(Nat)]

\* No row is no record.
ASSUME NoneIsNoRow == None \notin Row

Fresh(ref) == [state |-> "queued", ref |-> ref, tasks |-> {}, asked |-> <<>>]

\* at: the index of the current step.  async: the execution has a deadline, and
\* somebody behind it who cleans up when it returns an error.
\* task: the task it has created last.
Job == [run : Runs \cup {None}, row : Row, at : Nat \ {0}, async : BOOLEAN, task : Nat]

NoJob == [run |-> None, row |-> Fresh(None), at |-> 1, async |-> FALSE, task |-> 0]

PC == {"idle", "looked", "resuming", "begin", "step", "gate", "create", "list",
       "start", "wait", "fail", "interrupt", "finalize"}

Known(r) == row[r] # None

\* The bound of a model: what has been triggered, and what has happened to it.
\* Approvals that no step of a workflow asked for are those of clients.
Load ==
  Cardinality({r \in Runs : Known(r)}) + Cardinality({e \in Executors : pc[e] = "looked"})
    + Len(SelectSeq(approvals, LAMBDA a : a.step = 0)) + faults + crashes
LoadLeft == Load < MaxLoad

StoreFails == LoadLeft /\ faults' = faults + 1

Goto(e, next) == pc' = [pc EXCEPT ![e] = next]

-----------------------------------------------------------------------------

Init ==
  /\ row = [r \in Runs |-> None]
  /\ approvals = <<>>
  /\ tasks = [r \in Runs |-> <<>>]
  /\ pc = [e \in Executors |-> "idle"]
  /\ job = [e \in Executors |-> NoJob]
  /\ deciding = [d \in Deciders |-> 0]
  /\ lost = {}
  /\ faults = 0
  /\ crashes = 0

\* A fresh id: which one does not matter.
NewId == CHOOSE r \in Runs : ~ Known(r)

\* prepareExecution stores the row of a new run.
NewRun(e, r, ref, async) ==
  /\ ~ Known(r)
  /\ r = NewId
  /\ row' = [row EXCEPT ![r] = Fresh(ref)]
  /\ job' = [job EXCEPT ![e] =
       [NoJob EXCEPT !.run = r, !.row = Fresh(ref), !.async = async]]
  /\ Goto(e, "begin")

\* Trigger: every request has a run of its own.
Trigger(e, r) ==
  /\ pc[e] = "idle"
  /\ LoadLeft
  /\ NewRun(e, r, None, FALSE)
  /\ UNCHANGED <<approvals, tasks, deciding, lost, faults, crashes>>

RefTaken(ref) == \E r \in Runs : Known(r) /\ row[r].ref = ref

\* TriggerAsync finds no run with its reference ...
TriggerAsync(e, ref) ==
  /\ pc[e] = "idle"
  /\ LoadLeft
  /\ ~ RefTaken(ref)
  /\ Goto(e, "looked")
  /\ job' = [job EXCEPT ![e] = [NoJob EXCEPT !.row = Fresh(ref)]]
  /\ UNCHANGED <<store, deciding, lost, faults, crashes>>

\* Mutant: the run that has meanwhile taken the reference is not noticed.
CreateAsyncAnyway(e, r) ==
  /\ pc[e] = "looked"
  /\ NewRun(e, r, job[e].row.ref, TRUE)
  /\ UNCHANGED <<approvals, tasks, deciding, lost, faults, crashes>>

\* ... and creates one, unless another trigger was faster: the references are
\* unique in the store, and the loser is given the winner's run to look at.
CreateAsync(e, r) ==
  /\ pc[e] = "looked"
  /\ \/ ~ RefTaken(job[e].row.ref) /\ NewRun(e, r, job[e].row.ref, TRUE)
     \/ RefTaken(job[e].row.ref) /\ Goto(e, "idle") /\ UNCHANGED <<row, job>>
  /\ UNCHANGED <<approvals, tasks, deciding, lost, faults, crashes>>

-----------------------------------------------------------------------------
(* Resume *)

\* Resume reads the run ...
Resume(e, r) ==
  /\ e \in Resumers
  /\ pc[e] = "idle"
  /\ Known(r)
  /\ row[r].state = "waiting_approval"
  /\ job' = [job EXCEPT ![e] = [NoJob EXCEPT !.run = r, !.row = row[r]]]
  /\ Goto(e, "resuming")
  /\ UNCHANGED <<store, deciding, lost, faults, crashes>>

LastAsked(e) == approvals[Last(job[e].row.asked)]

\* ... and then its last approval (approvedResumePoint).  The run goes on with
\* the step after the gate.
ApprovedResumePoint(e) ==
  /\ pc[e] = "resuming"
  /\ IF LastAsked(e).state = "approved"
     THEN job' = [job EXCEPT ![e].at = LastAsked(e).step + 1] /\ Goto(e, "begin")
     ELSE Goto(e, "idle") /\ UNCHANGED job
  /\ UNCHANGED <<store, deciding, lost, faults, crashes>>

-----------------------------------------------------------------------------
(* executeRun *)

\* persistRun writes the whole copy back, then the execution goes on with j at
\* `next'.  When the write fails the execution returns an error, and only an
\* asynchronous one has somebody behind it who sees that.
Persist(e, j, next) ==
  \/ /\ row' = [row EXCEPT ![j.run] = j.row]
     /\ job' = [job EXCEPT ![e] = j]
     /\ Goto(e, next)
     /\ UNCHANGED <<lost, faults>>
  \/ /\ StoreFails
     /\ Goto(e, IF j.async THEN "finalize" ELSE "idle")
     /\ lost' = lost \cup {j.run}
     /\ UNCHANGED <<row, job>>

InState(j, state) == [j EXCEPT !.row.state = state]

Begin(e) ==
  /\ pc[e] = "begin"
  /\ Persist(e, InState(job[e], "running"), "step")
  /\ UNCHANGED <<approvals, tasks, deciding, crashes>>

StartStep(e) ==
  /\ pc[e] = "step"
  /\ job[e].at <= Len(Steps)
  /\ Persist(e, job[e], IF Steps[job[e].at] = "approval" THEN "gate" ELSE "create")
  /\ UNCHANGED <<approvals, tasks, deciding, crashes>>

Complete(e) ==
  /\ pc[e] = "step"
  /\ job[e].at > Len(Steps)
  /\ Persist(e, InState(job[e], "completed"), "idle")
  /\ UNCHANGED <<approvals, tasks, deciding, crashes>>

\* An approval step: one transaction stores the approval and lets the run wait
\* for it, and the execution is over.  If it fails, so does the run.
AskApproval(e) ==
  LET j == job[e] IN
  /\ pc[e] = "gate"
  /\ \/ /\ approvals' =
             Append(approvals, [run |-> j.run, step |-> j.at, state |-> "pending"])
        /\ row' = [row EXCEPT ![j.run] =
             [j.row EXCEPT !.state = "waiting_approval", !.asked = Append(@, Len(approvals'))]]
        /\ Goto(e, "idle")
        /\ UNCHANGED faults
     \/ StoreFails /\ Goto(e, "fail") /\ UNCHANGED <<row, approvals>>
  /\ UNCHANGED <<tasks, job, deciding, lost, crashes>>

\* A role_task step: the task is created, ...
CreateTask(e) ==
  LET r == job[e].run IN
  /\ pc[e] = "create"
  /\ \/ /\ tasks' = [tasks EXCEPT ![r] = Append(@, [step |-> job[e].at, state |-> "pending"])]
        /\ job' = [job EXCEPT ![e].row.tasks = @ \cup {Len(tasks'[r])},
                              ![e].task = Len(tasks'[r])]
        /\ Goto(e, "list")
        /\ UNCHANGED faults
     \/ StoreFails /\ Goto(e, "fail") /\ UNCHANGED <<tasks, job>>
  /\ UNCHANGED <<row, approvals, deciding, lost, crashes>>

\* ... the row names it, ...
ListTask(e) ==
  /\ pc[e] = "list"
  /\ Persist(e, job[e], "start")
  /\ UNCHANGED <<approvals, tasks, deciding, crashes>>

MyTask(e) == tasks[job[e].run][job[e].task]

SetTask(r, k, state) == tasks' = [tasks EXCEPT ![r][k].state = state]

\* ... and it is started.  If that fails, failTask tries to fail it.
StartTask(e) ==
  LET r == job[e].run
      k == job[e].task
  IN
  /\ pc[e] = "start"
  /\ \/ /\ MyTask(e).state = "pending"
        /\ SetTask(r, k, "running")
        /\ Goto(e, "wait")
        /\ UNCHANGED faults
     \/ /\ MyTask(e).state # "pending"
        /\ Goto(e, "fail")
        /\ UNCHANGED <<tasks, faults>>
     \/ /\ MyTask(e).state = "pending"
        /\ StoreFails
        /\ \E state \in {"pending", "failed"} : SetTask(r, k, state)
        /\ Goto(e, "fail")
  /\ UNCHANGED <<row, approvals, job, deciding, lost, crashes>>

Ended(t) == t.state \in {"completed", "failed", "cancelled"}

\* Mutant: the run goes on however the task has ended.
CollectAnyEnd(e) ==
  /\ pc[e] = "wait"
  /\ Ended(MyTask(e))
  /\ Persist(e, [job[e] EXCEPT !.at = @ + 1], "step")
  /\ UNCHANGED <<approvals, tasks, deciding, crashes>>

\* Mutant: only a completed task wakes the execution.
CollectCompleted(e) ==
  /\ pc[e] = "wait"
  /\ MyTask(e).state = "completed"
  /\ Persist(e, [job[e] EXCEPT !.at = @ + 1], "step")
  /\ UNCHANGED <<approvals, tasks, deciding, crashes>>

\* Wait returns the ended task, its reports are looked up and the row is
\* written, before the task's end decides how the run goes on.
Collect(e) ==
  LET t == MyTask(e) IN
  /\ pc[e] = "wait"
  /\ Ended(t)
  /\ \/ t.state = "completed" /\ Persist(e, [job[e] EXCEPT !.at = @ + 1], "step")
     \/ t.state = "cancelled" /\ Persist(e, job[e], "interrupt")
     \/ t.state = "failed" /\ Persist(e, job[e], "fail")
     \/ StoreFails /\ Goto(e, "fail") /\ UNCHANGED <<row, job, lost>>
  /\ UNCHANGED <<approvals, tasks, deciding, crashes>>

\* The deadline of an asynchronous execution passes while it waits; it cancels
\* the task, which will end when its runner notices.
TimesOut(e) ==
  /\ pc[e] = "wait"
  /\ job[e].async
  /\ ~ Ended(MyTask(e))
  /\ Goto(e, "interrupt")
  /\ UNCHANGED <<store, job, deciding, lost, faults, crashes>>

\* failRun and interruptRun.
FailRun(e) ==
  /\ pc[e] = "fail"
  /\ Persist(e, InState(job[e], "failed"), "idle")
  /\ UNCHANGED <<approvals, tasks, deciding, crashes>>

InterruptRun(e) ==
  /\ pc[e] = "interrupt"
  /\ Persist(e, InState(job[e], "interrupted"), "idle")
  /\ UNCHANGED <<approvals, tasks, deciding, crashes>>

\* finalizeAsyncFailure fails the run as the store has it, or as it was when it
\* was created if it cannot be read.
FinalizeAsyncFailure(e) ==
  LET r == job[e].run IN
  /\ pc[e] = "finalize"
  /\ \/ /\ row' = [row EXCEPT ![r].state = "failed"]
        /\ lost' = lost \ {r}
        /\ UNCHANGED faults
     \/ /\ StoreFails
        /\ row' \in {row, [row EXCEPT ![r] = [Fresh(@.ref) EXCEPT !.state = "failed"]]}
        /\ UNCHANGED lost
  /\ Goto(e, "idle")
  /\ UNCHANGED <<approvals, tasks, job, deciding, crashes>>

-----------------------------------------------------------------------------
(* Approvals *)

\* handleCreateApproval: a client asks for an approval of its own, about a run
\* in any state.  No run waits for it, but its decision may end one.
CreateApproval(r) ==
  /\ Known(r)
  /\ LoadLeft
  /\ approvals' = Append(approvals, [run |-> r, step |-> 0, state |-> "pending"])
  /\ UNCHANGED <<row, tasks, pc, job, deciding, lost, faults, crashes>>

\* handleUpdateApproval reads the approval and refuses to change one that has
\* been decided ...
ReadApproval(d, a) ==
  /\ deciding[d] = 0
  /\ approvals[a].state = "pending"
  /\ deciding' = [deciding EXCEPT ![d] = a]
  /\ UNCHANGED <<store, pc, job, lost, faults, crashes>>

\* Mutant: only the approval is written.
DecideAlone(a, state) ==
  /\ approvals' = [approvals EXCEPT ![a].state = state]
  /\ UNCHANGED row

\* Mutant: the decision closes the run whatever it is doing.
DecideAnyRun(a, state) ==
  /\ approvals' = [approvals EXCEPT ![a].state = state]
  /\ row' = IF state \in {"rejected", "expired"}
            THEN [row EXCEPT ![approvals[a].run].state = "failed"] ELSE row

\* finalizeWorkflowRunAfterApprovalDecision: a run that waits is closed by a
\* rejection, and left to be resumed by an approval.
Decide(a, state) ==
  LET r == approvals[a].run IN
  /\ approvals' = [approvals EXCEPT ![a].state = state]
  /\ row' = IF state \in {"rejected", "expired"} /\ row[r].state = "waiting_approval"
            THEN [row EXCEPT ![r].state = "failed"] ELSE row

\* ... and later writes what it was asked to write, without looking again.
UpdateApproval(d) ==
  /\ deciding[d] # 0
  /\ \/ \E state \in ApprovalState : Decide(deciding[d], state) /\ UNCHANGED faults
     \/ StoreFails /\ UNCHANGED <<row, approvals>>
  /\ deciding' = [deciding EXCEPT ![d] = 0]
  /\ UNCHANGED <<tasks, pc, job, lost, crashes>>

-----------------------------------------------------------------------------

\* The task manager ends what it has started (TaskManager), ...
TaskEnds(r, k) ==
  /\ tasks[r][k].state = "running"
  /\ \E state \in {"completed", "failed", "cancelled"} : SetTask(r, k, state)
  /\ UNCHANGED <<row, approvals, pc, job, deciding, lost, faults, crashes>>

\* ... and a client may cancel a task before it is started.
CancelPending(r, k) ==
  /\ tasks[r][k].state = "pending"
  /\ SetTask(r, k, "cancelled")
  /\ UNCHANGED <<row, approvals, pc, job, deciding, lost, faults, crashes>>

\* The daemon dies and starts again: markInterrupted ends the runs whose row
\* says running, and the tasks (as TaskManager has it).
Restart ==
  /\ LoadLeft
  /\ crashes' = crashes + 1
  /\ row' = [r \in Runs |-> IF Known(r) /\ row[r].state = "running"
                            THEN [row[r] EXCEPT !.state = "interrupted"] ELSE row[r]]
  /\ tasks' = [r \in Runs |-> [k \in DOMAIN tasks[r] |->
       IF tasks[r][k].state = "running" THEN [tasks[r][k] EXCEPT !.state = "failed"]
       ELSE tasks[r][k]]]
  /\ pc' = [e \in Executors |-> "idle"]
  /\ job' = [e \in Executors |-> NoJob]
  /\ deciding' = [d \in Deciders |-> 0]
  /\ UNCHANGED <<approvals, lost, faults>>

ExecutionSteps(e) ==
  \/ \E r \in Runs : CreateAsync(e, r)
  \/ ApprovedResumePoint(e)
  \/ Begin(e) \/ StartStep(e) \/ Complete(e) \/ AskApproval(e)
  \/ CreateTask(e) \/ ListTask(e) \/ StartTask(e) \/ Collect(e)
  \/ FailRun(e) \/ InterruptRun(e) \/ FinalizeAsyncFailure(e)

Next ==
  \/ \E e \in Executors :
       \/ \E r \in Runs : Trigger(e, r) \/ Resume(e, r)
       \/ \E ref \in Refs : TriggerAsync(e, ref)
       \/ ExecutionSteps(e)
       \/ TimesOut(e)
  \/ \E r \in Runs :
       \/ CreateApproval(r)
       \/ \E k \in DOMAIN tasks[r] : TaskEnds(r, k) \/ CancelPending(r, k)
  \/ \E d \in Deciders :
       (\E a \in DOMAIN approvals : ReadApproval(d, a)) \/ UpdateApproval(d)
  \/ Restart

\* Requests and goroutines are scheduled, and tasks end (TaskManager).  Nobody
\* is obliged to trigger, to decide or to resume.
Fairness ==
  /\ \A e \in Executors : WF_vars(ExecutionSteps(e))
  /\ \A r \in Runs : WF_vars(\E k \in DOMAIN tasks[r] : TaskEnds(r, k))

Spec == Init /\ [][Next]_vars /\ Fairness

-----------------------------------------------------------------------------
(* Invariants *)

\* Every variable has its type, and an execution that is under way has a run.
TypeOK ==
  /\ row \in [Runs -> Row \cup {None}]
  /\ approvals \in Seq([run : Runs, step : Nat, state : ApprovalState])
  /\ \A r \in Runs : tasks[r] \in Seq([step : Nat, state : TaskState])
  /\ pc \in [Executors -> PC]
  /\ job \in [Executors -> Job]
  /\ deciding \in [Deciders -> {0} \cup DOMAIN approvals]
  /\ lost \subseteq Runs
  /\ \A e \in Executors : pc[e] \notin {"idle", "looked"} => job[e].run # None

\* However many triggers race, a reference has one run.
OneRunPerRef ==
  \A r, q \in Runs : Known(r) /\ Known(q) /\ r # q /\ row[r].ref = row[q].ref =>
    row[r].ref = None

\* The steps before step n of run r have been passed: a task has completed, an
\* approval was granted.
Passed(r, n) ==
  \A i \in 1 .. n - 1 :
    IF Steps[i] = "approval"
    THEN \E a \in DOMAIN approvals :
           approvals[a].run = r /\ approvals[a].step = i /\ approvals[a].state = "approved"
    ELSE \E k \in DOMAIN tasks[r] :
           tasks[r][k].step = i /\ tasks[r][k].state = "completed"

\* Over approvals, resumptions and restarts, a step's task is created once, and
\* not before every earlier step has been passed.
StepsInOrder ==
  \A r \in Runs : \A k \in DOMAIN tasks[r] :
    /\ Passed(r, tasks[r][k].step)
    /\ \A m \in DOMAIN tasks[r] : tasks[r][m].step = tasks[r][k].step => m = k

\* A run that waits can be answered: the approval it waits for is its own, about
\* an approval step, and is either open or granted.
WaitingIsAnswerable ==
  \A r \in Runs : Known(r) /\ row[r].state = "waiting_approval" =>
    /\ row[r].asked # <<>>
    /\ LET a == approvals[Last(row[r].asked)] IN
       a.run = r /\ Steps[a.step] = "approval" /\ a.state \in {"pending", "approved"}

\* A task of a run that does anything, or has succeeded, is named by the run's
\* row, so that a restart in between leaves no unknown task at work.
WorkIsListed ==
  \A r \in Runs \ lost : \A k \in DOMAIN tasks[r] :
    tasks[r][k].state \in {"running", "completed"} => k \in row[r].tasks

\* A run that says running has an execution behind it, over failures of tasks
\* and restarts, unless a row could not be written.
RunningHasExecutor ==
  \A r \in Runs \ lost : Known(r) /\ row[r].state = "running" =>
    \E e \in Executors : pc[e] # "idle" /\ job[e].run = r

\* Nothing that is open is out of reach: a waiting run can be answered, a task
\* at work is named by its run, and a running run has an execution behind it.
NothingIsStranded == WaitingIsAnswerable /\ WorkIsListed /\ RunningHasExecutor

\* At any time at most one task of a run is at work.
TasksAreSerial ==
  \A r \in Runs : \A k, m \in DOMAIN tasks[r] :
    tasks[r][k].state = "running" /\ tasks[r][m].state = "running" => k = m

-----------------------------------------------------------------------------
(* What a step may never do *)

\* A run that was completed or interrupted stays so, whoever decides its
\* approvals later.
EndIsFinal ==
  [][\A r \in Runs : Known(r) /\ row[r].state \in {"completed", "interrupted"} =>
       row'[r] = row[r]]_vars

-----------------------------------------------------------------------------
(* What must happen *)

Open(r) == Known(r) /\ row[r].state \in {"queued", "running"}

\* A run comes to its end or to a gate, unless one of its row writes was given
\* up, or the daemon died while the run was queued.
RunsSettle ==
  \A r \in Runs :
    Open(r) ~> \/ ~ Open(r)
               \/ r \in lost
               \/ crashes > 0 /\ row[r].state = "queued"
=============================================================================
