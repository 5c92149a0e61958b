--------------------------- MODULE WorkflowProofs ---------------------------
(***************************************************************************)
(* For any workflow and any number of runs, executions and decisions: the  *)
(* reference of an asynchronous trigger has one run, and a run that waits  *)
(* can be answered, whatever is retried, resumed, decided, lost or         *)
(* restarted in between.                                                   *)
(*                                                                         *)
(* The second half is what one execution at a time is worth.  Nothing in   *)
(* Resume claims a run and nothing in the approval handler claims an       *)
(* approval, so that two requests may execute the same run or decide the   *)
(* same approval at once.  As long as they do not (Alone, Undisputed),     *)
(* nothing of a run is stranded, its ends are final and its steps are      *)
(* taken in order, whatever fails, is retried or restarted.                *)
(***************************************************************************)
EXTENDS Workflow, TLAPS

IsSequence(s) == \E S : s \in Seq(S)

RunTypes ==
  /\ row \in [Runs -> Row \cup {None}]
  /\ IsSequence(approvals)
  /\ DOMAIN tasks = Runs /\ \A r \in Runs : IsSequence(tasks[r])
  /\ pc \in [Executors -> PC]
  /\ DOMAIN job = Executors
  /\ \A e \in Executors : DOMAIN job[e] = DOMAIN NoJob /\ job[e].row \in Row
  /\ deciding \in [Deciders -> {0} \cup DOMAIN approvals]

\* An approval is about a run that is stored.
ApprovalsAreAbout ==
  \A a \in DOMAIN approvals :
    /\ DOMAIN approvals[a] = {"run", "step", "state"}
    /\ approvals[a].run \in Runs /\ Known(approvals[a].run)

AtWork(e) == pc[e] \notin {"idle", "looked"}

\* The copy that an execution writes back has the reference of its run's row.
CopiesFit ==
  \A e \in Executors : AtWork(e) =>
    /\ job[e].run \in Runs /\ Known(job[e].run)
    /\ row[job[e].run].ref = job[e].row.ref

WorkflowInv == RunTypes /\ ApprovalsAreAbout /\ CopiesFit /\ OneRunPerRef

-----------------------------------------------------------------------------
(* Sequences *)

\* A longer sequence, and one with an element changed, are sequences.
LEMMA Appended ==
  ASSUME NEW s, IsSequence(s), NEW x
  PROVE  /\ IsSequence(Append(s, x)) /\ Len(Append(s, x)) \in Nat \ {0}
         /\ DOMAIN Append(s, x) = DOMAIN s \cup {Len(s) + 1}
         /\ \A i \in DOMAIN s : Append(s, x)[i] = s[i]
         /\ Append(s, x)[Len(s) + 1] = x
  <1>1. PICK S : s \in Seq(S)
    BY DEF IsSequence
  <1>2. Append(s, x) \in Seq(S \cup {x})
    BY <1>1
  <1> QED
    BY <1>1, <1>2 DEF IsSequence

LEMMA Changed ==
  ASSUME NEW s, IsSequence(s), NEW k, NEW x
  PROVE  IsSequence([s EXCEPT ![k] = x])
  <1>1. PICK S : s \in Seq(S)
    BY DEF IsSequence
  <1>2. DOMAIN s = 1 .. Len(s) /\ Len(s) \in Nat /\ \A i \in DOMAIN s : s[i] \in S
    BY <1>1
  <1>3. [s EXCEPT ![k] = x] = [i \in 1 .. Len(s) |-> IF i = k THEN x ELSE s[i]]
    BY <1>2
  <1>4. [i \in 1 .. Len(s) |-> IF i = k THEN x ELSE s[i]] \in Seq(S \cup {x})
    BY <1>2
  <1> QED
    BY <1>3, <1>4 DEF IsSequence

-----------------------------------------------------------------------------
(* What nearly every step does *)

\* No run is stored anew, and none loses its reference.
RefsKept ==
  /\ row' \in [Runs -> Row \cup {None}]
  /\ \A r \in Runs : /\ Known(r) <=> Known(r)'
                     /\ Known(r) => row'[r].ref = row[r].ref

\* Nobody begins to work, or changes what he works on.
WorkGoesOn ==
  /\ pc' \in [Executors -> PC]
  /\ DOMAIN job' = Executors
  /\ \A e \in Executors :
       /\ DOMAIN job'[e] = DOMAIN NoJob /\ job'[e].row \in Row
       /\ AtWork(e)' => AtWork(e) /\ job'[e].run = job[e].run /\ job'[e].row.ref = job[e].row.ref

TasksGoOn == DOMAIN tasks' = Runs /\ \A r \in Runs : IsSequence(tasks'[r])

ApprovalsGoOn ==
  /\ IsSequence(approvals') /\ deciding' \in [Deciders -> {0} \cup DOMAIN approvals']
  /\ \A a \in DOMAIN approvals' :
       /\ DOMAIN approvals'[a] = {"run", "step", "state"}
       /\ approvals'[a].run \in Runs /\ Known(approvals'[a].run)

LEMMA GoesOn ==
  ASSUME WorkflowInv, RefsKept, WorkGoesOn, TasksGoOn, ApprovalsGoOn
  PROVE  WorkflowInv'
  <1> USE DEF WorkflowInv, RefsKept
  <1>1. RunTypes'
    BY DEF RunTypes, WorkGoesOn, TasksGoOn, ApprovalsGoOn
  <1>2. ApprovalsAreAbout'
    BY DEF ApprovalsAreAbout, ApprovalsGoOn
  <1>3. CopiesFit'
    BY DEF CopiesFit, WorkGoesOn
  <1>4. OneRunPerRef'
    BY DEF OneRunPerRef
  <1> QED
    BY <1>1, <1>2, <1>3, <1>4

LEMMA NothingElse ==
  ASSUME WorkflowInv
  PROVE  /\ UNCHANGED row => RefsKept
         /\ UNCHANGED <<pc, job>> => WorkGoesOn
         /\ UNCHANGED tasks => TasksGoOn
         /\ UNCHANGED <<approvals, deciding>> => ApprovalsGoOn
  BY DEF WorkflowInv, RunTypes, RefsKept, Known, WorkGoesOn, AtWork, TasksGoOn, ApprovalsGoOn,
     ApprovalsAreAbout

\* An execution that goes on with a copy of the same run, ...
LEMMA Working ==
  ASSUME WorkflowInv, NEW e \in Executors, AtWork(e), NEW j,
         DOMAIN j = DOMAIN NoJob, j.run = job[e].run, j.row \in Row, j.row.ref = job[e].row.ref,
         NEW next \in PC, Goto(e, next), job' = [job EXCEPT ![e] = j] \/ UNCHANGED job
  PROVE  WorkGoesOn
  BY DEF WorkflowInv, RunTypes, Goto, WorkGoesOn, AtWork, PC

\* ... and writes it back.
LEMMA ChangesRow ==
  ASSUME WorkflowInv, NEW r \in Runs, Known(r), NEW v \in Row, v.ref = row[r].ref,
         row' = [row EXCEPT ![r] = v]
  PROVE  RefsKept
  BY NoneIsNoRow DEF WorkflowInv, RunTypes, RefsKept, Known

LEMMA WritesRow ==
  ASSUME WorkflowInv, NEW e \in Executors, AtWork(e), NEW v \in Row, v.ref = job[e].row.ref,
         row' = [row EXCEPT ![job[e].run] = v]
  PROVE  RefsKept
  BY NoneIsNoRow DEF WorkflowInv, RunTypes, CopiesFit, RefsKept, Known

LEMMA PersistKeeps ==
  ASSUME WorkflowInv, NEW e \in Executors, AtWork(e), NEW j,
         DOMAIN j = DOMAIN NoJob, j.run = job[e].run, j.row \in Row, j.row.ref = job[e].row.ref,
         NEW next \in PC, Persist(e, j, next), UNCHANGED <<approvals, tasks, deciding>>
  PROVE  WorkflowInv'
  <1>1. RefsKept
    BY WritesRow, NothingElse DEF Persist
  <1>2. PICK at \in PC : Goto(e, at)
    BY DEF Persist, PC
  <1>3. WorkGoesOn
    BY <1>2, Working DEF Persist
  <1> QED
    BY <1>1, <1>3, NothingElse, GoesOn

-----------------------------------------------------------------------------
(* Triggers and resumptions *)

LEMMA WorkflowInitially == Init => WorkflowInv
  <1> SUFFICES ASSUME Init PROVE WorkflowInv
    OBVIOUS
  <1>1. IsSequence(<<>>) /\ DOMAIN <<>> = {}
    BY DEF IsSequence
  <1>2. Fresh(None) \in Row
    BY DEF Fresh, Row, RunState
  <1> QED
    BY <1>1, <1>2 DEF Init, WorkflowInv, RunTypes, ApprovalsAreAbout, CopiesFit, AtWork,
       OneRunPerRef, Known, PC, NoJob

\* A new run has a reference that no other run has, or none.
LEMMA NewRunKeeps ==
  ASSUME WorkflowInv, NEW e \in Executors, NEW r \in Runs, NEW ref \in Refs \cup {None},
         NEW async \in BOOLEAN, ref = None \/ ~ RefTaken(ref),
         NewRun(e, r, ref, async), UNCHANGED <<approvals, tasks, deciding>>
  PROVE  WorkflowInv'
  <1> DEFINE j == [NoJob EXCEPT !.run = r, !.row = Fresh(ref), !.async = async]
  <1>1. Fresh(ref) \in Row /\ Fresh(ref).ref = ref
    BY DEF Fresh, Row, RunState
  <1>2. DOMAIN j = DOMAIN NoJob /\ j.run = r /\ j.row = Fresh(ref)
    BY DEF NoJob
  <1>3. row' = [row EXCEPT ![r] = Fresh(ref)] /\ job' = [job EXCEPT ![e] = j] /\ Goto(e, "begin")
    BY DEF NewRun
  <1> HIDE DEF j
  <1>4. /\ ~ Known(r) /\ Known(r)' /\ row'[r].ref = ref
        /\ \A q \in Runs \ {r} : row'[q] = row[q]
    BY <1>1, <1>3, NoneIsNoRow DEF WorkflowInv, RunTypes, Known, NewRun
  <1>5. RunTypes'
    BY <1>1, <1>2, <1>3 DEF WorkflowInv, RunTypes, Goto, PC
  <1>6. ApprovalsAreAbout'
    BY <1>4 DEF WorkflowInv, ApprovalsAreAbout, Known
  <1>7. CopiesFit'
    BY <1>1, <1>2, <1>3, <1>4 DEF WorkflowInv, RunTypes, CopiesFit, AtWork, Goto, Known
  <1>8. OneRunPerRef'
    BY <1>4 DEF WorkflowInv, OneRunPerRef, RefTaken, Known
  <1> QED
    BY <1>5, <1>6, <1>7, <1>8 DEF WorkflowInv

LEMMA TriggersKeep ==
  ASSUME WorkflowInv, NEW e \in Executors,
         \/ \E r \in Runs : Trigger(e, r) \/ CreateAsync(e, r) \/ Resume(e, r)
         \/ \E ref \in Refs : TriggerAsync(e, ref)
  PROVE  WorkflowInv'
  <1>1. CASE \E r \in Runs : Trigger(e, r)
    BY <1>1, NewRunKeeps DEF Trigger
  <1>2. ASSUME NEW r \in Runs, CreateAsync(e, r) PROVE WorkflowInv'
    <2>1. job[e].row.ref \in Refs \cup {None}
      BY DEF WorkflowInv, RunTypes, Row
    <2>2. CASE ~ RefTaken(job[e].row.ref) /\ NewRun(e, r, job[e].row.ref, TRUE)
      BY <1>2, <2>1, <2>2, NewRunKeeps DEF CreateAsync
    <2>3. CASE Goto(e, "idle") /\ UNCHANGED <<row, job>>
      <3>1. WorkGoesOn
        BY <2>3 DEF WorkflowInv, RunTypes, Goto, WorkGoesOn, AtWork, PC
      <3> QED
        BY <1>2, <2>3, <3>1, NothingElse, GoesOn DEF CreateAsync
    <2> QED
      BY <1>2, <2>2, <2>3 DEF CreateAsync
  <1>3. ASSUME NEW r \in Runs, Resume(e, r) PROVE WorkflowInv'
    <2> DEFINE j == [NoJob EXCEPT !.run = r, !.row = row[r]]
    <2>1. row[r] \in Row /\ Known(r)
      BY <1>3 DEF Resume, WorkflowInv, RunTypes, Known
    <2>2. DOMAIN j = DOMAIN NoJob /\ j.run = r /\ j.row = row[r]
      BY DEF NoJob
    <2>3. job' = [job EXCEPT ![e] = j] /\ Goto(e, "resuming") /\ UNCHANGED <<store, deciding>>
      BY <1>3 DEF Resume
    <2> HIDE DEF j
    <2>4. RunTypes' /\ CopiesFit'
      BY <2>1, <2>2, <2>3 DEF WorkflowInv, RunTypes, CopiesFit, AtWork, Known, Goto, PC, store
    <2>5. ApprovalsAreAbout' /\ OneRunPerRef'
      BY <2>3 DEF WorkflowInv, ApprovalsAreAbout, OneRunPerRef, Known, store
    <2> QED
      BY <2>4, <2>5 DEF WorkflowInv
  <1>4. ASSUME NEW ref \in Refs, TriggerAsync(e, ref) PROVE WorkflowInv'
    <2> DEFINE j == [NoJob EXCEPT !.row = Fresh(ref)]
    <2>1. j.row \in Row /\ DOMAIN j = DOMAIN NoJob
      BY DEF NoJob, Fresh, Row, RunState
    <2>2. job' = [job EXCEPT ![e] = j] /\ Goto(e, "looked") /\ UNCHANGED <<store, deciding>>
      BY <1>4 DEF TriggerAsync
    <2> HIDE DEF j
    <2>3. WorkGoesOn
      BY <2>1, <2>2 DEF WorkflowInv, RunTypes, Goto, WorkGoesOn, AtWork, PC
    <2> QED
      BY <2>2, <2>3, NothingElse, GoesOn DEF store
  <1> QED
    BY <1>1, <1>2, <1>3, <1>4

-----------------------------------------------------------------------------
(* Executions *)

\* An execution that only moves on.
LEMMA Moving ==
  ASSUME WorkflowInv, NEW e \in Executors, AtWork(e), NEW next \in PC, Goto(e, next), UNCHANGED job
  PROVE  WorkGoesOn
  <1>1. DOMAIN job[e] = DOMAIN NoJob /\ job[e].row \in Row
    BY DEF WorkflowInv, RunTypes
  <1> QED
    BY <1>1, Working

\* A copy of an execution's job about the same run.
SameRun(e, j) ==
  /\ DOMAIN j = DOMAIN NoJob /\ j.run = job[e].run
  /\ j.row \in Row /\ j.row.ref = job[e].row.ref

LEMMA CopyItself ==
  ASSUME WorkflowInv, NEW e \in Executors PROVE SameRun(e, job[e])
  BY DEF WorkflowInv, RunTypes, SameRun

LEMMA CopyInState ==
  ASSUME WorkflowInv, NEW e \in Executors, NEW state \in RunState
  PROVE  SameRun(e, InState(job[e], state))
  BY DEF WorkflowInv, RunTypes, SameRun, InState, NoJob, Row

LEMMA CopyAt ==
  ASSUME WorkflowInv, NEW e \in Executors, NEW n PROVE SameRun(e, [job[e] EXCEPT !.at = n])
  BY DEF WorkflowInv, RunTypes, SameRun, NoJob

\* The change of one task's state.
LEMMA SetTaskKeeps ==
  ASSUME WorkflowInv, NEW r, NEW k, NEW state, SetTask(r, k, state) PROVE TasksGoOn
  <1> DEFINE s == [tasks[r] EXCEPT ![k] = [tasks[r][k] EXCEPT !.state = state]]
  <1>1. DOMAIN tasks = Runs /\ \A q \in Runs : IsSequence(tasks[q])
    BY DEF WorkflowInv, RunTypes
  <1>2. tasks' = [tasks EXCEPT ![r] = s]
    BY DEF SetTask
  <1>3. r \in Runs => IsSequence(s)
    BY <1>1, Changed
  <1> HIDE DEF s
  <1> QED
    BY <1>1, <1>2, <1>3 DEF TasksGoOn

LEMMA CopyTask ==
  ASSUME WorkflowInv, NEW e \in Executors, NEW k \in Nat
  PROVE  SameRun(e, [job[e] EXCEPT !.row.tasks = @ \cup {k}, !.task = k])
  BY DEF WorkflowInv, RunTypes, SameRun, NoJob, Row

LEMMA WritesKeep ==
  ASSUME WorkflowInv, NEW e \in Executors,
         Begin(e) \/ StartStep(e) \/ Complete(e) \/ ListTask(e) \/ FailRun(e) \/ InterruptRun(e)
  PROVE  WorkflowInv'
  <1>1. PICK j \in {job[e]} \cup {InState(job[e], state) : state \in {"running", "completed", "failed", "interrupted"}} :
          \E next \in PC : Persist(e, j, next)
    BY DEF Begin, StartStep, Complete, ListTask, FailRun, InterruptRun, PC
  <1>2. AtWork(e) /\ UNCHANGED <<approvals, tasks, deciding>>
    BY DEF Begin, StartStep, Complete, ListTask, FailRun, InterruptRun, AtWork
  <1>3. SameRun(e, j)
    BY CopyItself, CopyInState DEF RunState
  <1> QED
    BY <1>1, <1>2, <1>3, PersistKeeps DEF SameRun

LEMMA CollectKeeps == ASSUME WorkflowInv, NEW e \in Executors, Collect(e) PROVE WorkflowInv'
  <1>1. AtWork(e) /\ UNCHANGED <<approvals, tasks, deciding>>
    BY DEF Collect, AtWork
  <1>2. CASE \E next \in PC : Persist(e, job[e], next) \/ Persist(e, [job[e] EXCEPT !.at = @ + 1], next)
    BY <1>1, <1>2, CopyItself, CopyAt, PersistKeeps DEF SameRun
  <1>3. CASE Goto(e, "fail") /\ UNCHANGED <<row, job>>
    <2>1. WorkGoesOn
      BY <1>1, <1>3, Moving DEF PC
    <2> QED
      BY <1>1, <1>3, <2>1, NothingElse, GoesOn
  <1> QED
    BY <1>2, <1>3 DEF Collect, PC

\* Steps that leave the rows of runs and approvals alone.
LEMMA WorkKeeps ==
  ASSUME WorkflowInv, NEW e \in Executors,
         ApprovedResumePoint(e) \/ CreateTask(e) \/ StartTask(e) \/ TimesOut(e)
  PROVE  WorkflowInv'
  <1>1. CASE ApprovedResumePoint(e)
    <2>1. AtWork(e) /\ UNCHANGED <<row, approvals, tasks, deciding>>
      BY <1>1 DEF ApprovedResumePoint, AtWork, store
    <2>2. WorkGoesOn
      <3>1. CASE Goto(e, "idle") /\ UNCHANGED job
        BY <2>1, <3>1, Moving DEF PC
      <3>2. CASE job' = [job EXCEPT ![e].at = LastAsked(e).step + 1] /\ Goto(e, "begin")
        <4>1. job' = [job EXCEPT ![e] = [job[e] EXCEPT !.at = LastAsked(e).step + 1]]
          BY <3>2
        <4> QED
          BY <2>1, <3>2, <4>1, CopyAt, Working DEF PC, SameRun
      <3> QED
        BY <1>1, <3>1, <3>2 DEF ApprovedResumePoint
    <2> QED
      BY <2>1, <2>2, NothingElse, GoesOn
  <1>2. CASE CreateTask(e)
    <2> DEFINE r == job[e].run
               s == Append(tasks[r], [step |-> job[e].at, state |-> "pending"])
               k == Len(s)
    <2>1. AtWork(e) /\ UNCHANGED <<row, approvals, deciding>> /\ r \in Runs
      BY <1>2 DEF CreateTask, AtWork, WorkflowInv, CopiesFit
    <2>2. CASE Goto(e, "fail") /\ UNCHANGED <<tasks, job>>
      <3>1. WorkGoesOn
        BY <2>1, <2>2, Moving DEF PC
      <3> QED
        BY <2>1, <2>2, <3>1, NothingElse, GoesOn
    <2>3. CASE /\ tasks' = [tasks EXCEPT ![r] = s]
               /\ job' = [job EXCEPT ![e].row.tasks = @ \cup {Len(tasks'[r])},
                                     ![e].task = Len(tasks'[r])]
               /\ Goto(e, "list")
      <3>1. IsSequence(s) /\ k \in Nat
        BY <2>1, Appended DEF WorkflowInv, RunTypes
      <3>2. TasksGoOn /\ tasks'[r] = s
        BY <2>1, <2>3, <3>1 DEF WorkflowInv, RunTypes, TasksGoOn
      <3>3. job' = [job EXCEPT ![e] = [job[e] EXCEPT !.row.tasks = @ \cup {k}, !.task = k]]
        <4>1. e \in DOMAIN job /\ DOMAIN job[e] = DOMAIN NoJob
          BY DEF WorkflowInv, RunTypes
        <4>2. job' = [job EXCEPT ![e].row.tasks = @ \cup {k}, ![e].task = k]
          BY <2>3, <3>2
        <4> HIDE DEF k
        <4>3. [job EXCEPT ![e].row.tasks = @ \cup {k}, ![e].task = k]
                = [job EXCEPT ![e] = [job[e] EXCEPT !.row.tasks = @ \cup {k}, !.task = k]]
          BY <4>1 DEF NoJob
        <4> QED
          BY <4>2, <4>3
      <3>4. WorkGoesOn
        BY <2>1, <2>3, <3>1, <3>3, CopyTask, Working DEF PC, SameRun
      <3> QED
        BY <2>1, <3>2, <3>4, NothingElse, GoesOn
    <2> QED
      BY <1>2, <2>2, <2>3 DEF CreateTask
  <1>3. CASE StartTask(e)
    <2>1. AtWork(e) /\ UNCHANGED <<row, approvals, deciding, job>>
      BY <1>3 DEF StartTask, AtWork
    <2>2. WorkGoesOn
      <3>1. PICK next \in PC : Goto(e, next)
        BY <1>3 DEF StartTask, PC
      <3> QED
        BY <2>1, <3>1, Moving
    <2>3. TasksGoOn
      <3>1. CASE UNCHANGED tasks
        BY <3>1, NothingElse
      <3>2. CASE \E state : SetTask(job[e].run, job[e].task, state)
        BY <3>2, SetTaskKeeps
      <3> QED
        BY <1>3, <3>1, <3>2 DEF StartTask
    <2> QED
      BY <2>1, <2>2, <2>3, NothingElse, GoesOn
  <1>4. CASE TimesOut(e)
    <2>1. AtWork(e) /\ UNCHANGED <<row, approvals, tasks, deciding, job>> /\ Goto(e, "interrupt")
      BY <1>4 DEF TimesOut, AtWork, store
    <2>2. WorkGoesOn
      BY <2>1, Moving DEF PC
    <2> QED
      BY <2>1, <2>2, NothingElse, GoesOn
  <1> QED
    BY <1>1, <1>2, <1>3, <1>4

\* The approval that a run waits for is about that run.
LEMMA AskKeeps == ASSUME WorkflowInv, NEW e \in Executors, AskApproval(e) PROVE WorkflowInv'
  <1> DEFINE j == job[e]
             new == [run |-> j.run, step |-> j.at, state |-> "pending"]
             v == [j.row EXCEPT !.state = "waiting_approval", !.asked = Append(@, Len(approvals'))]
  <1>1. /\ AtWork(e) /\ UNCHANGED <<tasks, job, deciding>>
        /\ j.run \in Runs /\ Known(j.run) /\ j.row \in Row
    BY DEF AskApproval, AtWork, WorkflowInv, CopiesFit, RunTypes
  <1>2. WorkGoesOn
    <2>1. PICK next \in PC : Goto(e, next)
      BY DEF AskApproval, PC
    <2> QED
      BY <1>1, <2>1, Moving
  <1>3. CASE UNCHANGED <<row, approvals>>
    BY <1>1, <1>2, <1>3, NothingElse, GoesOn
  <1>4. CASE approvals' = Append(approvals, new) /\ row' = [row EXCEPT ![j.run] = v]
    <2>1. /\ IsSequence(approvals') /\ Len(approvals') \in Nat
          /\ DOMAIN approvals' = DOMAIN approvals \cup {Len(approvals) + 1}
          /\ \A i \in DOMAIN approvals : approvals'[i] = approvals[i]
          /\ approvals'[Len(approvals) + 1] = new
      BY <1>4, Appended DEF WorkflowInv, RunTypes
    <2>2. v \in Row /\ v.ref = j.row.ref
      <3>1. Append(j.row.asked, Len(approvals')) \in Seq(Nat)
        BY <1>1, <2>1 DEF Row
      <3>2. \A x \in Row, q \in Seq(Nat) :
              /\ [x EXCEPT !.state = "waiting_approval", !.asked = q] \in Row
              /\ [x EXCEPT !.state = "waiting_approval", !.asked = q].ref = x.ref
        BY DEF Row, RunState
      <3>3. v = [j.row EXCEPT !.state = "waiting_approval", !.asked = Append(j.row.asked, Len(approvals'))]
        BY <1>1 DEF Row
      <3> QED
        BY <1>1, <3>1, <3>2, <3>3
    <2>3. RefsKept
      BY <1>1, <1>4, <2>2, WritesRow
    <2>4. ApprovalsGoOn
      BY <1>1, <2>1, <2>3 DEF ApprovalsGoOn, RefsKept, WorkflowInv, RunTypes, ApprovalsAreAbout
    <2> QED
      BY <1>1, <1>2, <2>3, <2>4, NothingElse, GoesOn
  <1> QED
    BY <1>3, <1>4 DEF AskApproval

LEMMA FinalizeKeeps ==
  ASSUME WorkflowInv, NEW e \in Executors, FinalizeAsyncFailure(e) PROVE WorkflowInv'
  <1> DEFINE r == job[e].run
  <1>1. /\ AtWork(e) /\ UNCHANGED <<approvals, tasks, job, deciding>> /\ Goto(e, "idle")
        /\ r \in Runs /\ Known(r) /\ row[r] \in Row
    BY DEF FinalizeAsyncFailure, AtWork, WorkflowInv, CopiesFit, RunTypes, Known
  <1>2. WorkGoesOn
    BY <1>1, Moving DEF PC
  <1>3. /\ [row[r] EXCEPT !.state = "failed"] \in Row
        /\ [row[r] EXCEPT !.state = "failed"].ref = row[r].ref
        /\ [Fresh(row[r].ref) EXCEPT !.state = "failed"] \in Row
        /\ [Fresh(row[r].ref) EXCEPT !.state = "failed"].ref = row[r].ref
    <2>1. \A v \in Row : [v EXCEPT !.state = "failed"] \in Row /\ [v EXCEPT !.state = "failed"].ref = v.ref
      BY DEF Row, RunState
    <2>2. Fresh(row[r].ref) \in Row /\ Fresh(row[r].ref).ref = row[r].ref
      BY <1>1 DEF Row, RunState, Fresh
    <2> QED
      BY <1>1, <2>1, <2>2
  <1>4. \/ UNCHANGED row
        \/ row' = [row EXCEPT ![r] = [row[r] EXCEPT !.state = "failed"]]
        \/ row' = [row EXCEPT ![r] = [Fresh(row[r].ref) EXCEPT !.state = "failed"]]
    BY <1>1 DEF FinalizeAsyncFailure, WorkflowInv, RunTypes
  <1>5. RefsKept
    BY <1>1, <1>3, <1>4, NothingElse, WritesRow DEF WorkflowInv, CopiesFit
  <1> QED
    BY <1>1, <1>2, <1>5, NothingElse, GoesOn

LEMMA ExecutionKeeps ==
  ASSUME WorkflowInv, NEW e \in Executors, ExecutionSteps(e) \/ TimesOut(e) PROVE WorkflowInv'
  BY TriggersKeep, WritesKeep, CollectKeeps, WorkKeeps, AskKeeps, FinalizeKeeps DEF ExecutionSteps

-----------------------------------------------------------------------------
(* Everybody else *)

\* A client's approval is about a run that it names, and a decision changes the
\* states of an approval and of its run.
LEMMA ApprovalsKeep ==
  ASSUME WorkflowInv,
         \/ \E r \in Runs : CreateApproval(r)
         \/ \E d \in Deciders : (\E a \in DOMAIN approvals : ReadApproval(d, a)) \/ UpdateApproval(d)
  PROVE  WorkflowInv'
  <1>0. /\ IsSequence(approvals) /\ deciding \in [Deciders -> {0} \cup DOMAIN approvals]
        /\ \A a \in DOMAIN approvals :
             /\ DOMAIN approvals[a] = {"run", "step", "state"}
             /\ approvals[a].run \in Runs /\ Known(approvals[a].run)
    BY DEF WorkflowInv, RunTypes, ApprovalsAreAbout
  <1>1. ASSUME NEW r \in Runs, CreateApproval(r) PROVE WorkflowInv'
    <2> DEFINE new == [run |-> r, step |-> 0, state |-> "pending"]
    <2>1. /\ approvals' = Append(approvals, new) /\ Known(r)
          /\ UNCHANGED <<row, tasks, pc, job, deciding>>
      BY <1>1 DEF CreateApproval
    <2>2. /\ IsSequence(approvals')
          /\ DOMAIN approvals' = DOMAIN approvals \cup {Len(approvals) + 1}
          /\ \A i \in DOMAIN approvals : approvals'[i] = approvals[i]
          /\ approvals'[Len(approvals) + 1] = new
      BY <1>0, <2>1, Appended
    <2>3. ApprovalsGoOn
      BY <1>0, <2>1, <2>2 DEF ApprovalsGoOn, Known
    <2> QED
      BY <2>1, <2>3, NothingElse, GoesOn
  <1>2. ASSUME NEW d \in Deciders, NEW a \in DOMAIN approvals, ReadApproval(d, a) PROVE WorkflowInv'
    <2>1. deciding' = [deciding EXCEPT ![d] = a] /\ UNCHANGED <<row, approvals, tasks, pc, job>>
      BY <1>2 DEF ReadApproval, store
    <2>2. ApprovalsGoOn
      BY <1>0, <2>1 DEF ApprovalsGoOn, Known
    <2> QED
      BY <2>1, <2>2, NothingElse, GoesOn
  <1>3. ASSUME NEW d \in Deciders, UpdateApproval(d) PROVE WorkflowInv'
    <2>1. /\ deciding' = [deciding EXCEPT ![d] = 0] /\ UNCHANGED <<tasks, pc, job>>
          /\ deciding[d] \in DOMAIN approvals
      BY <1>0, <1>3 DEF UpdateApproval
    <2>2. CASE UNCHANGED <<row, approvals>>
      <3>1. ApprovalsGoOn
        BY <1>0, <2>1, <2>2 DEF ApprovalsGoOn, Known
      <3> QED
        BY <2>1, <2>2, <3>1, NothingElse, GoesOn
    <2>3. ASSUME NEW state \in ApprovalState, Decide(deciding[d], state) PROVE WorkflowInv'
      <3> DEFINE a == deciding[d]
                 r == approvals[a].run
                 v == [approvals[a] EXCEPT !.state = state]
      <3>1. r \in Runs /\ Known(r) /\ row[r] \in Row
        BY <1>0, <2>1 DEF WorkflowInv, RunTypes, Known
      <3>2. approvals' = [approvals EXCEPT ![a] = v]
        BY <2>3 DEF Decide
      <3>3. DOMAIN v = {"run", "step", "state"} /\ v.run = r
        BY <1>0, <2>1
      <3>4. UNCHANGED row \/ row' = [row EXCEPT ![r] = [row[r] EXCEPT !.state = "failed"]]
        BY <2>3 DEF Decide
      <3>5. \A x \in Row : [x EXCEPT !.state = "failed"] \in Row /\ [x EXCEPT !.state = "failed"].ref = x.ref
        BY DEF Row, RunState
      <3> HIDE DEF v
      <3>6. RefsKept
        <4> DEFINE w == [row[r] EXCEPT !.state = "failed"]
        <4>1. w \in Row /\ w.ref = row[r].ref
          BY <3>1, <3>5
        <4>2. UNCHANGED row \/ row' = [row EXCEPT ![r] = w]
          BY <3>4
        <4> HIDE DEF w, a, r
        <4> QED
          BY <3>1, <4>1, <4>2, ChangesRow, NothingElse
      <3>7. IsSequence(approvals')
        BY <1>0, <3>2, Changed
      <3>8. ApprovalsGoOn
        BY <1>0, <2>1, <3>1, <3>2, <3>3, <3>6, <3>7 DEF ApprovalsGoOn, RefsKept
      <3> QED
        BY <2>1, <3>6, <3>8, NothingElse, GoesOn
    <2> QED
      BY <1>3, <2>2, <2>3 DEF UpdateApproval
  <1> QED
    BY <1>1, <1>2, <1>3

LEMMA TasksKeep ==
  ASSUME WorkflowInv, NEW r \in Runs, NEW k \in DOMAIN tasks[r], TaskEnds(r, k) \/ CancelPending(r, k)
  PROVE  WorkflowInv'
  <1>1. TasksGoOn
    BY SetTaskKeeps DEF TaskEnds, CancelPending
  <1>2. UNCHANGED <<row, approvals, pc, job, deciding>>
    BY DEF TaskEnds, CancelPending
  <1> QED
    BY <1>1, <1>2, NothingElse, GoesOn

\* A restart ends runs, tasks and all executions.
LEMMA RestartKeeps == ASSUME WorkflowInv, Restart PROVE WorkflowInv'
  <1>1. RefsKept
    <2>1. \A x \in Row : /\ [x EXCEPT !.state = "interrupted"] \in Row
                        /\ [x EXCEPT !.state = "interrupted"].ref = x.ref
      BY DEF Row, RunState
    <2> QED
      BY <2>1, NoneIsNoRow DEF Restart, RefsKept, WorkflowInv, RunTypes, Known
  <1>2. WorkGoesOn
    <2>1. NoJob.row \in Row
      BY DEF NoJob, Fresh, Row, RunState
    <2> QED
      BY <2>1 DEF Restart, WorkGoesOn, AtWork, PC
  <1>3. TasksGoOn
    <2>1. ASSUME NEW r \in Runs PROVE IsSequence(tasks'[r])
      <3>1. PICK S : tasks[r] \in Seq(S)
        BY DEF WorkflowInv, RunTypes, IsSequence
      <3> DEFINE end(t) == IF t.state = "running" THEN [t EXCEPT !.state = "failed"] ELSE t
      <3>2. tasks'[r] = [k \in DOMAIN tasks[r] |-> end(tasks[r][k])]
        BY DEF Restart
      <3>3. DOMAIN tasks[r] = 1 .. Len(tasks[r]) /\ Len(tasks[r]) \in Nat
        BY <3>1
      <3> HIDE DEF end
      <3>4. [k \in 1 .. Len(tasks[r]) |-> end(tasks[r][k])] \in Seq({end(tasks[r][k]) : k \in DOMAIN tasks[r]})
        BY <3>3
      <3> QED
        BY <3>2, <3>3, <3>4 DEF IsSequence
    <2> QED
      BY <2>1 DEF Restart, TasksGoOn
  <1>4. ApprovalsGoOn
    BY <1>1 DEF Restart, ApprovalsGoOn, RefsKept, WorkflowInv, RunTypes, ApprovalsAreAbout
  <1> QED
    BY <1>1, <1>2, <1>3, <1>4, GoesOn

LEMMA WorkflowStep == WorkflowInv /\ [Next]_vars => WorkflowInv'
  <1> SUFFICES ASSUME WorkflowInv, [Next]_vars PROVE WorkflowInv'
    OBVIOUS
  <1>1. CASE \E e \in Executors : \/ \E r \in Runs : Trigger(e, r) \/ Resume(e, r)
                                 \/ \E ref \in Refs : TriggerAsync(e, ref)
    BY <1>1, TriggersKeep
  <1>2. CASE \E e \in Executors : ExecutionSteps(e) \/ TimesOut(e)
    BY <1>2, ExecutionKeeps
  <1>3. CASE \/ \E r \in Runs : CreateApproval(r)
             \/ \E d \in Deciders : (\E a \in DOMAIN approvals : ReadApproval(d, a)) \/ UpdateApproval(d)
    BY <1>3, ApprovalsKeep
  <1>4. CASE \E r \in Runs : \E k \in DOMAIN tasks[r] : TaskEnds(r, k) \/ CancelPending(r, k)
    BY <1>4, TasksKeep
  <1>5. CASE Restart
    BY <1>5, RestartKeeps
  <1>6. CASE UNCHANGED vars
    BY <1>6, NothingElse, GoesOn DEF vars
  <1> QED
    BY <1>1, <1>2, <1>3, <1>4, <1>5, <1>6 DEF Next

-----------------------------------------------------------------------------

\* What an execution writes back is about the run it was given, whoever else has
\* written that run's row (workflows/service.go:232, 376).
THEOREM WorkflowInvariant == Spec => []WorkflowInv
  BY WorkflowInitially, WorkflowStep, PTL DEF Spec

\* However many asynchronous triggers look for a reference and create a run, it has
\* one (workflows/service.go:232), and no step of any execution, decision or restart
\* takes the reference from it.
THEOREM ReferencesHaveOneRun == Spec => []OneRunPerRef
  <1>1. WorkflowInv => OneRunPerRef
    BY DEF WorkflowInv
  <1> QED
    BY <1>1, WorkflowInvariant, PTL
-----------------------------------------------------------------------------
(* Types, and the gates that runs wait at *)

Task == [step : Nat, state : TaskState]
Approval == [run : Runs, step : Nat, state : ApprovalState]

WorkTypes ==
  /\ approvals \in Seq(Approval)
  /\ tasks \in [Runs -> Seq(Task)]
  /\ job \in [Executors -> Job]
  /\ lost \subseteq Runs

MidRun == {"step", "gate", "create", "list", "start", "wait", "fail", "interrupt"}

\* The last of the approvals asked is about a gate of run r.
IsGateOf(r, asked) ==
  /\ asked # <<>> /\ Last(asked) \in DOMAIN approvals
  /\ LET a == approvals[Last(asked)] IN
     a.run = r /\ a.step \in DOMAIN Steps /\ Steps[a.step] = "approval"

\* A run that waits does so at a gate that is open or not yet answered.
GateFits(r) ==
  Known(r) /\ row[r].state = "waiting_approval" =>
    /\ IsGateOf(r, row[r].asked)
    /\ approvals[Last(row[r].asked)].state \in {"pending", "approved"}

\* What a copy says of gates and of the run's state.
CopyFits(e) ==
  /\ pc[e] = "resuming" => IsGateOf(job[e].run, job[e].row.asked)
  /\ pc[e] \in MidRun => job[e].row.state = "running"
  /\ pc[e] = "gate" => job[e].at \in DOMAIN Steps /\ Steps[job[e].at] = "approval"

GateInv ==
  WorkTypes /\ (\A r \in Runs : GateFits(r)) /\ \A e \in Executors : CopyFits(e)

\* The copies of a job that an execution goes on with: in another state, at
\* another step, and with one more task.
LEMMA CopiesInState ==
  ASSUME NEW j \in Job, NEW s \in RunState
  PROVE  /\ InState(j, s) \in Job
         /\ InState(j, s).run = j.run /\ InState(j, s).at = j.at /\ InState(j, s).task = j.task
         /\ InState(j, s).async = j.async
         /\ InState(j, s).row \in Row
         /\ InState(j, s).row.state = s /\ InState(j, s).row.tasks = j.row.tasks
         /\ InState(j, s).row.asked = j.row.asked
  <1>1. j.row \in Row
    BY DEF Job
  <1>2. [j.row EXCEPT !.state = s] \in Row
    BY <1>1 DEF Row
  <1>3. InState(j, s) = [j EXCEPT !.row = [j.row EXCEPT !.state = s]]
    BY DEF InState, Job
  <1> QED
    BY <1>1, <1>2, <1>3 DEF Job, Row

LEMMA CopiesMoved ==
  ASSUME NEW j \in Job, NEW n \in Nat \ {0}
  PROVE  /\ [j EXCEPT !.at = n] \in Job
         /\ [j EXCEPT !.at = n].at = n /\ [j EXCEPT !.at = n].run = j.run
         /\ [j EXCEPT !.at = n].row = j.row /\ [j EXCEPT !.at = n].task = j.task
  BY DEF Job

LEMMA CopiesWithTask ==
  ASSUME NEW j \in Job, NEW k \in Nat
  PROVE  /\ [j EXCEPT !.row.tasks = @ \cup {k}, !.task = k] \in Job
         /\ [j EXCEPT !.row.tasks = @ \cup {k}, !.task = k].at = j.at
         /\ [j EXCEPT !.row.tasks = @ \cup {k}, !.task = k].run = j.run
         /\ [j EXCEPT !.row.tasks = @ \cup {k}, !.task = k].task = k
         /\ [j EXCEPT !.row.tasks = @ \cup {k}, !.task = k].row.tasks = j.row.tasks \cup {k}
         /\ [j EXCEPT !.row.tasks = @ \cup {k}, !.task = k].row.state = j.row.state
         /\ [j EXCEPT !.row.tasks = @ \cup {k}, !.task = k].row.asked = j.row.asked
  <1> DEFINE w == [j.row EXCEPT !.tasks = @ \cup {k}]
             v == [j EXCEPT !.row = w, !.task = k]
  <1>1. j.row \in Row
    BY DEF Job
  <1>2. w \in Row /\ w.tasks = j.row.tasks \cup {k} /\ w.state = j.row.state /\ w.asked = j.row.asked
    BY <1>1 DEF Row
  <1>3. [j EXCEPT !.row.tasks = @ \cup {k}, !.task = k] = v
    BY DEF Job
  <1> HIDE DEF w
  <1>4. v \in Job /\ v.row = w /\ v.at = j.at /\ v.run = j.run /\ v.task = k
    BY <1>2 DEF Job
  <1> QED
    BY <1>2, <1>3, <1>4

LEMMA FreshRow ==
  ASSUME NEW ref \in Refs \cup {None}
  PROVE  /\ Fresh(ref) \in Row /\ Fresh(ref).state = "queued" /\ Fresh(ref).tasks = {}
         /\ Fresh(ref).asked = <<>> /\ Fresh(ref).ref = ref
  BY DEF Fresh, Row, RunState

LEMMA NewJobs ==
  ASSUME NEW r \in Runs \cup {None}, NEW w \in Row, NEW b \in BOOLEAN
  PROVE  /\ [NoJob EXCEPT !.run = r, !.row = w, !.async = b] \in Job
         /\ [NoJob EXCEPT !.run = r, !.row = w, !.async = b].run = r
         /\ [NoJob EXCEPT !.run = r, !.row = w, !.async = b].row = w
         /\ [NoJob EXCEPT !.run = r, !.row = w, !.async = b].at = 1
         /\ [NoJob EXCEPT !.run = r, !.row = w] \in Job
         /\ [NoJob EXCEPT !.run = r, !.row = w].run = r
         /\ [NoJob EXCEPT !.run = r, !.row = w].row = w
         /\ [NoJob EXCEPT !.row = w] \in Job
         /\ NoJob \in Job
  <1>1. Fresh(None) \in Row
    BY FreshRow
  <1>2. NoJob \in Job /\ NoJob.at = 1
    BY <1>1 DEF Job, NoJob
  <1>3. ASSUME NEW j \in Job
        PROVE  /\ [j EXCEPT !.run = r, !.row = w, !.async = b] \in Job
               /\ [j EXCEPT !.run = r, !.row = w, !.async = b].run = r
               /\ [j EXCEPT !.run = r, !.row = w, !.async = b].row = w
               /\ [j EXCEPT !.run = r, !.row = w, !.async = b].at = j.at
               /\ [j EXCEPT !.run = r, !.row = w] \in Job
               /\ [j EXCEPT !.run = r, !.row = w].run = r
               /\ [j EXCEPT !.run = r, !.row = w].row = w
               /\ [j EXCEPT !.row = w] \in Job
    BY DEF Job
  <1> QED
    BY <1>2, <1>3

LEMMA GateInitially == Init => GateInv
  <1> SUFFICES ASSUME Init PROVE GateInv
    OBVIOUS
  <1>1. Fresh(None) \in Row
    BY FreshRow
  <1>2. NoJob \in Job
    BY <1>1, NewJobs
  <1> QED
    BY <1>2 DEF Init, GateInv, WorkTypes, GateFits, CopyFits, MidRun, Known

\* Approvals are added, and keep their run and step.
ApprovalsStand ==
  \A a \in DOMAIN approvals :
    /\ a \in DOMAIN approvals'
    /\ approvals'[a].run = approvals[a].run /\ approvals'[a].step = approvals[a].step

ApprovalsKept == \A a \in DOMAIN approvals : a \in DOMAIN approvals' /\ approvals'[a] = approvals[a]

LEMMA GatesGoOn ==
  ASSUME GateInv, WorkTypes', ApprovalsStand,
         \A r \in Runs : (row'[r] = row[r] /\ ApprovalsKept) \/ GateFits(r)',
         \A e \in Executors : (pc'[e] = pc[e] /\ job'[e] = job[e]) \/ CopyFits(e)'
  PROVE  GateInv'
  <1>1. \A r, asked : IsGateOf(r, asked) => IsGateOf(r, asked)'
    BY DEF IsGateOf, ApprovalsStand
  <1>2. ASSUME NEW r \in Runs PROVE GateFits(r)'
    <2>1. CASE row'[r] = row[r] /\ ApprovalsKept
      <3>1. GateFits(r)
        BY DEF GateInv
      <3>2. Known(r)' /\ row'[r].state = "waiting_approval" =>
              /\ Known(r) /\ row[r].state = "waiting_approval"
              /\ Last(row[r].asked) \in DOMAIN approvals
        BY <2>1, <3>1 DEF GateFits, Known, IsGateOf
      <3> QED
        BY <1>1, <2>1, <3>1, <3>2 DEF GateFits, ApprovalsKept
    <2> QED
      BY <2>1
  <1>3. ASSUME NEW e \in Executors PROVE CopyFits(e)'
    <2>1. CASE pc'[e] = pc[e] /\ job'[e] = job[e]
      <3>1. CopyFits(e)
        BY DEF GateInv
      <3> QED
        BY <1>1, <2>1, <3>1 DEF CopyFits
    <2> QED
      BY <2>1
  <1> QED
    BY <1>2, <1>3 DEF GateInv

LEMMA Kept == UNCHANGED approvals => ApprovalsKept /\ ApprovalsStand
  BY DEF ApprovalsKept, ApprovalsStand

LEMMA Added ==
  ASSUME GateInv, NEW a \in Approval, approvals' = Append(approvals, a)
  PROVE  /\ ApprovalsKept /\ ApprovalsStand /\ approvals' \in Seq(Approval)
         /\ Len(approvals') \in DOMAIN approvals' /\ Len(approvals') \in Nat
         /\ approvals'[Len(approvals')] = a
         /\ DOMAIN approvals' = DOMAIN approvals \cup {Len(approvals')}
  <1>1. approvals \in Seq(Approval)
    BY DEF GateInv, WorkTypes
  <1>2. /\ approvals' \in Seq(Approval) /\ Len(approvals') = Len(approvals) + 1
        /\ Len(approvals) \in Nat
        /\ \A i \in 1 .. Len(approvals) : approvals'[i] = approvals[i]
        /\ approvals'[Len(approvals) + 1] = a
        /\ DOMAIN approvals = 1 .. Len(approvals) /\ DOMAIN approvals' = 1 .. Len(approvals')
    BY <1>1
  <1> QED
    BY <1>2 DEF ApprovalsKept, ApprovalsStand

\* persistRun and what follows, for any copy that says what the execution does next.
LEMMA PersistGates ==
  ASSUME WorkflowInv, GateInv, NEW e \in Executors, AtWork(e),
         NEW v \in Job, v.run = job[e].run, v.row.state # "waiting_approval",
         NEW next \in PC \ {"resuming"}, Persist(e, v, next), UNCHANGED <<approvals, tasks>>,
         next \in MidRun => v.row.state = "running",
         next = "gate" => v.at \in DOMAIN Steps /\ Steps[v.at] = "approval"
  PROVE  GateInv'
  <1>1. /\ v.run \in Runs /\ pc \in [Executors -> PC] /\ job \in [Executors -> Job]
        /\ lost \subseteq Runs /\ row \in [Runs -> Row \cup {None}]
    BY DEF WorkflowInv, RunTypes, CopiesFit, GateInv, WorkTypes
  <1>2. CASE /\ row' = [row EXCEPT ![v.run] = v.row] /\ job' = [job EXCEPT ![e] = v]
             /\ Goto(e, next) /\ UNCHANGED lost
    <2>1. WorkTypes'
      BY <1>1, <1>2 DEF GateInv, WorkTypes
    <2>2. \A r \in Runs : row'[r] = row[r] \/ GateFits(r)'
      BY <1>1, <1>2 DEF GateFits
    <2>3. CopyFits(e)' /\ \A f \in Executors \ {e} : pc'[f] = pc[f] /\ job'[f] = job[f]
      BY <1>1, <1>2 DEF CopyFits, Goto, MidRun
    <2> QED
      BY <2>1, <2>2, <2>3, Kept, GatesGoOn
  <1>3. CASE /\ Goto(e, "finalize") \/ Goto(e, "idle")
             /\ lost' = lost \cup {v.run} /\ UNCHANGED <<row, job>>
    <2>1. WorkTypes'
      BY <1>1, <1>3 DEF GateInv, WorkTypes
    <2>2. CopyFits(e)' /\ \A f \in Executors \ {e} : pc'[f] = pc[f] /\ job'[f] = job[f]
      BY <1>1, <1>3 DEF CopyFits, Goto, MidRun
    <2> QED
      BY <1>3, <2>1, <2>2, Kept, GatesGoOn
  <1> QED
    BY <1>2, <1>3 DEF Persist

LEMMA WritesGates ==
  ASSUME WorkflowInv, GateInv, NEW e \in Executors,
         \/ Begin(e) \/ StartStep(e) \/ Complete(e) \/ ListTask(e)
         \/ FailRun(e) \/ InterruptRun(e) \/ Collect(e)
  PROVE  GateInv'
  <1> DEFINE j == job[e]
  <1>1. j \in Job /\ j.at \in Nat \ {0} /\ (pc[e] \in MidRun => j.row.state = "running")
    BY DEF GateInv, WorkTypes, CopyFits, Job
  <1>2. Steps \in Seq({"role_task", "approval"}) /\ DOMAIN Steps = 1 .. Len(Steps) /\ Len(Steps) \in Nat
    BY WorkflowParameters
  <1>3. \A s \in RunState : InState(j, s) \in Job /\ InState(j, s).run = j.run /\ InState(j, s).row.state = s
    BY <1>1, CopiesInState
  <1>4. [j EXCEPT !.at = @ + 1] \in Job /\ [j EXCEPT !.at = @ + 1].run = j.run /\ [j EXCEPT !.at = @ + 1].row = j.row
    <2>1. j.at + 1 \in Nat \ {0}
      BY <1>1
    <2> QED
      BY <1>1, <2>1, CopiesMoved
  <1>5. CASE Begin(e)
    BY <1>3, <1>5, PersistGates DEF Begin, AtWork, RunState, PC, MidRun
  <1>6. CASE StartStep(e)
    <2>1. j.at \in DOMAIN Steps
      BY <1>1, <1>2, <1>6 DEF StartStep
    <2> QED
      BY <1>1, <1>6, <2>1, PersistGates DEF StartStep, AtWork, PC, MidRun
  <1>7. CASE Complete(e)
    BY <1>3, <1>7, PersistGates DEF Complete, AtWork, RunState, PC, MidRun
  <1>8. CASE ListTask(e)
    BY <1>1, <1>8, PersistGates DEF ListTask, AtWork, PC, MidRun
  <1>9. CASE FailRun(e)
    BY <1>3, <1>9, PersistGates DEF FailRun, AtWork, RunState, PC, MidRun
  <1>10. CASE InterruptRun(e)
    BY <1>3, <1>10, PersistGates DEF InterruptRun, AtWork, RunState, PC, MidRun
  <1>11. CASE Collect(e)
    <2>1. pc[e] = "wait" /\ AtWork(e) /\ UNCHANGED <<approvals, tasks>>
      BY <1>11 DEF Collect, AtWork
    <2>2. CASE \E next \in {"interrupt", "fail"} : Persist(e, j, next)
      BY <1>1, <2>1, <2>2, PersistGates DEF PC, MidRun
    <2>3. CASE Persist(e, [j EXCEPT !.at = @ + 1], "step")
      BY <1>1, <1>4, <2>1, <2>3, PersistGates DEF PC, MidRun
    <2>4. CASE Goto(e, "fail") /\ UNCHANGED <<row, job, lost>>
      <3>1. WorkTypes'
        BY <2>1, <2>4 DEF GateInv, WorkTypes
      <3>2. CopyFits(e)' /\ \A f \in Executors \ {e} : pc'[f] = pc[f] /\ job'[f] = job[f]
        BY <1>1, <2>1, <2>4 DEF CopyFits, Goto, MidRun, WorkflowInv, RunTypes
      <3> QED
        BY <2>1, <2>4, <3>1, <3>2, Kept, GatesGoOn
    <2> QED
      BY <1>11, <2>2, <2>3, <2>4 DEF Collect
  <1> QED
    BY <1>5, <1>6, <1>7, <1>8, <1>9, <1>10, <1>11

LEMMA AskGates == ASSUME WorkflowInv, GateInv, NEW e \in Executors, AskApproval(e) PROVE GateInv'
  <1> DEFINE j == job[e]
             a == [run |-> j.run, step |-> j.at, state |-> "pending"]
             v == [j.row EXCEPT !.state = "waiting_approval", !.asked = Append(@, Len(approvals'))]
  <1>1. /\ pc[e] = "gate" /\ UNCHANGED <<tasks, job, lost>>
        /\ j.run \in Runs /\ j \in Job /\ j.row \in Row /\ j.at \in Nat
        /\ j.at \in DOMAIN Steps /\ Steps[j.at] = "approval"
        /\ pc \in [Executors -> PC] /\ row \in [Runs -> Row \cup {None}]
    BY DEF AskApproval, AtWork, WorkflowInv, RunTypes, CopiesFit, GateInv, WorkTypes, CopyFits, Job
  <1>2. WorkTypes' \/ approvals' # approvals
    BY <1>1 DEF GateInv, WorkTypes
  <1>3. /\ \A f \in Executors \ {e} : pc'[f] = pc[f] /\ job'[f] = job[f]
        /\ pc'[e] \in {"idle", "fail"}
    BY <1>1 DEF AskApproval, Goto
  <1>4. CopyFits(e)'
    <2>1. CopyFits(e)
      BY DEF GateInv
    <2> QED
      BY <1>1, <1>3, <2>1 DEF CopyFits, MidRun
  <1>5. CASE UNCHANGED <<row, approvals>>
    BY <1>2, <1>3, <1>4, <1>5, Kept, GatesGoOn
  <1>6. CASE approvals' = Append(approvals, a) /\ row' = [row EXCEPT ![j.run] = v]
    <2>1. a \in Approval /\ a.run = j.run /\ a.step = j.at /\ a.state = "pending"
      BY <1>1 DEF Approval, ApprovalState
    <2> HIDE DEF a
    <2>2. /\ ApprovalsKept /\ ApprovalsStand /\ approvals' \in Seq(Approval)
          /\ Len(approvals') \in DOMAIN approvals' /\ Len(approvals') \in Nat
          /\ approvals'[Len(approvals')] = a
      BY <1>6, <2>1, Added
    <2>3. WorkTypes'
      BY <1>1, <2>2 DEF GateInv, WorkTypes
    <2>4. v.asked # <<>> /\ Last(v.asked) = Len(approvals')
      <3>1. j.row.asked \in Seq(Nat) /\ v.asked = Append(j.row.asked, Len(approvals'))
        BY <1>1 DEF Row
      <3>2. v.asked \in Seq(Nat) /\ Len(v.asked) = Len(j.row.asked) + 1 /\ v.asked[Len(v.asked)] = Len(approvals')
        BY <2>2, <3>1
      <3> QED
        BY <3>2 DEF Last
    <2> HIDE DEF v
    <2>5. \A r \in Runs : r = j.run => GateFits(r)'
      BY <1>1, <1>6, <2>1, <2>2, <2>4 DEF GateFits, IsGateOf
    <2>6. \A r \in Runs : r # j.run => row'[r] = row[r]
      BY <1>1, <1>6
    <2> QED
      BY <1>3, <1>4, <2>2, <2>3, <2>5, <2>6, GatesGoOn
  <1> QED
    BY <1>5, <1>6 DEF AskApproval

\* Steps that leave rows and approvals alone.
LEMMA TypedTasks ==
  ASSUME GateInv, NEW r \in Runs
  PROVE  /\ \A t \in Task : /\ Append(tasks[r], t) \in Seq(Task) /\ Len(Append(tasks[r], t)) \in Nat \ {0}
                            /\ [tasks EXCEPT ![r] = Append(tasks[r], t)] \in [Runs -> Seq(Task)]
         /\ \A k \in DOMAIN tasks[r], state \in TaskState :
              [tasks EXCEPT ![r][k].state = state] \in [Runs -> Seq(Task)]
  <1>1. tasks \in [Runs -> Seq(Task)] /\ tasks[r] \in Seq(Task)
    BY DEF GateInv, WorkTypes
  <1>2. ASSUME NEW t \in Task
        PROVE /\ Append(tasks[r], t) \in Seq(Task) /\ Len(Append(tasks[r], t)) \in Nat \ {0}
              /\ [tasks EXCEPT ![r] = Append(tasks[r], t)] \in [Runs -> Seq(Task)]
    BY <1>1
  <1>3. ASSUME NEW k \in DOMAIN tasks[r], NEW state \in TaskState
        PROVE  [tasks EXCEPT ![r][k].state = state] \in [Runs -> Seq(Task)]
    <2>1. tasks[r][k] \in Task
      BY <1>1
    <2>2. [tasks[r][k] EXCEPT !.state = state] \in Task
      BY <2>1 DEF Task
    <2>3. [tasks[r] EXCEPT ![k] = [tasks[r][k] EXCEPT !.state = state]] \in Seq(Task)
      BY <1>1, <2>2
    <2> QED
      BY <1>1, <2>3
  <1> QED
    BY <1>2, <1>3

LEMMA MovesGates ==
  ASSUME WorkflowInv, GateInv, NEW e \in Executors,
         StartTask(e) \/ TimesOut(e) \/ CreateTask(e) \/ ApprovedResumePoint(e)
  PROVE  GateInv'
  <1> DEFINE j == job[e]
  <1>1. /\ AtWork(e) /\ UNCHANGED <<row, approvals, lost>>
        /\ j.run \in Runs /\ j \in Job /\ j.task \in Nat /\ j.at \in Nat
        /\ pc \in [Executors -> PC] /\ CopyFits(e)
        /\ job \in [Executors -> Job] /\ tasks \in [Runs -> Seq(Task)]
    BY DEF StartTask, TimesOut, CreateTask, ApprovedResumePoint, store, AtWork, WorkflowInv, RunTypes,
           CopiesFit, GateInv, WorkTypes, Job
  <1>2. SUFFICES /\ tasks' \in [Runs -> Seq(Task)] /\ job' \in [Executors -> Job] /\ CopyFits(e)'
                 /\ \A f \in Executors \ {e} : pc'[f] = pc[f] /\ job'[f] = job[f]
    <2>1. WorkTypes'
      BY <1>1, <1>2 DEF GateInv, WorkTypes
    <2> QED
      BY <1>1, <1>2, <2>1, Kept, GatesGoOn
  <1>3. CASE StartTask(e) \/ TimesOut(e)
    <2>1. UNCHANGED job /\ \E next \in {"wait", "fail", "interrupt"} : Goto(e, next)
      BY <1>3 DEF StartTask, TimesOut
    <2>2. pc[e] \in MidRun
      BY <1>3 DEF StartTask, TimesOut, MidRun
    <2>3. tasks' \in [Runs -> Seq(Task)]
      <3>1. CASE UNCHANGED tasks
        BY <1>1, <3>1
      <3>2. ASSUME NEW state \in TaskState, SetTask(j.run, j.task, state) PROVE tasks' \in [Runs -> Seq(Task)]
        <4>1. CASE j.task \in DOMAIN tasks[j.run]
          BY <1>1, <3>2, <4>1, TypedTasks DEF SetTask
        <4>2. CASE j.task \notin DOMAIN tasks[j.run]
          <5> DEFINE s == [tasks[j.run] EXCEPT ![j.task] = [tasks[j.run][j.task] EXCEPT !.state = state]]
          <5>1. s = tasks[j.run]
            BY <1>1, <4>2
          <5>2. tasks' = [tasks EXCEPT ![j.run] = s]
            BY <3>2 DEF SetTask
          <5> QED
            BY <1>1, <5>1, <5>2
        <4> QED
          BY <4>1, <4>2
      <3> QED
        BY <1>3, <3>1, <3>2 DEF StartTask, TimesOut, store, TaskState
    <2> QED
      BY <1>1, <2>1, <2>2, <2>3 DEF CopyFits, Goto, MidRun
  <1>4. CASE CreateTask(e)
    <2> DEFINE r == j.run
               t == [step |-> j.at, state |-> "pending"]
               s == Append(tasks[r], t)
               k == Len(s)
    <2>1. pc[e] = "create"
      BY <1>4 DEF CreateTask
    <2>2. CASE Goto(e, "fail") /\ UNCHANGED <<tasks, job>>
      BY <1>1, <2>1, <2>2 DEF CopyFits, Goto, MidRun
    <2>3. CASE /\ tasks' = [tasks EXCEPT ![r] = s]
               /\ job' = [job EXCEPT ![e].row.tasks = @ \cup {Len(tasks'[r])},
                                     ![e].task = Len(tasks'[r])]
               /\ Goto(e, "list")
      <3>1. t \in Task
        BY <1>1 DEF Task, TaskState
      <3>2. k \in Nat /\ tasks' \in [Runs -> Seq(Task)] /\ tasks'[r] = s
        BY <1>1, <2>3, <3>1, TypedTasks
      <3> DEFINE v == [j EXCEPT !.row.tasks = @ \cup {k}, !.task = k]
      <3>3. v \in Job /\ v.row.state = j.row.state
        BY <1>1, <3>2, CopiesWithTask
      <3>4. job' = [job EXCEPT ![e] = v]
        BY <1>1, <2>3, <3>2 DEF Job, Row
      <3> HIDE DEF v, s
      <3>5. job[e].row.state = "running"
        BY <1>1, <2>1 DEF CopyFits, MidRun
      <3>6. pc'[e] = "list" /\ \A f \in Executors \ {e} : pc'[f] = pc[f] /\ job'[f] = job[f]
        BY <1>1, <2>3, <3>4 DEF Goto
      <3>7. job'[e] = v /\ job' \in [Executors -> Job] /\ v.row.state = "running"
        BY <1>1, <3>3, <3>4, <3>5
      <3> QED
        BY <3>2, <3>6, <3>7 DEF CopyFits
    <2> QED
      BY <1>4, <2>2, <2>3 DEF CreateTask
  <1>5. CASE ApprovedResumePoint(e)
    <2>1. pc[e] = "resuming" /\ UNCHANGED tasks
      BY <1>5 DEF ApprovedResumePoint, store
    <2>2. CASE Goto(e, "idle") /\ UNCHANGED job
      BY <1>1, <2>1, <2>2 DEF CopyFits, Goto, MidRun
    <2>3. CASE job' = [job EXCEPT ![e].at = LastAsked(e).step + 1] /\ Goto(e, "begin")
      <3> DEFINE n == LastAsked(e).step + 1
                 v == [j EXCEPT !.at = n]
      <3>1. n \in Nat \ {0}
        <4>1. Last(j.row.asked) \in DOMAIN approvals /\ approvals \in Seq(Approval)
          BY <1>1, <2>1 DEF CopyFits, IsGateOf, GateInv, WorkTypes
        <4>2. approvals[Last(j.row.asked)] \in Approval
          BY <4>1
        <4> QED
          BY <4>2 DEF LastAsked, Approval
      <3>2. job' = [job EXCEPT ![e] = v]
        BY <2>3
      <3> HIDE DEF n
      <3>3. v \in Job
        BY <1>1, <3>1, CopiesMoved
      <3> HIDE DEF v
      <3> QED
        BY <1>1, <2>1, <2>3, <3>2, <3>3 DEF CopyFits, Goto, MidRun
    <2> QED
      BY <1>5, <2>2, <2>3 DEF ApprovedResumePoint
  <1> QED
    BY <1>3, <1>4, <1>5

LEMMA FinalizeGates ==
  ASSUME WorkflowInv, GateInv, NEW e \in Executors, FinalizeAsyncFailure(e) PROVE GateInv'
  <1>1. /\ AtWork(e) /\ UNCHANGED <<approvals, tasks, job>> /\ Goto(e, "idle") /\ lost' \subseteq lost
        /\ pc \in [Executors -> PC]
    BY DEF FinalizeAsyncFailure, AtWork, WorkflowInv, RunTypes
  <1>2. PICK r \in Runs : r = job[e].run /\ row[r] \in Row
    BY <1>1 DEF WorkflowInv, CopiesFit, RunTypes, Known
  <1>3. \A w \in Row : [w EXCEPT !.state = "failed"].state = "failed"
    BY DEF Row
  <1>4. Fresh(row[r].ref) \in Row
    BY <1>2 DEF Fresh, Row, RunState
  <1>5. \/ UNCHANGED row
        \/ row' = [row EXCEPT ![r] = [row[r] EXCEPT !.state = "failed"]]
        \/ row' = [row EXCEPT ![r] = [Fresh(row[r].ref) EXCEPT !.state = "failed"]]
    BY <1>2 DEF FinalizeAsyncFailure, WorkflowInv, RunTypes
  <1>6. \A q \in Runs : row'[q] = row[q] \/ row'[q].state = "failed"
    BY <1>2, <1>3, <1>4, <1>5 DEF WorkflowInv, RunTypes
  <1>7. \A q \in Runs : row'[q] = row[q] \/ GateFits(q)'
    BY <1>6 DEF GateFits
  <1>8. WorkTypes'
    BY <1>1 DEF GateInv, WorkTypes
  <1>9. CopyFits(e)' /\ \A f \in Executors \ {e} : pc'[f] = pc[f] /\ job'[f] = job[f]
    BY <1>1 DEF CopyFits, Goto, MidRun
  <1> QED
    BY <1>1, <1>7, <1>8, <1>9, Kept, GatesGoOn

LEMMA TriggersGates ==
  ASSUME WorkflowInv, GateInv, NEW e \in Executors,
         \/ \E r \in Runs : Trigger(e, r) \/ CreateAsync(e, r) \/ Resume(e, r)
         \/ \E ref \in Refs : TriggerAsync(e, ref)
  PROVE  GateInv'
  <1>1. /\ UNCHANGED <<approvals, tasks, lost>> /\ pc \in [Executors -> PC] /\ job[e] \in Job
        /\ job \in [Executors -> Job] /\ row \in [Runs -> Row \cup {None}] /\ job[e].row \in Row
    BY DEF Trigger, CreateAsync, Resume, TriggerAsync, store, WorkflowInv, RunTypes, GateInv, WorkTypes
  <1>2. SUFFICES /\ job' \in [Executors -> Job] /\ CopyFits(e)'
                 /\ \A f \in Executors \ {e} : pc'[f] = pc[f] /\ job'[f] = job[f]
                 /\ \A r \in Runs : row'[r] = row[r] \/ row'[r].state = "queued"
    <2>1. WorkTypes'
      BY <1>1, <1>2 DEF GateInv, WorkTypes
    <2>2. \A r \in Runs : row'[r] = row[r] \/ GateFits(r)'
      BY <1>2 DEF GateFits
    <2> QED
      BY <1>1, <1>2, <2>1, <2>2, Kept, GatesGoOn
  <1>3. ASSUME NEW r \in Runs, NEW ref \in Refs \cup {None}, NEW b \in BOOLEAN, NewRun(e, r, ref, b)
        PROVE  /\ job' \in [Executors -> Job] /\ CopyFits(e)'
               /\ \A f \in Executors \ {e} : pc'[f] = pc[f] /\ job'[f] = job[f]
               /\ \A q \in Runs : row'[q] = row[q] \/ row'[q].state = "queued"
    <2> DEFINE v == [NoJob EXCEPT !.run = r, !.row = Fresh(ref), !.async = b]
    <2>1. Fresh(ref) \in Row /\ Fresh(ref).state = "queued"
      BY FreshRow
    <2>2. v \in Job
      BY <2>1, NewJobs
    <2>3. row' = [row EXCEPT ![r] = Fresh(ref)] /\ job' = [job EXCEPT ![e] = v] /\ Goto(e, "begin")
      BY <1>3 DEF NewRun
    <2> HIDE DEF v
    <2> QED
      BY <1>1, <2>1, <2>2, <2>3 DEF CopyFits, Goto, MidRun
  <1>4. CASE \E r \in Runs : Trigger(e, r)
    BY <1>3, <1>4 DEF Trigger
  <1>5. ASSUME NEW r \in Runs, CreateAsync(e, r)
        PROVE  /\ job' \in [Executors -> Job] /\ CopyFits(e)'
               /\ \A f \in Executors \ {e} : pc'[f] = pc[f] /\ job'[f] = job[f]
               /\ \A q \in Runs : row'[q] = row[q] \/ row'[q].state = "queued"
    <2>1. job[e].row.ref \in Refs \cup {None}
      BY <1>1 DEF Row
    <2>2. CASE NewRun(e, r, job[e].row.ref, TRUE)
      BY <1>3, <2>1, <2>2
    <2>3. CASE Goto(e, "idle") /\ UNCHANGED <<row, job>>
      BY <1>1, <2>3 DEF CopyFits, Goto, MidRun
    <2> QED
      BY <1>5, <2>2, <2>3 DEF CreateAsync
  <1>6. ASSUME NEW r \in Runs, Resume(e, r)
        PROVE  /\ job' \in [Executors -> Job] /\ CopyFits(e)'
               /\ \A f \in Executors \ {e} : pc'[f] = pc[f] /\ job'[f] = job[f]
               /\ \A q \in Runs : row'[q] = row[q] \/ row'[q].state = "queued"
    <2> DEFINE v == [NoJob EXCEPT !.run = r, !.row = row[r]]
    <2>1. /\ row[r] \in Row /\ Known(r) /\ row[r].state = "waiting_approval"
          /\ job' = [job EXCEPT ![e] = v] /\ Goto(e, "resuming") /\ UNCHANGED row
      BY <1>1, <1>6 DEF Resume, Known, store
    <2>2. v \in Job /\ v.run = r /\ v.row = row[r]
      BY <2>1, NewJobs
    <2>3. IsGateOf(r, row[r].asked)
      BY <2>1 DEF GateInv, GateFits
    <2> HIDE DEF v
    <2>4. /\ pc'[e] = "resuming" /\ job'[e].run = r /\ job'[e].row = row[r]
          /\ job' \in [Executors -> Job]
          /\ \A f \in Executors \ {e} : pc'[f] = pc[f] /\ job'[f] = job[f]
      BY <1>1, <2>1, <2>2 DEF Goto
    <2>5. CopyFits(e)'
      BY <1>1, <2>3, <2>4 DEF CopyFits, MidRun, IsGateOf
    <2> QED
      BY <2>1, <2>4, <2>5
  <1>7. ASSUME NEW ref \in Refs, TriggerAsync(e, ref)
        PROVE  /\ job' \in [Executors -> Job] /\ CopyFits(e)'
               /\ \A f \in Executors \ {e} : pc'[f] = pc[f] /\ job'[f] = job[f]
               /\ \A q \in Runs : row'[q] = row[q] \/ row'[q].state = "queued"
    <2> DEFINE v == [NoJob EXCEPT !.row = Fresh(ref)]
    <2>1. Fresh(ref) \in Row
      BY FreshRow
    <2>2. v \in Job
      BY <2>1, NewJobs
    <2>3. job' = [job EXCEPT ![e] = v] /\ Goto(e, "looked") /\ UNCHANGED row
      BY <1>7 DEF TriggerAsync, store
    <2> HIDE DEF v
    <2> QED
      BY <1>1, <2>2, <2>3 DEF CopyFits, Goto, MidRun
  <1> QED
    BY <1>4, <1>5, <1>6, <1>7

LEMMA ApprovalsGates ==
  ASSUME WorkflowInv, GateInv,
         \/ \E r \in Runs : CreateApproval(r)
         \/ \E d \in Deciders : (\E a \in DOMAIN approvals : ReadApproval(d, a)) \/ UpdateApproval(d)
  PROVE  GateInv'
  <1>1. UNCHANGED <<pc, job, tasks, lost>>
    BY DEF CreateApproval, ReadApproval, UpdateApproval, store
  <1>2. CASE \E r \in Runs : CreateApproval(r)
    <2>1. PICK a \in Approval : approvals' = Append(approvals, a) /\ UNCHANGED row
      BY <1>2 DEF CreateApproval, Approval, ApprovalState
    <2>2. ApprovalsKept /\ ApprovalsStand /\ approvals' \in Seq(Approval)
      BY <2>1, Added
    <2>3. WorkTypes'
      BY <1>1, <2>2 DEF GateInv, WorkTypes
    <2> QED
      BY <1>1, <2>1, <2>2, <2>3, GatesGoOn
  <1>3. CASE UNCHANGED <<row, approvals>>
    <2>1. WorkTypes'
      BY <1>1, <1>3 DEF GateInv, WorkTypes
    <2> QED
      BY <1>1, <1>3, <2>1, Kept, GatesGoOn
  <1>4. ASSUME NEW d \in Deciders, UpdateApproval(d), NEW state \in ApprovalState, Decide(deciding[d], state)
        PROVE  GateInv'
    <2> DEFINE a == deciding[d]
               r == approvals[a].run
    <2>1. a \in DOMAIN approvals /\ approvals \in Seq(Approval) /\ approvals[a] \in Approval
      BY <1>4 DEF UpdateApproval, WorkflowInv, RunTypes, GateInv, WorkTypes
    <2>2. /\ approvals' = [approvals EXCEPT ![a] = [approvals[a] EXCEPT !.state = state]]
          /\ row' = IF state \in {"rejected", "expired"} /\ row[r].state = "waiting_approval"
                    THEN [row EXCEPT ![r] = [row[r] EXCEPT !.state = "failed"]] ELSE row
      BY <1>4 DEF Decide
    <2>3. [approvals[a] EXCEPT !.state = state] \in Approval /\ r \in Runs
      BY <2>1 DEF Approval
    <2>4. /\ approvals' \in Seq(Approval) /\ DOMAIN approvals' = DOMAIN approvals
          /\ \A b \in DOMAIN approvals : b # a => approvals'[b] = approvals[b]
          /\ approvals'[a].run = r /\ approvals'[a].step = approvals[a].step
          /\ approvals'[a].state = state
      BY <2>1, <2>2, <2>3 DEF Approval
    <2>5. ApprovalsStand
      BY <2>4 DEF ApprovalsStand
    <2>6. WorkTypes'
      BY <1>1, <2>4 DEF GateInv, WorkTypes
    <2>7. /\ row[r] \in Row \cup {None} /\ row \in [Runs -> Row \cup {None}] /\ Known(r)
      BY <2>1, <2>3 DEF WorkflowInv, RunTypes, ApprovalsAreAbout
    <2>8. \A w \in Row : [w EXCEPT !.state = "failed"].state = "failed"
      BY DEF Row
    <2>9. ASSUME NEW q \in Runs, Known(q)', row'[q].state = "waiting_approval" PROVE GateFits(q)'
      <3> HIDE DEF a, r
      <3>1. row'[q] = row[q] /\ (q = r => state \in {"pending", "approved"})
        BY <2>2, <2>3, <2>7, <2>8, <2>9 DEF Known, ApprovalState
      <3>2. IsGateOf(q, row[q].asked) /\ approvals[Last(row[q].asked)].state \in {"pending", "approved"}
        BY <2>9, <3>1 DEF GateInv, GateFits, Known
      <3>3. IsGateOf(q, row[q].asked)'
        BY <2>5, <3>1, <3>2 DEF IsGateOf, ApprovalsStand
      <3>4. approvals'[Last(row[q].asked)].state \in {"pending", "approved"}
        BY <2>4, <3>1, <3>2 DEF IsGateOf, r
      <3> QED
        BY <3>1, <3>3, <3>4 DEF GateFits
    <2>10. \A q \in Runs : GateFits(q)'
      BY <2>9 DEF GateFits
    <2> QED
      BY <1>1, <2>5, <2>6, <2>10, GatesGoOn
  <1> QED
    BY <1>2, <1>3, <1>4 DEF ReadApproval, UpdateApproval, store

LEMMA TasksGates ==
  ASSUME WorkflowInv, GateInv, NEW r \in Runs, NEW k \in DOMAIN tasks[r], TaskEnds(r, k) \/ CancelPending(r, k)
  PROVE  GateInv'
  <1>1. UNCHANGED <<row, approvals, pc, job, lost>>
    BY DEF TaskEnds, CancelPending
  <1>2. PICK state \in TaskState : SetTask(r, k, state)
    BY DEF TaskEnds, CancelPending, TaskState
  <1>3. WorkTypes'
    BY <1>1, <1>2, TypedTasks DEF GateInv, WorkTypes, SetTask
  <1> QED
    BY <1>1, <1>3, Kept, GatesGoOn

LEMMA RestartGates == ASSUME WorkflowInv, GateInv, Restart PROVE GateInv'
  <1>1. tasks' \in [Runs -> Seq(Task)]
    <2> DEFINE end(t) == IF t.state = "running" THEN [t EXCEPT !.state = "failed"] ELSE t
    <2>1. \A t \in Task : end(t) \in Task
      BY DEF Task, TaskState
    <2>2. tasks' = [r \in Runs |-> [k \in DOMAIN tasks[r] |-> end(tasks[r][k])]]
      BY DEF Restart
    <2> HIDE DEF end
    <2>3. ASSUME NEW r \in Runs PROVE [k \in DOMAIN tasks[r] |-> end(tasks[r][k])] \in Seq(Task)
      <3>1. tasks[r] \in Seq(Task)
        BY DEF GateInv, WorkTypes
      <3>2. DOMAIN tasks[r] = 1 .. Len(tasks[r]) /\ Len(tasks[r]) \in Nat /\ \A k \in DOMAIN tasks[r] : tasks[r][k] \in Task
        BY <3>1
      <3> QED
        BY <2>1, <3>2
    <2> QED
      BY <2>2, <2>3
  <1>2. NoJob \in Job
    <2>1. Fresh(None) \in Row
      BY FreshRow
    <2> QED
      BY <2>1, NewJobs
  <1>3. WorkTypes'
    BY <1>1, <1>2 DEF Restart, GateInv, WorkTypes
  <1>4. \A e \in Executors : CopyFits(e)'
    BY DEF Restart, CopyFits, MidRun
  <1>5. \A r \in Runs : row'[r] = row[r] \/ GateFits(r)'
    <2>1. \A w \in Row : [w EXCEPT !.state = "interrupted"].state = "interrupted"
      BY DEF Row
    <2> QED
      BY <2>1 DEF Restart, GateFits, WorkflowInv, RunTypes, Known
  <1>6. UNCHANGED approvals
    BY DEF Restart
  <1> QED
    BY <1>3, <1>4, <1>5, <1>6, Kept, GatesGoOn

LEMMA GateStep == WorkflowInv /\ GateInv /\ [Next]_vars => GateInv'
  <1> SUFFICES ASSUME WorkflowInv, GateInv, [Next]_vars PROVE GateInv'
    OBVIOUS
  <1>1. ASSUME NEW e \in Executors, ExecutionSteps(e) \/ TimesOut(e) PROVE GateInv'
    BY <1>1, WritesGates, AskGates, MovesGates, FinalizeGates, TriggersGates DEF ExecutionSteps
  <1>2. CASE UNCHANGED vars
    <2>1. WorkTypes' /\ UNCHANGED <<row, approvals, pc, job>>
      BY <1>2 DEF vars, GateInv, WorkTypes
    <2> QED
      BY <2>1, Kept, GatesGoOn
  <1> QED
    BY <1>1, <1>2, TriggersGates, ApprovalsGates, TasksGates, RestartGates DEF Next

-----------------------------------------------------------------------------

\* Whatever a row, a copy or a task holds has its type, a run that waits does so
\* at a gate of its workflow that is open or granted, and an execution writes
\* back a copy that says running (workflows/service.go:376, 602).
THEOREM GateInvariant == Spec => []GateInv
  BY GateInitially, GateStep, WorkflowInvariant, PTL DEF Spec

\* Every variable of the executor has its type, over any number of executions.
THEOREM TypesOfWorkflow == Spec => []TypeOK
  <1>1. WorkflowInv /\ GateInv => TypeOK
    BY WorkflowParameters DEF WorkflowInv, RunTypes, CopiesFit, AtWork, GateInv, WorkTypes, Task, Approval, TypeOK
  <1> QED
    BY <1>1, WorkflowInvariant, GateInvariant, PTL

\* A run that waits can be answered, however many requests resume it or decide
\* its approvals at once, and whatever the store refuses to write: the approval it
\* waits for is its own and has not been rejected (workflows/service.go:602,
\* app/routes.go:1276).
THEOREM WaitingRunsCanBeAnswered == Spec => []WaitingIsAnswerable
  <1>1. GateInv => WaitingIsAnswerable
    BY DEF GateInv, GateFits, IsGateOf, WaitingIsAnswerable
  <1> QED
    BY <1>1, GateInvariant, PTL

-----------------------------------------------------------------------------
(* One execution per run *)

\* No two executions are at work on the same run.
Alone ==
  \A e, f \in Executors : AtWork(e) /\ AtWork(f) /\ job[e].run = job[f].run => e = f

\* Of all requests only one resumes runs.
OneResumer == \A e, f \in Resumers : e = f

\* The row names every task of its run that works or has succeeded.
Listed(r) ==
  \A k \in DOMAIN tasks[r] :
    tasks[r][k].state \in {"running", "completed"} => k \in row[r].tasks

Resting(r) == \A k \in DOMAIN tasks[r] : tasks[r][k].state # "running"

Owner(e, r) == AtWork(e) /\ job[e].run = r

\* What an execution knows of its run, and owes to it.
ExecutionFits(e) ==
  LET r == job[e].run IN
  AtWork(e) =>
    /\ Listed(r) /\ row[r].tasks \subseteq job[e].row.tasks
    /\ pc[e] \in MidRun => row[r].state = "running"
    /\ pc[e] \notin MidRun =>
         \/ row[r].state \in {"queued", "running"}
         \/ e \in Resumers /\ row[r].state \in {"waiting_approval", "failed"}
    /\ pc[e] = "resuming" => row[r].state \in {"waiting_approval", "failed"}
    /\ pc[e] \in {"list", "start"} => job[e].task \in job[e].row.tasks
    /\ pc[e] = "start" => job[e].task \in row[r].tasks
    /\ pc[e] \in {"resuming", "begin", "step", "gate", "create", "list", "start"} => Resting(r)
    /\ pc[e] = "wait" => \A k \in DOMAIN tasks[r] : tasks[r][k].state = "running" => k = job[e].task
    /\ pc[e] = "finalize" => r \in lost
    /\ \A f \in Executors : Owner(f, r) => f = e

RunFits(r) ==
  /\ ~ Known(r) => tasks[r] = <<>>
  /\ Known(r) => Listed(r) \/ (r \in lost /\ row[r].state = "failed")
  /\ Known(r) /\ row[r].state = "running" => r \in lost \/ \E e \in Executors : Owner(e, r)
  /\ Known(r) /\ row[r].state = "waiting_approval" => Resting(r)
  /\ \A k, m \in DOMAIN tasks[r] :
       tasks[r][k].state = "running" /\ tasks[r][m].state = "running" => k = m

ClaimInv == (\A e \in Executors : ExecutionFits(e)) /\ \A r \in Runs : RunFits(r)

AllInv == WorkflowInv /\ GateInv /\ ClaimInv

\* A step of e on run r leaves the others and their runs alone.
Apart(e, r) ==
  /\ \A f \in Executors \ {e} : pc'[f] = pc[f] /\ job'[f] = job[f]
  /\ \A q \in Runs \ {r} : row'[q] = row[q] /\ tasks'[q] = tasks[q] /\ (q \in lost' <=> q \in lost)

LEMMA OthersFit ==
  ASSUME AllInv, NEW e \in Executors, NEW r \in Runs, Apart(e, r),
         AtWork(e) => job[e].run = r, AtWork(e)' => job'[e].run = r,
         \A f \in Executors : Owner(f, r) => f = e,
         ExecutionFits(e)', RunFits(r)'
  PROVE  ClaimInv'
  <1>1. ASSUME NEW f \in Executors, f # e PROVE ExecutionFits(f)'
    <2> SUFFICES ASSUME AtWork(f)' PROVE ExecutionFits(f)'
      BY DEF ExecutionFits
    <2>1. /\ AtWork(f) /\ pc'[f] = pc[f] /\ job'[f] = job[f] /\ ExecutionFits(f)
          /\ job[f].run \in Runs /\ job[f].run # r
      BY <1>1 DEF Apart, AtWork, AllInv, ClaimInv, WorkflowInv, CopiesFit, Owner
    <2> DEFINE q == job[f].run
    <2>2. /\ row'[q] = row[q] /\ tasks'[q] = tasks[q] /\ (q \in lost' <=> q \in lost) /\ job'[f].run = q
      BY <2>1 DEF Apart
    <2>3. \A g \in Executors : Owner(g, q)' => Owner(g, q)
      <3>1. \A g \in Executors \ {e} : Owner(g, q)' => Owner(g, q)
        BY <2>1, <2>2 DEF Apart, Owner, AtWork
      <3>2. ~ Owner(e, q)'
        BY <2>1 DEF Owner
      <3> QED
        BY <3>1, <3>2
    <2> QED
      BY <2>1, <2>2, <2>3 DEF ExecutionFits, Listed, Resting
  <1>2. ASSUME NEW q \in Runs, q # r PROVE RunFits(q)'
    <2>1. row'[q] = row[q] /\ tasks'[q] = tasks[q] /\ (q \in lost' <=> q \in lost) /\ RunFits(q)
      BY <1>2 DEF Apart, AllInv, ClaimInv
    <2>2. \A g \in Executors : Owner(g, q) => Owner(g, q)'
      BY <1>2 DEF Apart, Owner, AtWork
    <2> QED
      BY <2>1, <2>2 DEF RunFits, Listed, Resting, Known
  <1> QED
    BY <1>1, <1>2 DEF ClaimInv

\* What is known of an execution at work.
LEMMA WorkFacts ==
  ASSUME AllInv, NEW e \in Executors, AtWork(e)
  PROVE  /\ job[e].run \in Runs /\ Known(job[e].run) /\ row[job[e].run] \in Row /\ row[job[e].run] # None
         /\ job[e] \in Job /\ job[e].row \in Row
         /\ tasks[job[e].run] \in Seq(Task)
         /\ pc \in [Executors -> PC] /\ job \in [Executors -> Job]
         /\ row \in [Runs -> Row \cup {None}] /\ tasks \in [Runs -> Seq(Task)]
         /\ ExecutionFits(e) /\ CopyFits(e) /\ RunFits(job[e].run)
         /\ \A f \in Executors : Owner(f, job[e].run) => f = e
  <1>1. ExecutionFits(e)
    BY DEF AllInv, ClaimInv
  <1>2. \A f \in Executors : Owner(f, job[e].run) => f = e
    BY <1>1 DEF ExecutionFits
  <1>3. job[e].run \in Runs /\ Known(job[e].run)
    BY DEF AllInv, WorkflowInv, CopiesFit
  <1>4. /\ pc \in [Executors -> PC] /\ job \in [Executors -> Job]
        /\ row \in [Runs -> Row \cup {None}] /\ tasks \in [Runs -> Seq(Task)] /\ CopyFits(e)
    BY DEF AllInv, WorkflowInv, RunTypes, GateInv, WorkTypes
  <1>5. job[e] \in Job /\ job[e].row \in Row
    BY <1>4 DEF Job
  <1> QED
    BY <1>1, <1>2, <1>3, <1>4, <1>5 DEF Known, AllInv, ClaimInv

\* persistRun, when the copy names what the row names.
LEMMA PersistFits ==
  ASSUME AllInv, NEW e \in Executors, AtWork(e),
         NEW v \in Job, v.run = job[e].run, row[v.run].tasks \subseteq v.row.tasks,
         NEW next \in MidRun \cup {"idle"}, next # "wait",
         Persist(e, v, next), UNCHANGED tasks,
         next \in MidRun => v.row.state = "running",
         next = "idle" => v.row.state \in {"completed", "failed", "interrupted"},
         next \in {"list", "start"} => v.task \in v.row.tasks,
         next \in {"step", "gate", "create", "list", "start"} => Resting(v.run)
  PROVE  ClaimInv'
  <1> DEFINE r == v.run
  <1>1. /\ r \in Runs /\ Known(r) /\ row[r] \in Row /\ row[r] # None
        /\ pc \in [Executors -> PC] /\ job \in [Executors -> Job] /\ row \in [Runs -> Row \cup {None}]
        /\ ExecutionFits(e) /\ CopyFits(e) /\ RunFits(r) /\ v.row \in Row
        /\ \A f \in Executors : Owner(f, r) => f = e
    BY WorkFacts DEF Job
  <1>2. CASE /\ row' = [row EXCEPT ![r] = v.row] /\ job' = [job EXCEPT ![e] = v]
             /\ Goto(e, next) /\ UNCHANGED lost
    <2>1. /\ row'[r] = v.row /\ job'[e] = v /\ pc'[e] = next /\ Known(r)' /\ tasks'[r] = tasks[r]
          /\ Apart(e, r)
      BY <1>1, <1>2, NoneIsNoRow DEF Goto, Apart, Known
    <2>2. Listed(r)'
      BY <1>1, <2>1 DEF ExecutionFits, Listed
    <2>3. \A f \in Executors : Owner(f, r)' => f = e
      BY <1>1, <2>1 DEF Apart, Owner, AtWork
    <2>4. next \in MidRun \ {"fail", "interrupt"} => Resting(r)'
      BY <2>1 DEF Resting, MidRun
    <2>5. ExecutionFits(e)'
      BY <2>1, <2>2, <2>3, <2>4 DEF ExecutionFits, AtWork, MidRun
    <2>6. RunFits(r)'
      <3>1. next # "idle" => Owner(e, r)'
        BY <2>1 DEF Owner, AtWork, MidRun
      <3> QED
        BY <1>1, <2>1, <2>2, <3>1 DEF RunFits
    <2> QED
      BY <1>1, <2>1, <2>5, <2>6, OthersFit
  <1>3. CASE /\ Goto(e, "finalize") \/ Goto(e, "idle")
             /\ lost' = lost \cup {r} /\ UNCHANGED <<row, job>>
    <2>1. /\ pc'[e] \in {"finalize", "idle"} /\ r \in lost' /\ Known(r)' /\ Apart(e, r)
      BY <1>1, <1>3 DEF Goto, Apart, Known
    <2>2. Listed(r)'
      BY <1>1, <1>3 DEF ExecutionFits, Listed
    <2>3. \A f \in Executors : Owner(f, r)' => f = e
      BY <1>1, <1>3, <2>1 DEF Apart, Owner, AtWork
    <2>4. ExecutionFits(e)'
      BY <1>1, <1>3, <2>1, <2>2, <2>3 DEF ExecutionFits, AtWork, MidRun
    <2>5. RunFits(r)'
      BY <1>1, <1>3, <2>1, <2>2 DEF RunFits, Resting
    <2> QED
      BY <1>1, <1>3, <2>1, <2>4, <2>5, OthersFit
  <1> QED
    BY <1>2, <1>3 DEF Persist

LEMMA WritesFit ==
  ASSUME AllInv, NEW e \in Executors,
         \/ Begin(e) \/ StartStep(e) \/ Complete(e) \/ ListTask(e)
         \/ FailRun(e) \/ InterruptRun(e) \/ Collect(e)
  PROVE  ClaimInv'
  <1> DEFINE j == job[e]
             r == j.run
  <1>1. AtWork(e) /\ UNCHANGED tasks
    BY DEF Begin, StartStep, Complete, ListTask, FailRun, InterruptRun, Collect, AtWork
  <1>2. /\ j \in Job /\ j.at \in Nat \ {0} /\ r \in Runs /\ r = j.run /\ tasks[r] \in Seq(Task)
        /\ ExecutionFits(e) /\ CopyFits(e) /\ row[r].tasks \subseteq j.row.tasks
        /\ pc \in [Executors -> PC] /\ job \in [Executors -> Job]
    BY <1>1, WorkFacts DEF ExecutionFits, Job
  <1>3. \A s \in RunState : /\ InState(j, s) \in Job /\ InState(j, s).run = r /\ InState(j, s).row.state = s
                            /\ InState(j, s).row.tasks = j.row.tasks
    <2>1. j \in Job
      BY <1>2
    <2> HIDE DEF j
    <2> QED
      BY <2>1, CopiesInState
  <1>5. CASE Begin(e)
    <2>1. Resting(r)
      BY <1>1, <1>2, <1>5 DEF Begin, ExecutionFits
    <2> QED
      BY <1>1, <1>2, <1>3, <1>5, <2>1, PersistFits DEF Begin, RunState, MidRun
  <1>6. CASE StartStep(e)
    <2>1. Resting(r) /\ j.row.state = "running"
      BY <1>1, <1>2, <1>6 DEF StartStep, ExecutionFits, CopyFits, MidRun
    <2> QED
      BY <1>1, <1>2, <1>6, <2>1, PersistFits DEF StartStep, MidRun
  <1>7. CASE Complete(e)
    BY <1>1, <1>2, <1>3, <1>7, PersistFits DEF Complete, RunState, MidRun
  <1>8. CASE ListTask(e)
    <2>1. Resting(r) /\ j.row.state = "running" /\ j.task \in j.row.tasks
      BY <1>1, <1>2, <1>8 DEF ListTask, ExecutionFits, CopyFits, MidRun
    <2> QED
      BY <1>1, <1>2, <1>8, <2>1, PersistFits DEF ListTask, MidRun
  <1>9. CASE FailRun(e)
    BY <1>1, <1>2, <1>3, <1>9, PersistFits DEF FailRun, RunState, MidRun
  <1>10. CASE InterruptRun(e)
    BY <1>1, <1>2, <1>3, <1>10, PersistFits DEF InterruptRun, RunState, MidRun
  <1>11. CASE Collect(e)
    <2>1. pc[e] = "wait" /\ j.row.state = "running" /\ Ended(MyTask(e))
      BY <1>2, <1>11 DEF Collect, CopyFits, MidRun
    <2>2. CASE \E next \in {"interrupt", "fail"} : Persist(e, j, next)
      BY <1>1, <1>2, <2>1, <2>2, PersistFits DEF MidRun
    <2>3. CASE Persist(e, [j EXCEPT !.at = @ + 1], "step")
      <3>1. Resting(r)
        BY <1>1, <1>2, <2>1 DEF ExecutionFits, Resting, Ended, MyTask
      <3>2. j.at + 1 \in Nat \ {0}
        BY <1>2
      <3>3. [j EXCEPT !.at = @ + 1] \in Job /\ [j EXCEPT !.at = @ + 1].run = r /\ [j EXCEPT !.at = @ + 1].row = j.row
        <4> HIDE DEF j, r
        <4> QED
          BY <1>2, <3>2, CopiesMoved
      <3> QED
        BY <1>1, <1>2, <2>1, <2>3, <3>1, <3>3, PersistFits DEF MidRun
    <2>4. CASE Goto(e, "fail") /\ UNCHANGED <<row, job, lost>>
      <3>1. /\ pc'[e] = "fail" /\ Apart(e, r) /\ (\A f \in Executors : Owner(f, r) => f = e)
            /\ RunFits(r)
        BY <1>1, <1>2, <2>4, WorkFacts DEF Goto, Apart
      <3>2. \A f \in Executors : Owner(f, r)' <=> Owner(f, r)
        BY <1>1, <2>1, <2>4, <3>1 DEF Apart, Owner, AtWork
      <3>3. ExecutionFits(e)'
        BY <1>1, <1>2, <2>1, <2>4, <3>1, <3>2 DEF ExecutionFits, AtWork, MidRun, Listed, Resting
      <3>4. \A q \in Runs : q = r => RunFits(q)'
        BY <1>1, <2>4, <3>1, <3>2 DEF RunFits, Listed, Resting, Known
      <3> QED
        BY <1>1, <1>2, <2>4, <3>1, <3>3, <3>4, OthersFit
    <2> QED
      BY <1>11, <2>2, <2>3, <2>4 DEF Collect
  <1> QED
    BY <1>5, <1>6, <1>7, <1>8, <1>9, <1>10, <1>11

\* An execution that only moves on, with what it knows.
LEMMA MovesFit ==
  ASSUME AllInv, NEW e \in Executors, AtWork(e),
         NEW v \in Job, v.run = job[e].run, v.row = job[e].row, v.task = job[e].task,
         NEW next \in {"idle", "begin", "fail", "interrupt"},
         Goto(e, next), job' = [job EXCEPT ![e] = v], UNCHANGED <<row, tasks, lost>>,
         next \in {"fail", "interrupt"} => pc[e] \in MidRun,
         next \in {"idle", "begin"} => pc[e] = "resuming"
  PROVE  ClaimInv'
  <1> DEFINE r == v.run
  <1>1. /\ r \in Runs /\ Known(r) /\ row[r] \in Row /\ row[r] # None
        /\ pc \in [Executors -> PC] /\ job \in [Executors -> Job] /\ row \in [Runs -> Row \cup {None}]
        /\ ExecutionFits(e) /\ RunFits(r)
        /\ \A f \in Executors : Owner(f, r) => f = e
    BY WorkFacts
  <1>2. pc'[e] = next /\ job'[e] = v /\ Apart(e, r) /\ Known(r)'
    BY <1>1 DEF Goto, Apart, Known
  <1>3. Listed(r)' /\ (Resting(r) => Resting(r)') /\ (next # "idle" => Owner(e, r)')
    BY <1>1, <1>2 DEF ExecutionFits, Listed, Resting, Owner, AtWork
  <1>4. \A f \in Executors : Owner(f, r)' => f = e
    BY <1>1, <1>2 DEF Apart, Owner, AtWork
  <1>5. ExecutionFits(e)'
    BY <1>1, <1>2, <1>3, <1>4 DEF ExecutionFits, AtWork, MidRun
  <1>6. next = "idle" => row'[r].state # "running"
    BY <1>1 DEF ExecutionFits
  <1>7. RunFits(r)'
    BY <1>1, <1>2, <1>3, <1>6 DEF RunFits
  <1> QED
    BY <1>1, <1>2, <1>5, <1>7, OthersFit

LEMMA ResumesFit ==
  ASSUME AllInv, NEW e \in Executors, ApprovedResumePoint(e) \/ TimesOut(e) PROVE ClaimInv'
  <1> DEFINE j == job[e]
  <1>1. AtWork(e) /\ UNCHANGED <<row, tasks, lost>>
    BY DEF ApprovedResumePoint, TimesOut, AtWork, store
  <1>2. j \in Job /\ job \in [Executors -> Job] /\ CopyFits(e)
    BY <1>1, WorkFacts
  <1>3. job = [job EXCEPT ![e] = j]
    BY <1>2
  <1>4. CASE TimesOut(e)
    BY <1>1, <1>2, <1>3, <1>4, MovesFit DEF TimesOut, MidRun
  <1>5. CASE ApprovedResumePoint(e)
    <2> DEFINE n == LastAsked(e).step + 1
               v == [j EXCEPT !.at = n]
    <2>1. pc[e] = "resuming"
      BY <1>5 DEF ApprovedResumePoint
    <2>2. CASE Goto(e, "idle") /\ UNCHANGED job
      BY <1>1, <1>2, <1>3, <2>1, <2>2, MovesFit
    <2>3. CASE job' = [job EXCEPT ![e].at = LastAsked(e).step + 1] /\ Goto(e, "begin")
      <3>1. n \in Nat \ {0}
        <4>1. Last(j.row.asked) \in DOMAIN approvals /\ approvals \in Seq(Approval)
          BY <1>2, <2>1 DEF CopyFits, IsGateOf, AllInv, GateInv, WorkTypes
        <4>2. approvals[Last(j.row.asked)] \in Approval
          BY <4>1
        <4> QED
          BY <4>2 DEF LastAsked, Approval
      <3>2. job' = [job EXCEPT ![e] = v]
        BY <2>3
      <3>3. v \in Job /\ v.run = j.run /\ v.row = j.row /\ v.task = j.task
        <4> HIDE DEF n, j
        <4> QED
          BY <1>2, <3>1, CopiesMoved
      <3> HIDE DEF v
      <3> QED
        BY <1>1, <2>1, <2>3, <3>2, <3>3, MovesFit
    <2> QED
      BY <1>5, <2>2, <2>3 DEF ApprovedResumePoint
  <1> QED
    BY <1>4, <1>5

LEMMA AskFits == ASSUME AllInv, NEW e \in Executors, AskApproval(e) PROVE ClaimInv'
  <1> DEFINE j == job[e]
             r == j.run
  <1>1. pc[e] = "gate" /\ AtWork(e) /\ UNCHANGED <<tasks, job, lost>>
    BY DEF AskApproval, AtWork
  <1>2. /\ j \in Job /\ j.row \in Row /\ r \in Runs /\ Known(r) /\ row[r] \in Row /\ row[r] # None
        /\ pc \in [Executors -> PC] /\ job \in [Executors -> Job] /\ row \in [Runs -> Row \cup {None}]
        /\ ExecutionFits(e) /\ CopyFits(e) /\ RunFits(r)
        /\ \A f \in Executors : Owner(f, r) => f = e
    BY <1>1, WorkFacts
  <1>3. CASE Goto(e, "fail") /\ UNCHANGED row
    <2>1. job' = [job EXCEPT ![e] = j]
      BY <1>1, <1>2
    <2> QED
      BY <1>1, <1>2, <1>3, <2>1, MovesFit DEF MidRun
  <1>4. CASE /\ approvals' = Append(approvals, [run |-> r, step |-> j.at, state |-> "pending"])
             /\ row' = [row EXCEPT ![r] = [j.row EXCEPT !.state = "waiting_approval",
                                                       !.asked = Append(@, Len(approvals'))]]
             /\ Goto(e, "idle")
    <2> DEFINE v == [j.row EXCEPT !.state = "waiting_approval", !.asked = Append(@, Len(approvals'))]
    <2>1. v.state = "waiting_approval" /\ v.tasks = j.row.tasks /\ v # None
      <3>1. Len(approvals') \in Nat
        <4>1. [run |-> r, step |-> j.at, state |-> "pending"] \in Approval
          BY <1>2 DEF Approval, ApprovalState, Job
        <4> QED
          BY <1>4, <4>1, Added DEF AllInv
      <3> DEFINE q == Append(j.row.asked, Len(approvals'))
                 w == j.row
      <3>2. w \in Row /\ q \in Seq(Nat)
        BY <1>2, <3>1 DEF Row
      <3>3. \A x \in Row, y \in Seq(Nat) :
              /\ [x EXCEPT !.state = "waiting_approval", !.asked = y] \in Row
              /\ [x EXCEPT !.state = "waiting_approval", !.asked = y].state = "waiting_approval"
              /\ [x EXCEPT !.state = "waiting_approval", !.asked = y].tasks = x.tasks
        BY DEF Row, RunState
      <3>4. v = [w EXCEPT !.state = "waiting_approval", !.asked = q]
        BY <3>2 DEF Row
      <3>5. w.tasks = j.row.tasks
        OBVIOUS
      <3> HIDE DEF v, w, q
      <3> QED
        BY <3>2, <3>3, <3>4, <3>5, NoneIsNoRow
    <2> HIDE DEF v
    <2>2. row'[r] = v /\ pc'[e] = "idle" /\ Apart(e, r) /\ Known(r)'
      BY <1>1, <1>2, <1>4, <2>1 DEF Goto, Apart, Known, v
    <2>3. Listed(r)' /\ Resting(r)'
      BY <1>1, <1>2, <2>1, <2>2 DEF ExecutionFits, Listed, Resting
    <2>4. ExecutionFits(e)'
      BY <2>2 DEF ExecutionFits, AtWork
    <2>5. RunFits(r)'
      BY <1>1, <1>2, <2>1, <2>2, <2>3 DEF RunFits
    <2> QED
      BY <1>1, <1>2, <2>2, <2>4, <2>5, OthersFit DEF AtWork
  <1> QED
    BY <1>3, <1>4 DEF AskApproval

LEMMA CreatesFit == ASSUME AllInv, NEW e \in Executors, CreateTask(e) PROVE ClaimInv'
  <1>0. PICK r \in Runs : AtWork(e) /\ r = job[e].run
    BY WorkFacts DEF CreateTask, AtWork
  <1> DEFINE j == job[e]
             s == Append(tasks[r], [step |-> j.at, state |-> "pending"])
             k == Len(s)
             v == [j EXCEPT !.row.tasks = @ \cup {k}, !.task = k]
  <1>1. pc[e] = "create" /\ AtWork(e) /\ UNCHANGED <<row, lost>>
    BY DEF CreateTask, AtWork
  <1>2. /\ j \in Job /\ r = j.run /\ Known(r) /\ tasks[r] \in Seq(Task)
        /\ tasks \in [Runs -> Seq(Task)] /\ pc \in [Executors -> PC] /\ job \in [Executors -> Job]
        /\ ExecutionFits(e) /\ CopyFits(e) /\ RunFits(r)
        /\ \A f \in Executors : Owner(f, r) => f = e
    BY <1>0, <1>1, WorkFacts
  <1>3. CASE Goto(e, "fail") /\ UNCHANGED <<tasks, job>>
    <2>1. job' = [job EXCEPT ![e] = j]
      BY <1>2, <1>3
    <2> QED
      BY <1>1, <1>2, <1>3, <2>1, MovesFit DEF MidRun
  <1>4. CASE /\ tasks' = [tasks EXCEPT ![r] = s]
             /\ job' = [job EXCEPT ![e].row.tasks = @ \cup {Len(tasks'[r])}, ![e].task = Len(tasks'[r])]
             /\ Goto(e, "list")
    <2>1. j.at \in Nat /\ tasks' = [tasks EXCEPT ![r] = s] /\ tasks'[r] = s /\ Goto(e, "list")
      BY <1>2, <1>4 DEF Job
    <2>2. /\ k = Len(tasks[r]) + 1 /\ DOMAIN s = DOMAIN tasks[r] \cup {k} /\ k \in Nat
          /\ k \notin DOMAIN tasks[r]
          /\ s[k].state = "pending" /\ \A m \in DOMAIN tasks[r] : s[m] = tasks[r][m]
      BY <1>2
    <2>3. job' = [job EXCEPT ![e] = v]
      BY <1>2, <1>4, <2>1 DEF Job, Row
    <2> HIDE DEF k, s
    <2>4. v.run = r /\ v.task = k /\ v.row.tasks = j.row.tasks \cup {k} /\ v.row.state = j.row.state
      <3>1. j \in Job
        BY <1>2
      <3>2. j.run = r
        BY <1>2
      <3> HIDE DEF j
      <3>3. /\ [j EXCEPT !.row.tasks = @ \cup {k}, !.task = k].run = j.run
            /\ [j EXCEPT !.row.tasks = @ \cup {k}, !.task = k].task = k
            /\ [j EXCEPT !.row.tasks = @ \cup {k}, !.task = k].row.tasks = j.row.tasks \cup {k}
            /\ [j EXCEPT !.row.tasks = @ \cup {k}, !.task = k].row.state = j.row.state
        <4>1. k \in Nat
          BY <2>2
        <4> QED
          BY <3>1, <4>1, CopiesWithTask
      <3> QED
        BY <3>2, <3>3
    <2> HIDE DEF v
    <2>5. /\ pc'[e] = "list" /\ job'[e] = v /\ Apart(e, r) /\ row'[r] = row[r] /\ Known(r)'
      BY <1>1, <1>2, <2>1, <2>3 DEF Goto, Apart, Known
    <2>6. Resting(r)' /\ Listed(r)'
      BY <1>1, <1>2, <2>1, <2>2, <2>5 DEF ExecutionFits, Resting, Listed
    <2>7. \A f \in Executors : Owner(f, r)' => f = e
      BY <1>1, <1>2, <2>5 DEF Apart, Owner, AtWork
    <2>8. ExecutionFits(e)'
      BY <1>1, <1>2, <2>4, <2>5, <2>6, <2>7 DEF ExecutionFits, AtWork, MidRun
    <2>9. RunFits(r)'
      <3>1. Owner(e, r)'
        BY <2>4, <2>5 DEF Owner, AtWork
      <3> QED
        BY <2>5, <2>6, <3>1 DEF RunFits, Resting
    <2> QED
      BY <1>1, <1>2, <2>4, <2>5, <2>8, <2>9, OthersFit
  <1> QED
    BY <1>0, <1>3, <1>4 DEF CreateTask

LEMMA StartsFit == ASSUME AllInv, NEW e \in Executors, StartTask(e) PROVE ClaimInv'
  <1> DEFINE j == job[e]
             r == j.run
             k == j.task
  <1>1. pc[e] = "start" /\ AtWork(e) /\ UNCHANGED <<row, job, lost>>
    BY DEF StartTask, AtWork
  <1>2. /\ j \in Job /\ r \in Runs /\ Known(r) /\ tasks[r] \in Seq(Task)
        /\ tasks \in [Runs -> Seq(Task)] /\ pc \in [Executors -> PC] /\ job \in [Executors -> Job]
        /\ ExecutionFits(e) /\ RunFits(r)
        /\ \A f \in Executors : Owner(f, r) => f = e
    BY <1>1, WorkFacts
  <1>3. CASE Goto(e, "fail") /\ UNCHANGED tasks
    <2>1. job' = [job EXCEPT ![e] = j]
      BY <1>1, <1>2
    <2> QED
      BY <1>1, <1>2, <1>3, <2>1, MovesFit DEF MidRun
  <1>4. ASSUME NEW state \in {"pending", "running", "failed"}, SetTask(r, k, state),
               NEW next \in {"wait", "fail"}, Goto(e, next), state = "running" => next = "wait"
        PROVE  ClaimInv'
    <2>1. /\ DOMAIN tasks'[r] = DOMAIN tasks[r]
          /\ \A m \in DOMAIN tasks[r] : m # k => tasks'[r][m] = tasks[r][m]
          /\ k \in DOMAIN tasks[r] => tasks'[r][k].state = state
          /\ \A q \in Runs \ {r} : tasks'[q] = tasks[q]
      BY <1>2, <1>4 DEF SetTask, Task
    <2>2. pc'[e] = next /\ job'[e] = j /\ Apart(e, r) /\ row'[r] = row[r] /\ Known(r)'
      BY <1>1, <1>2, <1>4, <2>1 DEF Goto, Apart, Known
    <2>3. Listed(r)' /\ (next = "fail" => Resting(r)')
      BY <1>1, <1>2, <1>4, <2>1, <2>2 DEF ExecutionFits, Listed, Resting
    <2>4. \A m \in DOMAIN tasks'[r] : tasks'[r][m].state = "running" => m = k
      BY <1>1, <1>2, <2>1 DEF ExecutionFits, Resting
    <2>5. \A f \in Executors : Owner(f, r)' => f = e
      BY <1>1, <1>2, <2>2 DEF Apart, Owner, AtWork
    <2>6. ExecutionFits(e)'
      BY <1>1, <1>2, <1>4, <2>2, <2>3, <2>4, <2>5 DEF ExecutionFits, AtWork, MidRun
    <2>7. RunFits(r)'
      <3>1. Owner(e, r)' /\ row[r].state = "running"
        BY <1>1, <1>2, <1>4, <2>2 DEF Owner, AtWork, ExecutionFits, MidRun
      <3> QED
        BY <2>2, <2>3, <2>4, <3>1 DEF RunFits
    <2> QED
      BY <1>1, <1>2, <2>2, <2>6, <2>7, OthersFit
  <1> QED
    BY <1>3, <1>4 DEF StartTask

LEMMA FinalizeFits == ASSUME AllInv, NEW e \in Executors, FinalizeAsyncFailure(e) PROVE ClaimInv'
  <1>0. PICK r \in Runs : AtWork(e) /\ r = job[e].run
    BY WorkFacts DEF FinalizeAsyncFailure, AtWork
  <1>1. pc[e] = "finalize" /\ AtWork(e) /\ UNCHANGED <<tasks, job>> /\ Goto(e, "idle")
    BY DEF FinalizeAsyncFailure, AtWork
  <1>2. /\ job[e].run = r /\ Known(r) /\ row[r] \in Row /\ row[r] # None /\ row \in [Runs -> Row \cup {None}]
        /\ pc \in [Executors -> PC] /\ job \in [Executors -> Job]
        /\ ExecutionFits(e) /\ RunFits(r) /\ r \in lost
        /\ \A f \in Executors : Owner(f, r) => f = e
    <2>1. ExecutionFits(e)
      BY DEF AllInv, ClaimInv
    <2>2. r \in lost
      BY <1>0, <1>1, <2>1 DEF ExecutionFits
    <2> QED
      BY <1>0, <1>1, <2>2, WorkFacts
  <1>3. \A x \in Row : /\ [x EXCEPT !.state = "failed"] \in Row
                       /\ [x EXCEPT !.state = "failed"].state = "failed"
                       /\ [x EXCEPT !.state = "failed"].tasks = x.tasks
    BY DEF Row, RunState
  <1>4. Fresh(row[r].ref) \in Row
    BY <1>2 DEF Fresh, Row, RunState
  <1>5. \/ row' = [row EXCEPT ![r] = [row[r] EXCEPT !.state = "failed"]] /\ lost' = lost \ {r}
        \/ row' = row /\ lost' = lost
        \/ row' = [row EXCEPT ![r] = [Fresh(row[r].ref) EXCEPT !.state = "failed"]] /\ lost' = lost
    BY <1>2 DEF FinalizeAsyncFailure
  <1>6. /\ Apart(e, r) /\ pc'[e] = "idle" /\ tasks'[r] = tasks[r] /\ Known(r)'
        /\ \/ row'[r].state = "failed" /\ row'[r].tasks = row[r].tasks
           \/ row'[r] = row[r] /\ r \in lost'
           \/ row'[r].state = "failed" /\ r \in lost'
    <2> DEFINE v == [row[r] EXCEPT !.state = "failed"]
               w == [Fresh(row[r].ref) EXCEPT !.state = "failed"]
    <2>1. v \in Row /\ w \in Row /\ v.state = "failed" /\ w.state = "failed" /\ v.tasks = row[r].tasks
      BY <1>2, <1>3, <1>4
    <2>2. \/ row' = [row EXCEPT ![r] = v] /\ lost' = lost \ {r}
          \/ row' = row /\ lost' = lost
          \/ row' = [row EXCEPT ![r] = w] /\ lost' = lost
      BY <1>5
    <2> HIDE DEF v, w
    <2> QED
      BY <1>1, <1>2, <2>1, <2>2, NoneIsNoRow DEF Goto, Apart, Known
  <1>7. ExecutionFits(e)'
    BY <1>6 DEF ExecutionFits, AtWork
  <1>8. RunFits(r)'
    <2>1. Listed(r)' \/ (row'[r].state = "failed" /\ r \in lost')
      <3>1. Listed(r)
        BY <1>0, <1>2 DEF ExecutionFits
      <3>2. row'[r].tasks = row[r].tasks => Listed(r)'
        BY <1>6, <3>1 DEF Listed
      <3> QED
        BY <1>6, <3>2
    <2>2. Resting(r) => Resting(r)'
      BY <1>6 DEF Resting
    <2> QED
      BY <1>2, <1>6, <2>1, <2>2 DEF RunFits
  <1> QED
    BY <1>1, <1>2, <1>6, <1>7, <1>8, OthersFit DEF AtWork

\* Steps of those who do not work, before or after.
LEMMA NobodyMoves ==
  ASSUME AllInv, UNCHANGED <<row, tasks, lost>>,
         \A e \in Executors : (pc'[e] = pc[e] /\ job'[e] = job[e]) \/ (~ AtWork(e) /\ ~ AtWork(e)')
  PROVE  ClaimInv'
  <1>1. \A e \in Executors, r \in Runs : Owner(e, r)' <=> Owner(e, r)
    BY DEF Owner, AtWork
  <1>2. ASSUME NEW e \in Executors PROVE ExecutionFits(e)'
    <2> SUFFICES ASSUME AtWork(e)' PROVE ExecutionFits(e)'
      BY DEF ExecutionFits
    <2>1. AtWork(e) /\ pc'[e] = pc[e] /\ job'[e] = job[e]
      BY DEF AtWork
    <2>2. ExecutionFits(e) /\ job[e].run \in Runs
      BY <2>1 DEF AllInv, ClaimInv, WorkflowInv, CopiesFit
    <2> QED
      BY <1>1, <2>1, <2>2 DEF ExecutionFits, Listed, Resting
  <1>3. ASSUME NEW r \in Runs PROVE RunFits(r)'
    BY <1>1 DEF AllInv, ClaimInv, RunFits, Listed, Resting, Known
  <1> QED
    BY <1>2, <1>3 DEF ClaimInv

\* An execution that begins with a run that nobody has.
LEMMA BeginsFit ==
  ASSUME AllInv, NEW e \in Executors, ~ AtWork(e), NEW r \in Runs, NEW j \in Job, j.run = r,
         NEW next \in {"begin", "resuming"}, Goto(e, next), job' = [job EXCEPT ![e] = j],
         Apart(e, r), tasks'[r] = tasks[r], Known(r)',
         row'[r].tasks = j.row.tasks, Listed(r)', Resting(r)',
         next = "begin" => row'[r].state = "queued",
         next = "resuming" => e \in Resumers /\ row'[r].state = "waiting_approval",
         \A f \in Executors : ~ Owner(f, r)
  PROVE  ClaimInv'
  <1>1. pc'[e] = next /\ job'[e] = j
    BY DEF Goto, AllInv, WorkflowInv, RunTypes
  <1>2. \A f \in Executors : Owner(f, r)' => f = e
    BY <1>1 DEF Apart, Owner, AtWork
  <1>3. Owner(e, r)'
    BY <1>1 DEF Owner, AtWork
  <1>4. ExecutionFits(e)'
    BY <1>1, <1>2 DEF ExecutionFits, AtWork, MidRun
  <1>5. RunFits(r)'
    BY <1>3 DEF RunFits, Resting
  <1> QED
    BY <1>1, <1>4, <1>5, OthersFit DEF Owner

LEMMA NewRunsFit ==
  ASSUME AllInv, NEW e \in Executors, ~ AtWork(e), NEW r \in Runs, NEW ref \in Refs \cup {None},
         NEW b \in BOOLEAN, NewRun(e, r, ref, b), UNCHANGED <<tasks, lost>>
  PROVE  ClaimInv'
  <1> DEFINE v == [NoJob EXCEPT !.run = r, !.row = Fresh(ref), !.async = b]
  <1>1. /\ ~ Known(r) /\ row' = [row EXCEPT ![r] = Fresh(ref)] /\ job' = [job EXCEPT ![e] = v]
        /\ Goto(e, "begin")
    BY DEF NewRun
  <1>2. Fresh(ref) \in Row /\ Fresh(ref).state = "queued" /\ Fresh(ref).tasks = {}
    BY FreshRow
  <1>3. v \in Job /\ v.run = r /\ v.row = Fresh(ref)
    <2>1. v \in Job
      BY <1>2, NewJobs
    <2>2. v.run = r /\ v.row = Fresh(ref)
      BY DEF NoJob
    <2> QED
      BY <2>1, <2>2
  <1> HIDE DEF v
  <1>4. /\ Apart(e, r) /\ Known(r)' /\ row'[r] = Fresh(ref)
    BY <1>1, <1>2, NoneIsNoRow DEF Apart, Known, Goto, AllInv, WorkflowInv, RunTypes
  <1>5. tasks[r] = <<>>
    BY <1>1 DEF AllInv, ClaimInv, RunFits
  <1>6. Listed(r)' /\ Resting(r)'
    BY <1>5 DEF Listed, Resting
  <1>7. \A f \in Executors : ~ Owner(f, r)
    BY <1>1 DEF Owner, AllInv, WorkflowInv, CopiesFit
  <1> QED
    BY <1>1, <1>2, <1>3, <1>4, <1>6, <1>7, BeginsFit

LEMMA TriggersFit ==
  ASSUME OneResumer \/ Alone', AllInv, NEW e \in Executors,
         \/ \E r \in Runs : Trigger(e, r) \/ CreateAsync(e, r) \/ Resume(e, r)
         \/ \E ref \in Refs : TriggerAsync(e, ref)
  PROVE  ClaimInv'
  <1>1. /\ UNCHANGED <<tasks, lost>> /\ ~ AtWork(e)
        /\ pc \in [Executors -> PC] /\ row \in [Runs -> Row \cup {None}]
        /\ job \in [Executors -> Job] /\ job[e] \in Job /\ job[e].row \in Row
    BY DEF Trigger, CreateAsync, Resume, TriggerAsync, store, AtWork, AllInv, WorkflowInv, RunTypes,
           GateInv, WorkTypes
  <1>2. CASE \E r \in Runs : Trigger(e, r)
    BY <1>1, <1>2, NewRunsFit DEF Trigger
  <1>3. ASSUME NEW r \in Runs, CreateAsync(e, r) PROVE ClaimInv'
    <2>1. job[e].row.ref \in Refs \cup {None}
      BY <1>1 DEF Row
    <2>2. CASE NewRun(e, r, job[e].row.ref, TRUE)
      BY <1>1, <2>1, <2>2, NewRunsFit
    <2>3. CASE Goto(e, "idle") /\ UNCHANGED <<row, job>>
      BY <1>1, <2>3, NobodyMoves DEF Goto, AtWork
    <2> QED
      BY <1>3, <2>2, <2>3 DEF CreateAsync
  <1>4. CASE \E ref \in Refs : TriggerAsync(e, ref)
    <2>1. Goto(e, "looked") /\ UNCHANGED row /\ \A f \in Executors \ {e} : job'[f] = job[f]
      BY <1>1, <1>4 DEF TriggerAsync, store
    <2> QED
      BY <1>1, <2>1, NobodyMoves DEF Goto, AtWork
  <1>5. ASSUME NEW r \in Runs, Resume(e, r) PROVE ClaimInv'
    <2> DEFINE v == [NoJob EXCEPT !.run = r, !.row = row[r]]
    <2>1. /\ e \in Resumers /\ row[r] \in Row /\ Known(r) /\ row[r].state = "waiting_approval"
          /\ job' = [job EXCEPT ![e] = v] /\ Goto(e, "resuming") /\ UNCHANGED row
      BY <1>1, <1>5 DEF Resume, Known, store
    <2>2. v \in Job /\ v.run = r /\ v.row = row[r]
      BY <2>1, NewJobs
    <2> HIDE DEF v
    <2>3. Apart(e, r) /\ Known(r)'
      BY <1>1, <2>1 DEF Apart, Goto, Known
    <2>4. Listed(r) /\ Resting(r)
      BY <2>1 DEF AllInv, ClaimInv, RunFits
    <2>5. Listed(r)' /\ Resting(r)'
      BY <1>1, <2>1, <2>4 DEF Listed, Resting
    <2>6. ASSUME NEW f \in Executors, Owner(f, r) PROVE FALSE
      <3>1. f # e
        BY <1>1, <2>6 DEF Owner
      <3>2. CASE OneResumer
        <4>1. ExecutionFits(f)
          BY DEF AllInv, ClaimInv
        <4>2. f \in Resumers
          BY <2>1, <2>6, <4>1 DEF ExecutionFits, Owner
        <4> QED
          BY <2>1, <3>1, <3>2, <4>2 DEF OneResumer
      <3>3. CASE Alone'
        <4>1. pc'[e] = "resuming" /\ job'[e].run = r /\ pc'[f] = pc[f] /\ job'[f] = job[f]
          BY <1>1, <2>1, <2>2, <3>1 DEF Goto
        <4> QED
          BY <2>6, <3>1, <3>3, <4>1 DEF Alone, Owner, AtWork
      <3> QED
        BY <3>2, <3>3
    <2> QED
      BY <1>1, <2>1, <2>2, <2>3, <2>5, <2>6, BeginsFit
  <1> QED
    BY <1>2, <1>3, <1>4, <1>5

LEMMA ApprovalsFit ==
  ASSUME AllInv,
         \/ \E r \in Runs : CreateApproval(r)
         \/ \E d \in Deciders : (\E a \in DOMAIN approvals : ReadApproval(d, a)) \/ UpdateApproval(d)
  PROVE  ClaimInv'
  <1>1. UNCHANGED <<pc, job, tasks, lost>>
    BY DEF CreateApproval, ReadApproval, UpdateApproval, store
  <1>2. CASE UNCHANGED row
    BY <1>1, <1>2, NobodyMoves
  <1>3. ASSUME NEW r \in Runs, row[r].state = "waiting_approval", Known(r),
               row' = [row EXCEPT ![r].state = "failed"]
        PROVE  ClaimInv'
    <2>1. row \in [Runs -> Row \cup {None}] /\ row[r] \in Row
      BY <1>3 DEF AllInv, WorkflowInv, RunTypes, Known
    <2>2. \A x \in Row : /\ [x EXCEPT !.state = "failed"] \in Row
                         /\ [x EXCEPT !.state = "failed"].state = "failed"
                         /\ [x EXCEPT !.state = "failed"].tasks = x.tasks
      BY DEF Row, RunState
    <2> DEFINE w == [row[r] EXCEPT !.state = "failed"]
    <2>3. w # None /\ w.state = "failed" /\ w.tasks = row[r].tasks /\ row' = [row EXCEPT ![r] = w]
      BY <1>3, <2>1, <2>2, NoneIsNoRow
    <2> HIDE DEF w
    <2>4. row'[r].state = "failed" /\ row'[r].tasks = row[r].tasks /\ \A q \in Runs \ {r} : row'[q] = row[q]
      BY <2>1, <2>3
    <2>5. \A q \in Runs : (Known(q)' <=> Known(q)) /\ row'[q].tasks = row[q].tasks
      BY <1>3, <2>1, <2>3 DEF Known
    <2>6. \A e \in Executors, q \in Runs : Owner(e, q)' <=> Owner(e, q)
      BY <1>1 DEF Owner, AtWork
    <2>7. \A q \in Runs : (Listed(q)' <=> Listed(q)) /\ (Resting(q)' <=> Resting(q))
      BY <1>1, <2>5 DEF Listed, Resting
    <2>8. ASSUME NEW e \in Executors PROVE ExecutionFits(e)'
      <3>1. ExecutionFits(e) /\ (AtWork(e) => job[e].run \in Runs)
        BY DEF AllInv, ClaimInv, WorkflowInv, CopiesFit
      <3> QED
        BY <1>1, <1>3, <2>4, <2>5, <2>6, <2>7, <3>1 DEF ExecutionFits, AtWork
    <2>9. ASSUME NEW q \in Runs PROVE RunFits(q)'
      <3>1. RunFits(q)
        BY DEF AllInv, ClaimInv
      <3> QED
        BY <1>1, <1>3, <2>4, <2>5, <2>6, <2>7, <3>1 DEF RunFits
    <2> QED
      BY <2>8, <2>9 DEF ClaimInv
  <1>4. UNCHANGED row \/ \E r \in Runs : /\ row[r].state = "waiting_approval" /\ Known(r)
                                         /\ row' = [row EXCEPT ![r].state = "failed"]
    <2>1. CASE \E r \in Runs : CreateApproval(r)
      BY <2>1 DEF CreateApproval
    <2>2. CASE \E d \in Deciders, a \in DOMAIN approvals : ReadApproval(d, a)
      BY <2>2 DEF ReadApproval, store
    <2>3. ASSUME NEW d \in Deciders, UpdateApproval(d)
          PROVE  UNCHANGED row \/ \E r \in Runs : /\ row[r].state = "waiting_approval" /\ Known(r)
                                                  /\ row' = [row EXCEPT ![r].state = "failed"]
      <3>1. deciding[d] \in DOMAIN approvals
        BY <2>3 DEF UpdateApproval, AllInv, WorkflowInv, RunTypes
      <3>2. approvals[deciding[d]].run \in Runs /\ Known(approvals[deciding[d]].run)
        BY <3>1 DEF AllInv, WorkflowInv, ApprovalsAreAbout
      <3> QED
        BY <2>3, <3>2 DEF UpdateApproval, Decide
    <2> QED
      BY <2>1, <2>2, <2>3
  <1> QED
    BY <1>2, <1>3, <1>4

\* Tasks only end.
LEMMA EndsFit ==
  ASSUME AllInv, UNCHANGED <<row, pc, job, lost>>,
         \A r \in Runs :
           /\ DOMAIN tasks'[r] = DOMAIN tasks[r] /\ (tasks[r] = <<>> => tasks'[r] = <<>>)
           /\ \A k \in DOMAIN tasks[r] :
                /\ tasks'[r][k].state = "running" => tasks[r][k].state = "running"
                /\ tasks'[r][k].state = "completed" => tasks[r][k].state \in {"running", "completed"}
  PROVE  ClaimInv'
  <1>1. \A r \in Runs : (Listed(r) => Listed(r)') /\ (Resting(r) => Resting(r)')
    BY DEF Listed, Resting
  <1>2. \A e \in Executors, r \in Runs : Owner(e, r)' <=> Owner(e, r)
    BY DEF Owner, AtWork
  <1>3. ASSUME NEW e \in Executors PROVE ExecutionFits(e)'
    <2>1. ExecutionFits(e) /\ (AtWork(e) => job[e].run \in Runs)
      BY DEF AllInv, ClaimInv, WorkflowInv, CopiesFit
    <2> QED
      BY <1>1, <1>2, <2>1 DEF ExecutionFits, AtWork
  <1>4. ASSUME NEW r \in Runs PROVE RunFits(r)'
    <2>1. RunFits(r)
      BY DEF AllInv, ClaimInv
    <2> QED
      BY <1>1, <1>2, <2>1 DEF RunFits, Known
  <1> QED
    BY <1>3, <1>4 DEF ClaimInv

LEMMA TasksFit ==
  ASSUME AllInv, NEW r \in Runs, NEW k \in DOMAIN tasks[r], TaskEnds(r, k) \/ CancelPending(r, k)
  PROVE  ClaimInv'
  <1>1. UNCHANGED <<row, pc, job, lost>>
    BY DEF TaskEnds, CancelPending
  <1>2. PICK state \in TaskState : SetTask(r, k, state) /\ state # "running" /\ (state = "completed" => tasks[r][k].state = "running")
    BY DEF TaskEnds, CancelPending, TaskState
  <1>3. tasks \in [Runs -> Seq(Task)] /\ tasks[r] \in Seq(Task) /\ tasks[r][k] \in Task
    BY DEF AllInv, GateInv, WorkTypes
  <1>4. /\ DOMAIN tasks'[r] = DOMAIN tasks[r] /\ tasks'[r][k].state = state /\ tasks[r] # <<>>
        /\ \A m \in DOMAIN tasks[r] : m # k => tasks'[r][m] = tasks[r][m]
        /\ \A q \in Runs \ {r} : tasks'[q] = tasks[q]
    BY <1>2, <1>3 DEF SetTask, Task
  <1> QED
    BY <1>1, <1>2, <1>4, EndsFit

LEMMA RestartFits == ASSUME AllInv, Restart PROVE ClaimInv'
  <1>1. /\ row \in [Runs -> Row \cup {None}] /\ tasks \in [Runs -> Seq(Task)] /\ UNCHANGED lost
    BY DEF Restart, AllInv, WorkflowInv, RunTypes, GateInv, WorkTypes
  <1>2. \A x \in Row : /\ [x EXCEPT !.state = "interrupted"] \in Row
                       /\ [x EXCEPT !.state = "interrupted"].state = "interrupted"
                       /\ [x EXCEPT !.state = "interrupted"].tasks = x.tasks
    BY DEF Row, RunState
  <1>3. ASSUME NEW r \in Runs
        PROVE  /\ Known(r)' <=> Known(r)
               /\ Known(r) => /\ row'[r].tasks = row[r].tasks
                              /\ row'[r].state # "running"
                              /\ row'[r].state = row[r].state \/ row'[r].state = "interrupted"
                              /\ row[r].state \in {"failed", "waiting_approval"} => row'[r].state = row[r].state
    <2>1. CASE Known(r) /\ row[r].state = "running"
      <3>1. row[r] \in Row
        BY <1>1, <2>1 DEF Known
      <3>2. row'[r] = [row[r] EXCEPT !.state = "interrupted"]
        BY <2>1 DEF Restart
      <3> DEFINE w == [row[r] EXCEPT !.state = "interrupted"]
      <3>3. w # None /\ w.state = "interrupted" /\ w.tasks = row[r].tasks
        BY <1>2, <3>1, NoneIsNoRow
      <3>4. row'[r] = w
        BY <3>2
      <3> HIDE DEF w
      <3> QED
        BY <2>1, <3>3, <3>4 DEF Known
    <2>2. CASE ~ (Known(r) /\ row[r].state = "running")
      <3>1. row'[r] = row[r]
        BY <2>2 DEF Restart
      <3> QED
        BY <2>2, <3>1 DEF Known
    <2> QED
      BY <2>1, <2>2
  <1>4. ASSUME NEW r \in Runs
        PROVE  /\ DOMAIN tasks'[r] = DOMAIN tasks[r] /\ (tasks[r] = <<>> => tasks'[r] = <<>>)
               /\ \A k \in DOMAIN tasks[r] :
                    /\ tasks'[r][k].state # "running"
                    /\ tasks'[r][k].state = "completed" => tasks[r][k].state = "completed"
    <2>1. tasks[r] \in Seq(Task) /\ \A k \in DOMAIN tasks[r] : tasks[r][k] \in Task
      BY <1>1
    <2>2. tasks'[r] = [k \in DOMAIN tasks[r] |->
             IF tasks[r][k].state = "running" THEN [tasks[r][k] EXCEPT !.state = "failed"] ELSE tasks[r][k]]
      BY DEF Restart
    <2>3. \A t \in Task : [t EXCEPT !.state = "failed"].state = "failed"
      BY DEF Task
    <2>4. tasks[r] = <<>> => DOMAIN tasks[r] = {}
      OBVIOUS
    <2> QED
      BY <2>1, <2>2, <2>3, <2>4
  <1>5. \A e \in Executors : ~ AtWork(e)'
    BY DEF Restart, AtWork
  <1>6. ASSUME NEW r \in Runs PROVE RunFits(r)'
    <2>1. RunFits(r)
      BY DEF AllInv, ClaimInv
    <2>2. Resting(r)' /\ (Known(r) /\ Listed(r) => Listed(r)')
      BY <1>3, <1>4 DEF Resting, Listed
    <2>3. Known(r)' => Listed(r)' \/ (r \in lost' /\ row'[r].state = "failed")
      BY <1>1, <1>3, <2>1, <2>2 DEF RunFits
    <2> QED
      BY <1>3, <1>4, <2>1, <2>2, <2>3 DEF RunFits, Resting
  <1> QED
    BY <1>5, <1>6 DEF ClaimInv, ExecutionFits

LEMMA ClaimInitially == Init => ClaimInv
  BY DEF Init, ClaimInv, ExecutionFits, RunFits, AtWork, Known

LEMMA ClaimStep == (OneResumer \/ Alone') /\ AllInv /\ [Next]_vars => AllInv'
  <1> SUFFICES ASSUME OneResumer \/ Alone', AllInv, [Next]_vars PROVE ClaimInv'
    BY WorkflowStep, GateStep DEF AllInv
  <1>1. ASSUME NEW e \in Executors, ExecutionSteps(e) \/ TimesOut(e) PROVE ClaimInv'
    BY <1>1, WritesFit, AskFits, ResumesFit, CreatesFit, StartsFit, FinalizeFits, TriggersFit DEF ExecutionSteps
  <1>2. CASE UNCHANGED vars
    BY <1>2, NobodyMoves DEF vars
  <1> QED
    BY <1>1, <1>2, TriggersFit, ApprovalsFit, TasksFit, RestartFits DEF Next

LEMMA AllInitially == Init => AllInv
  BY WorkflowInitially, GateInitially, ClaimInitially DEF AllInv

-----------------------------------------------------------------------------

\* As long as nobody resumes a run that is being executed, an execution's copy
\* names all that the row names, and the row's state is what its execution wrote,
\* over lost writes, decisions and restarts (workflows/service.go:376).
THEOREM ClaimInvariant == Spec /\ []Alone => []AllInv
  <1>1. AllInv /\ Alone' /\ [Next]_vars => AllInv'
    BY ClaimStep
  <1> QED
    BY <1>1, AllInitially, PTL DEF Spec

\* The executions that triggers start never meet: only a second request that
\* resumes can bring two executions to a run (workflows/service.go:164).
THEOREM OneResumerWorksAlone == OneResumer => (Spec => []Alone)
  <1> SUFFICES ASSUME OneResumer PROVE Spec => []Alone
    OBVIOUS
  <1>1. AllInv /\ [Next]_vars => AllInv'
    BY ClaimStep
  <1>2. AllInv => Alone
    <2> SUFFICES ASSUME AllInv, NEW e \in Executors, NEW f \in Executors, AtWork(e), AtWork(f),
                        job[e].run = job[f].run
                 PROVE  e = f
      BY DEF Alone
    <2>1. job[f].run \in Runs /\ ExecutionFits(e)
      BY DEF AllInv, WorkflowInv, CopiesFit, ClaimInv
    <2> QED
      BY <2>1 DEF ExecutionFits, Owner
  <1> QED
    BY <1>1, <1>2, AllInitially, PTL DEF Spec

\* Then nothing that is open is out of reach: a waiting run can be answered, a task
\* at work is named by its run, a running run has its execution
\* (workflows/service.go:480, 509, 602).
THEOREM NothingOfARunIsStranded == Spec /\ []Alone => []NothingIsStranded
  <1>1. AllInv => NothingIsStranded
    <2> SUFFICES ASSUME AllInv PROVE NothingIsStranded
      OBVIOUS
    <2>1. WaitingIsAnswerable
      BY DEF AllInv, GateInv, GateFits, IsGateOf, WaitingIsAnswerable
    <2>2. WorkIsListed
      <3>1. \A r \in Runs : RunFits(r) /\ DOMAIN <<>> = {}
        BY DEF AllInv, ClaimInv
      <3> QED
        BY <3>1 DEF RunFits, Listed, WorkIsListed
    <2>3. RunningHasExecutor
      BY DEF AllInv, ClaimInv, RunFits, Owner, AtWork, RunningHasExecutor
    <2> QED
      BY <2>1, <2>2, <2>3 DEF NothingIsStranded
  <1> QED
    BY <1>1, ClaimInvariant, PTL

\* Then at any time at most one task of a run is at work (workflows/service.go:480).
THEOREM TasksOfARunAreSerial == Spec /\ []Alone => []TasksAreSerial
  <1>1. AllInv => TasksAreSerial
    BY DEF AllInv, ClaimInv, RunFits, TasksAreSerial
  <1> QED
    BY <1>1, ClaimInvariant, PTL

\* Whoever writes the row of a run, it has not been completed or interrupted.
LEMMA OpenRowsAreWritten ==
  AllInv /\ [Next]_vars =>
    \A r \in Runs : row'[r] # row[r] => ~ Known(r) \/ row[r].state \notin {"completed", "interrupted"}
  <1> DEFINE Fine == \A r \in Runs : row'[r] # row[r] => ~ Known(r) \/ row[r].state \notin {"completed", "interrupted"}
  <1> SUFFICES ASSUME AllInv, [Next]_vars PROVE Fine
    OBVIOUS
  <1>1. ASSUME NEW e \in Executors, AtWork(e), \A r \in Runs \ {job[e].run} : row'[r] = row[r] PROVE Fine
    <2>1. ExecutionFits(e)
      BY DEF AllInv, ClaimInv
    <2>2. row[job[e].run].state \notin {"completed", "interrupted"}
      BY <1>1, <2>1 DEF ExecutionFits
    <2> QED
      BY <1>1, <2>2
  <1>2. CASE UNCHANGED row
    BY <1>2
  <1>3. ASSUME NEW e \in Executors, ExecutionSteps(e) \/ TimesOut(e), ~ \E r \in Runs : CreateAsync(e, r) PROVE Fine
    <2>1. AtWork(e)
      BY <1>3 DEF ExecutionSteps, ApprovedResumePoint, Begin, StartStep, Complete, AskApproval, CreateTask,
                  ListTask, StartTask, Collect, FailRun, InterruptRun, FinalizeAsyncFailure, TimesOut, AtWork
    <2>2. row \in [Runs -> Row \cup {None}]
      BY DEF AllInv, WorkflowInv, RunTypes
    <2> DEFINE Others == \A r \in Runs \ {job[e].run} : row'[r] = row[r]
    <2>3. ASSUME NEW v, NEW next, Persist(e, v, next), v.run = job[e].run PROVE Others
      BY <2>2, <2>3 DEF Persist
    <2>4. \A s \in RunState : InState(job[e], s).run = job[e].run
      <3>1. job[e] \in Job
        BY <2>1, WorkFacts
      <3> QED
        BY <3>1, CopiesInState
    <2>5. [job[e] EXCEPT !.at = @ + 1].run = job[e].run
      <3>1. job[e] \in Job
        BY <2>1, WorkFacts
      <3> QED
        BY <3>1 DEF Job
    <2>6. Others
      <3>1. CASE Begin(e) \/ Complete(e) \/ FailRun(e) \/ InterruptRun(e)
        BY <2>3, <2>4, <3>1 DEF Begin, Complete, FailRun, InterruptRun, RunState
      <3>2. CASE StartStep(e) \/ ListTask(e) \/ Collect(e)
        BY <2>3, <2>5, <3>2 DEF StartStep, ListTask, Collect
      <3>3. CASE AskApproval(e) \/ FinalizeAsyncFailure(e)
        BY <2>2, <3>3 DEF AskApproval, FinalizeAsyncFailure
      <3>4. CASE ApprovedResumePoint(e) \/ CreateTask(e) \/ StartTask(e) \/ TimesOut(e)
        BY <3>4 DEF ApprovedResumePoint, CreateTask, StartTask, TimesOut, store
      <3> QED
        BY <1>3, <3>1, <3>2, <3>3, <3>4 DEF ExecutionSteps
    <2> QED
      BY <1>1, <2>1, <2>6
  <1>4. ASSUME NEW e \in Executors,
               \/ \E r \in Runs : Trigger(e, r) \/ CreateAsync(e, r) \/ Resume(e, r)
               \/ \E ref \in Refs : TriggerAsync(e, ref)
        PROVE  Fine
    <2>1. UNCHANGED row \/ \E r \in Runs : \E v : ~ Known(r) /\ row' = [row EXCEPT ![r] = v]
      BY <1>4 DEF Trigger, CreateAsync, Resume, TriggerAsync, NewRun, store
    <2> QED
      BY <2>1 DEF AllInv, WorkflowInv, RunTypes
  <1>5. CASE \E d \in Deciders : UpdateApproval(d)
    <2>1. UNCHANGED row \/ \E r, v : row[r].state = "waiting_approval" /\ row' = [row EXCEPT ![r] = v]
      BY <1>5 DEF UpdateApproval, Decide
    <2> QED
      BY <2>1 DEF AllInv, WorkflowInv, RunTypes
  <1>6. CASE Restart
    BY <1>6 DEF Restart
  <1>7. CASE \/ \E r \in Runs : CreateApproval(r) \/ \E k \in DOMAIN tasks[r] : TaskEnds(r, k) \/ CancelPending(r, k)
             \/ \E d \in Deciders, a \in DOMAIN approvals : ReadApproval(d, a)
    BY <1>2, <1>7 DEF CreateApproval, TaskEnds, CancelPending, ReadApproval, store
  <1> HIDE DEF Fine
  <1> QED
    BY <1>2, <1>3, <1>4, <1>5, <1>6, <1>7 DEF Next, vars, ExecutionSteps

\* Then a run that was completed or interrupted stays so, whoever decides its
\* approvals later (app/routes.go:1276, workflows/service.go:376).
THEOREM EndsAreFinal == Spec /\ []Alone => EndIsFinal
  <1>1. AllInv /\ [Next]_vars =>
          [\A r \in Runs : Known(r) /\ row[r].state \in {"completed", "interrupted"} => row'[r] = row[r]]_vars
    BY OpenRowsAreWritten
  <1> QED
    BY <1>1, ClaimInvariant, PTL DEF Spec, EndIsFinal
-----------------------------------------------------------------------------
(* The order of the steps *)

\* No approval is being decided by two.
Undisputed ==
  \A c, d \in Deciders : deciding[c] # 0 /\ deciding[c] = deciding[d] => c = d

\* No task of run r is of step n or a later one.
Before(r, n) == \A k \in DOMAIN tasks[r] : tasks[r][k].step < n

\* The last approval asked is the next thing that run r needs.
GateIsNext(r, asked) ==
  LET n == approvals[Last(asked)].step IN Passed(r, n) /\ Before(r, n)

WaitsInPlace(r) ==
  Known(r) /\ row[r].state = "waiting_approval" => GateIsNext(r, row[r].asked)

\* An execution has passed every step before its own, and made no task too many.
InPlace(e) ==
  LET j == job[e]
      r == j.run
  IN
    /\ pc[e] = "resuming" => GateIsNext(r, j.row.asked)
    /\ pc[e] \in {"begin", "step", "gate", "create"} => Passed(r, j.at) /\ Before(r, j.at)
    /\ pc[e] \in {"create", "list", "start", "wait"} => j.at \in DOMAIN Steps /\ Steps[j.at] # "approval"
    /\ pc[e] \in {"list", "start", "wait"} =>
         /\ j.task \in DOMAIN tasks[r] /\ tasks[r][j.task].step = j.at
         /\ Passed(r, j.at) /\ Before(r, j.at + 1)

\* What a decider has found pending is still so when he decides it.
DecisionsFit == \A d \in Deciders : deciding[d] # 0 => approvals[deciding[d]].state = "pending"

OrderInv ==
  /\ DecisionsFit
  /\ \A r \in Runs : WaitsInPlace(r)
  /\ \A e \in Executors : InPlace(e)
  /\ StepsInOrder

\* What has been passed stays passed, and nothing new is done.
GrantsStay ==
  \A a \in DOMAIN approvals :
    /\ a \in DOMAIN approvals'
    /\ approvals'[a].run = approvals[a].run /\ approvals'[a].step = approvals[a].step
    /\ approvals[a].state = "approved" => approvals'[a].state = "approved"

DoneStays(r) ==
  \A k \in DOMAIN tasks[r] :
    /\ k \in DOMAIN tasks'[r] /\ tasks'[r][k].step = tasks[r][k].step
    /\ tasks[r][k].state = "completed" => tasks'[r][k].state = "completed"

NothingNew(r) == DoneStays(r) /\ DOMAIN tasks'[r] = DOMAIN tasks[r]

LEMMA PassedStays ==
  ASSUME GrantsStay, NEW r, DoneStays(r), NEW n, Passed(r, n)
  PROVE  Passed(r, n)'
  BY DEF GrantsStay, DoneStays, Passed

LEMMA InOrderStill ==
  ASSUME GrantsStay, NEW r, NothingNew(r)
  PROVE  /\ \A n : Passed(r, n) => Passed(r, n)'
         /\ \A n : Before(r, n) => Before(r, n)'
         /\ \A asked : Last(asked) \in DOMAIN approvals /\ GateIsNext(r, asked) => GateIsNext(r, asked)'
  <1>1. \A n : Passed(r, n) => Passed(r, n)'
    BY PassedStays DEF NothingNew
  <1>2. \A n : Before(r, n) => Before(r, n)'
    BY DEF NothingNew, DoneStays, Before
  <1> QED
    BY <1>1, <1>2 DEF GateIsNext, GrantsStay

LEMMA OrderGoesOn ==
  ASSUME AllInv, OrderInv, GrantsStay, DecisionsFit',
         \A r \in Runs : NothingNew(r),
         \A r \in Runs : row'[r] = row[r] \/ WaitsInPlace(r)',
         \A e \in Executors : (pc'[e] = pc[e] /\ job'[e] = job[e]) \/ InPlace(e)'
  PROVE  OrderInv'
  <1>1. ASSUME NEW r \in Runs PROVE WaitsInPlace(r)'
    <2> SUFFICES ASSUME row'[r] = row[r], Known(r)', row'[r].state = "waiting_approval"
                 PROVE  GateIsNext(r, row[r].asked)'
      BY DEF WaitsInPlace
    <2>1. GateIsNext(r, row[r].asked) /\ Last(row[r].asked) \in DOMAIN approvals
      BY DEF OrderInv, WaitsInPlace, Known, AllInv, GateInv, GateFits, IsGateOf
    <2> QED
      BY <2>1, InOrderStill
  <1>2. ASSUME NEW e \in Executors PROVE InPlace(e)'
    <2> SUFFICES ASSUME pc'[e] = pc[e], job'[e] = job[e], AtWork(e) PROVE InPlace(e)'
      BY DEF InPlace, AtWork
    <2>1. PICK r \in Runs : r = job[e].run
      BY DEF AllInv, WorkflowInv, CopiesFit
    <2>2. InPlace(e) /\ CopyFits(e) /\ NothingNew(r)
      BY DEF OrderInv, AllInv, GateInv
    <2>3. pc[e] = "resuming" => Last(job[e].row.asked) \in DOMAIN approvals
      BY <2>2 DEF CopyFits, IsGateOf
    <2>4. /\ \A n : Passed(r, n) => Passed(r, n)'
          /\ \A n : Before(r, n) => Before(r, n)'
          /\ \A asked : Last(asked) \in DOMAIN approvals /\ GateIsNext(r, asked) => GateIsNext(r, asked)'
      BY <2>2, InOrderStill
    <2> QED
      BY <2>1, <2>2, <2>3, <2>4 DEF InPlace, NothingNew, DoneStays
  <1>3. StepsInOrder'
    <2>1. ASSUME NEW r \in Runs, NEW k \in DOMAIN tasks'[r]
          PROVE  /\ Passed(r, tasks[r][k].step)'
                 /\ \A m \in DOMAIN tasks'[r] : tasks'[r][m].step = tasks'[r][k].step => m = k
      <3>1. PICK n : n = tasks[r][k].step
        OBVIOUS
      <3>2. NothingNew(r) /\ k \in DOMAIN tasks[r] /\ tasks'[r][k].step = n
        BY <2>1, <3>1 DEF NothingNew, DoneStays
      <3>3. Passed(r, n)
        BY <3>1, <3>2 DEF OrderInv, StepsInOrder
      <3>4. Passed(r, n)'
        BY <3>2, <3>3, PassedStays DEF NothingNew
      <3> QED
        BY <3>1, <3>2, <3>4 DEF OrderInv, StepsInOrder, NothingNew, DoneStays
    <2> QED
      BY <2>1 DEF StepsInOrder
  <1> QED
    BY <1>1, <1>2, <1>3 DEF OrderInv

LEMMA NothingHappens ==
  /\ UNCHANGED approvals => GrantsStay
  /\ UNCHANGED tasks => \A r \in Runs : NothingNew(r)
  /\ OrderInv /\ UNCHANGED <<approvals, deciding>> => DecisionsFit'
  BY DEF GrantsStay, NothingNew, DoneStays, OrderInv, DecisionsFit

\* persistRun, with a copy that does not wait, and goes on at the right step.
LEMMA PersistInOrder ==
  ASSUME AllInv, OrderInv, NEW e \in Executors, AtWork(e),
         NEW v \in Job, v.run = job[e].run, v.row.state # "waiting_approval",
         NEW next \in {"step", "gate", "create", "start", "interrupt", "fail", "idle"},
         Persist(e, v, next), UNCHANGED <<approvals, tasks, deciding>>,
         next \in {"step", "gate", "create"} => Passed(v.run, v.at) /\ Before(v.run, v.at),
         next \in {"create", "start"} => v.at \in DOMAIN Steps /\ Steps[v.at] # "approval",
         next = "start" => /\ v.task \in DOMAIN tasks[v.run] /\ tasks[v.run][v.task].step = v.at
                           /\ Passed(v.run, v.at) /\ Before(v.run, v.at + 1)
  PROVE  OrderInv'
  <1>1. /\ v.run \in Runs /\ pc \in [Executors -> PC] /\ job \in [Executors -> Job]
        /\ row \in [Runs -> Row \cup {None}]
    BY WorkFacts
  <1>2. GrantsStay /\ DecisionsFit' /\ \A r \in Runs : NothingNew(r)
    BY NothingHappens
  <1>3. CASE /\ row' = [row EXCEPT ![v.run] = v.row] /\ job' = [job EXCEPT ![e] = v] /\ Goto(e, next)
    <2>1. \A r \in Runs : row'[r] = row[r] \/ WaitsInPlace(r)'
      BY <1>1, <1>3 DEF WaitsInPlace
    <2>2. pc'[e] = next /\ job'[e] = v /\ \A f \in Executors \ {e} : pc'[f] = pc[f] /\ job'[f] = job[f]
      BY <1>1, <1>3 DEF Goto
    <2>3. \A n : (Passed(v.run, n) => Passed(v.run, n)') /\ (Before(v.run, n) => Before(v.run, n)')
      BY <1>1, <1>2, InOrderStill
    <2>4. InPlace(e)'
      BY <2>2, <2>3 DEF InPlace
    <2> QED
      BY <1>2, <2>1, <2>2, <2>4, OrderGoesOn
  <1>4. CASE /\ Goto(e, "finalize") \/ Goto(e, "idle")
             /\ UNCHANGED <<row, job>>
    <2>1. pc'[e] \in {"finalize", "idle"} /\ \A f \in Executors \ {e} : pc'[f] = pc[f]
      BY <1>1, <1>4 DEF Goto
    <2>2. InPlace(e)'
      BY <2>1 DEF InPlace
    <2> QED
      BY <1>2, <1>4, <2>1, <2>2, OrderGoesOn
  <1> QED
    BY <1>3, <1>4 DEF Persist

LEMMA WritesInOrder ==
  ASSUME AllInv, OrderInv, NEW e \in Executors,
         \/ Begin(e) \/ StartStep(e) \/ Complete(e) \/ ListTask(e)
         \/ FailRun(e) \/ InterruptRun(e) \/ Collect(e)
  PROVE  OrderInv'
  <1>1. AtWork(e) /\ UNCHANGED <<approvals, tasks, deciding>>
    BY DEF Begin, StartStep, Complete, ListTask, FailRun, InterruptRun, Collect, AtWork
  <1>2. PICK r \in Runs : r = job[e].run
    BY <1>1, WorkFacts
  <1>3. PICK j \in Job : j = job[e] /\ j.run = r
    BY <1>1, <1>2, WorkFacts
  <1>4. /\ j.at \in Nat \ {0} /\ tasks[r] \in Seq(Task) /\ CopyFits(e) /\ InPlace(e)
        /\ pc \in [Executors -> PC]
    BY <1>1, <1>2, <1>3, WorkFacts DEF Job, OrderInv
  <1>5. pc[e] \in MidRun => j.row.state = "running"
    BY <1>3, <1>4 DEF CopyFits
  <1>6. \A s \in RunState : /\ InState(j, s) \in Job /\ InState(j, s).run = r /\ InState(j, s).row.state = s
                            /\ InState(j, s).at = j.at
    BY <1>3, CopiesInState
  <1>7. CASE Begin(e)
    <2>1. Passed(r, j.at) /\ Before(r, j.at)
      BY <1>2, <1>3, <1>4, <1>7 DEF Begin, InPlace
    <2> QED
      BY <1>1, <1>2, <1>3, <1>6, <1>7, <2>1, PersistInOrder DEF Begin, RunState
  <1>8. CASE StartStep(e)
    <2>1. Passed(r, j.at) /\ Before(r, j.at) /\ j.row.state = "running"
      BY <1>2, <1>3, <1>4, <1>5, <1>8 DEF StartStep, InPlace, MidRun
    <2>2. j.at \in DOMAIN Steps
      BY <1>3, <1>4, <1>8, WorkflowParameters DEF StartStep
    <2>3. CASE Steps[j.at] = "approval"
      BY <1>1, <1>2, <1>3, <1>8, <2>1, <2>3, PersistInOrder DEF StartStep
    <2>4. CASE Steps[j.at] # "approval"
      BY <1>1, <1>2, <1>3, <1>8, <2>1, <2>2, <2>4, PersistInOrder DEF StartStep
    <2> QED
      BY <2>3, <2>4
  <1>9. CASE Complete(e) \/ FailRun(e) \/ InterruptRun(e)
    BY <1>1, <1>2, <1>3, <1>6, <1>9, PersistInOrder DEF Complete, FailRun, InterruptRun, RunState
  <1>10. CASE ListTask(e)
    <2>1. /\ j.at \in DOMAIN Steps /\ Steps[j.at] # "approval" /\ j.row.state = "running"
          /\ j.task \in DOMAIN tasks[r] /\ tasks[r][j.task].step = j.at
          /\ Passed(r, j.at) /\ Before(r, j.at + 1)
      BY <1>2, <1>3, <1>4, <1>5, <1>10 DEF ListTask, InPlace, MidRun
    <2> QED
      BY <1>1, <1>2, <1>3, <1>10, <2>1, PersistInOrder DEF ListTask
  <1>11. CASE Collect(e)
    <2>1. /\ pc[e] = "wait" /\ j.row.state = "running"
          /\ j.at \in DOMAIN Steps /\ Steps[j.at] # "approval"
          /\ j.task \in DOMAIN tasks[r] /\ tasks[r][j.task].step = j.at
          /\ Passed(r, j.at) /\ Before(r, j.at + 1)
      BY <1>2, <1>3, <1>4, <1>5, <1>11 DEF Collect, InPlace, MidRun
    <2>2. CASE \E next \in {"interrupt", "fail"} : Persist(e, j, next)
      BY <1>1, <1>2, <1>3, <2>1, <2>2, PersistInOrder
    <2>3. CASE MyTask(e).state = "completed" /\ Persist(e, [j EXCEPT !.at = @ + 1], "step")
      <3> DEFINE v == [j EXCEPT !.at = @ + 1]
      <3>1. j.at + 1 \in Nat \ {0}
        BY <1>4
      <3>2. v \in Job /\ v.run = r /\ v.row = j.row /\ v.at = j.at + 1
        <4>1. v \in Job /\ v.run = j.run /\ v.row = j.row /\ v.at = j.at + 1
          BY <3>1, CopiesMoved
        <4> QED
          BY <1>3, <4>1
      <3>3. Passed(r, j.at + 1)
        <4>1. tasks[r][j.task].state = "completed"
          BY <1>2, <1>3, <2>3 DEF MyTask
        <4>2. ASSUME NEW i \in 1 .. (j.at + 1) - 1 PROVE i \in 1 .. j.at - 1 \/ i = j.at
          BY <1>4
        <4> QED
          BY <2>1, <4>1, <4>2 DEF Passed
      <3> HIDE DEF v
      <3>4. Persist(e, v, "step")
        BY <2>3 DEF v
      <3> QED
        BY <1>1, <1>2, <1>3, <2>1, <3>2, <3>3, <3>4, PersistInOrder
    <2>4. CASE Goto(e, "fail") /\ UNCHANGED <<row, job, lost>>
      <3>1. pc'[e] = "fail" /\ \A f \in Executors \ {e} : pc'[f] = pc[f]
        BY <1>4, <2>4 DEF Goto
      <3>2. InPlace(e)'
        BY <3>1 DEF InPlace
      <3> QED
        BY <1>1, <2>4, <3>1, <3>2, NothingHappens, OrderGoesOn
    <2> QED
      BY <1>3, <1>11, <2>2, <2>3, <2>4 DEF Collect
  <1> QED
    BY <1>7, <1>8, <1>9, <1>10, <1>11

LEMMA AsksInOrder == ASSUME AllInv, OrderInv, NEW e \in Executors, AskApproval(e) PROVE OrderInv'
  <1>1. pc[e] = "gate" /\ AtWork(e) /\ UNCHANGED <<tasks, job, deciding>>
    BY DEF AskApproval, AtWork
  <1>2. PICK r \in Runs : r = job[e].run
    BY <1>1, WorkFacts
  <1>3. PICK j \in Job : j = job[e] /\ j.run = r
    BY <1>1, <1>2, WorkFacts
  <1>4. /\ Passed(r, j.at) /\ Before(r, j.at) /\ j.at \in Nat /\ j.row \in Row
        /\ pc \in [Executors -> PC] /\ row \in [Runs -> Row \cup {None}]
    BY <1>1, <1>2, <1>3, WorkFacts DEF Job, OrderInv, InPlace
  <1>5. \A next : Goto(e, next) => pc'[e] = next /\ \A f \in Executors \ {e} : pc'[f] = pc[f]
    BY <1>4 DEF Goto
  <1>6. pc'[e] \in {"idle", "fail"} => InPlace(e)'
    BY DEF InPlace
  <1>7. CASE Goto(e, "fail") /\ UNCHANGED <<row, approvals>>
    BY <1>1, <1>5, <1>6, <1>7, NothingHappens, OrderGoesOn
  <1>8. CASE /\ approvals' = Append(approvals, [run |-> r, step |-> j.at, state |-> "pending"])
             /\ row' = [row EXCEPT ![r] = [j.row EXCEPT !.state = "waiting_approval",
                                                       !.asked = Append(@, Len(approvals'))]]
             /\ Goto(e, "idle")
    <2> DEFINE a == [run |-> r, step |-> j.at, state |-> "pending"]
    <2>1. a \in Approval /\ a.step = j.at
      BY <1>4 DEF Approval, ApprovalState
    <2> HIDE DEF a
    <2>2. approvals' = Append(approvals, a)
      BY <1>8 DEF a
    <2>3. /\ ApprovalsKept /\ Len(approvals') \in Nat /\ approvals'[Len(approvals')] = a
      BY <2>1, <2>2, Added DEF AllInv
    <2>4. GrantsStay
      BY <2>3 DEF ApprovalsKept, GrantsStay
    <2>5. DecisionsFit'
      BY <1>1, <2>3 DEF OrderInv, DecisionsFit, ApprovalsKept, AllInv, WorkflowInv, RunTypes
    <2>6. row'[r].asked = Append(j.row.asked, Len(approvals')) /\ \A q \in Runs \ {r} : row'[q] = row[q]
      BY <1>4, <1>8 DEF Row
    <2>7. Last(row'[r].asked) = Len(approvals')
      BY <1>4, <2>3, <2>6 DEF Row, Last
    <2>8. WaitsInPlace(r)'
      <3>1. Passed(r, j.at)' /\ Before(r, j.at)'
        BY <1>1, <1>4, <2>4, NothingHappens, InOrderStill
      <3> QED
        BY <2>1, <2>3, <2>7, <3>1 DEF WaitsInPlace, GateIsNext
    <2> QED
      BY <1>1, <1>5, <1>6, <1>8, <2>4, <2>5, <2>6, <2>8, NothingHappens, OrderGoesOn
  <1> QED
    BY <1>2, <1>3, <1>7, <1>8 DEF AskApproval

LEMMA CreatesInOrder == ASSUME AllInv, OrderInv, NEW e \in Executors, CreateTask(e) PROVE OrderInv'
  <1>1. pc[e] = "create" /\ AtWork(e) /\ UNCHANGED <<row, approvals, deciding>>
    BY DEF CreateTask, AtWork
  <1>2. PICK r \in Runs : r = job[e].run
    BY <1>1, WorkFacts
  <1>3. PICK j \in Job : j = job[e] /\ j.run = r
    BY <1>1, <1>2, WorkFacts
  <1>4. /\ Passed(r, j.at) /\ Before(r, j.at) /\ j.at \in Nat /\ j.at \in DOMAIN Steps /\ Steps[j.at] # "approval"
        /\ pc \in [Executors -> PC] /\ job \in [Executors -> Job] /\ tasks \in [Runs -> Seq(Task)]
        /\ tasks[r] \in Seq(Task)
        /\ row[r].state = "running" /\ \A f \in Executors : Owner(f, r) => f = e
    BY <1>1, <1>2, <1>3, WorkFacts DEF Job, OrderInv, InPlace, ExecutionFits, MidRun
  <1>5. CASE Goto(e, "fail") /\ UNCHANGED <<tasks, job>>
    <2>1. pc'[e] = "fail" /\ \A f \in Executors \ {e} : pc'[f] = pc[f]
      BY <1>4, <1>5 DEF Goto
    <2>2. InPlace(e)'
      BY <2>1 DEF InPlace
    <2> QED
      BY <1>1, <1>5, <2>1, <2>2, NothingHappens, OrderGoesOn
  <1>6. CASE /\ tasks' = [tasks EXCEPT ![r] = Append(@, [step |-> j.at, state |-> "pending"])]
             /\ job' = [job EXCEPT ![e].row.tasks = @ \cup {Len(tasks'[r])}, ![e].task = Len(tasks'[r])]
             /\ Goto(e, "list")
    <2>1. PICK k \in Nat : k = Len(tasks[r]) + 1
      BY <1>4
    <2>2. /\ DOMAIN tasks'[r] = DOMAIN tasks[r] \cup {k} /\ Len(tasks'[r]) = k
          /\ k \notin DOMAIN tasks[r] /\ tasks'[r][k].step = j.at /\ tasks'[r][k].state = "pending"
          /\ \A m \in DOMAIN tasks[r] : tasks'[r][m] = tasks[r][m]
          /\ \A q \in Runs \ {r} : tasks'[q] = tasks[q]
      BY <1>4, <1>6, <2>1
    <2>3. /\ pc'[e] = "list" /\ job'[e].run = r /\ job'[e].at = j.at /\ job'[e].task = k
          /\ \A f \in Executors \ {e} : pc'[f] = pc[f] /\ job'[f] = job[f]
      BY <1>3, <1>4, <1>6, <2>2 DEF Goto, Job, Row
    <2>4. GrantsStay /\ DecisionsFit' /\ DoneStays(r) /\ \A q \in Runs \ {r} : NothingNew(q)
      BY <1>1, <2>2, NothingHappens DEF DoneStays, NothingNew
    <2>5. \A m \in DOMAIN tasks[r] : tasks[r][m].step \in Nat /\ tasks[r][m].step < j.at
      <3>1. \A m \in DOMAIN tasks[r] : tasks[r][m] \in Task
        BY <1>4
      <3> QED
        BY <1>4, <3>1 DEF Before, Task
    <2>6. Passed(r, j.at)'
      BY <1>4, <2>4, PassedStays
    <2>7. InPlace(e)'
      <3>1. Before(r, j.at + 1)'
        BY <1>4, <2>2, <2>5 DEF Before
      <3> QED
        BY <1>4, <2>2, <2>3, <2>6, <3>1 DEF InPlace
    <2>8. \A f \in Executors : f # e => InPlace(f)'
      <3> SUFFICES ASSUME NEW f \in Executors, f # e, AtWork(f) PROVE InPlace(f)'
        BY <2>3 DEF InPlace, AtWork
      <3>1. PICK q \in Runs : q = job[f].run /\ q # r
        BY <1>4 DEF AllInv, WorkflowInv, CopiesFit, Owner
      <3>2. InPlace(f) /\ CopyFits(f) /\ NothingNew(q) /\ pc'[f] = pc[f] /\ job'[f] = job[f]
        BY <2>3, <2>4, <3>1 DEF OrderInv, AllInv, GateInv
      <3>3. pc[f] = "resuming" => Last(job[f].row.asked) \in DOMAIN approvals
        BY <3>2 DEF CopyFits, IsGateOf
      <3>4. /\ \A n : Passed(q, n) => Passed(q, n)'
            /\ \A n : Before(q, n) => Before(q, n)'
            /\ \A asked : Last(asked) \in DOMAIN approvals /\ GateIsNext(q, asked) => GateIsNext(q, asked)'
        BY <2>4, <3>2, InOrderStill
      <3> QED
        BY <3>1, <3>2, <3>3, <3>4 DEF InPlace, NothingNew, DoneStays
    <2>9. ASSUME NEW q \in Runs PROVE WaitsInPlace(q)'
      <3>1. CASE q = r
        BY <1>1, <1>4, <3>1 DEF WaitsInPlace
      <3>2. CASE q # r
        <4> SUFFICES ASSUME Known(q)', row'[q].state = "waiting_approval" PROVE GateIsNext(q, row[q].asked)'
          BY <1>1 DEF WaitsInPlace
        <4>1. GateIsNext(q, row[q].asked) /\ Last(row[q].asked) \in DOMAIN approvals
          BY <1>1 DEF OrderInv, WaitsInPlace, Known, AllInv, GateInv, GateFits, IsGateOf
        <4> QED
          BY <1>1, <2>4, <3>2, <4>1, InOrderStill
      <3> QED
        BY <3>1, <3>2
    <2>10. StepsInOrder'
      <3>1. ASSUME NEW q \in Runs, NEW m \in DOMAIN tasks'[q], q # r \/ m # k
            PROVE  Passed(q, tasks[q][m].step)'
        <4>1. PICK n : n = tasks[q][m].step
          OBVIOUS
        <4>2. m \in DOMAIN tasks[q] /\ tasks'[q][m].step = n /\ DoneStays(q)
          BY <2>2, <2>4, <3>1, <4>1 DEF NothingNew
        <4>3. Passed(q, n)
          BY <4>1, <4>2 DEF OrderInv, StepsInOrder
        <4>4. Passed(q, n)'
          BY <2>4, <4>2, <4>3, PassedStays
        <4> QED
          BY <4>2, <4>4
      <3>2. Passed(r, tasks[r][k].step)'
        BY <2>2, <2>6
      <3>3. \A q \in Runs : \A m, n \in DOMAIN tasks'[q] : tasks'[q][m].step = tasks'[q][n].step => m = n
        <4>1. \A q \in Runs : \A m, n \in DOMAIN tasks[q] : tasks[q][m].step = tasks[q][n].step => m = n
          BY DEF OrderInv, StepsInOrder
        <4>2. \A q \in Runs \ {r} : tasks'[q] = tasks[q]
          BY <2>2
        <4>3. \A m \in DOMAIN tasks[r] : tasks'[r][m].step = tasks[r][m].step /\ tasks'[r][m].step # j.at
          BY <1>4, <2>2, <2>5
        <4>4. \A m, n \in DOMAIN tasks'[r] : tasks'[r][m].step = tasks'[r][n].step => m = n
          BY <2>2, <4>1, <4>3
        <4> QED
          BY <4>1, <4>2, <4>4
      <3> QED
        BY <3>1, <3>2, <3>3 DEF StepsInOrder
    <2> QED
      BY <2>4, <2>7, <2>8, <2>9, <2>10 DEF OrderInv
  <1> QED
    BY <1>2, <1>3, <1>5, <1>6 DEF CreateTask

\* Steps of executions that leave approvals, and what has been done, alone.
LEMMA MovesInOrder ==
  ASSUME AllInv, OrderInv, NEW e \in Executors, UNCHANGED <<approvals, deciding>>,
         \A f \in Executors \ {e} : pc'[f] = pc[f] /\ job'[f] = job[f],
         \A r \in Runs : NothingNew(r), InPlace(e)',
         \A r \in Runs : row'[r] = row[r] \/ row'[r].state # "waiting_approval"
  PROVE  OrderInv'
  <1>1. \A r \in Runs : row'[r] = row[r] \/ WaitsInPlace(r)'
    BY DEF WaitsInPlace
  <1> QED
    BY <1>1, NothingHappens, OrderGoesOn

LEMMA StartsInOrder == ASSUME AllInv, OrderInv, NEW e \in Executors, StartTask(e) PROVE OrderInv'
  <1>1. pc[e] = "start" /\ AtWork(e) /\ UNCHANGED <<row, approvals, job, deciding>>
    BY DEF StartTask, AtWork
  <1>2. PICK r \in Runs : r = job[e].run
    BY <1>1, WorkFacts
  <1>3. PICK j \in Job : j = job[e] /\ j.run = r
    BY <1>1, <1>2, WorkFacts
  <1>4. /\ InPlace(e) /\ j.task \in DOMAIN tasks[r] /\ tasks[r][j.task].step = j.at
        /\ pc \in [Executors -> PC] /\ tasks \in [Runs -> Seq(Task)] /\ tasks[r] \in Seq(Task)
    BY <1>1, <1>2, <1>3, WorkFacts DEF OrderInv, InPlace
  <1>5. UNCHANGED tasks \/ (tasks[r][j.task].state = "pending" /\ \E state : SetTask(r, j.task, state))
    BY <1>2, <1>3 DEF StartTask, MyTask
  <1>6. \A q \in Runs : NothingNew(q)
    <2>1. CASE UNCHANGED tasks
      BY <2>1, NothingHappens
    <2>2. ASSUME NEW state, tasks[r][j.task].state = "pending", SetTask(r, j.task, state)
          PROVE  \A q \in Runs : NothingNew(q)
      <3>1. /\ DOMAIN tasks'[r] = DOMAIN tasks[r] /\ tasks'[r][j.task].step = tasks[r][j.task].step
            /\ \A m \in DOMAIN tasks[r] : m # j.task => tasks'[r][m] = tasks[r][m]
            /\ \A q \in Runs \ {r} : tasks'[q] = tasks[q]
        BY <1>4, <2>2 DEF SetTask, Task
      <3> QED
        BY <2>2, <3>1 DEF NothingNew, DoneStays
    <2> QED
      BY <1>5, <2>1, <2>2
  <1>7. pc'[e] \in {"wait", "fail"} /\ \A f \in Executors \ {e} : pc'[f] = pc[f]
    BY <1>4 DEF StartTask, Goto
  <1>8. InPlace(e)'
    <2>1. \A n : (Passed(r, n) => Passed(r, n)') /\ (Before(r, n) => Before(r, n)')
      BY <1>1, <1>6, NothingHappens, InOrderStill
    <2>2. NothingNew(r)
      BY <1>6
    <2> QED
      BY <1>1, <1>2, <1>3, <1>4, <1>7, <2>1, <2>2 DEF InPlace, NothingNew, DoneStays
  <1> QED
    BY <1>1, <1>6, <1>7, <1>8, MovesInOrder

LEMMA ResumesInOrder ==
  ASSUME AllInv, OrderInv, NEW e \in Executors, ApprovedResumePoint(e) PROVE OrderInv'
  <1>1. pc[e] = "resuming" /\ AtWork(e) /\ UNCHANGED <<row, approvals, tasks, deciding>>
    BY DEF ApprovedResumePoint, AtWork, store
  <1>2. PICK r \in Runs : r = job[e].run
    BY <1>1, WorkFacts
  <1>3. PICK j \in Job : j = job[e] /\ j.run = r
    BY <1>1, <1>2, WorkFacts
  <1>4. /\ GateIsNext(r, j.row.asked) /\ IsGateOf(r, j.row.asked) /\ tasks[r] \in Seq(Task)
        /\ pc \in [Executors -> PC] /\ job \in [Executors -> Job]
    BY <1>1, <1>2, <1>3, WorkFacts DEF OrderInv, InPlace, CopyFits
  <1>5. CASE Goto(e, "idle") /\ UNCHANGED job
    <2>1. InPlace(e)' /\ \A f \in Executors \ {e} : pc'[f] = pc[f]
      BY <1>4, <1>5 DEF Goto, InPlace
    <2> QED
      BY <1>1, <1>5, <2>1, NothingHappens, MovesInOrder
  <1>6. CASE /\ LastAsked(e).state = "approved" /\ job' = [job EXCEPT ![e].at = LastAsked(e).step + 1]
             /\ Goto(e, "begin")
    <2>1. PICK a \in DOMAIN approvals : a = Last(j.row.asked)
      BY <1>4 DEF IsGateOf
    <2>2. PICK n \in Nat : n = approvals[a].step
      <3>1. approvals \in Seq(Approval)
        BY DEF AllInv, GateInv, WorkTypes
      <3>2. approvals[a] \in Approval
        BY <3>1
      <3> QED
        BY <3>2 DEF Approval
    <2>3. LastAsked(e) = approvals[a] /\ approvals[a].state = "approved"
      BY <1>3, <1>6, <2>1 DEF LastAsked
    <2>4. approvals[a].run = r /\ Steps[n] = "approval" /\ Passed(r, n) /\ Before(r, n)
      BY <1>4, <2>1, <2>2 DEF IsGateOf, GateIsNext
    <2>5. Passed(r, n + 1)
      <3>1. \A i \in 1 .. (n + 1) - 1 : i \in 1 .. n - 1 \/ i = n
        OBVIOUS
      <3> QED
        BY <2>2, <2>3, <2>4, <3>1 DEF Passed
    <2>6. Before(r, n + 1)
      <3>1. \A m \in DOMAIN tasks[r] : tasks[r][m] \in Task
        BY <1>4
      <3> QED
        BY <2>4, <3>1 DEF Before, Task
    <2>7. /\ pc'[e] = "begin" /\ job'[e].run = r /\ job'[e].at = n + 1
          /\ \A f \in Executors \ {e} : pc'[f] = pc[f] /\ job'[f] = job[f]
      BY <1>3, <1>4, <1>6, <2>2, <2>3 DEF Goto, Job
    <2>8. Passed(r, n + 1)' /\ Before(r, n + 1)'
      BY <1>1, <2>5, <2>6, NothingHappens, InOrderStill
    <2>9. InPlace(e)'
      BY <2>7, <2>8 DEF InPlace
    <2> QED
      BY <1>1, <2>7, <2>9, NothingHappens, MovesInOrder
  <1> QED
    BY <1>5, <1>6 DEF ApprovedResumePoint

LEMMA EndsInOrder ==
  ASSUME AllInv, OrderInv, NEW e \in Executors, FinalizeAsyncFailure(e) \/ TimesOut(e) PROVE OrderInv'
  <1>1. AtWork(e) /\ UNCHANGED <<approvals, tasks, job, deciding>> /\ pc \in [Executors -> PC]
        /\ row \in [Runs -> Row \cup {None}] /\ row[job[e].run] \in Row
    <2>1. AtWork(e)
      BY DEF FinalizeAsyncFailure, TimesOut, AtWork
    <2> QED
      BY <2>1, WorkFacts DEF FinalizeAsyncFailure, TimesOut, store
  <1>2. pc'[e] \in {"idle", "interrupt"} /\ \A f \in Executors \ {e} : pc'[f] = pc[f]
    BY <1>1 DEF FinalizeAsyncFailure, TimesOut, Goto
  <1>3. InPlace(e)'
    BY <1>2 DEF InPlace
  <1>4. \A r \in Runs : row'[r] = row[r] \/ row'[r].state # "waiting_approval"
    <2>1. Fresh(row[job[e].run].ref) \in Row
      BY <1>1 DEF Fresh, Row, RunState
    <2>2. \A x \in Row : [x EXCEPT !.state = "failed"].state = "failed"
      BY DEF Row
    <2> DEFINE v == [row[job[e].run] EXCEPT !.state = "failed"]
               w == [Fresh(row[job[e].run].ref) EXCEPT !.state = "failed"]
    <2>3. v.state = "failed" /\ w.state = "failed"
      BY <1>1, <2>1, <2>2
    <2>4. row' = row \/ row' = [row EXCEPT ![job[e].run] = v] \/ row' = [row EXCEPT ![job[e].run] = w]
      BY <1>1 DEF FinalizeAsyncFailure, TimesOut, store
    <2> HIDE DEF v, w
    <2> QED
      BY <1>1, <2>3, <2>4
  <1> QED
    BY <1>1, <1>2, <1>3, <1>4, NothingHappens, MovesInOrder

LEMMA TriggersInOrder ==
  ASSUME AllInv, OrderInv, NEW e \in Executors,
         \/ \E r \in Runs : Trigger(e, r) \/ CreateAsync(e, r) \/ Resume(e, r)
         \/ \E ref \in Refs : TriggerAsync(e, ref)
  PROVE  OrderInv'
  <1>1. /\ UNCHANGED <<approvals, tasks, deciding>>
        /\ pc \in [Executors -> PC] /\ row \in [Runs -> Row \cup {None}]
        /\ job \in [Executors -> Job] /\ job[e] \in Job /\ job[e].row \in Row
    BY DEF Trigger, CreateAsync, Resume, TriggerAsync, store, AllInv, WorkflowInv, RunTypes,
           GateInv, WorkTypes
  <1>2. ASSUME NEW r \in Runs, NEW ref \in Refs \cup {None}, NEW b \in BOOLEAN, NewRun(e, r, ref, b)
        PROVE  OrderInv'
    <2>1. /\ ~ Known(r) /\ row' = [row EXCEPT ![r] = Fresh(ref)] /\ Goto(e, "begin")
          /\ job' = [job EXCEPT ![e] = [NoJob EXCEPT !.run = r, !.row = Fresh(ref), !.async = b]]
      BY <1>2 DEF NewRun
    <2>2. Fresh(ref) \in Row /\ Fresh(ref).state = "queued"
      BY FreshRow
    <2>3. pc'[e] = "begin" /\ job'[e].run = r /\ job'[e].at = 1
      BY <1>1, <2>1 DEF Goto, NoJob
    <2>4. \A f \in Executors \ {e} : pc'[f] = pc[f] /\ job'[f] = job[f]
      BY <1>1, <2>1 DEF Goto
    <2>5. tasks'[r] = <<>>
      BY <1>1, <2>1 DEF AllInv, ClaimInv, RunFits
    <2>6. Passed(r, 1)' /\ Before(r, 1)'
      BY <2>5 DEF Passed, Before
    <2>7. InPlace(e)'
      BY <2>3, <2>6 DEF InPlace
    <2>8. \A q \in Runs : row'[q] = row[q] \/ row'[q].state # "waiting_approval"
      BY <1>1, <2>1, <2>2
    <2> QED
      BY <1>1, <2>4, <2>7, <2>8, NothingHappens, MovesInOrder
  <1>3. CASE \E r \in Runs : Trigger(e, r)
    BY <1>2, <1>3 DEF Trigger
  <1>4. ASSUME NEW r \in Runs, CreateAsync(e, r) PROVE OrderInv'
    <2>1. job[e].row.ref \in Refs \cup {None}
      BY <1>1 DEF Row
    <2>2. CASE NewRun(e, r, job[e].row.ref, TRUE)
      BY <1>2, <2>1, <2>2
    <2>3. CASE Goto(e, "idle") /\ UNCHANGED <<row, job>>
      <3>1. InPlace(e)' /\ \A f \in Executors \ {e} : pc'[f] = pc[f]
        BY <1>1, <2>3 DEF Goto, InPlace
      <3> QED
        BY <1>1, <2>3, <3>1, NothingHappens, MovesInOrder
    <2> QED
      BY <1>4, <2>2, <2>3 DEF CreateAsync
  <1>5. CASE \E ref \in Refs : TriggerAsync(e, ref)
    <2>1. Goto(e, "looked") /\ UNCHANGED row /\ \A f \in Executors \ {e} : job'[f] = job[f]
      BY <1>1, <1>5 DEF TriggerAsync, store
    <2>2. InPlace(e)' /\ \A f \in Executors \ {e} : pc'[f] = pc[f]
      BY <1>1, <2>1 DEF Goto, InPlace
    <2> QED
      BY <1>1, <2>1, <2>2, NothingHappens, MovesInOrder
  <1>6. ASSUME NEW r \in Runs, Resume(e, r) PROVE OrderInv'
    <2>1. /\ Known(r) /\ row[r].state = "waiting_approval" /\ Goto(e, "resuming") /\ UNCHANGED row
          /\ job' = [job EXCEPT ![e] = [NoJob EXCEPT !.run = r, !.row = row[r]]]
      BY <1>6 DEF Resume, store
    <2>2. /\ pc'[e] = "resuming" /\ job'[e].run = r /\ job'[e].row = row[r]
          /\ \A f \in Executors \ {e} : pc'[f] = pc[f] /\ job'[f] = job[f]
      BY <1>1, <2>1 DEF Goto, NoJob
    <2>3. PICK asked : asked = row[r].asked
      OBVIOUS
    <2>4. GateIsNext(r, asked) /\ Last(asked) \in DOMAIN approvals
      BY <2>1, <2>3 DEF OrderInv, WaitsInPlace, AllInv, GateInv, GateFits, IsGateOf
    <2>5. GateIsNext(r, asked)'
      BY <1>1, <2>4, NothingHappens, InOrderStill
    <2>6. InPlace(e)'
      BY <2>2, <2>3, <2>5 DEF InPlace
    <2> QED
      BY <1>1, <2>1, <2>2, <2>6, NothingHappens, MovesInOrder
  <1> QED
    BY <1>3, <1>4, <1>5, <1>6

LEMMA DecisionsInOrder ==
  ASSUME Undisputed, AllInv, OrderInv,
         \/ \E r \in Runs : CreateApproval(r)
         \/ \E d \in Deciders : (\E a \in DOMAIN approvals : ReadApproval(d, a)) \/ UpdateApproval(d)
  PROVE  OrderInv'
  <1>1. UNCHANGED <<tasks, pc, job>> /\ deciding \in [Deciders -> {0} \cup DOMAIN approvals]
    BY DEF CreateApproval, ReadApproval, UpdateApproval, store, AllInv, WorkflowInv, RunTypes
  <1>2. CASE \E r \in Runs : CreateApproval(r)
    <2>1. PICK a \in Approval : approvals' = Append(approvals, a) /\ UNCHANGED <<row, deciding>>
      BY <1>2 DEF CreateApproval, Approval, ApprovalState
    <2>2. ApprovalsKept
      BY <2>1, Added DEF AllInv
    <2>3. GrantsStay /\ DecisionsFit'
      BY <1>1, <2>1, <2>2 DEF ApprovalsKept, GrantsStay, OrderInv, DecisionsFit
    <2> QED
      BY <1>1, <2>1, <2>3, NothingHappens, OrderGoesOn
  <1>3. CASE \E d \in Deciders, a \in DOMAIN approvals : ReadApproval(d, a)
    <2>1. DecisionsFit' /\ UNCHANGED <<row, approvals>>
      BY <1>1, <1>3 DEF ReadApproval, store, OrderInv, DecisionsFit
    <2> QED
      BY <1>1, <2>1, NothingHappens, OrderGoesOn
  <1>4. ASSUME NEW d \in Deciders, UpdateApproval(d) PROVE OrderInv'
    <2>1. /\ deciding[d] # 0 /\ deciding'[d] = 0
          /\ \A c \in Deciders \ {d} : deciding'[c] = deciding[c] /\ (deciding[c] # deciding[d] \/ deciding[c] = 0)
      BY <1>1, <1>4 DEF UpdateApproval, Undisputed
    <2>2. PICK a \in DOMAIN approvals : a = deciding[d] /\ approvals[a].state = "pending"
      BY <1>1, <2>1 DEF OrderInv, DecisionsFit
    <2>3. (\A b \in DOMAIN approvals : b # a => approvals'[b] = approvals[b]) => DecisionsFit'
      BY <1>1, <2>1, <2>2 DEF OrderInv, DecisionsFit
    <2>4. CASE UNCHANGED <<row, approvals>>
      BY <1>1, <2>3, <2>4, NothingHappens, OrderGoesOn
    <2>5. ASSUME NEW state \in ApprovalState, Decide(a, state) PROVE OrderInv'
      <3>1. approvals \in Seq(Approval) /\ approvals[a] \in Approval
        BY DEF AllInv, GateInv, WorkTypes
      <3>2. approvals' = [approvals EXCEPT ![a] = [approvals[a] EXCEPT !.state = state]]
        BY <2>5 DEF Decide
      <3>3. GrantsStay /\ \A b \in DOMAIN approvals : b # a => approvals'[b] = approvals[b]
        BY <2>2, <3>1, <3>2 DEF GrantsStay, Approval
      <3>4. \A r \in Runs : row'[r] = row[r] \/ WaitsInPlace(r)'
        <4>1. row \in [Runs -> Row \cup {None}]
          BY DEF AllInv, WorkflowInv, RunTypes
        <4>2. PICK q \in Runs : q = approvals[a].run /\ row[q] \in Row
          BY <4>1 DEF AllInv, WorkflowInv, ApprovalsAreAbout, Known
        <4> DEFINE v == [row[q] EXCEPT !.state = "failed"]
        <4>3. v.state = "failed"
          BY <4>2 DEF Row
        <4>4. UNCHANGED row \/ row' = [row EXCEPT ![q] = v]
          BY <2>5, <4>2 DEF Decide
        <4> HIDE DEF v
        <4> QED
          BY <4>1, <4>3, <4>4 DEF WaitsInPlace
      <3> QED
        BY <1>1, <2>3, <3>3, <3>4, NothingHappens, OrderGoesOn
    <2> QED
      BY <1>4, <2>2, <2>4, <2>5 DEF UpdateApproval
  <1> QED
    BY <1>2, <1>3, <1>4

LEMMA TasksInOrder ==
  ASSUME AllInv, OrderInv, NEW r \in Runs, NEW k \in DOMAIN tasks[r], TaskEnds(r, k) \/ CancelPending(r, k)
  PROVE  OrderInv'
  <1>1. UNCHANGED <<row, approvals, pc, job, deciding>>
    BY DEF TaskEnds, CancelPending
  <1>2. PICK state : SetTask(r, k, state) /\ tasks[r][k].state # "completed"
    BY DEF TaskEnds, CancelPending
  <1>3. tasks \in [Runs -> Seq(Task)] /\ tasks[r] \in Seq(Task) /\ tasks[r][k] \in Task
    BY DEF AllInv, GateInv, WorkTypes
  <1>4. /\ DOMAIN tasks'[r] = DOMAIN tasks[r] /\ tasks'[r][k].step = tasks[r][k].step
        /\ \A m \in DOMAIN tasks[r] : m # k => tasks'[r][m] = tasks[r][m]
        /\ \A q \in Runs \ {r} : tasks'[q] = tasks[q]
    BY <1>2, <1>3 DEF SetTask, Task
  <1>5. \A q \in Runs : NothingNew(q)
    BY <1>2, <1>4 DEF NothingNew, DoneStays
  <1> QED
    BY <1>1, <1>5, NothingHappens, OrderGoesOn

LEMMA RestartInOrder == ASSUME AllInv, OrderInv, Restart PROVE OrderInv'
  <1>1. UNCHANGED approvals /\ \A d \in Deciders : deciding'[d] = 0
    BY DEF Restart
  <1>2. GrantsStay /\ DecisionsFit'
    BY <1>1, NothingHappens DEF DecisionsFit
  <1>3. ASSUME NEW r \in Runs PROVE NothingNew(r)
    <2>1. tasks[r] \in Seq(Task) /\ \A k \in DOMAIN tasks[r] : tasks[r][k] \in Task
      <3>1. tasks[r] \in Seq(Task)
        BY DEF AllInv, GateInv, WorkTypes
      <3> QED
        BY <3>1
    <2>2. tasks'[r] = [k \in DOMAIN tasks[r] |->
             IF tasks[r][k].state = "running" THEN [tasks[r][k] EXCEPT !.state = "failed"] ELSE tasks[r][k]]
      BY DEF Restart
    <2>3. \A t \in Task : [t EXCEPT !.state = "failed"].step = t.step
      BY DEF Task
    <2> QED
      BY <2>1, <2>2, <2>3 DEF NothingNew, DoneStays
  <1>4. \A r \in Runs : row'[r] = row[r] \/ WaitsInPlace(r)'
    <2>1. row \in [Runs -> Row \cup {None}]
      BY DEF AllInv, WorkflowInv, RunTypes
    <2>2. \A x \in Row : [x EXCEPT !.state = "interrupted"].state = "interrupted"
      BY DEF Row
    <2> QED
      BY <2>1, <2>2 DEF Restart, Known, WaitsInPlace
  <1>5. \A e \in Executors : InPlace(e)'
    BY DEF Restart, InPlace
  <1> QED
    BY <1>2, <1>3, <1>4, <1>5, OrderGoesOn

LEMMA OrderInitially == Init => OrderInv
  BY DEF Init, OrderInv, DecisionsFit, WaitsInPlace, Known, InPlace, StepsInOrder

LEMMA OrderStep == Undisputed /\ AllInv /\ OrderInv /\ [Next]_vars => OrderInv'
  <1> SUFFICES ASSUME Undisputed, AllInv, OrderInv, [Next]_vars PROVE OrderInv'
    OBVIOUS
  <1>1. ASSUME NEW e \in Executors, ExecutionSteps(e) \/ TimesOut(e) PROVE OrderInv'
    BY <1>1, WritesInOrder, AsksInOrder, ResumesInOrder, CreatesInOrder, StartsInOrder, EndsInOrder,
       TriggersInOrder DEF ExecutionSteps
  <1>2. CASE UNCHANGED vars
    BY <1>2, NothingHappens, OrderGoesOn DEF vars
  <1> QED
    BY <1>1, <1>2, TriggersInOrder, DecisionsInOrder, TasksInOrder, RestartInOrder DEF Next

-----------------------------------------------------------------------------

\* As long as no approval is decided twice at once either, a step's task is
\* created once, and after every earlier step has been passed, over approvals,
\* resumptions, failures and restarts (workflows/service.go:602).
THEOREM StepsAreInOrder == Spec /\ []Alone /\ []Undisputed => []StepsInOrder
  <1>1. Init => OrderInv
    BY OrderInitially
  <1>2. Undisputed /\ AllInv /\ OrderInv /\ [Next]_vars => OrderInv'
    BY OrderStep
  <1>3. OrderInv => StepsInOrder
    BY DEF OrderInv
  <1> QED
    BY <1>1, <1>2, <1>3, ClaimInvariant, PTL DEF Spec
==============================================================================
