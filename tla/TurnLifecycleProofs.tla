------------------------ MODULE TurnLifecycleProofs ------------------------
(***************************************************************************)
(* For any number of sessions and turns, interrupts, time-outs, store      *)
(* errors and restarts: a completed turn has its answer in the history, a  *)
(* running row has an agent, the session manager keeps its promises under  *)
(* all of them, and a session's row is taken back by whoever marked it.    *)
(***************************************************************************)
EXTENDS TurnLifecycle, SessionManagerProofs

RowTypes ==
  /\ row \in [Turns -> Row]
  /\ pc \in [Turns -> AgentSteps \cup {"out"}]
  /\ runner \in [TaskTurns -> {"none", "polling", "givingUp", "ok", "error"}]
  /\ faults \in Nat

\* The answer is stored before anybody can say so: before the agent writes the row, ...
AnsweredFirst ==
  /\ \A t \in Turns : row[t] = "completed" \/ pc[t] = "complete" => t \in answered
  /\ \A t \in TaskTurns : runner[t] = "ok" => t \in answered

\* ... and a row says running from the agent's first write on, and is ended before the agent
\* takes the session's row back.
EndedBeforeCleared ==
  faults = 0 => \A t \in Turns : row[t] = "running" => pc[t] \notin {"out", "mark", "clear", "idle"}

LifecycleInv == RowTypes /\ AnsweredFirst /\ EndedBeforeCleared

\* An agent is at work in the goroutine of its turn and nowhere else.
AgentsRun == \A t \in Turns : pc[t] # "out" => stage[t] = "running"

-----------------------------------------------------------------------------

\* No turn has a row or an agent.
LEMMA LifecycleInitially == LifecycleInit => LifecycleInv
  BY LifecycleBounds DEF LifecycleInit, LifecycleInv, RowTypes, AnsweredFirst, EndedBeforeCleared,
     Row, AgentSteps, Turns

\* A new row says created, a rejected one failed.
LEMMA SubmitKeeps ==
  ASSUME LifecycleInv, NEW t \in Turns, (\E s \in Sessions : Submit(s, t)) \/ RejectTurn(t)
  PROVE  LifecycleInv'
  <1>1. /\ \E state \in {"created", "failed"} : row' = [row EXCEPT ![t] = state]
        /\ \E at \in {"polling", "error"} :
             runner' = [r \in TaskTurns |-> IF r = t THEN at ELSE runner[r]]
        /\ UNCHANGED <<pc, answered>>
        /\ faults' = faults \/ faults' = faults + 1
    BY DEF Submit, RejectTurn, StoreFails, budget
  <1> QED
    BY <1>1 DEF LifecycleInv, RowTypes, AnsweredFirst, EndedBeforeCleared, Row

\* The agent's steps before the answer leave what is stored alone but for the row,
\* which says running from the first one on.
LEMMA EarlyStepsKeep ==
  ASSUME LifecycleInv, AgentsRun, NEW t \in Turns,
         StartAgent(t) \/ MarkRunning(t) \/ OwnSession(t) \/ Prepare(t) \/ CallModel(t) \/ KeepTools(t)
  PROVE  LifecycleInv'
  <1> USE DEF LifecycleInv, RowTypes, AnsweredFirst, EndedBeforeCleared, Row, AgentSteps
  <1>1. CASE StartAgent(t)
    <2>1. pc[t] = "out"
      BY <1>1 DEF AgentsRun, StartAgent, Spawn
    <2> QED
      BY <1>1, <2>1 DEF StartAgent, Goto, rows, budget
  <1>2. CASE MarkRunning(t)
    BY <1>2 DEF MarkRunning, AgentCalls, UpdateTurn, StoreFails, Goto
  <1>3. CASE OwnSession(t)
    BY <1>3 DEF OwnSession, AgentCalls, SetActiveTurn, StoreFails, Goto
  <1>4. CASE Prepare(t)
    BY <1>4 DEF Prepare, AgentCalls, StoreFails, Goto, rows
  <1>5. CASE CallModel(t)
    BY <1>5 DEF CallModel, Goto, rows, budget
  <1>6. CASE KeepTools(t)
    BY <1>6 DEF KeepTools, AgentCalls, CannotAppend, StoreFails, Goto
  <1> QED
    BY <1>1, <1>2, <1>3, <1>4, <1>5, <1>6

\* The answer is stored first, then the row's end is written, then the session's row is
\* taken back.
LEMMA LateStepsKeep ==
  ASSUME LifecycleInv, NEW t \in Turns,
         \/ KeepAnswer(t) \/ Complete(t) \/ FailTurn(t) \/ ClearSession(t) \/ IdleSession(t)
         \/ AgentEnds(t)
  PROVE  LifecycleInv'
  <1> USE DEF LifecycleInv, RowTypes, AnsweredFirst, EndedBeforeCleared, Row, AgentSteps
  <1>1. CASE KeepAnswer(t)
    BY <1>1 DEF KeepAnswer, AgentCalls, CannotAppend, StoreFails, Goto
  <1>2. CASE Complete(t)
    BY <1>2 DEF Complete, AgentCalls, UpdateTurn, StoreFails, Goto
  <1>3. CASE FailTurn(t)
    BY <1>3 DEF FailTurn, AgentCalls, UpdateTurn, StoreFails, Goto
  <1>4. CASE ClearSession(t)
    BY <1>4 DEF ClearSession, AgentCalls, SetActiveTurn, StoreFails, Goto
  <1>5. CASE IdleSession(t)
    BY <1>5 DEF IdleSession, AgentCalls, UpdateSession, StoreFails, Goto
  <1>6. CASE AgentEnds(t)
    BY <1>6 DEF AgentEnds, rows, budget
  <1> QED
    BY <1>1, <1>2, <1>3, <1>4, <1>5, <1>6

\* The interrupt handler writes interrupted over one row, or none.
LEMMA InterruptKeeps ==
  ASSUME LifecycleInv, InterruptStep \/ \E t \in Turns : InterruptLooks(t) PROVE LifecycleInv'
  <1>1. /\ row' \in {row, [row EXCEPT ![ask.turn] = "interrupted"]}
        /\ UNCHANGED <<pc, answered, runner>>
        /\ faults' = faults \/ faults' = faults + 1
    BY DEF InterruptStep, InterruptLooks, InterruptCancels, InterruptWrites, InterruptReads,
       InterruptMarks, InterruptSettles, UpdateTurn, SetActiveTurn, UpdateSession, StoreFails,
       rows, budget
  <1> QED
    BY <1>1 DEF LifecycleInv, RowTypes, AnsweredFirst, EndedBeforeCleared, Row

\* The runner believes a row that says completed, and no other.
LEMMA RunnerKeeps ==
  ASSUME LifecycleInv, NEW t \in TaskTurns, RunnerPolls(t) \/ RunnerGivesUp(t) \/ RunnerWrites(t)
  PROVE  LifecycleInv'
  <1>0. t \in Turns
    BY LifecycleBounds DEF Turns
  <1> USE <1>0 DEF LifecycleInv, RowTypes, AnsweredFirst, EndedBeforeCleared, Row
  <1>1. CASE RunnerPolls(t)
    BY <1>1 DEF RunnerPolls, StoreFails, rows
  <1>2. CASE RunnerGivesUp(t)
    BY <1>2 DEF RunnerGivesUp, rows, budget
  <1>3. CASE RunnerWrites(t)
    BY <1>3 DEF RunnerWrites, UpdateTurn, StoreFails
  <1> QED
    BY <1>1, <1>2, <1>3

\* A restart ends the rows that say running, and the runners but those that were done.
LEMMA RestartKeeps == ASSUME LifecycleInv, Restart PROVE LifecycleInv'
  BY LifecycleBounds DEF LifecycleInv, RowTypes, AnsweredFirst, EndedBeforeCleared, Row, AgentSteps,
     Restart, Reset, Turns

LEMMA LifecycleStep == LifecycleInv /\ AgentsRun /\ [LifecycleNext]_allVars => LifecycleInv'
  <1> SUFFICES ASSUME LifecycleInv, AgentsRun, [LifecycleNext]_allVars PROVE LifecycleInv'
    OBVIOUS
  <1>1. CASE \E s \in Sessions : Registration(s)
    BY <1>1 DEF Registration, rows, budget, LifecycleInv, RowTypes, AnsweredFirst,
       EndedBeforeCleared
  <1>2. CASE \E s \in Sessions, t \in Turns : Submit(s, t)
    BY <1>2, SubmitKeeps
  <1>3. CASE \E t \in Turns : RejectTurn(t)
    BY <1>3, SubmitKeeps
  <1>4. CASE \E t \in Turns : AgentStep(t)
    BY <1>4, EarlyStepsKeep, LateStepsKeep DEF AgentStep
  <1>5. CASE InterruptStep \/ \E t \in Turns : InterruptLooks(t)
    BY <1>5, InterruptKeeps
  <1>6. CASE \E t \in TaskTurns : RunnerPolls(t) \/ RunnerGivesUp(t) \/ RunnerWrites(t)
    BY <1>6, RunnerKeeps
  <1>7. CASE Restart
    BY <1>7, RestartKeeps
  <1>8. CASE UNCHANGED allVars
    BY <1>8 DEF allVars, rows, budget, LifecycleInv, RowTypes, AnsweredFirst, EndedBeforeCleared
  <1> QED
    BY <1>1, <1>2, <1>3, <1>4, <1>5, <1>6, <1>7, <1>8 DEF LifecycleNext

-----------------------------------------------------------------------------
(* Agents, handlers, runners and the session manager under them *)

\* The types of what LifecycleInv does not mention.
HandlerTypes ==
  /\ sess \in [Sessions -> [active : Turns \cup {NoTurn}, state : {"idle", "running"}]]
  /\ steps \in [Turns -> 0 .. MaxSteps]
  /\ answered \subseteq Turns
  /\ ask \in [at : {"idle", "looked", "cancelled", "written", "marking", "settling"},
              turn : Turns \cup {NoTurn}, seen : Turns \cup {NoTurn}]
  /\ asks \in Nat /\ faults \in Nat /\ crashes \in Nat
  /\ asks + faults + crashes <= MaxTroubles

\* Whoever may call CancelTurn knows the session; a turn without a row is a new one.
SessionsAreKnown ==
  /\ \A t \in Turns : row[t] = "running" => home[t] \in Sessions
  /\ \A t \in TaskTurns : runner[t] = "polling" => home[t] \in Sessions
  /\ ask.at # "idle" => ask.turn \in Turns /\ home[ask.turn] \in Sessions
  /\ ask.at # "idle" => asks > 0

RowsFromTheStart == \A t \in Turns : row[t] = "none" => stage[t] = "new"

\* As long as nothing unusual happens, what a session's row shows is taken back by
\* an agent that is still at work: its marker in one step, its state in the next.
Marking == {"prepare", "model", "answer", "tools", "complete", "fail", "clear"}

RowIsTakenBack ==
  asks = 0 /\ faults = 0 /\ crashes = 0 =>
    \A s \in Sessions :
      /\ sess[s].active # NoTurn => \E t \in Turns : home[t] = s /\ pc[t] \in Marking
      /\ sess[s].state # "idle" =>
           \E t \in Turns : home[t] = s /\ pc[t] \in Marking \cup {"idle"}

RunInv ==
  /\ LifecycleInv /\ IInv /\ HandlerTypes
  /\ AgentsRun /\ SessionsAreKnown /\ RowsFromTheStart /\ RowIsTakenBack

\* No task's turn is anything but a turn.
LEMMA TaskTurnsAreTurns == TaskTurns \subseteq Turns /\ NoTurn \notin Turns /\ NoSession \notin Sessions
  BY LifecycleBounds, TurnKinds DEF Turns

\* What the session manager may do to one turn.
LEMMA ManagerSteps ==
  ASSUME IInv, [Next]_vars, NEW t \in Turns
  PROVE  /\ stage[t] # "new" => stage'[t] # "new" /\ home'[t] = home[t]
         /\ home[t] \in Sessions => home'[t] = home[t]
         /\ stage[t] = "running" => stage'[t] = "running" \/ AgentReturns(t)
  <1> DEFINE Goal == /\ stage[t] # "new" => stage'[t] # "new" /\ home'[t] = home[t]
                     /\ home[t] \in Sessions => home'[t] = home[t]
                     /\ stage[t] = "running" => stage'[t] = "running" \/ AgentReturns(t)
  <1>0. home[t] \in Sessions => stage[t] # "new"
    BY TurnKinds DEF IInv, Placement, Homes, HomeFits
  <1>1. ASSUME NEW s \in Sessions, NEW u \in Turns, SubmitTurn(s, u) PROVE Goal
    BY <1>0, <1>1 DEF SubmitTurn, StartIdle, Preempt, Enqueue, ActivateNew, IInv, TypeOK
  <1>2. ASSUME NEW s \in Sessions, CancelActive(s) PROVE Goal
    <2>1. NextTurn(s) = t => stage[t] = "queued"
      BY NextIsQueued
    <2> QED
      BY <1>2, <2>1 DEF CancelActive
  <1>3. ASSUME NEW u \in Turns, FinishActive(u) PROVE Goal
    <2>1. home[u] \in Sessions
      BY <1>3 DEF FinishActive, IInv, TypeOK, Placement, Homes, HomeFits, InFlight
    <2>2. NextTurn(home[u]) = t => stage[t] = "queued"
      BY <2>1, NextIsQueued
    <2> QED
      BY <1>3, <2>2 DEF FinishActive
  <1>4. ASSUME NEW u \in Turns, Spawn(u) \/ AgentReturns(u) \/ FinishStale(u) PROVE Goal
    BY <1>4 DEF Spawn, AgentReturns, FinishStale, IInv, TypeOK
  <1>5. ASSUME NEW s \in Sessions, NEW i \in 1 .. Len(queue[s]), CancelQueued(s, i) PROVE Goal
    <2>1. stage[queue[s][i]] = "queued"
      BY <1>5 DEF IInv, Placement, QueueContent
    <2> QED
      BY <1>5, <2>1 DEF CancelQueued, IInv, TypeOK
  <1>6. ASSUME NEW s \in Sessions, Register(s) PROVE Goal
    BY <1>6 DEF Register
  <1>7. CASE UNCHANGED vars
    BY <1>7 DEF vars
  <1> QED
    BY <1>1, <1>2, <1>3, <1>4, <1>5, <1>6, <1>7 DEF Next, FinishTurn

\* A turn that is given to no session stays a new one.
LEMMA NewStays ==
  ASSUME IInv, [Next]_vars, NEW t \in Turns, stage[t] = "new", home'[t] = home[t]
  PROVE  stage'[t] = "new"
  <1>1. ASSUME NEW s \in Sessions, NEW u \in Turns, SubmitTurn(s, u) PROVE stage'[t] = "new"
    <2>1. home[t] = NoSession /\ s # NoSession
      BY TurnKinds DEF IInv, Placement, Homes, HomeFits
    <2>2. u # t
      BY <1>1, <2>1 DEF SubmitTurn, IInv, TypeOK
    <2> QED
      BY <1>1, <2>2 DEF SubmitTurn, StartIdle, Preempt, Enqueue, ActivateNew, IInv, TypeOK
  <1>2. ASSUME NEW s \in Sessions, CancelActive(s) PROVE stage'[t] = "new"
    BY <1>2, NextIsQueued DEF CancelActive
  <1>3. ASSUME NEW u \in Turns, FinishActive(u) PROVE stage'[t] = "new"
    <2>1. home[u] \in Sessions
      BY <1>3 DEF FinishActive, IInv, TypeOK, Placement, Homes, HomeFits, InFlight
    <2> QED
      BY <1>3, <2>1, NextIsQueued DEF FinishActive
  <1>4. ASSUME NEW u \in Turns, Spawn(u) \/ AgentReturns(u) \/ FinishStale(u) PROVE stage'[t] = "new"
    BY <1>4 DEF Spawn, AgentReturns, FinishStale, IInv, TypeOK
  <1>5. ASSUME NEW s \in Sessions, NEW i \in 1 .. Len(queue[s]), CancelQueued(s, i) PROVE stage'[t] = "new"
    <2>1. stage[queue[s][i]] = "queued"
      BY <1>5 DEF IInv, Placement, QueueContent
    <2> QED
      BY <1>5, <2>1 DEF CancelQueued, IInv, TypeOK
  <1>6. ASSUME NEW s \in Sessions, Register(s) PROVE stage'[t] = "new"
    BY <1>6 DEF Register
  <1>7. CASE UNCHANGED vars
    BY <1>7 DEF vars
  <1> QED
    BY <1>1, <1>2, <1>3, <1>4, <1>5, <1>6, <1>7 DEF Next, FinishTurn

\* CancelTurn leaves alone whom an agent works for, and who is still new.
LEMMA CancelKeepsTurns ==
  ASSUME IInv, NEW s \in Sessions, NEW x, CancelTurn(s, x)
  PROVE  /\ home' = home
         /\ \A u \in Turns : /\ stage[u] = "running" => stage'[u] = "running"
                             /\ stage[u] = "new" => stage'[u] = "new"
  <1>1. CASE CancelActive(s)
    BY <1>1, NextIsQueued DEF CancelActive
  <1>2. ASSUME NEW i \in DOMAIN queue[s], CancelQueued(s, i)
        PROVE  /\ home' = home
               /\ \A u \in Turns : /\ stage[u] = "running" => stage'[u] = "running"
                                   /\ stage[u] = "new" => stage'[u] = "new"
    <2>1. i \in 1 .. Len(queue[s])
      BY <1>2 DEF CancelQueued
    <2>2. stage[queue[s][i]] = "queued"
      BY <2>1 DEF IInv, Placement, QueueContent
    <2> QED
      BY <1>2, <2>2 DEF CancelQueued, IInv, TypeOK
  <1> QED
    BY <1>1, <1>2 DEF CancelTurn

\* Who may cancel a turn cancels it in a session that the manager knows.
LEMMA CancelIsNext ==
  ASSUME IInv, NEW s \in Sessions, NEW t, CancelTurn(s, t) PROVE Next
  <1>1. DOMAIN queue[s] = 1 .. Len(queue[s])
    <2>1. queue[s] \in Seq(Turns)
      BY DEF IInv, TypeOK
    <2> QED
      BY <2>1, LenProperties
  <1> QED
    BY <1>1 DEF CancelTurn, Next

\* Every step is one of the session manager, or none of its business, or ends a turn
\* that it was never given, or a restart.
LEMMA StepsOfTheManager ==
  ASSUME RunInv, [LifecycleNext]_allVars
  PROVE  [Next]_vars \/ (\E t \in Turns : RejectTurn(t)) \/ Restart
  <1>1. ASSUME NEW t \in Turns, AgentStep(t) PROVE [Next]_vars
    BY <1>1 DEF AgentStep, StartAgent, MarkRunning, OwnSession, Prepare, CallModel, KeepTools,
       KeepAnswer,
       Complete, FailTurn, ClearSession, IdleSession, AgentEnds, AgentCalls, Next
  <1>2. CASE InterruptStep \/ \E t \in Turns : InterruptLooks(t)
    <2>1. ask.at = "looked" => home[ask.turn] \in Sessions
      BY DEF RunInv, SessionsAreKnown
    <2> QED
      BY <1>2, <2>1, CancelIsNext DEF InterruptStep, InterruptLooks, InterruptCancels,
         InterruptWrites,
         InterruptReads, InterruptMarks, InterruptSettles, RunInv
  <1>3. ASSUME NEW t \in TaskTurns, RunnerPolls(t) \/ RunnerGivesUp(t) \/ RunnerWrites(t)
        PROVE  [Next]_vars
    <2>1. runner[t] = "polling" => home[t] \in Sessions
      BY DEF RunInv, SessionsAreKnown
    <2> QED
      BY <1>3, <2>1, CancelIsNext DEF RunnerPolls, RunnerGivesUp, RunnerWrites, RunInv
  <1>4. ASSUME NEW s \in Sessions, Registration(s) \/ \E t \in Turns : Submit(s, t) PROVE [Next]_vars
    BY <1>4 DEF Registration, Submit, Next
  <1>5. CASE UNCHANGED allVars
    BY <1>5 DEF allVars
  <1> QED
    BY <1>1, <1>2, <1>3, <1>4, <1>5 DEF LifecycleNext

\* A turn that was never submitted is of no account to the manager.
LEMMA RejectIsInOrder == ASSUME IInv, NEW t \in Turns, RejectTurn(t) PROVE IInv'
  <1>1. /\ UNCHANGED <<registered, active, cancel, queue, counters, home, cancelled>>
        /\ stage' = [stage EXCEPT ![t] = "withdrawn"] /\ stage[t] = "new"
    BY DEF RejectTurn
  <1>2. TypeOK' /\ CountersCurrent'
    BY <1>1 DEF IInv, TypeOK, Stage, CountersCurrent
  <1>3. \A u \in Turns : u # t => stage'[u] = stage[u]
    BY <1>1 DEF IInv, TypeOK
  <1>4. stage'[t] = "withdrawn"
    BY <1>1 DEF IInv, TypeOK
  <1>5. Homes' /\ CancelIsActive' /\ BusyWhileQueued' /\ LiveMeansActive' /\ QueueDistinct'
    BY <1>1, <1>3, <1>4 DEF IInv, Placement, Homes, HomeFits, InFlight, CancelIsActive,
       BusyWhileQueued,
       LiveMeansActive, QueueDistinct
  <1>6. CancelledHaveRun' /\ QueueComplete'
    <2>1. t \notin cancelled
      BY <1>1 DEF IInv, Placement, CancelledHaveRun, InFlight
    <2>2. CancelledHaveRun'
      BY <1>1, <1>3, <2>1 DEF IInv, TypeOK, Placement, CancelledHaveRun
    <2>3. QueueComplete'
      BY <1>1, <1>3, <1>4 DEF IInv, Placement, QueueComplete
    <2> QED
      BY <2>2, <2>3
  <1>7. QueueContent'
    <2> SUFFICES ASSUME NEW s \in Sessions, NEW i \in 1 .. Len(queue[s])
                 PROVE  home[queue[s][i]] = s /\ stage'[queue[s][i]] = "queued"
      BY <1>1 DEF QueueContent
    <2>1. queue[s][i] \in Turns
      BY ElementOfSeq DEF IInv, TypeOK
    <2>2. home[queue[s][i]] = s /\ stage[queue[s][i]] = "queued"
      BY DEF IInv, Placement, QueueContent
    <2> QED
      BY <1>1, <1>3, <2>1, <2>2
  <1> QED
    BY <1>2, <1>5, <1>6, <1>7 DEF IInv, Placement

\* The manager's own invariant survives everything that goes on around it.
LEMMA ManagerInOrder == ASSUME RunInv, [LifecycleNext]_allVars PROVE IInv'
  <1>1. CASE Restart
    <2>1. NewManager /\ \A t \in Turns : stage'[t] = "new" => stage[t] = "new"
      BY <1>1 DEF Restart, Reset, NewManager, RunInv, RowsFromTheStart
    <2> QED
      BY <2>1, NewManagerIsInOrder DEF RunInv
  <1> QED
    BY <1>1, StepsOfTheManager, InvariantStep, RejectIsInOrder DEF RunInv

-----------------------------------------------------------------------------

\* What remains to be shown of a step.
Rest == HandlerTypes /\ AgentsRun /\ SessionsAreKnown /\ RowsFromTheStart /\ RowIsTakenBack

\* Nothing changes what a session's row shows, and no agent leaves before its time.
LEMMA StillTakenBack ==
  ASSUME RunInv, sess' = sess, HandlerTypes', asks' >= asks, faults' >= faults, crashes' >= crashes,
         \A u \in Turns : pc[u] \in Marking => pc'[u] \in Marking /\ home'[u] = home[u],
         \A u \in Turns : pc[u] = "idle" => pc'[u] = "idle" /\ home'[u] = home[u]
  PROVE  RowIsTakenBack'
  <1>1. asks' = 0 /\ faults' = 0 /\ crashes' = 0 => asks = 0 /\ faults = 0 /\ crashes = 0
    BY DEF RunInv, HandlerTypes
  <1> QED
    BY <1>1 DEF RunInv, RowIsTakenBack

\* Counters go up within the bound.
LEMMA Troubles ==
  ASSUME HandlerTypes
  PROVE  /\ StoreFails => faults' \in Nat /\ faults' > 0 /\ faults' >= faults
                          /\ asks + faults' + crashes <= MaxTroubles
         /\ TroubleLeft => /\ asks + 1 \in Nat /\ asks + 1 + faults + crashes <= MaxTroubles
                           /\ crashes + 1 \in Nat /\ asks + faults + (crashes + 1) <= MaxTroubles
         /\ asks >= asks /\ faults >= faults /\ crashes >= crashes
  BY LifecycleBounds DEF HandlerTypes, StoreFails, TroubleLeft

\* One call of the store by an agent at work.
LEMMA AgentCallsKeep ==
  ASSUME RunInv, NEW t \in Turns,
         \/ MarkRunning(t) \/ OwnSession(t) \/ Prepare(t) \/ KeepTools(t) \/ KeepAnswer(t)
         \/ Complete(t) \/ FailTurn(t) \/ ClearSession(t) \/ IdleSession(t)
  PROVE  Rest'
  <1>1. /\ UNCHANGED <<vars, steps, runner, ask, asks, crashes>>
        /\ pc[t] # "out" /\ \E x \in AgentSteps \cup {"out"} : pc' = [pc EXCEPT ![t] = x]
        /\ UNCHANGED row \/ \E state \in {"running", "completed", "failed"} : row' = [row EXCEPT ![t] = state]
        /\ answered' \subseteq answered \cup {t}
        /\ UNCHANGED faults \/ StoreFails
    BY DEF MarkRunning, OwnSession, Prepare, KeepTools, KeepAnswer, Complete, FailTurn,
       ClearSession, IdleSession,
       AgentCalls, Goto, UpdateTurn, SetActiveTurn, UpdateSession, CannotAppend, rows, AgentSteps
  <1>2. stage[t] = "running" /\ home[t] \in Sessions
    BY <1>1 DEF RunInv, AgentsRun, IInv, TypeOK, Placement, Homes, HomeFits, InFlight
  <1>3. sess' \in [Sessions -> [active : Turns \cup {NoTurn}, state : {"idle", "running"}]]
    BY <1>2 DEF MarkRunning, OwnSession, Prepare, KeepTools, KeepAnswer, Complete, FailTurn,
       ClearSession, IdleSession,
       AgentCalls, SetActiveTurn, UpdateSession, CannotAppend, rows, RunInv, HandlerTypes
  <1>4. HandlerTypes'
    BY <1>1, <1>3, Troubles DEF RunInv, HandlerTypes
  <1>5. AgentsRun'
    BY <1>1, <1>2 DEF RunInv, AgentsRun, vars, LifecycleInv, RowTypes
  <1>6. SessionsAreKnown'
    BY <1>1, <1>2 DEF RunInv, SessionsAreKnown, vars, LifecycleInv, RowTypes
  <1>7. RowsFromTheStart'
    BY <1>1 DEF RunInv, RowsFromTheStart, vars, LifecycleInv, RowTypes
  <1>8. RowIsTakenBack'
    <2>0. /\ home' = home /\ asks' >= asks /\ crashes' >= crashes /\ faults' >= faults
          /\ StoreFails => faults' # 0
          /\ pc \in [Turns -> AgentSteps \cup {"out"}]
      BY <1>1, Troubles DEF RunInv, vars, LifecycleInv, RowTypes
    <2> USE DEF Marking
    <2>1. CASE StoreFails
      BY <2>0, <2>1 DEF RowIsTakenBack
    <2>2. CASE UNCHANGED faults /\ (MarkRunning(t) \/ Prepare(t) \/ KeepTools(t) \/ KeepAnswer(t) \/ Complete(t) \/ FailTurn(t))
      <3>1. sess' = sess /\ \A u \in Turns : u # t => pc'[u] = pc[u]
        <4>1. sess' = sess
          BY <2>2 DEF MarkRunning, Prepare, KeepTools, KeepAnswer, Complete, FailTurn, rows
        <4> QED
          BY <1>1, <2>0, <4>1
      <3>2. (pc[t] \in Marking => pc'[t] \in Marking) /\ pc[t] # "idle"
        BY <2>0, <2>2, Troubles DEF MarkRunning, Prepare, KeepTools, KeepAnswer, Complete,
           FailTurn, Goto,
           AgentCalls, CannotAppend, StoreFails, RunInv, HandlerTypes
      <3> QED
        BY <1>4, <2>0, <3>1, <3>2, StillTakenBack
    <2>3. CASE UNCHANGED faults /\ OwnSession(t)
      <3>1. /\ sess' = [sess EXCEPT ![home[t]] = [active |-> t, state |-> "running"]]
            /\ pc' = [pc EXCEPT ![t] = "prepare"] /\ pc[t] = "own"
        BY <2>0, <2>3, Troubles DEF OwnSession, AgentCalls, SetActiveTurn, Goto, StoreFails,
           RunInv, HandlerTypes
      <3> QED
        BY <1>1, <1>2, <2>0, <2>3, <3>1 DEF RunInv, HandlerTypes, RowIsTakenBack
    <2>4. CASE UNCHANGED faults /\ ClearSession(t)
      <3>1. /\ sess' = [sess EXCEPT ![home[t]] = [active |-> NoTurn, state |-> "running"]]
            /\ pc' = [pc EXCEPT ![t] = "idle"] /\ pc[t] = "clear"
        BY <2>0, <2>4, Troubles DEF ClearSession, AgentCalls, SetActiveTurn, Goto, StoreFails,
           RunInv, HandlerTypes
      <3> QED
        BY <1>1, <1>2, <2>0, <2>4, <3>1 DEF RunInv, HandlerTypes, RowIsTakenBack
    <2>5. CASE UNCHANGED faults /\ IdleSession(t)
      <3>1. /\ sess' = [sess EXCEPT ![home[t]].state = "idle"]
            /\ pc' = [pc EXCEPT ![t] = "out"] /\ pc[t] = "idle"
        BY <2>0, <2>5, Troubles DEF IdleSession, AgentCalls, UpdateSession, Goto, StoreFails,
           RunInv, HandlerTypes
      <3> QED
        BY <1>1, <1>2, <2>0, <2>5, <3>1 DEF RunInv, HandlerTypes, RowIsTakenBack
    <2> QED
      BY <1>1, <2>1, <2>2, <2>3, <2>4, <2>5
  <1> QED
    BY <1>4, <1>5, <1>6, <1>7, <1>8 DEF Rest

\* The goroutine enters the agent, the agent calls its model, or is left.
LEMMA AgentMovesKeep ==
  ASSUME RunInv, NEW t \in Turns, StartAgent(t) \/ CallModel(t) \/ AgentEnds(t) PROVE Rest'
  <1>1. /\ UNCHANGED <<row, sess, answered, runner, ask, asks, faults, crashes>>
        /\ pc \in [Turns -> AgentSteps \cup {"out"}]
    BY DEF StartAgent, CallModel, AgentEnds, rows, budget, RunInv, LifecycleInv, RowTypes
  <1>2. [Next]_vars
    BY DEF StartAgent, CallModel, AgentEnds, Next
  <1>3. HandlerTypes'
    <2>1. CASE UNCHANGED steps
      BY <1>1, <2>1 DEF RunInv, HandlerTypes
    <2>2. CASE CallModel(t)
      <3>1. PICK next \in {"answer", "tools", "fail"} :
              /\ steps[t] = MaxSteps => next = "fail"
              /\ steps' = [steps EXCEPT ![t] = IF next = "tools" THEN @ + 1 ELSE 0]
        BY <2>2 DEF CallModel
      <3>2. (IF next = "tools" THEN steps[t] + 1 ELSE 0) \in 0 .. MaxSteps
        BY <3>1, LifecycleBounds DEF RunInv, HandlerTypes
      <3>3. steps' \in [Turns -> 0 .. MaxSteps]
        BY <3>1, <3>2 DEF RunInv, HandlerTypes
      <3> QED
        BY <1>1, <3>3 DEF RunInv, HandlerTypes
    <2> QED
      BY <2>1, <2>2 DEF StartAgent, AgentEnds
  <1>4. ASSUME NEW u \in Turns
        PROVE  /\ pc'[u] # "out" => stage'[u] = "running"
               /\ pc[u] \in Marking => pc'[u] \in Marking
               /\ pc[u] = "idle" => pc'[u] = "idle"
               /\ pc[u] # "out" => home'[u] = home[u]
    <2>1. /\ stage[u] # "new" => home'[u] = home[u]
          /\ stage[u] = "running" => stage'[u] = "running" \/ AgentReturns(u)
      BY <1>2, ManagerSteps DEF RunInv
    <2>2. pc[u] # "out" => stage[u] = "running"
      BY DEF RunInv, AgentsRun
    <2>3. CASE StartAgent(t)
      <3>1. stage[t] = "spawning" /\ stage' = [stage EXCEPT ![t] = "running"] /\ pc' = [pc EXCEPT ![t] = "mark"]
        BY <2>3 DEF StartAgent, Spawn, Goto
      <3>2. pc[t] = "out"
        BY <3>1 DEF RunInv, AgentsRun
      <3> QED
        BY <1>1, <2>1, <2>2, <3>1, <3>2 DEF RunInv, IInv, TypeOK, Marking
    <2>4. CASE CallModel(t)
      <3>1. stage' = stage /\ pc[t] = "model" /\ \E x \in {"answer", "tools", "fail"} : pc' = [pc EXCEPT ![t] = x]
        BY <2>4 DEF CallModel, Goto, vars
      <3> QED
        BY <1>1, <2>1, <2>2, <3>1 DEF Marking
    <2>5. CASE AgentEnds(t)
      <3>1. pc' = pc /\ pc[t] = "out" /\ (AgentReturns(t) \/ FinishTurn(t))
        BY <2>5 DEF AgentEnds
      <3>2. AgentReturns(u) => u = t
        BY <3>1 DEF AgentReturns, FinishTurn, FinishActive, FinishStale, RunInv, IInv, TypeOK
      <3> QED
        BY <2>1, <2>2, <3>1, <3>2
    <2> QED
      BY <2>3, <2>4, <2>5
  <1>5. AgentsRun'
    BY <1>4 DEF AgentsRun
  <1>6. \A u \in Turns : home[u] \in Sessions => home'[u] = home[u]
    BY <1>2, ManagerSteps DEF RunInv
  <1>7. SessionsAreKnown'
    BY <1>1, <1>6, TaskTurnsAreTurns DEF RunInv, SessionsAreKnown
  <1>8. RowsFromTheStart'
    <2>1. home' = home
      BY DEF StartAgent, Spawn, CallModel, vars, AgentEnds, AgentReturns, FinishTurn,
         FinishActive, FinishStale
    <2>2. \A u \in Turns : stage[u] = "new" => stage'[u] = "new"
      BY <1>2, <2>1, NewStays DEF RunInv
    <2> QED
      BY <1>1, <2>2 DEF RunInv, RowsFromTheStart
  <1>9. RowIsTakenBack'
    <2>1. \A u \in Turns : pc[u] \in Marking \cup {"idle"} => pc[u] # "out"
      BY DEF Marking
    <2>2. asks' >= asks /\ faults' >= faults /\ crashes' >= crashes
      BY <1>1, Troubles DEF RunInv
    <2> QED
      BY <1>1, <1>3, <1>4, <2>1, <2>2, StillTakenBack
  <1> QED
    BY <1>3, <1>5, <1>7, <1>8, <1>9 DEF Rest

\* A turn is submitted, or never will be; a session is registered.
LEMMA SubmissionKeeps ==
  ASSUME RunInv, NEW t \in Turns,
         (\E s \in Sessions : Submit(s, t) \/ Registration(s)) \/ RejectTurn(t)
  PROVE  Rest'
  <1>1. /\ UNCHANGED <<sess, answered, pc, steps, ask, asks, crashes>>
        /\ UNCHANGED faults \/ StoreFails
    BY DEF Submit, Registration, RejectTurn, rows, budget
  <1>2. HandlerTypes'
    BY <1>1, Troubles DEF RunInv, HandlerTypes
  <1>3. ASSUME NEW u \in Turns
        PROVE  /\ stage[u] = "running" => stage'[u] = "running"
               /\ home[u] \in Sessions \/ stage[u] = "running" => home'[u] = home[u]
    <2>1. stage[u] = "running" => home[u] \in Sessions
      BY DEF RunInv, IInv, TypeOK, Placement, Homes, HomeFits, InFlight
    <2>2. CASE RejectTurn(t)
      BY <2>2 DEF RejectTurn, RunInv, IInv, TypeOK
    <2>3. CASE \E s \in Sessions : Submit(s, t) \/ Registration(s)
      <3>1. [Next]_vars /\ ~ AgentReturns(u)
        BY <2>3 DEF Submit, Registration, Next, SubmitTurn, StartIdle, Preempt, Enqueue,
           ActivateNew,
           Register, AgentReturns, RunInv, IInv, TypeOK
      <3> QED
        BY <2>1, <3>1, ManagerSteps DEF RunInv
    <2> QED
      BY <2>2, <2>3
  <1>4. AgentsRun'
    BY <1>1, <1>3 DEF RunInv, AgentsRun
  <1>5. SessionsAreKnown' /\ RowsFromTheStart'
    <2>1. CASE \E s \in Sessions : Registration(s)
      BY <2>1 DEF Registration, Register, rows, budget, RunInv, SessionsAreKnown, RowsFromTheStart
    <2>2. CASE (\E s \in Sessions : Submit(s, t)) \/ RejectTurn(t)
      <3>1. /\ \/ \E s \in Sessions : Submit(s, t) /\ home' = [home EXCEPT ![t] = s] /\ row' = [row EXCEPT ![t] = "created"]
               \/ RejectTurn(t) /\ UNCHANGED home /\ row' = [row EXCEPT ![t] = "failed"]
            /\ \A u \in Turns : u # t => stage'[u] = stage[u]
            /\ stage[t] = "new"
        BY <2>2 DEF Submit, SubmitTurn, RejectTurn, StartIdle, Preempt, Enqueue, ActivateNew,
           RunInv, IInv, TypeOK
      <3>2. runner' = [r \in TaskTurns |-> IF r = t THEN (IF RejectTurn(t) THEN "error" ELSE "polling") ELSE runner[r]]
        BY <2>2 DEF Submit, RejectTurn
      <3>3. home[t] = NoSession
        BY <3>1 DEF RunInv, IInv, Placement, Homes, HomeFits
      <3>4. row \in [Turns -> Row] /\ home \in [Turns -> Sessions \cup {NoSession}]
        BY DEF RunInv, LifecycleInv, RowTypes, IInv, TypeOK
      <3>5. SessionsAreKnown'
        BY <1>1, <3>1, <3>2, <3>3, <3>4, TaskTurnsAreTurns DEF RunInv, SessionsAreKnown
      <3>6. RowsFromTheStart'
        BY <3>1, <3>4 DEF RunInv, RowsFromTheStart
      <3> QED
        BY <3>5, <3>6
    <2> QED
      BY <2>1, <2>2
  <1>6. RowIsTakenBack'
    <2>1. \A u \in Turns : pc[u] \in Marking \cup {"idle"} => home'[u] = home[u]
      BY <1>3 DEF RunInv, AgentsRun, Marking
    <2>2. asks' >= asks /\ faults' >= faults /\ crashes' >= crashes
      BY <1>1, Troubles DEF RunInv
    <2> QED
      BY <1>1, <1>2, <2>1, <2>2, StillTakenBack
  <1> QED
    BY <1>2, <1>4, <1>5, <1>6 DEF Rest

\* The handler of an interrupt and the runner of a task cancel turns and write rows.
LEMMA HandlersKeep ==
  ASSUME RunInv,
         \/ InterruptStep \/ \E t \in Turns : InterruptLooks(t)
         \/ \E t \in TaskTurns : RunnerPolls(t) \/ RunnerGivesUp(t) \/ RunnerWrites(t)
  PROVE  Rest'
  <1>1. /\ UNCHANGED <<pc, steps, answered, crashes>>
        /\ UNCHANGED faults \/ StoreFails
    BY DEF InterruptStep, InterruptLooks, InterruptCancels, InterruptWrites, InterruptReads,
       InterruptMarks, InterruptSettles, RunnerPolls, RunnerGivesUp, RunnerWrites, UpdateTurn,
       SetActiveTurn,
       UpdateSession, rows, budget
  <1>2. /\ home' = home
        /\ \A u \in Turns : /\ stage[u] = "running" => stage'[u] = "running"
                            /\ stage[u] = "new" => stage'[u] = "new"
    <2>1. UNCHANGED vars \/ \E s \in Sessions, t \in Turns \cup {NoTurn} : CancelTurn(s, t)
      BY TaskTurnsAreTurns DEF InterruptStep, InterruptLooks, InterruptCancels, InterruptWrites,
         InterruptReads,
         InterruptMarks, InterruptSettles, RunnerPolls, RunnerGivesUp, RunnerWrites,
         RunInv, SessionsAreKnown, HandlerTypes
    <2> QED
      BY <2>1, CancelKeepsTurns DEF vars, RunInv
  <1>3. AgentsRun'
    BY <1>1, <1>2 DEF RunInv, AgentsRun
  <1>4. /\ row' = row \/ \E t \in Turns : row' = [row EXCEPT ![t] = "interrupted"]
        /\ row \in [Turns -> Row] /\ runner \in [TaskTurns -> {"none", "polling", "givingUp", "ok", "error"}]
        /\ ask.at # "idle" => ask.turn \in Turns /\ home[ask.turn] \in Sessions /\ asks > 0
    BY TaskTurnsAreTurns DEF InterruptStep, InterruptLooks, InterruptCancels, InterruptWrites,
       InterruptReads,
       InterruptMarks, InterruptSettles, RunnerPolls, RunnerGivesUp, RunnerWrites, UpdateTurn, rows,
       RunInv, LifecycleInv, RowTypes, SessionsAreKnown
  <1>5. RowsFromTheStart'
    BY <1>2, <1>4 DEF RunInv, RowsFromTheStart
  <1>6. CASE InterruptStep
    <2>1. ask.at # "idle" /\ UNCHANGED <<runner, asks>>
      BY <1>6 DEF InterruptStep, InterruptCancels, InterruptWrites, InterruptReads,
         InterruptMarks, InterruptSettles, rows, budget
    <2>2. ask' = NoAsk \/ (ask'.at # "idle" /\ ask'.turn = ask.turn)
      BY <1>6 DEF InterruptStep, InterruptCancels, InterruptWrites, InterruptReads,
         InterruptMarks, InterruptSettles, RunInv, HandlerTypes
    <2>3. SessionsAreKnown'
      BY <1>2, <1>4, <2>1, <2>2 DEF RunInv, SessionsAreKnown, NoAsk
    <2>4. ask' \in [at : {"idle", "looked", "cancelled", "written", "marking", "settling"},
                    turn : Turns \cup {NoTurn}, seen : Turns \cup {NoTurn}]
      <3>1. active[home[ask.turn]] \in Turns \cup {NoTurn}
        BY <1>4, <2>1 DEF RunInv, IInv, TypeOK
      <3>2. /\ ask.turn \in Turns \cup {NoTurn} /\ ask.seen \in Turns \cup {NoTurn}
            /\ ask = [at |-> ask.at, turn |-> ask.turn, seen |-> ask.seen]
        BY DEF RunInv, HandlerTypes
      <3>3. \/ ask' = NoAsk
            \/ \E l \in {"cancelled", "written", "settling"} : ask' = [ask EXCEPT !.at = l]
            \/ ask' = [ask EXCEPT !.at = "marking", !.seen = active[home[ask.turn]]]
        BY <1>6 DEF InterruptStep, InterruptCancels, InterruptWrites, InterruptReads,
           InterruptMarks, InterruptSettles
      <3>4. CASE ask' = NoAsk
        BY <3>4 DEF NoAsk
      <3>5. ASSUME NEW l \in {"cancelled", "written", "settling"}, ask' = [ask EXCEPT !.at = l]
            PROVE  ask' = [at |-> l, turn |-> ask.turn, seen |-> ask.seen]
        BY <3>2, <3>5
      <3>6. CASE ask' = [ask EXCEPT !.at = "marking", !.seen = active[home[ask.turn]]]
        <4>1. ask' = [at |-> "marking", turn |-> ask.turn, seen |-> active[home[ask.turn]]]
          BY <3>2, <3>6
        <4> QED
          BY <3>1, <3>2, <4>1
      <3> QED
        BY <3>2, <3>3, <3>4, <3>5, <3>6
    <2>5. sess' \in [Sessions -> [active : Turns \cup {NoTurn}, state : {"idle", "running"}]]
      BY <1>4, <1>6, <2>1 DEF InterruptStep, InterruptCancels, InterruptWrites, InterruptReads,
         InterruptMarks, InterruptSettles, SetActiveTurn, UpdateSession, rows, RunInv, HandlerTypes
    <2>6. HandlerTypes'
      BY <1>1, <2>1, <2>4, <2>5, Troubles DEF RunInv, HandlerTypes
    <2>7. RowIsTakenBack'
      BY <1>4, <2>1 DEF RunInv, HandlerTypes, RowIsTakenBack
    <2> QED
      BY <1>3, <1>5, <2>3, <2>6, <2>7 DEF Rest
  <1>7. ASSUME NEW t \in Turns, InterruptLooks(t) PROVE Rest'
    <2>1. /\ row[t] = "running" /\ TroubleLeft /\ ask' = [at |-> "looked", turn |-> t, seen |-> NoTurn]
          /\ asks' = asks + 1 /\ UNCHANGED <<vars, row, sess, runner, faults>>
      BY <1>7 DEF InterruptLooks, rows
    <2>2. HandlerTypes'
      BY <1>1, <2>1, Troubles DEF RunInv, HandlerTypes
    <2>3. asks' > 0
      BY <2>1 DEF RunInv, HandlerTypes
    <2>4. SessionsAreKnown'
      BY <1>2, <2>1, <2>3 DEF RunInv, SessionsAreKnown
    <2>5. RowIsTakenBack'
      BY <2>2, <2>3 DEF HandlerTypes, RowIsTakenBack
    <2> QED
      BY <1>3, <1>5, <2>2, <2>4, <2>5 DEF Rest
  <1>8. ASSUME NEW t \in TaskTurns, RunnerPolls(t) \/ RunnerGivesUp(t) \/ RunnerWrites(t) PROVE Rest'
    <2>1. /\ UNCHANGED <<sess, ask, asks>>
          /\ \E at \in {"ok", "error", "givingUp"} : runner' = [runner EXCEPT ![t] = at]
      BY <1>8 DEF RunnerPolls, RunnerGivesUp, RunnerWrites, rows, budget
    <2>2. HandlerTypes'
      BY <1>1, <2>1, Troubles DEF RunInv, HandlerTypes
    <2>3. SessionsAreKnown'
      BY <1>2, <1>4, <2>1, TaskTurnsAreTurns DEF RunInv, SessionsAreKnown
    <2>4. asks' >= asks /\ faults' >= faults /\ crashes' >= crashes
      BY <1>1, <2>1, Troubles DEF RunInv
    <2>5. RowIsTakenBack'
      BY <1>1, <1>2, <2>1, <2>2, <2>4, StillTakenBack
    <2> QED
      BY <1>3, <1>5, <2>2, <2>3, <2>5 DEF Rest
  <1> QED
    BY <1>6, <1>7, <1>8

\* After a restart no row says running, and nobody is at work.
LEMMA RestartResets == ASSUME RunInv, Restart PROVE Rest'
  <1>1. /\ UNCHANGED <<home, sess, answered, steps, asks, faults>> /\ crashes' = crashes + 1 /\ TroubleLeft
        /\ pc' = [t \in Turns |-> "out"] /\ ask' = NoAsk
        /\ row' = [t \in Turns |-> IF row[t] = "running" THEN "interrupted" ELSE row[t]]
        /\ stage' = [t \in Turns |-> IF row[t] = "none" THEN "new" ELSE "done"]
        /\ \A t \in TaskTurns : runner'[t] # "polling"
    BY DEF Restart, Reset
  <1>2. HandlerTypes'
    BY <1>1, Troubles DEF RunInv, HandlerTypes, NoAsk
  <1>3. crashes' # 0
    BY <1>1 DEF RunInv, HandlerTypes
  <1>4. AgentsRun' /\ SessionsAreKnown' /\ RowsFromTheStart' /\ RowIsTakenBack'
    BY <1>1, <1>3 DEF AgentsRun, SessionsAreKnown, RowsFromTheStart, RowIsTakenBack, NoAsk
  <1> QED
    BY <1>2, <1>4 DEF Rest

LEMMA RunInitially == LifecycleInit => RunInv
  <1> SUFFICES ASSUME LifecycleInit PROVE RunInv
    OBVIOUS
  <1>1. LifecycleInv /\ IInv
    BY LifecycleInitially, InitIInv DEF LifecycleInit
  <1>2. HandlerTypes
    BY LifecycleBounds DEF LifecycleInit, HandlerTypes, NoAsk
  <1>3. AgentsRun /\ SessionsAreKnown /\ RowsFromTheStart /\ RowIsTakenBack
    BY DEF LifecycleInit, Init, AgentsRun, SessionsAreKnown, RowsFromTheStart, RowIsTakenBack, NoAsk
  <1> QED
    BY <1>1, <1>2, <1>3 DEF RunInv

LEMMA RunStep == RunInv /\ [LifecycleNext]_allVars => RunInv'
  <1> SUFFICES ASSUME RunInv, [LifecycleNext]_allVars PROVE Rest'
    BY LifecycleStep, ManagerInOrder DEF RunInv, Rest
  <1>1. ASSUME NEW t \in Turns, AgentStep(t) PROVE Rest'
    BY <1>1, AgentCallsKeep, AgentMovesKeep DEF AgentStep
  <1>2. ASSUME NEW s \in Sessions, NEW t \in Turns, Submit(s, t) \/ RejectTurn(t) PROVE Rest'
    BY <1>2, SubmissionKeeps
  <1>3. ASSUME NEW s \in Sessions, Registration(s) PROVE Rest'
    BY <1>3 DEF Registration, Register, rows, budget, RunInv, Rest, HandlerTypes, AgentsRun,
       SessionsAreKnown,
       RowsFromTheStart, RowIsTakenBack
  <1>4. ASSUME NEW t \in Turns, RejectTurn(t) PROVE Rest'
    BY <1>4, SubmissionKeeps
  <1>5. CASE \/ InterruptStep \/ \E t \in Turns : InterruptLooks(t)
             \/ \E t \in TaskTurns : RunnerPolls(t) \/ RunnerGivesUp(t) \/ RunnerWrites(t)
    BY <1>5, HandlersKeep
  <1>6. CASE Restart
    BY <1>6, RestartResets
  <1>7. CASE UNCHANGED allVars
    BY <1>7 DEF allVars, vars, rows, budget, RunInv, Rest, HandlerTypes, AgentsRun,
       SessionsAreKnown,
       RowsFromTheStart, RowIsTakenBack
  <1> QED
    BY <1>1, <1>2, <1>3, <1>4, <1>5, <1>6, <1>7 DEF LifecycleNext

-----------------------------------------------------------------------------

\* Agents, handlers, runners and the session manager under them fit together in every
\* reachable state (agent/agent.go:146, app/routes.go:200, tasks/agent_runner.go:131,
\* app/daemon.go:191).
THEOREM RunInvariant == LifecycleSpec => []RunInv
  BY RunInitially, RunStep, PTL DEF LifecycleSpec

\* What rows, answers, agents and runners have to do with each other
\* (agent/agent.go:146, 225, tasks/agent_runner.go:131, app/routes.go:200).
THEOREM LifecycleInvariant == LifecycleSpec => []LifecycleInv
  <1>1. RunInv => LifecycleInv
    BY DEF RunInv
  <1> QED
    BY <1>1, RunInvariant, PTL

\* A turn whose row says completed, and a turn whose runner reports success, has its
\* answer in the messages, whoever interrupts, times out or dies in between
\* (agent/agent.go:209, 225, tasks/agent_runner.go:140).
THEOREM CompletedTurnsAreAnswered == LifecycleSpec => []CompletedIsAnswered
  <1>1. LifecycleInv => CompletedIsAnswered
    BY DEF LifecycleInv, AnsweredFirst, CompletedIsAnswered
  <1> QED
    BY <1>1, LifecycleInvariant, PTL

\* While the store works, a row says running only as long as an agent is at work on
\* the turn (agent/agent.go:146, 484, and the restart, app/daemon.go:191).
THEOREM RunningTurnsHaveAgents == LifecycleSpec => []RunningHasAgent
  <1>1. LifecycleInv => RunningHasAgent
    BY DEF LifecycleInv, EndedBeforeCleared, RunningHasAgent
  <1> QED
    BY <1>1, LifecycleInvariant, PTL

\* Every variable has its type, and an agent is under way in running turns only
\* (agent/agent.go:146, session/manager.go).
THEOREM TypesOfTurns == LifecycleSpec => []LifecycleTypeOK
  <1>1. ASSUME HandlerTypes PROVE {asks, faults, crashes} \subseteq 0 .. MaxTroubles
    BY <1>1, LifecycleBounds DEF HandlerTypes
  <1>2. RunInv => LifecycleTypeOK
    BY <1>1 DEF RunInv, LifecycleInv, RowTypes, IInv, HandlerTypes, AgentsRun, LifecycleTypeOK
  <1> QED
    BY <1>2, RunInvariant, PTL

\* Interrupts, time-outs, store errors and restarts around the session manager do
\* not break its promises (session/manager.go, with the restart of app/daemon.go).
THEOREM ManagerKeepsOrder ==
  LifecycleSpec => [](LiveRunIsActive /\ NoIdleWaiters /\ OneQueuedBatch /\ CountersCurrent)
  <1>1. RunInv => LiveRunIsActive /\ NoIdleWaiters /\ OneQueuedBatch /\ CountersCurrent
    BY LiveIsActive, WaitersAreQueued, BatchesAreMerged DEF RunInv, IInv
  <1> QED
    BY <1>1, RunInvariant, PTL

\* While nobody interrupts, the store works and the daemon lives, a session without
\* a goroutine shows idle and no active turn, however the goroutines of preempted
\* turns interleaved with their successors (agent/agent.go:150, 484).
THEOREM QuietSessionsShowIdle == LifecycleSpec => []QuietSessionShowsIdle
  <1>1. ASSUME RunInv PROVE QuietSessionShowsIdle
    <2> SUFFICES ASSUME asks = 0 /\ faults = 0 /\ crashes = 0, NEW s \in Sessions,
                        \A t \in Turns : home[t] = s => stage[t] \notin InFlight
                 PROVE  sess[s] = [active |-> NoTurn, state |-> "idle"]
      BY DEF QuietSessionShowsIdle
    <2>1. \A t \in Turns : home[t] = s => pc[t] = "out"
      BY <1>1 DEF RunInv, AgentsRun, InFlight
    <2>2. sess[s].active = NoTurn /\ sess[s].state = "idle"
      BY <1>1, <2>1 DEF RunInv, RowIsTakenBack, Marking
    <2>3. sess[s] \in [active : Turns \cup {NoTurn}, state : {"idle", "running"}]
      BY <1>1 DEF RunInv, HandlerTypes
    <2> QED
      BY <2>2, <2>3
  <1> QED
    BY <1>1, RunInvariant, PTL
=============================================================================
