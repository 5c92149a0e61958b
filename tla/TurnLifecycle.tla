--------------------------- MODULE TurnLifecycle ---------------------------
(***************************************************************************)
(* The rows of turns and sessions, and everybody who writes them while the *)
(* session manager runs turns: the agent (internal/v2/agent/agent.go), the *)
(* handlers that create and interrupt turns (internal/v2/app/routes.go),   *)
(* the runner of agent tasks (internal/v2/tasks/agent_runner.go) and the   *)
(* restart of the daemon.  Nobody holds a lock over two of these writes.   *)
(*                                                                         *)
(* Every call of the store is a step.  The repositories ignore contexts,   *)
(* so a cancelled run notices only when it calls the model or begins a     *)
(* transaction.  A store error is any error of the call but a lost race.   *)
(***************************************************************************)
EXTENDS SessionManager

CONSTANTS
  TaskTurns,   \* the user messages that the agent task runner submits
  MaxSteps,    \* model calls of a turn
  MaxTroubles  \* bound on interrupt requests, store errors and restarts together

ASSUME LifecycleBounds ==
  /\ TaskTurns \subseteq UserTurns
  /\ MaxSteps \in Nat \ {0}
  /\ MaxTroubles \in Nat

VARIABLES
  row,       \* the state of a turn's row, "none" before it is stored
  sess,      \* the session rows: active_turn_id and state
  pc,        \* where the agent is in RunTurn for a turn
  steps,     \* model calls the turn has made
  answered,  \* the turns whose final answer is in the session's messages
  runner,    \* where the runner of a task's turn is
  ask,       \* the interrupt handler: its turn and what it saw
  asks, faults, crashes

rows == <<row, sess, answered>>
budget == <<asks, faults, crashes>>
allVars == <<vars, rows, pc, steps, runner, ask, budget>>

Row == {"none", "created", "running", "completed", "failed", "interrupted"}
Ended == {"completed", "failed", "interrupted"}

\* RunTurn up to its return: before the loop, in it, and the two ways out.
AgentSteps == {"mark", "own", "prepare", "model", "answer", "tools", "complete",
               "fail", "clear", "idle"}

NoAsk == [at |-> "idle", turn |-> NoTurn, seen |-> NoTurn]

TroubleLeft == asks + faults + crashes < MaxTroubles

StoreFails == TroubleLeft /\ faults' = faults + 1

\* The call succeeds with this effect, or fails and changes nothing.
UpdateTurn(t, state) == row' = [row EXCEPT ![t] = state] /\ UNCHANGED faults

\* SetActiveTurn writes the state 'running' whatever the turn id is.
SetActiveTurn(s, t) ==
  sess' = [sess EXCEPT ![s] = [active |-> t, state |-> "running"]] /\ UNCHANGED faults

UpdateSession(s, state) == sess' = [sess EXCEPT ![s].state = state] /\ UNCHANGED faults

-----------------------------------------------------------------------------

LifecycleInit ==
  /\ Init
  /\ row = [t \in Turns |-> "none"]
  /\ sess = [s \in Sessions |-> [active |-> NoTurn, state |-> "idle"]]
  /\ pc = [t \in Turns |-> "out"]
  /\ steps = [t \in Turns |-> 0]
  /\ answered = {}
  /\ runner = [t \in TaskTurns |-> "none"]
  /\ ask = NoAsk
  /\ asks = 0 /\ faults = 0 /\ crashes = 0

-----------------------------------------------------------------------------
(* Submission *)

\* A handler, the report service or the runner stores the row and submits the
\* turn; the runner then polls the row.  (Nobody reads a row in between.)
Submit(s, t) ==
  /\ SubmitTurn(s, t)
  /\ row' = [row EXCEPT ![t] = "created"]
  /\ runner' = [r \in TaskTurns |-> IF r = t THEN "polling" ELSE runner[r]]
  /\ UNCHANGED <<sess, answered, pc, steps, ask, budget>>

\* An unknown session, or the task's row that cannot be updated: the turn ends
\* as failed and the runner returns.
RejectTurn(t) ==
  /\ stage[t] = "new"
  /\ \/ registered # Sessions /\ UNCHANGED faults
     \/ t \in TaskTurns /\ StoreFails
  /\ row' = [row EXCEPT ![t] = "failed"]
  /\ stage' = [stage EXCEPT ![t] = "withdrawn"]
  /\ runner' = [r \in TaskTurns |-> IF r = t THEN "error" ELSE runner[r]]
  /\ UNCHANGED <<registered, active, cancel, queue, counters, home, cancelled,
                 sess, answered, pc, steps, ask, asks, crashes>>

-----------------------------------------------------------------------------
(* agent.RunTurn *)

Goto(t, label) == pc' = [pc EXCEPT ![t] = label]

StartAgent(t) ==
  /\ Spawn(t)
  /\ Goto(t, "mark")
  /\ UNCHANGED <<rows, steps, runner, ask, budget>>

\* A step of the agent that is one call of the store.
AgentCalls(t, from) ==
  /\ pc[t] = from
  /\ UNCHANGED <<vars, steps, runner, ask, asks, crashes>>

\* Everything up to the row's 'running' returns its error and leaves the row: calls
\* of the store, and the file with the workspace's instructions, which may be there
\* and not be readable.
MarkRunning(t) ==
  /\ AgentCalls(t, "mark")
  /\ \/ UpdateTurn(t, "running") /\ Goto(t, "own")
     \/ UNCHANGED faults /\ Goto(t, "out") /\ UNCHANGED row
     \/ StoreFails /\ Goto(t, "out") /\ UNCHANGED row
  /\ UNCHANGED <<sess, answered>>

OwnSession(t) ==
  /\ AgentCalls(t, "own")
  /\ \/ SetActiveTurn(home[t], t) /\ Goto(t, "prepare")
     \/ StoreFails /\ Goto(t, "out") /\ UNCHANGED sess
  /\ UNCHANGED <<row, answered>>

\* Events and prior messages: an error returns as it is.  Compaction calls the
\* model: its error fails the turn.
Prepare(t) ==
  /\ AgentCalls(t, "prepare")
  /\ \/ Goto(t, "model") /\ UNCHANGED faults
     \/ Goto(t, "fail") /\ UNCHANGED faults
     \/ Goto(t, "out") /\ StoreFails
  /\ UNCHANGED rows

\* One step of the loop: the model answers, calls tools or fails, of itself or
\* because the context died; when the steps are used up the turn fails.
CallModel(t) ==
  /\ pc[t] = "model"
  /\ \E next \in IF steps[t] = MaxSteps THEN {"fail"} ELSE {"answer", "tools", "fail"} :
       /\ Goto(t, next)
       /\ steps' = [steps EXCEPT ![t] = IF next = "tools" THEN @ + 1 ELSE 0]
  /\ UNCHANGED <<vars, rows, runner, ask, budget>>

\* appendMessages, a transaction of the run's context, cannot be committed.
CannotAppend(t) ==
  /\ (t \in cancelled /\ UNCHANGED faults) \/ StoreFails
  /\ Goto(t, "fail") /\ UNCHANGED answered

\* The turn's own message, the calls and the results of the tools.
KeepTools(t) ==
  /\ AgentCalls(t, "tools")
  /\ \/ t \notin cancelled /\ Goto(t, "model") /\ UNCHANGED <<answered, faults>>
     \/ CannotAppend(t)
  /\ UNCHANGED <<row, sess>>

\* Mutant: the row says completed before the answer is stored.
KeepAnswerLater(t) ==
  /\ AgentCalls(t, "answer")
  /\ UpdateTurn(t, "completed") /\ Goto(t, "clear")
  /\ UNCHANGED <<sess, answered>>

KeepAnswer(t) ==
  /\ AgentCalls(t, "answer")
  /\ \/ /\ t \notin cancelled
        /\ answered' = answered \cup {t}
        /\ Goto(t, "complete") /\ UNCHANGED faults
     \/ CannotAppend(t)
  /\ UNCHANGED <<row, sess>>

\* An error here returns without failTurn, although the answer is stored.
Complete(t) ==
  /\ AgentCalls(t, "complete")
  /\ \/ UpdateTurn(t, "completed") /\ Goto(t, "clear")
     \/ StoreFails /\ Goto(t, "out") /\ UNCHANGED row
  /\ UNCHANGED <<sess, answered>>

\* Mutant: failTurn leaves the row alone.
FailQuietly(t) ==
  /\ AgentCalls(t, "fail")
  /\ Goto(t, "clear")
  /\ UNCHANGED <<rows, faults>>

\* failTurn, with a context that cannot be cancelled; its errors are ignored.
FailTurn(t) ==
  /\ AgentCalls(t, "fail")
  /\ UpdateTurn(t, "failed") \/ (StoreFails /\ UNCHANGED row)
  /\ Goto(t, "clear")
  /\ UNCHANGED <<sess, answered>>

\* Mutant: the state alone is taken back.
KeepMarker(t) ==
  /\ AgentCalls(t, "clear")
  /\ UNCHANGED <<rows, faults>>
  /\ Goto(t, "idle")

\* Both ways out take the session's row back; the errors are ignored.
ClearSession(t) ==
  /\ AgentCalls(t, "clear")
  /\ SetActiveTurn(home[t], NoTurn) \/ (StoreFails /\ UNCHANGED sess)
  /\ Goto(t, "idle")
  /\ UNCHANGED <<row, answered>>

IdleSession(t) ==
  /\ AgentCalls(t, "idle")
  /\ UpdateSession(home[t], "idle") \/ (StoreFails /\ UNCHANGED sess)
  /\ Goto(t, "out")
  /\ UNCHANGED <<row, answered>>

\* RunTurn has returned, and the goroutine ends the turn in the manager.
AgentEnds(t) ==
  /\ pc[t] = "out"
  /\ AgentReturns(t) \/ FinishTurn(t)
  /\ UNCHANGED <<rows, pc, steps, runner, ask, budget>>

AgentStep(t) ==
  \/ StartAgent(t) \/ MarkRunning(t) \/ OwnSession(t) \/ Prepare(t) \/ CallModel(t)
  \/ KeepTools(t) \/ KeepAnswer(t) \/ Complete(t) \/ FailTurn(t)
  \/ ClearSession(t) \/ IdleSession(t) \/ AgentEnds(t)

-----------------------------------------------------------------------------
(* Interruption and time-out *)

\* CancelTurn, whose result is whether the manager knew the turn.
KnownTurn(s, t) == active[s] = t \/ t \in ToSet(queue[s])

CancelTurn(s, t) ==
  \/ active[s] = t /\ CancelActive(s)
  \/ active[s] # t /\ \E i \in DOMAIN queue[s] : queue[s][i] = t /\ CancelQueued(s, i)

\* handleInterruptTurn finds the row running ...
InterruptLooks(t) ==
  /\ ask = NoAsk /\ TroubleLeft
  /\ row[t] = "running"
  /\ ask' = [at |-> "looked", turn |-> t, seen |-> NoTurn]
  /\ asks' = asks + 1
  /\ UNCHANGED <<vars, rows, pc, steps, runner, faults, crashes>>

\* ... cancels the turn, or answers 404 when the manager no longer knows it ...
InterruptCancels ==
  /\ ask.at = "looked"
  /\ \/ CancelTurn(home[ask.turn], ask.turn) /\ ask' = [ask EXCEPT !.at = "cancelled"]
     \/ ~ KnownTurn(home[ask.turn], ask.turn) /\ ask' = NoAsk /\ UNCHANGED vars
  /\ UNCHANGED <<rows, pc, steps, runner, budget>>

\* ... writes the row, ignoring the error ...
InterruptWrites ==
  /\ ask.at = "cancelled"
  /\ UpdateTurn(ask.turn, "interrupted") \/ (StoreFails /\ UNCHANGED row)
  /\ ask' = [ask EXCEPT !.at = "written"]
  /\ UNCHANGED <<vars, sess, answered, pc, steps, runner, asks, crashes>>

\* ... asks the manager what is active now ...
InterruptReads ==
  /\ ask.at = "written"
  /\ ask' = [ask EXCEPT !.at = "marking", !.seen = active[home[ask.turn]]]
  /\ UNCHANGED <<vars, rows, pc, steps, runner, budget>>

\* ... and mirrors it in the session's row, in two writes.
InterruptMarks ==
  /\ ask.at = "marking"
  /\ SetActiveTurn(home[ask.turn], ask.seen) \/ (StoreFails /\ UNCHANGED sess)
  /\ ask' = [ask EXCEPT !.at = "settling"]
  /\ UNCHANGED <<vars, row, answered, pc, steps, runner, asks, crashes>>

InterruptSettles ==
  /\ ask.at = "settling"
  /\ \/ UpdateSession(home[ask.turn], IF ask.seen = NoTurn THEN "idle" ELSE "running")
     \/ StoreFails /\ UNCHANGED sess
  /\ ask' = NoAsk
  /\ UNCHANGED <<vars, row, answered, pc, steps, runner, asks, crashes>>

InterruptStep ==
  \/ InterruptCancels \/ InterruptWrites \/ InterruptReads
  \/ InterruptMarks \/ InterruptSettles

\* The runner's ticker: the row has come to an end, or cannot be read.
RunnerPolls(t) ==
  /\ runner[t] = "polling"
  /\ \/ row[t] \in Ended /\ UNCHANGED faults
        /\ runner' = [runner EXCEPT ![t] = IF row[t] = "completed" THEN "ok" ELSE "error"]
     \/ StoreFails /\ runner' = [runner EXCEPT ![t] = "error"]
  /\ UNCHANGED <<vars, rows, pc, steps, ask, asks, crashes>>

\* The runner's context ends (time-out, or its task is cancelled): it cancels
\* the turn and overwrites the row, in two steps and whatever they find.
RunnerGivesUp(t) ==
  /\ runner[t] = "polling"
  /\ \/ CancelTurn(home[t], t)
     \/ ~ KnownTurn(home[t], t) /\ UNCHANGED vars
  /\ runner' = [runner EXCEPT ![t] = "givingUp"]
  /\ UNCHANGED <<rows, pc, steps, ask, budget>>

RunnerWrites(t) ==
  /\ runner[t] = "givingUp"
  /\ UpdateTurn(t, "interrupted") \/ (StoreFails /\ UNCHANGED row)
  /\ runner' = [runner EXCEPT ![t] = "error"]
  /\ UNCHANGED <<vars, sess, answered, pc, steps, ask, asks, crashes>>

-----------------------------------------------------------------------------
(* Restart *)

\* What the daemon's death leaves: rows.  Sessions are registered anew.
Reset ==
  /\ TroubleLeft
  /\ crashes' = crashes + 1
  /\ registered' = Sessions
  /\ active' = [s \in Sessions |-> NoTurn]
  /\ cancel' = [s \in Sessions |-> NoTurn]
  /\ queue' = [s \in Sessions |-> <<>>]
  /\ counters' = [s \in Sessions |-> QueueCounters(<<>>)]
  /\ stage' = [t \in Turns |-> IF row[t] = "none" THEN "new" ELSE "done"]
  /\ pc' = [t \in Turns |-> "out"]
  /\ ask' = NoAsk
  /\ runner' = [t \in TaskTurns |-> IF row[t] = "none" THEN "none" ELSE
                                    IF runner[t] = "ok" THEN "ok" ELSE "error"]
  /\ UNCHANGED <<home, cancelled, sess, answered, steps, asks, faults>>

\* Mutant: the rows of turns are not looked at.
RestartOnly == Reset /\ UNCHANGED row

\* markInterrupted: the rows that say running, and no others.
Restart ==
  /\ Reset
  /\ row' = [t \in Turns |-> IF row[t] = "running" THEN "interrupted" ELSE row[t]]

-----------------------------------------------------------------------------

Registration(s) == Register(s) /\ UNCHANGED <<rows, pc, steps, runner, ask, budget>>

LifecycleNext ==
  \/ \E s \in Sessions : Registration(s) \/ \E t \in Turns : Submit(s, t)
  \/ \E t \in Turns : RejectTurn(t) \/ AgentStep(t) \/ InterruptLooks(t)
  \/ InterruptStep
  \/ \E t \in TaskTurns : RunnerPolls(t) \/ RunnerGivesUp(t) \/ RunnerWrites(t)
  \/ Restart

\* Goroutines are scheduled, the ticker ticks and a handler runs to its end;
\* nobody need submit or interrupt, and no time-out need fire.
LifecycleFairness ==
  /\ \A t \in Turns : WF_allVars(AgentStep(t))
  /\ \A t \in TaskTurns : WF_allVars(RunnerPolls(t)) /\ WF_allVars(RunnerWrites(t))
  /\ WF_allVars(InterruptStep)

LifecycleSpec == LifecycleInit /\ [][LifecycleNext]_allVars /\ LifecycleFairness

-----------------------------------------------------------------------------
(* Invariants *)

\* Every variable has its type, and an agent is under way in running turns only.
LifecycleTypeOK ==
  /\ TypeOK
  /\ row \in [Turns -> Row]
  /\ sess \in [Sessions -> [active : Turns \cup {NoTurn}, state : {"idle", "running"}]]
  /\ pc \in [Turns -> AgentSteps \cup {"out"}]
  /\ \A t \in Turns : pc[t] # "out" => stage[t] = "running"
  /\ steps \in [Turns -> 0 .. MaxSteps]
  /\ answered \subseteq Turns
  /\ runner \in [TaskTurns -> {"none", "polling", "givingUp", "ok", "error"}]
  /\ ask.at \in {"idle", "looked", "cancelled", "written", "marking", "settling"}
  /\ ask.turn \in Turns \cup {NoTurn} /\ ask.seen \in Turns \cup {NoTurn}
  /\ {asks, faults, crashes} \subseteq 0 .. MaxTroubles

\* A turn whose row says completed, and a turn whose runner reports success,
\* have their final answer in the session's messages, whoever interrupts, times
\* out or dies in between: the runner reads the answer from there.
CompletedIsAnswered ==
  \A t \in Turns :
    row[t] = "completed" \/ (t \in TaskTurns /\ runner[t] = "ok") => t \in answered

\* While the store works, a row says running only as long as an agent is at
\* work on the turn, so that nothing but a store error leaves it there.
RunningHasAgent ==
  faults = 0 => \A t \in Turns : row[t] = "running" => pc[t] # "out"

\* While nobody interrupts, the store works and the daemon lives, a session
\* without a goroutine shows idle and no active turn, however the goroutines
\* of preempted turns interleaved with their successors.
QuietSessionShowsIdle ==
  asks = 0 /\ faults = 0 /\ crashes = 0 =>
    \A s \in Sessions :
      (\A t \in Turns : home[t] = s => stage[t] \notin InFlight) =>
        sess[s] = [active |-> NoTurn, state |-> "idle"]

-----------------------------------------------------------------------------
(* What must happen *)

\* RunTurn has returned before it looked at the row, which says created ever after.
LeftUnmarked(t) == stage[t] = "done" /\ row[t] = "created"

\* The runner of a task's turn hears of its end without its time-out, over
\* queues, preemptions, interruptions and restarts, as long as the store works:
\* unless the agent could not read the workspace's instructions, for nobody
\* writes the end of a turn that failed before it was marked.
RunnerHears ==
  \A t \in TaskTurns :
    runner[t] = "polling" ~> runner[t] # "polling" \/ faults > 0 \/ LeftUnmarked(t)
=============================================================================
