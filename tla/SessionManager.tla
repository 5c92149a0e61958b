--------------------------- MODULE SessionManager ---------------------------
(***************************************************************************)
(* internal/v2/session/manager.go: the turn queue of every session.        *)
(*                                                                         *)
(* Everything under m.mu is one atomic action.  A turn's goroutine         *)
(* (runTurn) is started after the lock is released, runs the agent, and    *)
(* takes the lock again in finishTurn, so a goroutine may outlive its      *)
(* turn's tenure: a cancelled or preempted turn keeps running until the    *)
(* agent notices its context, while the next turn already owns the         *)
(* session.                                                                *)
(*                                                                         *)
(* Turn ids are unique: every caller stores the turn row, whose id is a    *)
(* primary key, before it submits the turn.  The finite set Turns bounds   *)
(* the number of submissions.                                              *)
(***************************************************************************)
EXTENDS Naturals, Sequences, FiniteSets, SequencesExt

CONSTANTS
  Sessions,    \* session ids
  UserTurns,   \* turns whose kind normalises to "user_message"
  BatchTurns,  \* turns whose kind normalises to "report_batch"
  NoTurn,      \* the empty ActiveTurnID, and the nil cancel function
  NoSession    \* the session of a turn nobody has submitted yet

ASSUME TurnKinds ==
  /\ UserTurns \cap BatchTurns = {}
  /\ NoTurn \notin UserTurns \cup BatchTurns
  /\ NoSession \notin Sessions

Turns == UserTurns \cup BatchTurns

VARIABLES
  registered,  \* the sessions Register has seen
  active,      \* ActiveTurnID (ActiveTurnKind follows from it)
  cancel,      \* the turn whose context the session's cancel function cancels
  queue,       \* the queued turns, oldest first
  counters,    \* QueueDepth, QueuedUserTurns and QueuedReportBatches, as cached
  home,        \* the session a turn was submitted to
  stage,       \* what has become of a turn and of its goroutine
  cancelled    \* the turns whose run context has been cancelled

runtime == <<registered, active, cancel, queue, counters>>
vars == <<registered, active, cancel, queue, counters, home, stage, cancelled>>

\* new -> queued -> spawning -> running -> returned -> done, or new -> merged
\* (coalesced into a queued batch) and queued -> withdrawn (CancelTurn).
Stage == {"new", "queued", "merged", "withdrawn",
          "spawning", "running", "returned", "done"}

\* The turn's goroutine is about to start, in the agent, or about to finish.
InFlight == {"spawning", "running", "returned"}

-----------------------------------------------------------------------------

QueueCounters(q) ==
  [depth   |-> Len(q),
   users   |-> Cardinality({i \in 1 .. Len(q) : q[i] \notin BatchTurns}),
   batches |-> Cardinality({i \in 1 .. Len(q) : q[i] \in BatchTurns})]

RefreshQueueCounters(s) ==
  counters' = [counters EXCEPT ![s] = QueueCounters(queue'[s])]

BatchQueued(s) == \E i \in 1 .. Len(queue[s]) : queue[s][i] \in BatchTurns

-----------------------------------------------------------------------------

Init ==
  /\ registered = {}
  /\ active = [s \in Sessions |-> NoTurn]
  /\ cancel = [s \in Sessions |-> NoTurn]
  /\ queue = [s \in Sessions |-> <<>>]
  /\ counters = [s \in Sessions |-> [depth |-> 0, users |-> 0, batches |-> 0]]
  /\ home = [t \in Turns |-> NoSession]
  /\ stage = [t \in Turns |-> "new"]
  /\ cancelled = {}

\* Registering a known session again replaces its row and keeps its runtime.
Register(s) ==
  /\ s \notin registered
  /\ registered' = registered \cup {s}
  /\ UNCHANGED <<active, cancel, queue, counters, home, stage, cancelled>>

\* activateTurnLocked for a turn that was never queued.
ActivateNew(s, t) ==
  /\ active' = [active EXCEPT ![s] = t]
  /\ cancel' = [cancel EXCEPT ![s] = t]
  /\ stage' = [stage EXCEPT ![t] = "spawning"]
  /\ UNCHANGED queue
  /\ RefreshQueueCounters(s)

\* startTurn on an idle session.
StartIdle(s, t) ==
  /\ active[s] = NoTurn
  /\ ActivateNew(s, t)
  /\ UNCHANGED cancelled

\* Mutant: a user message preempts whatever is active.
PreemptsAnyTurn(s, t) == active[s] # NoTurn /\ t \in UserTurns

CanPreempt(s, t) == active[s] \in BatchTurns /\ t \in UserTurns

\* Mutant: the preempted batch's context is left alive.
PreemptWithoutCancel(s, t) ==
  /\ CanPreempt(s, t)
  /\ ActivateNew(s, t)
  /\ UNCHANGED cancelled

\* startTurn: a user message cancels the report batch that owns the session.
Preempt(s, t) ==
  /\ CanPreempt(s, t)
  /\ cancelled' = cancelled \cup ({cancel[s]} \ {NoTurn})
  /\ ActivateNew(s, t)

\* Mutant: a second batch is queued beside the first.
EnqueueWithoutMerging(s, t) ==
  /\ active[s] # NoTurn
  /\ ~ CanPreempt(s, t)
  /\ queue' = [queue EXCEPT ![s] = Append(@, t)]
  /\ stage' = [stage EXCEPT ![t] = "queued"]
  /\ RefreshQueueCounters(s)
  /\ UNCHANGED <<active, cancel, cancelled>>

\* enqueueQueuedTurn: append, unless a batch finds another batch queued.
Enqueue(s, t) ==
  /\ active[s] # NoTurn
  /\ ~ CanPreempt(s, t)
  /\ IF t \in BatchTurns /\ BatchQueued(s)
     THEN UNCHANGED queue /\ stage' = [stage EXCEPT ![t] = "merged"]
     ELSE /\ queue' = [queue EXCEPT ![s] = Append(@, t)]
          /\ stage' = [stage EXCEPT ![t] = "queued"]
  /\ RefreshQueueCounters(s)
  /\ UNCHANGED <<active, cancel, cancelled>>

\* Mutant: the session is not looked up first.
SubmitAnywhere(s, t) ==
  /\ stage[t] = "new"
  /\ home' = [home EXCEPT ![t] = s]
  /\ StartIdle(s, t) \/ Preempt(s, t) \/ Enqueue(s, t)
  /\ UNCHANGED registered

\* SubmitTurn.  An unregistered session is an error that changes nothing.
SubmitTurn(s, t) ==
  /\ s \in registered
  /\ stage[t] = "new"
  /\ home' = [home EXCEPT ![t] = s]
  /\ StartIdle(s, t) \/ Preempt(s, t) \/ Enqueue(s, t)
  /\ UNCHANGED registered

-----------------------------------------------------------------------------

NextTurn(s) == IF queue[s] = <<>> THEN NoTurn ELSE Head(queue[s])

\* clearActiveTurnLocked, then dequeueAndActivateNextLocked.
HandOver(s) ==
  /\ active' = [active EXCEPT ![s] = NextTurn(s)]
  /\ cancel' = [cancel EXCEPT ![s] = NextTurn(s)]
  /\ queue' = [queue EXCEPT ![s] = IF @ = <<>> THEN @ ELSE Tail(@)]
  /\ RefreshQueueCounters(s)

\* Mutant: the active turn is cleared and the queue is not looked at.
CancelActiveOnly(s) ==
  /\ active[s] # NoTurn
  /\ cancelled' = cancelled \cup ({cancel[s]} \ {NoTurn})
  /\ active' = [active EXCEPT ![s] = NoTurn]
  /\ cancel' = [cancel EXCEPT ![s] = NoTurn]
  /\ UNCHANGED <<registered, queue, counters, home, stage>>

\* CancelTurn on the active turn: its goroutine runs on with a dead context.
CancelActive(s) ==
  /\ active[s] # NoTurn
  /\ cancelled' = cancelled \cup ({cancel[s]} \ {NoTurn})
  /\ HandOver(s)
  /\ stage' = [u \in Turns |-> IF u = NextTurn(s) THEN "spawning" ELSE stage[u]]
  /\ UNCHANGED <<registered, home>>

\* Mutant: the cached counters are not refreshed.
CancelQueuedNoRefresh(s, i) ==
  /\ i \in 1 .. Len(queue[s])
  /\ queue' = [queue EXCEPT ![s] = RemoveAt(@, i)]
  /\ stage' = [stage EXCEPT ![queue[s][i]] = "withdrawn"]
  /\ UNCHANGED <<registered, active, cancel, counters, home, cancelled>>

\* CancelTurn on a queued turn.
CancelQueued(s, i) ==
  /\ i \in 1 .. Len(queue[s])
  /\ queue' = [queue EXCEPT ![s] = RemoveAt(@, i)]
  /\ stage' = [stage EXCEPT ![queue[s][i]] = "withdrawn"]
  /\ RefreshQueueCounters(s)
  /\ UNCHANGED <<registered, active, cancel, home, cancelled>>

-----------------------------------------------------------------------------

\* runTurn: the goroutine starts once the lock has been released.
Spawn(t) ==
  /\ stage[t] = "spawning"
  /\ stage' = [stage EXCEPT ![t] = "running"]
  /\ UNCHANGED <<registered, active, cancel, queue, counters, home, cancelled>>

\* agent.RunTurn returns, on its own or because its context was cancelled.
AgentReturns(t) ==
  /\ stage[t] = "running"
  /\ stage' = [stage EXCEPT ![t] = "returned"]
  /\ UNCHANGED <<registered, active, cancel, queue, counters, home, cancelled>>

\* Mutant: finishTurn does not ask whether the turn still owns the session.
FinishUnchecked(t) ==
  LET s == home[t] IN
  /\ stage[t] = "returned"
  /\ HandOver(s)
  /\ stage' = [u \in Turns |-> CASE u = t -> "done"
                                 [] u # t /\ u = NextTurn(s) -> "spawning"
                                 [] OTHER -> stage[u]]
  /\ UNCHANGED <<registered, home, cancelled>>

\* finishTurn, for the turn that still owns its session ...
FinishActive(t) ==
  LET s == home[t] IN
  /\ stage[t] = "returned"
  /\ active[s] = t
  /\ HandOver(s)
  /\ stage' = [u \in Turns |-> CASE u = t -> "done"
                                 [] u # t /\ u = NextTurn(s) -> "spawning"
                                 [] OTHER -> stage[u]]
  /\ UNCHANGED <<registered, home, cancelled>>

\* ... and for a goroutine that lost its session while it was running.
FinishStale(t) ==
  /\ stage[t] = "returned"
  /\ active[home[t]] # t
  /\ stage' = [stage EXCEPT ![t] = "done"]
  /\ UNCHANGED <<registered, active, cancel, queue, counters, home, cancelled>>

FinishTurn(t) == FinishActive(t) \/ FinishStale(t)

-----------------------------------------------------------------------------

Next ==
  \/ \E s \in Sessions :
       \/ Register(s)
       \/ \E t \in Turns : SubmitTurn(s, t)
       \/ CancelActive(s)
       \/ \E i \in 1 .. Len(queue[s]) : CancelQueued(s, i)
  \/ \E t \in Turns : Spawn(t) \/ AgentReturns(t) \/ FinishTurn(t)

\* Goroutines are scheduled, and the agent's loop is bounded by its step limit;
\* nobody is obliged to submit or to cancel anything.
Fairness == \A t \in Turns : WF_vars(Spawn(t) \/ AgentReturns(t) \/ FinishTurn(t))

Spec == Init /\ [][Next]_vars /\ Fairness

-----------------------------------------------------------------------------
(* Invariants *)

\* Every variable has its type, and a session without a runtime entry (it was
\* never registered) owns nothing.
TypeOK ==
  /\ registered \subseteq Sessions
  /\ active \in [Sessions -> Turns \cup {NoTurn}]
  /\ cancel \in [Sessions -> Turns \cup {NoTurn}]
  /\ queue \in [Sessions -> Seq(Turns)]
  /\ counters \in [Sessions -> [depth : Nat, users : Nat, batches : Nat]]
  /\ home \in [Turns -> Sessions \cup {NoSession}]
  /\ stage \in [Turns -> Stage]
  /\ cancelled \subseteq Turns
  /\ \A s \in Sessions \ registered : active[s] = NoTurn /\ queue[s] = <<>>

\* The turns of s whose goroutine is under way with a context that is alive.
LiveRuns(s) ==
  {t \in Turns : home[t] = s /\ stage[t] \in InFlight /\ t \notin cancelled}

\* Mutual exclusion of agent runs in a session: the only goroutine that may
\* still act for a session is the one of its active turn, every other one has
\* had its context cancelled, and an active turn always has its goroutine.
LiveRunIsActive ==
  \A s \in Sessions : LiveRuns(s) = {active[s]} \ {NoTurn}

\* Nobody waits behind an idle session (finishTurn and CancelTurn hand over in
\* the critical section that clears the active turn), and the queue holds
\* exactly the turns that were told to wait.
NoIdleWaiters ==
  \A s \in Sessions :
    /\ queue[s] # <<>> => active[s] # NoTurn
    /\ ToSet(queue[s]) = {t \in Turns : home[t] = s /\ stage[t] = "queued"}

\* At most one report batch waits per session, and no turn waits twice.
OneQueuedBatch ==
  \A s \in Sessions : \A i, j \in DOMAIN queue[s] :
    \/ i = j
    \/ queue[s][i] # queue[s][j] /\ {queue[s][i], queue[s][j]} \cap UserTurns # {}

\* QueuePayload, which the report service trusts to tell an idle session from a
\* busy one, returns cached counters: they never lag behind the queue.
CountersCurrent == \A s \in Sessions : counters[s] = QueueCounters(queue[s])

-----------------------------------------------------------------------------
(* What a step may never do *)

Submission(s) == \E t \in Turns : stage[t] = "new" /\ stage'[t] # "new" /\ home'[t] = s

\* Submitting a turn, of either kind, never takes the session from a user
\* message nor cancels its context; only CancelTurn and its own end do.
UserTurnNotInterrupted ==
  [][\A s \in Sessions : active[s] \in UserTurns /\ Submission(s) =>
       active'[s] = active[s] /\ active[s] \notin cancelled']_vars

-----------------------------------------------------------------------------
(* What must happen, and the specification this one implements *)

\* A queued turn is started or withdrawn: agent runs end, and every end hands
\* the session on.
QueuedTurnsLeave == \A t \in Turns : stage[t] = "queued" ~> stage[t] # "queued"

LiveTurn(s) == IF LiveRuns(s) = {} THEN NoTurn ELSE CHOOSE t \in LiveRuns(s) : TRUE

Spent ==
  {t \in Turns : \/ stage[t] \in {"merged", "withdrawn", "done"}
                 \/ stage[t] \in InFlight /\ t \in cancelled}

TL == INSTANCE TurnLine WITH
        live <- [s \in Sessions |-> LiveTurn(s)], line <- queue, spent <- Spent

\* Seen through the goroutines whose contexts are alive, not through
\* ActiveTurnID, every session is a line in which one turn at a time is live.
ImplementsTurnLine == TL!Spec
=============================================================================
