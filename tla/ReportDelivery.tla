--------------------------- MODULE ReportDelivery ---------------------------
(***************************************************************************)
(* internal/v2/reports/service.go on top of SessionManager: how the rows   *)
(* of finished tasks become report_batch turns of a session, and what      *)
(* becomes of those turns.                                                 *)
(*                                                                         *)
(* SubmitQueued holds the service's mutex from beginning to end, but it    *)
(* asks the session manager twice (is the session idle? take this turn)    *)
(* and the store once per report, and every other actor moves in between:  *)
(* clients submit and cancel turns, agents run, new reports arrive.  The   *)
(* daemon may die at any of these points; report rows survive, the queues  *)
(* of the session manager do not.                                          *)
(***************************************************************************)
EXTENDS SessionManager

CONSTANTS
  Reports,      \* report ids
  HttpBatches,  \* the report_batch turns that clients submit over HTTP
  MaxLoad       \* bound on reports, which count twice, and all that disturbs them:
                \* batches of clients, store errors and restarts

ASSUME ReportBounds ==
  HttpBatches \subseteq BatchTurns /\ MaxLoad \in Nat

VARIABLES
  target,     \* the session of a report row, NoSession before the row exists
  delivered,  \* the reports whose row says delivered
  contents,   \* the reports that a batch turn's message quotes
  persisted,  \* the batch turns whose messages are in the session's history
  at,         \* where the holder of the service's mutex is in SubmitQueued
  flushing,   \* the session it works for
  list,       \* the reports it has listed and not yet marked
  faults, crashes

reportVars == <<target, delivered, contents, persisted, at, flushing, list, faults, crashes>>
allVars == <<vars, reportVars>>

ServiceBatches == BatchTurns \ HttpBatches

Load ==
  2 * Cardinality({r \in Reports : target[r] # NoSession})
    + Cardinality({b \in HttpBatches : stage[b] # "new"}) + faults + crashes

StoreFails == Load < MaxLoad /\ faults' = faults + 1

\* The mutex is released.
Release == at' = "idle" /\ flushing' = NoSession /\ list' = {}

-----------------------------------------------------------------------------

ReportInit ==
  /\ Init
  /\ target = [r \in Reports |-> NoSession]
  /\ delivered = {}
  /\ contents = [b \in BatchTurns |-> {}]
  /\ persisted = {}
  /\ at = "idle"
  /\ flushing = NoSession
  /\ list = {}
  /\ faults = 0
  /\ crashes = 0

\* DeliverTaskReport stores the row, under an id that has never been used (which
\* one is of no consequence), before it asks for the mutex.
CreateReport(s) ==
  /\ Load + 2 <= MaxLoad
  /\ \E r \in Reports : target[r] = NoSession
  /\ target' = [target EXCEPT ![CHOOSE r \in Reports : target[r] = NoSession] = s]
  /\ UNCHANGED <<vars, delivered, contents, persisted, at, flushing, list, faults, crashes>>

\* Mutant: the session is not asked whether it is busy.
LookNowhere(s) ==
  /\ at = "idle"
  /\ s \in registered
  /\ at' = "looked"
  /\ flushing' = s
  /\ UNCHANGED <<vars, target, delivered, contents, persisted, list, faults, crashes>>

\* SubmitQueued, called for a new report and by the flush loop, returns at once
\* when QueuePayload shows an active or a queued turn.
Look(s) ==
  /\ at = "idle"
  /\ s \in registered
  /\ active[s] = NoTurn /\ counters[s].depth = 0 /\ counters[s].batches = 0
  /\ at' = "looked"
  /\ flushing' = s
  /\ UNCHANGED <<vars, target, delivered, contents, persisted, list, faults, crashes>>

Undelivered(s) == {r \in Reports : target[r] = s /\ r \notin delivered}

\* Mutant: the reports are marked as soon as they are listed.
ListAndMark ==
  /\ at = "looked"
  /\ \/ /\ Undelivered(flushing) # {}
        /\ at' = "listed"
        /\ list' = Undelivered(flushing)
        /\ delivered' = delivered \cup Undelivered(flushing)
        /\ UNCHANGED <<flushing, faults>>
     \/ Undelivered(flushing) = {} /\ Release /\ UNCHANGED <<delivered, faults>>
  /\ UNCHANGED <<vars, target, contents, persisted, crashes>>

\* The undelivered reports are listed and the turn row is stored.
List ==
  /\ at = "looked"
  /\ \/ /\ Undelivered(flushing) # {}
        /\ at' = "listed"
        /\ list' = Undelivered(flushing)
        /\ UNCHANGED <<flushing, faults>>
     \/ Undelivered(flushing) = {} /\ Release /\ UNCHANGED faults
     \/ StoreFails /\ Release
  /\ UNCHANGED <<vars, target, delivered, contents, persisted, crashes>>

\* A turn id that has never been used; which one is of no consequence.
FreshBatch == CHOOSE b \in ServiceBatches : stage[b] = "new"

\* Mutant: the session that was idle when asked is taken to be idle still.
SubmitToIdle ==
  /\ at = "listed"
  /\ \E b \in ServiceBatches : stage[b] = "new"
  /\ home' = [home EXCEPT ![FreshBatch] = flushing]
  /\ ActivateNew(flushing, FreshBatch)
  /\ contents' = [contents EXCEPT ![FreshBatch] = list]
  /\ at' = "marking"
  /\ UNCHANGED <<registered, cancelled, target, delivered, persisted, flushing, list,
                 faults, crashes>>

\* The turn is submitted, whatever the session is doing by now.
Submit ==
  /\ at = "listed"
  /\ \E b \in ServiceBatches : stage[b] = "new"
  /\ SubmitTurn(flushing, FreshBatch)
  /\ contents' = [contents EXCEPT ![FreshBatch] = list]
  /\ at' = "marking"
  /\ UNCHANGED <<target, delivered, persisted, flushing, list, faults, crashes>>

\* Mutant: the batch is submitted and that is all.
MarkNothing ==
  /\ at = "marking"
  /\ Release
  /\ UNCHANGED <<vars, target, delivered, contents, persisted, faults, crashes>>

\* The reports are marked one by one; the first error ends the call.
Mark ==
  /\ at = "marking"
  /\ \/ /\ \E r \in list :
             /\ delivered' = delivered \cup {r}
             /\ IF list = {r} THEN Release
                ELSE list' = list \ {r} /\ UNCHANGED <<at, flushing>>
        /\ UNCHANGED faults
     \/ StoreFails /\ Release /\ UNCHANGED delivered
  /\ UNCHANGED <<vars, target, contents, persisted, crashes>>

-----------------------------------------------------------------------------
(* What the session's other actors do meanwhile *)

\* Clients submit turns and interrupt them; sessions are registered; turns run.
SessionSteps ==
  /\ \/ \E s \in Sessions :
          \/ Register(s)
          \/ \E t \in UserTurns : SubmitTurn(s, t)
          \/ Load < MaxLoad /\ \E b \in HttpBatches : SubmitTurn(s, b)
          \/ CancelActive(s)
          \/ \E i \in 1 .. Len(queue[s]) : CancelQueued(s, i)
     \/ \E t \in Turns : Spawn(t) \/ AgentReturns(t) \/ FinishTurn(t)
  /\ UNCHANGED reportVars

\* After the model's first answer the agent stores the turn's own message, the
\* batch, together with the answer, in a transaction that dies with the run's
\* context.  Before that, an agent that fails leaves nothing in the history.
Persist(b) ==
  /\ stage[b] = "running"
  /\ b \notin cancelled \cup persisted
  /\ persisted' = persisted \cup {b}
  /\ UNCHANGED <<vars, target, delivered, contents, at, flushing, list, faults, crashes>>

\* The daemon dies and starts again: sessions are registered anew, every turn
\* the session manager knew is gone.
Restart ==
  /\ Load < MaxLoad
  /\ crashes' = crashes + 1
  /\ registered' = Sessions
  /\ active' = [s \in Sessions |-> NoTurn]
  /\ cancel' = [s \in Sessions |-> NoTurn]
  /\ queue' = [s \in Sessions |-> <<>>]
  /\ counters' = [s \in Sessions |-> QueueCounters(<<>>)]
  /\ stage' = [t \in Turns |-> IF stage[t] = "new" THEN "new" ELSE "done"]
  /\ Release
  /\ UNCHANGED <<home, cancelled, target, delivered, contents, persisted, faults>>

ServiceSteps == List \/ Submit \/ Mark

ReportNext ==
  \/ \E s \in Sessions : CreateReport(s)
  \/ \E s \in Sessions : Look(s)
  \/ ServiceSteps
  \/ SessionSteps
  \/ \E b \in BatchTurns : Persist(b)
  \/ Restart

\* A call of SubmitQueued runs to its end, the flush loop visits every session
\* again and again (SF: another caller may hold the mutex), the sessions of the
\* workspace are registered when the daemon starts, and goroutines go on.
ReportFairness ==
  /\ WF_allVars(ServiceSteps)
  /\ \A s \in Sessions : SF_allVars(Look(s)) /\ WF_allVars(Register(s) /\ UNCHANGED reportVars)
  /\ \A t \in Turns : WF_allVars(/\ Spawn(t) \/ AgentReturns(t) \/ FinishTurn(t)
                                 /\ UNCHANGED reportVars)

ReportSpec == ReportInit /\ [][ReportNext]_allVars /\ ReportFairness

-----------------------------------------------------------------------------
(* Invariants *)

\* Every variable has its type, and the holder of the mutex works for somebody.
ReportTypeOK ==
  /\ TypeOK
  /\ target \in [Reports -> Sessions \cup {NoSession}]
  /\ delivered \subseteq Reports
  /\ contents \in [BatchTurns -> SUBSET Reports]
  /\ persisted \subseteq BatchTurns
  /\ at \in {"idle", "looked", "listed", "marking"}
  /\ flushing \in Sessions \cup {NoSession}
  /\ list \subseteq Reports
  /\ at = "idle" <=> flushing = NoSession
  /\ at \in {"listed", "marking"} <=> list # {}
  /\ {faults, crashes} \subseteq 0 .. MaxLoad

\* The batch still waits in its session or runs with a context that is alive.
Pending(b) == stage[b] = "queued" \/ (stage[b] \in InFlight /\ b \notin cancelled)

\* A report is flagged as delivered only after a turn that quotes it has been
\* given to the report's own session: until then a flush would find it again.
DeliveredWasSubmitted ==
  \A r \in delivered : \E b \in ServiceBatches :
    r \in contents[b] /\ home[b] = target[r] /\ stage[b] # "new"

\* The service has at most one batch under way per session, although it looks
\* at the session and submits to it in two steps.
OneBatchUnderWay ==
  \A s \in Sessions, b, c \in ServiceBatches :
    home[b] = s /\ home[c] = s /\ Pending(b) /\ Pending(c) => b = c

\* Unless a row could not be marked, or the daemon died in between, no report
\* is shown to the session in two batches.
NoReportTwice ==
  faults = 0 /\ crashes = 0 =>
    \A b, c \in BatchTurns : b # c => contents[b] \cap contents[c] = {}

\* The flag of a report's row says what became of it: never set too early, and,
\* when nothing failed, never missing after the report was shown.
FlagIsTrue == DeliveredWasSubmitted /\ NoReportTwice

-----------------------------------------------------------------------------
(* What a step may never do *)

\* The session will see the report, or has seen it.
Carried(r) == \E b \in BatchTurns : r \in contents[b] /\ (b \in persisted \/ Pending(b))

\* A client that submits a turn does not lose a report which is flagged as
\* delivered: it stays in the history, in the queue or in a live run.
SubmissionLosesNoReport ==
  [][\A t \in UserTurns \cup HttpBatches : stage[t] = "new" /\ stage'[t] # "new" =>
       \A r \in delivered : Carried(r) => Carried(r)']_allVars

\* Reports arrive for a session behind its back: no step of the report service
\* takes the session from its active turn or cancels a run.
FlushDisturbsNobody ==
  [][at' # at /\ crashes' = crashes =>
       /\ cancelled' = cancelled
       /\ \A s \in Sessions : active[s] # NoTurn => active'[s] = active[s]]_allVars

-----------------------------------------------------------------------------
(* What must happen *)

\* Every report is handed to its session some day, however busy the session is
\* in the meantime, and over store errors and restarts.
ReportsAreSubmitted == \A r \in Reports : target[r] # NoSession ~> r \in delivered
=============================================================================
