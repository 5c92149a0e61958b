------------------------- MODULE ReportDeliveryProofs -------------------------
(***************************************************************************)
(* For any number of sessions, turns, reports, store errors and restarts:  *)
(* the flag of a report's row is never set too early and, when nothing     *)
(* failed, never missing; a flush disturbs nobody; and the session manager *)
(* under it keeps its promises over restarts, so that one batch at a time  *)
(* is under way per session.                                               *)
(***************************************************************************)
EXTENDS ReportDelivery, SessionManagerProofs

ReportTypes ==
  /\ DOMAIN active = Sessions
  /\ stage \in [Turns -> Stage]
  /\ home \in [Turns -> Sessions \cup {NoSession}]
  /\ target \in [Reports -> Sessions \cup {NoSession}]
  /\ delivered \subseteq Reports
  /\ contents \in [BatchTurns -> SUBSET Reports]
  /\ at \in {"idle", "looked", "listed", "marking"}
  /\ flushing \in Sessions \cup {NoSession}
  /\ list \subseteq Reports
  /\ faults \in Nat /\ crashes \in Nat

\* The reports on the list are those of the session that the service works for.
ListFits ==
  /\ at # "idle" => flushing \in Sessions
  /\ at \in {"listed", "marking"} => \A r \in list : target[r] = flushing

\* While reports are being marked, a batch of that session quotes all of them.
BatchQuotesList ==
  at = "marking" =>
    \E b \in ServiceBatches : list \subseteq contents[b] /\ home[b] = flushing /\ stage[b] # "new"

DeliveredHasTarget == \A r \in delivered : target[r] # NoSession

\* When nothing failed, no two batches quote the same report, because a report that
\* some batch quotes is marked, or is about to be.
QuotedIsMarked ==
  /\ \A b, c \in BatchTurns : b # c => contents[b] \cap contents[c] = {}
  /\ \A b \in BatchTurns :
       contents[b] \subseteq delivered \cup (IF at = "marking" THEN list ELSE {})
  /\ at = "listed" => list \cap delivered = {}

NothingFailed == faults = 0 /\ crashes = 0

ReportInv ==
  /\ ReportTypes /\ ListFits /\ BatchQuotesList /\ DeliveredHasTarget /\ DeliveredWasSubmitted
  /\ NothingFailed => QuotedIsMarked

-----------------------------------------------------------------------------

\* A batch is no user message.
LEMMA KindsOfTurns == /\ ServiceBatches \subseteq BatchTurns /\ BatchTurns \subseteq Turns
                      /\ UserTurns \cap BatchTurns = {} /\ NoSession \notin Sessions
                      /\ NoTurn \notin Turns
  BY TurnKinds DEF ServiceBatches, Turns

\* Nothing is stored, listed or marked.
LEMMA ReportInitially == ReportInit => ReportInv
  BY KindsOfTurns DEF ReportInit, Init, ReportInv, ReportTypes, ListFits, BatchQuotesList,
     DeliveredHasTarget, DeliveredWasSubmitted, QuotedIsMarked, Stage

\* No turn becomes new again or moves to another session.
TurnsGoOn ==
  /\ DOMAIN active' = Sessions
  /\ stage' \in [Turns -> Stage]
  /\ home' \in [Turns -> Sessions \cup {NoSession}]
  /\ \A t \in Turns : stage[t] # "new" => stage'[t] # "new" /\ home'[t] = home[t]

\* So it is when a turn is submitted, ...
LEMMA SubmitGoesOn ==
  ASSUME ReportTypes, NEW s \in Sessions, NEW t \in Turns, SubmitTurn(s, t)
  PROVE  TurnsGoOn /\ stage'[t] # "new" /\ home'[t] = s
  BY DEF ReportTypes, Stage, TurnsGoOn, SubmitTurn, StartIdle, Preempt, Enqueue, ActivateNew

\* ... and in every other step of the session manager.
LEMMA SessionGoesOn == ASSUME ReportTypes, SessionSteps PROVE TurnsGoOn
  <1> USE DEF ReportTypes, Stage, TurnsGoOn
  <1>1. ASSUME NEW s \in Sessions, Register(s) PROVE TurnsGoOn
    BY <1>1 DEF Register
  <1>2. ASSUME NEW s \in Sessions, NEW t \in Turns, SubmitTurn(s, t) PROVE TurnsGoOn
    BY <1>2, SubmitGoesOn
  <1>3. ASSUME NEW s \in Sessions, CancelActive(s) PROVE TurnsGoOn
    BY <1>3 DEF CancelActive, HandOver
  <1>4. ASSUME NEW s \in Sessions, NEW i \in 1 .. Len(queue[s]), CancelQueued(s, i) PROVE TurnsGoOn
    BY <1>4 DEF CancelQueued
  <1>5. ASSUME NEW t \in Turns, Spawn(t) \/ AgentReturns(t) \/ FinishStale(t) PROVE TurnsGoOn
    BY <1>5 DEF Spawn, AgentReturns, FinishStale
  <1>6. ASSUME NEW t \in Turns, FinishActive(t) PROVE TurnsGoOn
    BY <1>6 DEF FinishActive, HandOver
  <1> QED
    BY <1>1, <1>2, <1>3, <1>4, <1>5, <1>6, KindsOfTurns, ReportBounds DEF SessionSteps, FinishTurn, Turns

\* What is known of reports and batches survives such a step.
LEMMA SessionKeeps ==
  ASSUME ReportInv, TurnsGoOn, UNCHANGED <<target, delivered, contents, at, flushing, list, faults, crashes>>
  PROVE  ReportInv'
  <1>1. ReportTypes' /\ ListFits' /\ DeliveredHasTarget'
    BY DEF ReportInv, ReportTypes, ListFits, DeliveredHasTarget, TurnsGoOn
  <1>2. BatchQuotesList' /\ DeliveredWasSubmitted'
    BY KindsOfTurns DEF ReportInv, BatchQuotesList, DeliveredWasSubmitted, TurnsGoOn
  <1>3. NothingFailed' => QuotedIsMarked'
    BY DEF ReportInv, NothingFailed, QuotedIsMarked
  <1> QED
    BY <1>1, <1>2, <1>3 DEF ReportInv

\* A new row is neither listed nor marked.
LEMMA CreateReportKeeps == ASSUME ReportInv, NEW s \in Sessions, CreateReport(s) PROVE ReportInv'
  <1>1. PICK r \in Reports : target[r] = NoSession /\ target' = [target EXCEPT ![r] = s]
    BY DEF CreateReport
  <1>2. UNCHANGED <<vars, delivered, contents, at, flushing, list, faults, crashes>>
    BY DEF CreateReport
  <1> USE <1>1, <1>2, KindsOfTurns DEF vars
  <1>3. ReportTypes' /\ DeliveredHasTarget'
    BY DEF ReportInv, ReportTypes, DeliveredHasTarget
  <1>4. ListFits'
    BY DEF ReportInv, ReportTypes, ListFits
  <1>5. BatchQuotesList'
    BY DEF ReportInv, BatchQuotesList
  <1>6. DeliveredWasSubmitted'
    BY DEF ReportInv, ReportTypes, DeliveredHasTarget, DeliveredWasSubmitted
  <1>7. NothingFailed' => QuotedIsMarked'
    BY DEF ReportInv, NothingFailed, QuotedIsMarked
  <1> QED
    BY <1>3, <1>4, <1>5, <1>6, <1>7 DEF ReportInv

\* Looking at the session and listing its reports stores nothing; the reports on
\* the list are not marked, so no batch quotes them if nothing has failed.
LEMMA ListKeeps ==
  ASSUME ReportInv, (\E s \in Sessions : Look(s)) \/ List PROVE ReportInv'
  <1>1. /\ UNCHANGED <<vars, target, delivered, contents, crashes>>
        /\ \/ at = "idle" /\ at' = "looked" /\ flushing' \in Sessions /\ UNCHANGED <<list, faults>>
           \/ /\ at = "looked" /\ at' = "listed" /\ list' = Undelivered(flushing)
              /\ UNCHANGED <<flushing, faults>>
           \/ at = "looked" /\ Release /\ faults' \in {faults, faults + 1}
    BY DEF Look, List, StoreFails
  <1> USE <1>1, KindsOfTurns DEF vars, Release, Undelivered
  <1>2. ReportTypes' /\ ListFits' /\ DeliveredHasTarget'
    BY DEF ReportInv, ReportTypes, ListFits, DeliveredHasTarget
  <1>3. BatchQuotesList' /\ DeliveredWasSubmitted'
    BY DEF ReportInv, BatchQuotesList, DeliveredWasSubmitted
  <1>4. ASSUME NothingFailed' PROVE QuotedIsMarked'
    <2>1. NothingFailed
      BY <1>4 DEF NothingFailed, ReportInv, ReportTypes
    <2> QED
      BY <2>1 DEF ReportInv, QuotedIsMarked
  <1> QED
    BY <1>2, <1>3, <1>4 DEF ReportInv

\* The batch that is submitted quotes what is on the list.
LEMMA SubmitKeeps == ASSUME ReportInv, Submit PROVE ReportInv'
  <1>1. PICK b \in ServiceBatches : /\ stage[b] = "new" /\ SubmitTurn(flushing, b)
                                   /\ contents' = [contents EXCEPT ![b] = list]
    BY DEF Submit, FreshBatch
  <1>2. /\ at = "listed" /\ at' = "marking" /\ flushing \in Sessions
        /\ UNCHANGED <<target, delivered, flushing, list, faults, crashes>>
    BY DEF Submit, ReportInv, ListFits
  <1>3. TurnsGoOn /\ stage'[b] # "new" /\ home'[b] = flushing
    BY <1>1, <1>2, SubmitGoesOn, KindsOfTurns DEF ReportInv
  <1>4. ReportTypes' /\ ListFits' /\ DeliveredHasTarget'
    BY <1>1, <1>2, <1>3, KindsOfTurns DEF ReportInv, ReportTypes, ListFits, DeliveredHasTarget, TurnsGoOn
  <1>5. BatchQuotesList'
    BY <1>1, <1>2, <1>3, KindsOfTurns DEF ReportInv, ReportTypes, BatchQuotesList
  <1>6. DeliveredWasSubmitted'
    BY <1>1, <1>2, <1>3, KindsOfTurns DEF ReportInv, ReportTypes, DeliveredWasSubmitted, TurnsGoOn
  <1>7. NothingFailed' => QuotedIsMarked'
    BY <1>1, <1>2, KindsOfTurns DEF ReportInv, ReportTypes, NothingFailed, QuotedIsMarked
  <1> QED
    BY <1>4, <1>5, <1>6, <1>7 DEF ReportInv

\* A report is marked after the batch that quotes it was submitted.
LEMMA MarkKeeps == ASSUME ReportInv, Mark PROVE ReportInv'
  <1>1. /\ at = "marking"
        /\ UNCHANGED <<vars, target, contents, crashes>>
        /\ \/ /\ UNCHANGED faults
              /\ \E r \in list :
                   /\ delivered' = delivered \cup {r}
                   /\ \/ list = {r} /\ Release
                      \/ list' = list \ {r} /\ UNCHANGED <<at, flushing>>
           \/ faults' = faults + 1 /\ Release /\ UNCHANGED delivered
    BY DEF Mark, StoreFails
  <1> USE <1>1, KindsOfTurns DEF vars, Release
  <1>2. ReportTypes' /\ ListFits'
    BY DEF ReportInv, ReportTypes, ListFits
  <1>3. DeliveredHasTarget'
    BY DEF ReportInv, ReportTypes, ListFits, DeliveredHasTarget
  <1>4. BatchQuotesList' /\ DeliveredWasSubmitted'
    BY DEF ReportInv, ListFits, BatchQuotesList, DeliveredWasSubmitted
  <1>5. NothingFailed' => QuotedIsMarked'
    BY DEF ReportInv, ReportTypes, NothingFailed, QuotedIsMarked
  <1> QED
    BY <1>2, <1>3, <1>4, <1>5 DEF ReportInv

\* A restart forgets what the service was doing, and the queues.
LEMMA RestartKeeps == ASSUME ReportInv, Restart PROVE ReportInv'
  <1>1. /\ TurnsGoOn /\ Release /\ crashes' = crashes + 1
        /\ UNCHANGED <<target, delivered, contents, faults>>
    BY DEF Restart, ReportInv, ReportTypes, TurnsGoOn, Stage
  <1>2. ReportTypes' /\ ListFits' /\ DeliveredHasTarget' /\ BatchQuotesList'
    BY <1>1 DEF ReportInv, ReportTypes, ListFits, DeliveredHasTarget, BatchQuotesList, TurnsGoOn, Release
  <1>3. DeliveredWasSubmitted'
    BY <1>1, KindsOfTurns DEF ReportInv, DeliveredWasSubmitted, TurnsGoOn
  <1>4. ~ NothingFailed'
    BY <1>1 DEF ReportInv, ReportTypes, NothingFailed
  <1> QED
    BY <1>2, <1>3, <1>4 DEF ReportInv

\* Every step keeps the invariant.
LEMMA ReportStep == ReportInv /\ [ReportNext]_allVars => ReportInv'
  <1> SUFFICES ASSUME ReportInv, [ReportNext]_allVars PROVE ReportInv'
    OBVIOUS
  <1>1. ASSUME NEW s \in Sessions, CreateReport(s) PROVE ReportInv'
    BY <1>1, CreateReportKeeps
  <1>2. ASSUME NEW s \in Sessions, Look(s) PROVE ReportInv'
    BY <1>2, ListKeeps
  <1>3. CASE List
    BY <1>3, ListKeeps
  <1>4. CASE Submit
    BY <1>4, SubmitKeeps
  <1>5. CASE Mark
    BY <1>5, MarkKeeps
  <1>6. CASE SessionSteps
    BY <1>6, SessionGoesOn, SessionKeeps DEF ReportInv, SessionSteps, reportVars
  <1>7. CASE (\E b \in BatchTurns : Persist(b)) \/ UNCHANGED allVars
    <2>1. /\ TurnsGoOn
          /\ UNCHANGED <<target, delivered, contents, at, flushing, list, faults, crashes>>
      BY <1>7 DEF Persist, allVars, reportVars, vars, TurnsGoOn, ReportInv, ReportTypes
    <2> QED
      BY <2>1, SessionKeeps
  <1>8. CASE Restart
    BY <1>8, RestartKeeps
  <1> QED
    BY <1>1, <1>2, <1>3, <1>4, <1>5, <1>6, <1>7, <1>8 DEF ReportNext, ServiceSteps

-----------------------------------------------------------------------------
(* The session manager under the service, and the batches under way *)

\* While the service prepares a batch for a session, it has none under way there:
\* only the holder of its mutex submits any.
NoneUnderWay ==
  at \in {"looked", "listed"} =>
    \A b \in ServiceBatches : home[b] = flushing => ~ Pending(b)

BatchInv == ReportInv /\ IInv /\ NoneUnderWay /\ OneBatchUnderWay

\* A restart leaves a manager without turns.
LEMMA RestartIsInOrder == ASSUME IInv, Restart PROVE IInv'
  BY NewManagerIsInOrder DEF Restart, NewManager

\* Every step of the composition is one of the session manager, or none of its
\* business, or a restart.
LEMMA SessionsInOrder == IInv /\ [ReportNext]_allVars => IInv'
  <1> SUFFICES ASSUME IInv, [ReportNext]_allVars PROVE IInv'
    OBVIOUS
  <1>1. CASE [Next]_vars
    BY <1>1, InvariantStep
  <1>2. CASE Restart
    BY <1>2, RestartIsInOrder
  <1>3. [Next]_vars \/ Restart
    <2>1. CASE Submit
      <3>1. PICK b \in ServiceBatches : SubmitTurn(flushing, b)
        BY <2>1 DEF Submit, FreshBatch
      <3>2. flushing \in Sessions
        BY <3>1 DEF SubmitTurn, IInv, TypeOK
      <3> QED
        BY <3>1, <3>2, KindsOfTurns DEF Next
    <2>2. CASE SessionSteps
      BY <2>2, KindsOfTurns, ReportBounds DEF SessionSteps, Next, Turns
    <2> QED
      BY <2>1, <2>2 DEF ReportNext, ServiceSteps, CreateReport, Look, List, Mark, Persist, allVars
  <1> QED
    BY <1>1, <1>2, <1>3

\* No step of the session manager gives a turn back what it has lost.
LEMMA PendingShrinks ==
  ASSUME IInv, [Next]_vars, NEW b \in Turns, stage[b] # "new", Pending(b)'
  PROVE  Pending(b) /\ home'[b] = home[b]
  <1> USE DEF Pending, InFlight
  <1>1. ASSUME NEW s \in Sessions, NEW t \in Turns, SubmitTurn(s, t)
        PROVE  Pending(b) /\ home'[b] = home[b]
    <2>1. t # b
      BY <1>1 DEF SubmitTurn
    <2>2. stage'[b] = stage[b] /\ cancelled \subseteq cancelled' /\ home'[b] = home[b]
      BY <1>1, <2>1 DEF SubmitTurn, StartIdle, Preempt, Enqueue, ActivateNew, IInv, TypeOK
    <2> QED
      BY <2>2
  <1>2. ASSUME NEW s \in Sessions, NextTurn(s) = b PROVE stage[b] = "queued"
    BY <1>2, NextIsQueued
  <1>3. ASSUME NEW s \in Sessions, CancelActive(s) PROVE Pending(b) /\ home'[b] = home[b]
    BY <1>2, <1>3 DEF CancelActive
  <1>4. ASSUME NEW t \in Turns, FinishActive(t) PROVE Pending(b) /\ home'[b] = home[b]
    <2>1. home[t] \in Sessions
      BY <1>4, KindsOfTurns DEF FinishActive, IInv, TypeOK, Placement, Homes, HomeFits, InFlight
    <2> QED
      BY <1>2, <1>4, <2>1 DEF FinishActive
  <1>5. ASSUME NEW t \in Turns, Spawn(t) \/ AgentReturns(t) \/ FinishStale(t)
        PROVE  Pending(b) /\ home'[b] = home[b]
    BY <1>5 DEF Spawn, AgentReturns, FinishStale, IInv, TypeOK
  <1>6. ASSUME NEW s \in Sessions, NEW i \in 1 .. Len(queue[s]), CancelQueued(s, i)
        PROVE  Pending(b) /\ home'[b] = home[b]
    BY <1>6 DEF CancelQueued, IInv, TypeOK
  <1>7. ASSUME NEW s \in Sessions, Register(s) PROVE Pending(b) /\ home'[b] = home[b]
    BY <1>7 DEF Register
  <1>8. CASE UNCHANGED vars
    BY <1>8 DEF vars
  <1> QED
    BY <1>1, <1>3, <1>4, <1>5, <1>6, <1>7, <1>8 DEF Next, FinishTurn

\* A session that shows neither an active nor a queued turn has no batch under way.
LEMMA QuietMeansNone ==
  ASSUME IInv, NEW s \in Sessions, NEW b \in Turns, home[b] = s,
         active[s] = NoTurn, counters[s].depth = 0
  PROVE  ~ Pending(b)
  <1>1. Len(queue[s]) = 0
    <2>1. counters[s] = QueueCounters(queue[s])
      BY DEF IInv, CountersCurrent
    <2>2. \A q : QueueCounters(q).depth = Len(q)
      BY DEF QueueCounters
    <2> QED
      BY <2>1, <2>2
  <1>2. stage[b] # "queued"
    BY <1>1 DEF IInv, Placement, QueueComplete
  <1>3. ~ (stage[b] \in InFlight /\ b \notin cancelled)
    BY KindsOfTurns DEF IInv, Placement, LiveMeansActive
  <1> QED
    BY <1>2, <1>3 DEF Pending

LEMMA BatchInitially == ReportInit => BatchInv
  BY ReportInitially, InitIInv DEF ReportInit, Init, BatchInv, NoneUnderWay, OneBatchUnderWay, Pending,
     ServiceBatches, Turns, InFlight

\* Steps that submit no batch of the service.
LEMMA OthersSubmitNone ==
  ASSUME BatchInv, [Next]_vars, \A b \in ServiceBatches : stage[b] = "new" => stage'[b] = "new"
  PROVE  /\ OneBatchUnderWay'
         /\ UNCHANGED <<at, flushing>> => NoneUnderWay'
  <1>1. ASSUME NEW b \in ServiceBatches, Pending(b)' PROVE Pending(b) /\ home'[b] = home[b]
    <2>1. b \in Turns /\ stage[b] # "new"
      BY <1>1, KindsOfTurns DEF Pending, InFlight
    <2> QED
      BY <1>1, <2>1, PendingShrinks DEF BatchInv
  <1>2. OneBatchUnderWay'
    BY <1>1 DEF BatchInv, OneBatchUnderWay
  <1>3. UNCHANGED <<at, flushing>> => NoneUnderWay'
    BY <1>1 DEF BatchInv, NoneUnderWay
  <1> QED
    BY <1>2, <1>3

LEMMA BatchStep == BatchInv /\ [ReportNext]_allVars => BatchInv'
  <1> SUFFICES ASSUME BatchInv, [ReportNext]_allVars PROVE NoneUnderWay' /\ OneBatchUnderWay'
    BY ReportStep, SessionsInOrder DEF BatchInv
  <1>1. CASE UNCHANGED vars /\ UNCHANGED <<at, flushing>>
    BY <1>1, OthersSubmitNone DEF vars
  <1>2. ASSUME UNCHANGED vars, at' \notin {"looked", "listed"} PROVE NoneUnderWay' /\ OneBatchUnderWay'
    BY <1>2, OthersSubmitNone DEF vars, NoneUnderWay
  <1>3. ASSUME NEW s \in Sessions, Look(s) PROVE NoneUnderWay' /\ OneBatchUnderWay'
    <2>1. OneBatchUnderWay'
      BY <1>3, OthersSubmitNone DEF Look, vars
    <2>2. ASSUME NEW b \in ServiceBatches, home[b] = s PROVE ~ Pending(b)
      BY <1>3, <2>2, QuietMeansNone, KindsOfTurns DEF Look, BatchInv
    <2>3. NoneUnderWay'
      BY <1>3, <2>2 DEF Look, vars, NoneUnderWay, Pending
    <2> QED
      BY <2>1, <2>3
  <1>4. CASE List
    <2>1. OneBatchUnderWay'
      BY <1>4, OthersSubmitNone DEF List, vars
    <2>2. NoneUnderWay'
      BY <1>4 DEF List, Release, vars, BatchInv, NoneUnderWay, Pending
    <2> QED
      BY <2>1, <2>2
  <1>5. CASE Submit
    <2>1. PICK n \in ServiceBatches : stage[n] = "new" /\ SubmitTurn(flushing, n)
      BY <1>5 DEF Submit, FreshBatch
    <2>2. at = "listed" /\ at' = "marking" /\ flushing \in Sessions
      BY <1>5 DEF Submit, BatchInv, ReportInv, ListFits
    <2>3. [Next]_vars
      BY <2>1, <2>2, KindsOfTurns DEF Next
    <2>4. /\ home' = [home EXCEPT ![n] = flushing]
          /\ \A b \in Turns : b # n => stage'[b] = stage[b]
      BY <2>1, KindsOfTurns DEF SubmitTurn, StartIdle, Preempt, Enqueue, ActivateNew, BatchInv, IInv, TypeOK
    <2>5. ASSUME NEW b \in ServiceBatches, b # n, Pending(b)'
          PROVE  Pending(b) /\ home'[b] = home[b] /\ home[b] # flushing
      <3>1. b \in Turns /\ stage[b] # "new"
        BY <2>4, <2>5, KindsOfTurns DEF Pending, InFlight
      <3>2. Pending(b) /\ home'[b] = home[b]
        BY <2>3, <2>5, <3>1, PendingShrinks DEF BatchInv
      <3> QED
        BY <2>2, <3>2 DEF BatchInv, NoneUnderWay
    <2>6. home'[n] = flushing
      BY <2>4, KindsOfTurns DEF BatchInv, IInv, TypeOK
    <2>7. OneBatchUnderWay'
      BY <2>5, <2>6 DEF BatchInv, OneBatchUnderWay
    <2> QED
      BY <2>2, <2>7 DEF NoneUnderWay
  <1>6. CASE SessionSteps
    <2>1. \A b \in ServiceBatches : stage[b] = "new" => stage'[b] = "new"
      <3>1. ASSUME NEW s \in Sessions, NEW t \in Turns, t \notin ServiceBatches, SubmitTurn(s, t)
            PROVE  \A b \in ServiceBatches : stage[b] = "new" => stage'[b] = "new"
        BY <3>1, KindsOfTurns DEF SubmitTurn, StartIdle, Preempt, Enqueue, ActivateNew, BatchInv, IInv, TypeOK
      <3>2. \A t \in UserTurns \cup HttpBatches : t \in Turns /\ t \notin ServiceBatches
        BY KindsOfTurns, ReportBounds DEF ServiceBatches, Turns
      <3>3. ASSUME NEW s \in Sessions, CancelActive(s)
            PROVE  \A b \in ServiceBatches : stage[b] = "new" => stage'[b] = "new"
        <4>1. \A b \in Turns : NextTurn(s) = b => stage[b] = "queued"
          BY NextIsQueued DEF BatchInv
        <4> QED
          BY <3>3, <4>1, KindsOfTurns DEF CancelActive
      <3>4. ASSUME NEW t \in Turns, FinishActive(t)
            PROVE  \A b \in ServiceBatches : stage[b] = "new" => stage'[b] = "new"
        <4>1. home[t] \in Sessions
          BY <3>4, KindsOfTurns DEF FinishActive, BatchInv, IInv, TypeOK, Placement, Homes, HomeFits, InFlight
        <4>2. \A b \in Turns : NextTurn(home[t]) = b => stage[b] = "queued"
          BY <4>1, NextIsQueued DEF BatchInv
        <4> QED
          BY <3>4, <4>2, KindsOfTurns DEF FinishActive
      <3>5. ASSUME NEW t \in Turns, Spawn(t) \/ AgentReturns(t) \/ FinishStale(t)
            PROVE  \A b \in ServiceBatches : stage[b] = "new" => stage'[b] = "new"
        BY <3>5, KindsOfTurns DEF Spawn, AgentReturns, FinishStale, BatchInv, IInv, TypeOK
      <3>6. ASSUME NEW s \in Sessions, NEW i \in 1 .. Len(queue[s]), CancelQueued(s, i)
            PROVE  \A b \in ServiceBatches : stage[b] = "new" => stage'[b] = "new"
        <4>1. stage[queue[s][i]] = "queued"
          BY <3>6 DEF BatchInv, IInv, Placement, QueueContent
        <4> QED
          BY <3>6, <4>1, KindsOfTurns DEF CancelQueued, BatchInv, IInv, TypeOK
      <3>7. ASSUME NEW s \in Sessions, Register(s)
            PROVE  \A b \in ServiceBatches : stage[b] = "new" => stage'[b] = "new"
        BY <3>7 DEF Register
      <3> QED
        BY <1>6, <3>1, <3>2, <3>3, <3>4, <3>5, <3>6, <3>7 DEF SessionSteps, FinishTurn
    <2>2. [Next]_vars /\ UNCHANGED <<at, flushing>>
      BY <1>6, KindsOfTurns, ReportBounds DEF SessionSteps, Next, Turns, reportVars
    <2> QED
      BY <2>1, <2>2, OthersSubmitNone
  <1>7. CASE Restart
    <2>1. \A b \in Turns : ~ Pending(b)'
      BY <1>7 DEF Restart, Pending, InFlight
    <2> QED
      BY <2>1, KindsOfTurns DEF NoneUnderWay, OneBatchUnderWay
  <1>8. CASE Mark
    BY <1>1, <1>2, <1>8 DEF Mark, Release
  <1> QED
    BY <1>1, <1>3, <1>4, <1>5, <1>6, <1>7, <1>8 DEF ReportNext, ServiceSteps, CreateReport, Persist,
       allVars, reportVars

-----------------------------------------------------------------------------

\* The service's list, its batch and the flags of the rows fit together in every
\* reachable state.
THEOREM ReportInvariant == ReportSpec => []ReportInv
  BY ReportInitially, ReportStep, PTL DEF ReportSpec

\* A report is flagged only after a batch that quotes it was given to its session,
\* and is quoted twice only after a store error or a restart
\* (reports/service.go:74).
THEOREM FlagsAreTrue == ReportSpec => []FlagIsTrue
  <1>1. ReportInv => FlagIsTrue
    BY DEF ReportInv, FlagIsTrue, NoReportTwice, NothingFailed, QuotedIsMarked
  <1> QED
    BY <1>1, ReportInvariant, PTL

\* No step of the report service takes a session from its active turn or cancels a
\* run (session/manager.go's startTurn, as SubmitQueued uses it).
THEOREM FlushesDisturbNobody == ReportSpec => FlushDisturbsNobody
  <1> DEFINE Undisturbed ==
        at' # at /\ crashes' = crashes =>
          /\ cancelled' = cancelled
          /\ \A s \in Sessions : active[s] # NoTurn => active'[s] = active[s]
  <1>1. ReportInv /\ [ReportNext]_allVars => [Undisturbed]_allVars
    <2> SUFFICES ASSUME ReportInv, ReportNext, at' # at, crashes' = crashes
                 PROVE  /\ cancelled' = cancelled
                        /\ \A s \in Sessions : active[s] # NoTurn => active'[s] = active[s]
      OBVIOUS
    <2>1. CASE UNCHANGED vars
      BY <2>1 DEF vars
    <2>2. CASE Submit
      <3>1. PICK b \in ServiceBatches : SubmitTurn(flushing, b)
        BY <2>2 DEF Submit, FreshBatch
      <3> QED
        BY <3>1, KindsOfTurns DEF ReportInv, ReportTypes, SubmitTurn, StartIdle, Preempt, CanPreempt,
           Enqueue, ActivateNew
    <2>3. ~ Restart
      BY DEF Restart, ReportInv, ReportTypes
    <2> QED
      BY <2>1, <2>2, <2>3 DEF ReportNext, CreateReport, Look, ServiceSteps, List, Mark, SessionSteps,
         reportVars, Persist
  <1> QED
    BY <1>1, ReportInvariant, PTL DEF ReportSpec, FlushDisturbsNobody

\* The service's two steps, and what it does not submit in between, over restarts.
THEOREM BatchInvariant == ReportSpec => []BatchInv
  BY BatchInitially, BatchStep, PTL DEF ReportSpec

\* The session manager keeps its promises when reports are delivered through it and
\* the daemon restarts: one live run, no idle waiter, one queued batch, true counters.
THEOREM SessionsStayInOrder ==
  ReportSpec => [](LiveRunIsActive /\ NoIdleWaiters /\ OneQueuedBatch /\ CountersCurrent)
  <1>1. BatchInv => LiveRunIsActive /\ NoIdleWaiters /\ OneQueuedBatch /\ CountersCurrent
    BY LiveIsActive, WaitersAreQueued, BatchesAreMerged DEF BatchInv, IInv
  <1> QED
    BY <1>1, BatchInvariant, PTL

\* The report service has at most one batch under way per session, although it
\* looks at the session and submits to it in two steps (reports/service.go:74).
THEOREM OneBatchAtATime == ReportSpec => []OneBatchUnderWay
  <1>1. BatchInv => OneBatchUnderWay
    BY DEF BatchInv
  <1> QED
    BY <1>1, BatchInvariant, PTL
=============================================================================
