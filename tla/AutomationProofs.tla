--------------------------- MODULE AutomationProofs ---------------------------
(***************************************************************************)
(* For any automations, signals and callers, over any number of passes: a  *)
(* signal that was dispatched more than once was so because of as many     *)
(* store errors and restarts, each of them between a creation and its      *)
(* record; one that is recorded as dispatched and was never begun has a    *)
(* workflow's run, and met a store error or a restart before its first     *)
(* write.                                                                  *)
(***************************************************************************)
EXTENDS Automation, FiniteSetTheorems, TLAPS

Passes == [at : PassAt, left : SUBSET AutomationIds,
           id : AutomationIds \cup {"none"}, key : Signals \cup {"quiet"}]

AutomationTypes ==
  /\ automation \in [AutomationIds -> {"none", "active", "paused"}]
  /\ setup \in [AutomationIds -> SUBSET {"role", "watcher", "workflow", "steps"}]
  /\ signal \in [AutomationIds -> Signals \cup {"quiet"}]
  /\ lastRuns \subseteq AutomationIds
  /\ pass \in Passes
  /\ request \in [id : AutomationIds \cup {"none"}, state : {"none", "active", "paused"}]
  /\ request # NoRequest => request.id \in AutomationIds /\ request.state # "none"
  /\ made \in [Dispatches -> Nat]
  /\ waking \subseteq Dispatches
  /\ started \subseteq Dispatches /\ recorded \subseteq Dispatches
  /\ mishaps \in 0 .. AutomationTroubles

\* The loop is past the watcher of an automation with a signal, ...
SignalAtHand ==
  /\ pass.at = "watch" => pass.id \in AutomationIds
  /\ pass.at \in {"lookup", "dispatch", "start", "record"} => ThisDispatch \in Dispatches

\* ... and past the look for an earlier dispatch: there is none, and no other goroutine
\* that could make one.
NotRecordedYet == pass.at \in {"dispatch", "start", "record"} => ThisDispatch \notin recorded

\* Who is recorded, or about to be: a task that was started, a run that was stored.
BeingRecorded(d) == d \in recorded \/ (pass.at = "record" /\ d = ThisDispatch)

StartedFirst ==
  \A d \in Dispatches : BeingRecorded(d) => IF d[1] \in WorkflowBacked THEN made[d] > 0
                                                                      ELSE d \in started

\* A run that was stored and has not begun is about to, or met an error or a restart.
RunsBegin ==
  \A d \in Dispatches :
    d[1] \in WorkflowBacked /\ made[d] > 0 => d \in started \cup waking \/ mishaps > 0

\* A workflow has one run for a reference.
OneRunOfWorkflow ==
  /\ \A d \in Dispatches : made[d] > 1 => d[1] \notin WorkflowBacked
  /\ pass.at = "start" => pass.id \notin WorkflowBacked

\* A signal's last task is settled when it has been recorded or is about to be; those
\* that are not are owed to a mishap each.
UnderWay(d) == pass.at \in {"start", "record"} /\ d = ThisDispatch
Settled(d) == d \in recorded \/ UnderWay(d)
Owed == UNION {{d} \X {n \in 1 .. made[d] : n < made[d] \/ ~ Settled(d)} : d \in Dispatches}
EachIsPaidFor == IsFiniteSet(Owed) /\ Cardinality(Owed) <= mishaps

DispatchInv ==
  /\ AutomationTypes /\ SignalAtHand /\ NotRecordedYet /\ StartedFirst /\ RunsBegin
  /\ OneRunOfWorkflow /\ EachIsPaidFor

-----------------------------------------------------------------------------
(* What is owed *)

\* A task is owed if it is not the last of its signal, or not settled.
IsOwed(x) == x[2] \in 1 .. made[x[1]] /\ (x[2] < made[x[1]] \/ ~ Settled(x[1]))

LEMMA OwedIs ==
  ASSUME AutomationTypes
  PROVE  Owed = {x \in Dispatches \X Nat : IsOwed(x)}
  BY DEF Owed, AutomationTypes, IsOwed

LEMMA OwedWillBe ==
  ASSUME AutomationTypes'
  PROVE  Owed' = {x \in Dispatches \X Nat : IsOwed(x)'}
  BY DEF Owed, AutomationTypes, IsOwed

\* The repeats are owed, so that there are no more of them.
LEMMA RepeatsAreOwed == ASSUME AutomationTypes, EachIsPaidFor PROVE Cardinality(Repeats) <= mishaps
  <1>1. Repeats \subseteq Owed
    BY DEF Repeats, Owed, AutomationTypes
  <1>2. Cardinality(Repeats) <= Cardinality(Owed)
    BY <1>1, FS_Subset DEF EachIsPaidFor
  <1>3. IsFiniteSet(Repeats)
    BY <1>1, FS_Subset DEF EachIsPaidFor
  <1> QED
    BY <1>2, <1>3, FS_CardinalityType DEF EachIsPaidFor, AutomationTypes

\* Nothing more may be owed, except one task for one mishap.
LEMMA NothingMoreIsOwed ==
  ASSUME EachIsPaidFor, AutomationTypes, Owed' \subseteq Owed, mishaps' \in {mishaps, mishaps + 1}
  PROVE  EachIsPaidFor'
  <1>1. IsFiniteSet(Owed') /\ Cardinality(Owed') <= Cardinality(Owed)
    BY FS_Subset DEF EachIsPaidFor
  <1> QED
    BY <1>1, FS_CardinalityType DEF EachIsPaidFor, AutomationTypes

LEMMA OneMoreIsOwed ==
  ASSUME EachIsPaidFor, AutomationTypes, NEW x, Owed' \subseteq Owed \cup {x}, mishaps' = mishaps + 1
  PROVE  EachIsPaidFor'
  <1>0. IsFiniteSet(Owed) /\ Cardinality(Owed) \in Nat
    BY FS_CardinalityType DEF EachIsPaidFor
  <1>1. /\ IsFiniteSet(Owed \cup {x})
        /\ Cardinality(Owed \cup {x}) \in {Cardinality(Owed), Cardinality(Owed) + 1}
    BY <1>0, FS_AddElement
  <1>2. IsFiniteSet(Owed') /\ Cardinality(Owed') <= Cardinality(Owed \cup {x})
    BY <1>1, FS_Subset
  <1>3. Cardinality(Owed') \in Nat
    BY <1>2, FS_CardinalityType
  <1> QED
    BY <1>0, <1>1, <1>2, <1>3 DEF EachIsPaidFor, AutomationTypes

\* A step that touches neither tasks nor records owes no more if what was under way
\* still is, or nothing was.
LEMMA OwedStays ==
  ASSUME AutomationTypes, AutomationTypes', UNCHANGED <<made, recorded>>,
         \A d \in Dispatches : UnderWay(d) => UnderWay(d)'
  PROVE  Owed' \subseteq Owed
  BY OwedIs, OwedWillBe DEF IsOwed, Settled

LEMMA OwedGrowsByOne ==
  ASSUME AutomationTypes, AutomationTypes', UNCHANGED <<made, recorded>>
  PROVE  Owed' \subseteq Owed \cup {<<ThisDispatch, made[ThisDispatch]>>}
  <1>1. ASSUME NEW x \in Dispatches \X Nat, IsOwed(x)', ~ IsOwed(x)
        PROVE  x = <<ThisDispatch, made[ThisDispatch]>>
    <2>1. /\ x[2] \in 1 .. made[x[1]] /\ ~ (x[2] < made[x[1]])
          /\ Settled(x[1]) /\ x[1] \notin recorded
      BY <1>1 DEF IsOwed, Settled
    <2>2. x[1] = ThisDispatch /\ x[2] = made[x[1]]
      BY <2>1 DEF Settled, UnderWay, AutomationTypes
    <2> QED
      BY <2>2
  <1> QED
    BY <1>1, OwedIs, OwedWillBe

-----------------------------------------------------------------------------

LEMMA DispatchInitially == AutomationInit => DispatchInv
  <1> SUFFICES ASSUME AutomationInit PROVE DispatchInv
    OBVIOUS
  <1>1. AutomationTypes
    BY AutomationParameters DEF AutomationInit, AutomationTypes, NoPass, NoRequest, PassAt, Passes
  <1>2. Owed = {}
    BY DEF AutomationInit, Owed
  <1>3. EachIsPaidFor
    BY <1>2, FS_EmptySet DEF AutomationInit, EachIsPaidFor
  <1> QED
    BY <1>1, <1>3 DEF AutomationInit, DispatchInv, SignalAtHand, NotRecordedYet, StartedFirst,
                      BeingRecorded, RunsBegin, OneRunOfWorkflow, NoPass, Dispatches

-----------------------------------------------------------------------------
(* Types *)

\* Where the loop may go from where it is.
LEMMA PassesGoOn ==
  ASSUME pass \in Passes
  PROVE  /\ \A at \in PassAt : [pass EXCEPT !.at = at] \in Passes
         /\ \A key \in Signals : [pass EXCEPT !.at = "lookup", !.key = key] \in Passes
         /\ \A a \in AutomationIds, at \in PassAt :
              [pass EXCEPT !.left = @ \ {a}, !.id = a, !.at = at] \in Passes
         /\ NoPass \in Passes
  BY DEF Passes, PassAt, NoPass

LEMMA PassBegins ==
  ASSUME ListAutomations
  PROVE  \/ pass' = pass
         \/ \E left \in SUBSET AutomationIds :
              pass' = [at |-> "list", left |-> left, id |-> "none", key |-> "quiet"]
  <1> DEFINE active == {a \in AutomationIds : automation[a] = "active"}
  <1>1. active \in SUBSET AutomationIds
    OBVIOUS
  <1>2. pass' = pass \/ pass' = [NoPass EXCEPT !.at = "list", !.left = active]
    BY DEF ListAutomations
  <1> HIDE DEF active
  <1> QED
    BY <1>1, <1>2 DEF NoPass

LEMMA TroublesAreFew ==
  ASSUME AutomationTypes, mishaps' = mishaps \/ Mishap
  PROVE  mishaps' \in 0 .. AutomationTroubles /\ mishaps' \in {mishaps, mishaps + 1}
  BY AutomationParameters DEF AutomationTypes, Mishap

LEMMA TypesStay ==
  ASSUME AutomationTypes, SignalAtHand, [AutomationNext]_automationVars PROVE AutomationTypes'
  <1> USE DEF dispatchVars
  <1>1. mishaps' = mishaps \/ Mishap
    BY DEF AutomationNext, ReconcileSteps, ListAutomations, FinishPass, RunWatcher, LookUp, TriggerWorkflow,
           CreateOwnerTask, BeginRun,
           StartOwnerTask, RecordRun, Take, WriteAutomation, AutomationRestart, CreateAutomation,
           SetupChanges, BecomesDue, ReadAutomation, automationVars
  <1>2. /\ automation' \in [AutomationIds -> {"none", "active", "paused"}]
        /\ request' \in [id : AutomationIds \cup {"none"}, state : {"none", "active", "paused"}]
        /\ request' # NoRequest => request'.id \in AutomationIds /\ request'.state # "none"
    <2>1. ASSUME NEW a \in AutomationIds, CreateAutomation(a) PROVE <1>2!:
      BY <2>1 DEF CreateAutomation, AutomationTypes
    <2>2. CASE WriteAutomation
      BY <2>2 DEF WriteAutomation, AutomationTypes, NoRequest
    <2>3. ASSUME NEW a \in AutomationIds, NEW c \in Callers, NEW state \in {"active", "paused"},
                 ReadAutomation(c, a, state)
          PROVE  <1>2!:
      BY <2>3 DEF ReadAutomation, AutomationTypes
    <2>4. CASE AutomationRestart
      BY <2>4 DEF AutomationRestart, AutomationTypes, NoRequest
    <2>5. CASE UNCHANGED <<automation, request>>
      BY <2>5 DEF AutomationTypes
    <2> QED
      BY <2>1, <2>2, <2>3, <2>4, <2>5
      DEF AutomationNext, ReconcileSteps, ListAutomations, FinishPass, RunWatcher, LookUp, TriggerWorkflow,
           CreateOwnerTask, BeginRun,
          StartOwnerTask, RecordRun, Take, SetupChanges, BecomesDue, automationVars
  <1>3. /\ setup' \in [AutomationIds -> SUBSET {"role", "watcher", "workflow", "steps"}]
        /\ signal' \in [AutomationIds -> Signals \cup {"quiet"}]
    <2>1. ASSUME NEW a \in AutomationIds, SetupChanges(a) PROVE <1>3!:
      <3>1. Setups(a) \subseteq SUBSET {"role", "watcher", "workflow", "steps"}
        BY DEF Setups
      <3> QED
        BY <2>1, <3>1 DEF SetupChanges, AutomationTypes
    <2>2. CASE UNCHANGED <<setup, signal>>
      BY <2>2 DEF AutomationTypes
    <2> QED
      BY <2>1, <2>2
      DEF AutomationNext, ReconcileSteps, ListAutomations, FinishPass, RunWatcher, LookUp, TriggerWorkflow,
           CreateOwnerTask, BeginRun,
          StartOwnerTask, RecordRun, Take, WriteAutomation, AutomationRestart, CreateAutomation,
          BecomesDue, ReadAutomation, automationVars
  <1>4. lastRuns' \subseteq AutomationIds
    BY DEF AutomationTypes, AutomationNext, ReconcileSteps, ListAutomations, FinishPass, RunWatcher,
           LookUp, TriggerWorkflow, CreateOwnerTask, BeginRun, StartOwnerTask, RecordRun, Take,
           WriteAutomation, AutomationRestart,
           CreateAutomation, SetupChanges, BecomesDue, ReadAutomation, automationVars
  <1>5. pass' \in Passes
    <2>1. CASE ListAutomations
      BY <2>1, PassBegins DEF AutomationTypes, Passes, PassAt
    <2>2. ASSUME NEW a \in AutomationIds, Take(a) PROVE pass' \in Passes
      BY <2>2, PassesGoOn DEF Take, AutomationTypes, PassAt
    <2>3. CASE RunWatcher
      BY <2>3, PassesGoOn DEF RunWatcher, AutomationTypes, Onward, PassAt
    <2>4. CASE LookUp \/ TriggerWorkflow \/ CreateOwnerTask \/ StartOwnerTask \/ RecordRun
      BY <2>4, PassesGoOn DEF LookUp, TriggerWorkflow, CreateOwnerTask, StartOwnerTask, RecordRun, At,
                              AutomationTypes, Onward, PassAt
    <2>5. CASE FinishPass \/ AutomationRestart
      BY <2>5, PassesGoOn DEF FinishPass, AutomationRestart, AutomationTypes
    <2>6. CASE UNCHANGED pass
      BY <2>6 DEF AutomationTypes
    <2> QED
      BY <2>1, <2>2, <2>3, <2>4, <2>5, <2>6
      DEF AutomationNext, ReconcileSteps, BeginRun, WriteAutomation, CreateAutomation, SetupChanges,
          BecomesDue, ReadAutomation, automationVars
  <1>6. /\ made' \in [Dispatches -> Nat] /\ waking' \subseteq Dispatches
        /\ started' \subseteq Dispatches /\ recorded' \subseteq Dispatches
    <2>1. CASE TriggerWorkflow
      BY <2>1 DEF TriggerWorkflow, AutomationTypes, SignalAtHand
    <2>2. CASE CreateOwnerTask
      BY <2>2 DEF CreateOwnerTask, AutomationTypes, SignalAtHand
    <2>3. CASE StartOwnerTask \/ RecordRun
      BY <2>3 DEF StartOwnerTask, RecordRun, AutomationTypes, SignalAtHand
    <2>4. ASSUME NEW d \in waking, BeginRun(d) PROVE <1>6!:
      BY <2>4 DEF BeginRun, AutomationTypes
    <2>5. CASE AutomationRestart
      BY <2>5 DEF AutomationRestart, AutomationTypes
    <2>6. CASE UNCHANGED dispatchVars
      BY <2>6 DEF AutomationTypes
    <2> QED
      BY <2>1, <2>2, <2>3, <2>4, <2>5, <2>6
      DEF AutomationNext, ReconcileSteps, ListAutomations, FinishPass, RunWatcher, LookUp, Take,
          WriteAutomation, CreateAutomation, SetupChanges, BecomesDue, ReadAutomation, automationVars
  <1> QED
    BY <1>1, <1>2, <1>3, <1>4, <1>5, <1>6, TroublesAreFew DEF AutomationTypes

-----------------------------------------------------------------------------
(* Steps *)

\* A run that begins no more is one that has begun, or met a mishap.
LEMMA RunsStillBegin ==
  ASSUME AutomationTypes, RunsBegin, UNCHANGED made, mishaps' \in {mishaps, mishaps + 1},
         started \cup waking \subseteq started' \cup waking' \/ mishaps' = mishaps + 1
  PROVE  RunsBegin'
  <1>1. mishaps \in Nat
    BY DEF AutomationTypes
  <1> QED
    BY <1>1 DEF RunsBegin

\* What clients, the disk and the clock do touches neither the loop nor what it has done.
LEMMA OthersKeep ==
  ASSUME DispatchInv,
         \/ WriteAutomation
         \/ \E a \in AutomationIds :
              \/ CreateAutomation(a) \/ SetupChanges(a) \/ BecomesDue(a)
              \/ \E c \in Callers, state \in {"active", "paused"} : ReadAutomation(c, a, state)
         \/ UNCHANGED automationVars
  PROVE  DispatchInv'
  <1>1. /\ UNCHANGED <<pass, made, waking, started, recorded>>
        /\ mishaps' \in {mishaps, mishaps + 1}
    BY DEF WriteAutomation, CreateAutomation, SetupChanges, BecomesDue, ReadAutomation, Mishap,
           automationVars, dispatchVars
  <1>2. AutomationTypes'
    BY TypesStay DEF DispatchInv, AutomationNext
  <1>3. Owed' = Owed
    BY <1>1 DEF Owed, Settled, UnderWay, ThisDispatch
  <1>4. EachIsPaidFor' /\ RunsBegin'
    BY <1>1, <1>3, NothingMoreIsOwed, RunsStillBegin DEF DispatchInv
  <1> QED
    BY <1>1, <1>2, <1>4 DEF DispatchInv, SignalAtHand, NotRecordedYet, StartedFirst, BeingRecorded,
                            OneRunOfWorkflow, ThisDispatch

\* A run's goroutine is no concern of the loop's.
LEMMA BeginningKeeps == ASSUME DispatchInv, NEW d \in waking, BeginRun(d) PROVE DispatchInv'
  <1>1. /\ UNCHANGED <<pass, made, recorded>>
        /\ started \subseteq started'
        /\ mishaps' \in {mishaps, mishaps + 1}
        /\ started \cup waking \subseteq started' \cup waking' \/ mishaps' = mishaps + 1
    BY DEF BeginRun, Mishap
  <1>2. AutomationTypes'
    BY TypesStay DEF DispatchInv, AutomationNext
  <1>3. Owed' = Owed
    BY <1>1 DEF Owed, Settled, UnderWay, ThisDispatch
  <1>4. EachIsPaidFor' /\ RunsBegin'
    BY <1>1, <1>3, NothingMoreIsOwed, RunsStillBegin DEF DispatchInv
  <1>5. StartedFirst'
    BY <1>1 DEF DispatchInv, StartedFirst, BeingRecorded, ThisDispatch
  <1> QED
    BY <1>1, <1>2, <1>4, <1>5 DEF DispatchInv, SignalAtHand, NotRecordedYet, OneRunOfWorkflow,
                                  ThisDispatch

\* A step of the loop that dispatches nothing and records nothing.
LEMMA LoopKeeps ==
  ASSUME DispatchInv,
         \/ ListAutomations \/ FinishPass \/ RunWatcher \/ LookUp
         \/ \E a \in AutomationIds : Take(a)
  PROVE  DispatchInv'
  <1> USE DEF dispatchVars
  <1>1. /\ UNCHANGED <<made, waking, started, recorded>>
        /\ mishaps' \in {mishaps, mishaps + 1}
        /\ pass.at \in {"idle", "list", "watch", "lookup"}
        /\ pass'.at \in {"idle", "list", "watch", "lookup", "dispatch"}
    <2>1. CASE ListAutomations
      <3>1. pass.at = "idle" /\ pass'.at \in {"idle", "list"}
        BY <2>1, PassBegins DEF ListAutomations
      <3> QED
        BY <2>1, <3>1 DEF ListAutomations, Mishap
    <2>2. CASE FinishPass
      BY <2>2 DEF FinishPass, NoPass
    <2>3. ASSUME NEW a \in AutomationIds, Take(a) PROVE <1>1!:
      BY <2>3 DEF DispatchInv, AutomationTypes, Passes, Take
    <2>4. CASE RunWatcher
      BY <2>4 DEF DispatchInv, AutomationTypes, Passes, RunWatcher, Onward
    <2>5. CASE LookUp
      BY <2>5 DEF DispatchInv, AutomationTypes, Passes, LookUp, Mishap, Onward
    <2> QED
      BY <2>1, <2>2, <2>3, <2>4, <2>5
  <1>2. AutomationTypes'
    BY TypesStay DEF DispatchInv, AutomationNext, ReconcileSteps
  <1>3. SignalAtHand' /\ NotRecordedYet'
    <2>1. CASE ListAutomations
      BY <2>1, PassBegins DEF SignalAtHand, NotRecordedYet, ListAutomations
    <2>5. CASE FinishPass
      BY <2>5 DEF SignalAtHand, NotRecordedYet, FinishPass, NoPass
    <2>2. ASSUME NEW a \in AutomationIds, Take(a) PROVE SignalAtHand' /\ NotRecordedYet'
      BY <2>2 DEF DispatchInv, AutomationTypes, Passes, SignalAtHand, NotRecordedYet, Take
    <2>3. CASE RunWatcher
      BY <2>3 DEF DispatchInv, AutomationTypes, Passes, SignalAtHand, NotRecordedYet, ThisDispatch,
                  Dispatches, RunWatcher, Onward
    <2>4. CASE LookUp
      BY <2>4 DEF DispatchInv, AutomationTypes, Passes, SignalAtHand, NotRecordedYet, ThisDispatch,
                  LookUp, Onward
    <2> QED
      BY <2>1, <2>2, <2>3, <2>4, <2>5
  <1>4. EachIsPaidFor' /\ RunsBegin'
    BY <1>1, <1>2, OwedStays, NothingMoreIsOwed, RunsStillBegin DEF DispatchInv, UnderWay
  <1> QED
    BY <1>1, <1>2, <1>3, <1>4 DEF DispatchInv, StartedFirst, BeingRecorded, OneRunOfWorkflow

\* A workflow's run is found or stored; a task is created once more, and the one that
\* was there before is owed already.
LEMMA DispatchKeeps ==
  ASSUME DispatchInv, TriggerWorkflow \/ CreateOwnerTask PROVE DispatchInv'
  <1> DEFINE d == ThisDispatch
  <1>1. /\ d \in Dispatches /\ d \notin recorded /\ d[1] = pass.id
        /\ pass.at = "dispatch"
    BY DEF DispatchInv, SignalAtHand, NotRecordedYet, TriggerWorkflow, CreateOwnerTask, ThisDispatch
  <1>2. AutomationTypes'
    BY TypesStay DEF DispatchInv, AutomationNext, ReconcileSteps
  <1>3. CASE /\ pass.id \in WorkflowBacked
             /\ made' = [made EXCEPT ![d] = 1]
             /\ (waking' = waking /\ made[d] = 1) \/ waking' = waking \cup {d}
             /\ pass' = [pass EXCEPT !.at = "record"] /\ UNCHANGED <<started, recorded, mishaps>>
    <2>1. ThisDispatch' = d /\ pass'.at = "record"
      BY <1>3 DEF DispatchInv, AutomationTypes, Passes, ThisDispatch
    <2>2. made[d] \in {0, 1}
      BY <1>1, <1>3 DEF DispatchInv, AutomationTypes, OneRunOfWorkflow
    <2>3. Owed' \subseteq Owed
      <3> SUFFICES ASSUME NEW x \in Dispatches \X Nat, IsOwed(x)' PROVE IsOwed(x)
        BY <1>2, OwedIs, OwedWillBe DEF DispatchInv
      <3>1. x[2] \in 1 .. made'[x[1]] /\ (x[2] < made'[x[1]] \/ ~ Settled(x[1])')
        BY DEF IsOwed
      <3>2. x[1] # d
        BY <1>1, <1>3, <2>1, <3>1 DEF Settled, UnderWay, DispatchInv, AutomationTypes
      <3>3. made'[x[1]] = made[x[1]]
        BY <1>3, <3>2 DEF DispatchInv, AutomationTypes
      <3>4. ~ Settled(x[1])' => ~ Settled(x[1])
        BY <1>1, <1>3 DEF Settled, UnderWay
      <3> QED
        BY <3>1, <3>3, <3>4 DEF IsOwed
    <2>4. EachIsPaidFor'
      BY <1>3, <2>3, NothingMoreIsOwed DEF DispatchInv
    <2>5. SignalAtHand' /\ NotRecordedYet'
      BY <1>1, <1>3, <2>1 DEF DispatchInv, SignalAtHand, NotRecordedYet
    <2>6. OneRunOfWorkflow'
      BY <1>1, <1>3, <2>1 DEF DispatchInv, AutomationTypes, OneRunOfWorkflow
    <2>7. /\ made'[d] = 1
          /\ \A e \in Dispatches : e # d => made'[e] = made[e]
      BY <1>1, <1>3 DEF DispatchInv, AutomationTypes
    <2>8. StartedFirst'
      BY <1>1, <1>3, <2>1, <2>7 DEF DispatchInv, StartedFirst, BeingRecorded
    <2>9. RunsBegin'
      BY <1>1, <1>3, <2>7 DEF DispatchInv, RunsBegin
    <2> QED
      BY <1>2, <2>4, <2>5, <2>6, <2>8, <2>9 DEF DispatchInv
  <1>4. CASE /\ pass.id \notin WorkflowBacked
             /\ made' = [made EXCEPT ![d] = @ + 1]
             /\ pass' = [pass EXCEPT !.at = "start"]
             /\ UNCHANGED <<waking, started, recorded, mishaps>>
    <2>1. ThisDispatch' = d /\ pass'.at = "start" /\ pass'.id = pass.id
      BY <1>4 DEF DispatchInv, AutomationTypes, Passes, ThisDispatch
    <2>3. Owed' \subseteq Owed
      <3> SUFFICES ASSUME NEW x \in Dispatches \X Nat, IsOwed(x)' PROVE IsOwed(x)
        BY <1>2, OwedIs, OwedWillBe DEF DispatchInv
      <3>1. x[2] \in 1 .. made'[x[1]] /\ (x[2] < made'[x[1]] \/ ~ Settled(x[1])')
        BY DEF IsOwed
      <3>2. CASE x[1] = d
        <4>1. made'[d] = made[d] + 1 /\ made[d] \in Nat
          BY <1>1, <1>4 DEF DispatchInv, AutomationTypes
        <4>2. ~ Settled(d)
          BY <1>1, <1>4, <2>1 DEF Settled, UnderWay
        <4>3. x[2] \in 1 .. made[d]
          <5>1. x[2] \in 1 .. made[d] + 1 /\ x[2] < made[d] + 1
            <6>1. Settled(x[1])'
              BY <1>4, <2>1, <3>2 DEF Settled, UnderWay
            <6>2. made'[x[1]] = made[d] + 1
              BY <3>2, <4>1
            <6> HIDE DEF d
            <6> QED
              BY <3>1, <6>1, <6>2
          <5> HIDE DEF d
          <5> QED
            BY <4>1, <5>1
        <4> QED
          BY <3>2, <4>2, <4>3 DEF IsOwed
      <3>3. CASE x[1] # d
        <4>1. made'[x[1]] = made[x[1]]
          BY <1>4, <3>3 DEF DispatchInv, AutomationTypes
        <4>2. ~ Settled(x[1])' => ~ Settled(x[1])
          BY <1>1, <1>4 DEF Settled, UnderWay
        <4> QED
          BY <3>1, <4>1, <4>2 DEF IsOwed
      <3> QED
        BY <3>2, <3>3
    <2>4. EachIsPaidFor'
      BY <1>4, <2>3, NothingMoreIsOwed DEF DispatchInv
    <2>5. SignalAtHand' /\ NotRecordedYet'
      BY <1>1, <1>4, <2>1 DEF DispatchInv, SignalAtHand, NotRecordedYet
    <2>6. OneRunOfWorkflow'
      BY <1>1, <1>4, <2>1 DEF DispatchInv, AutomationTypes, OneRunOfWorkflow
    <2>7. \A e \in Dispatches : e[1] \in WorkflowBacked => made'[e] = made[e]
      BY <1>1, <1>4 DEF DispatchInv, AutomationTypes
    <2>8. StartedFirst'
      BY <1>4, <2>1, <2>7 DEF DispatchInv, StartedFirst, BeingRecorded
    <2>9. RunsBegin'
      BY <1>4, <2>7 DEF DispatchInv, RunsBegin
    <2> QED
      BY <1>2, <2>4, <2>5, <2>6, <2>8, <2>9 DEF DispatchInv
  <1>5. CASE /\ pass' = Onward /\ UNCHANGED <<made, waking, started, recorded>>
             /\ mishaps' \in {mishaps, mishaps + 1}
    <2>1. pass'.at = "list"
      BY <1>5 DEF Onward, DispatchInv, AutomationTypes, Passes
    <2>2. EachIsPaidFor' /\ RunsBegin'
      BY <1>1, <1>2, <1>5, OwedStays, NothingMoreIsOwed, RunsStillBegin DEF DispatchInv, UnderWay
    <2> QED
      BY <1>2, <1>5, <2>1, <2>2 DEF DispatchInv, SignalAtHand, NotRecordedYet, StartedFirst,
                                    BeingRecorded, OneRunOfWorkflow
  <1>6. made[d] = 1 => made = [made EXCEPT ![d] = 1]
    BY <1>1 DEF DispatchInv, AutomationTypes
  <1>7. CASE TriggerWorkflow
    BY <1>3, <1>5, <1>6, <1>7 DEF TriggerWorkflow, At, Mishap
  <1>8. CASE CreateOwnerTask
    BY <1>4, <1>5, <1>8 DEF CreateOwnerTask, At, Mishap
  <1> QED
    BY <1>7, <1>8

\* The task is settled as long as the loop is with it; a mishap that ends this pays for it.
LEMMA SettlingKeeps ==
  ASSUME DispatchInv, StartOwnerTask \/ RecordRun \/ AutomationRestart PROVE DispatchInv'
  <1> DEFINE d == ThisDispatch
  <1>1. AutomationTypes'
    BY TypesStay DEF DispatchInv, AutomationNext, ReconcileSteps
  <1>2. CASE /\ pass.at = "start" /\ pass' = [pass EXCEPT !.at = "record"]
             /\ started' = started \cup {d} /\ UNCHANGED <<made, waking, recorded, mishaps>>
    <2>1. ThisDispatch' = d /\ pass'.at = "record"
      BY <1>2 DEF DispatchInv, AutomationTypes, Passes, ThisDispatch
    <2>2. EachIsPaidFor' /\ RunsBegin'
      BY <1>1, <1>2, <2>1, OwedStays, NothingMoreIsOwed, RunsStillBegin DEF DispatchInv, UnderWay
    <2>3. d \in Dispatches /\ d[1] \notin WorkflowBacked
      BY <1>2 DEF DispatchInv, SignalAtHand, OneRunOfWorkflow, ThisDispatch
    <2>4. StartedFirst'
      BY <1>2, <2>1, <2>3 DEF DispatchInv, StartedFirst, BeingRecorded
    <2> QED
      BY <1>1, <1>2, <2>1, <2>2, <2>3, <2>4
      DEF DispatchInv, SignalAtHand, NotRecordedYet, OneRunOfWorkflow
  <1>3. CASE /\ pass'.at \in {"list", "idle"} /\ mishaps' = mishaps + 1
             /\ UNCHANGED <<made, started, recorded>>
    <2>1. EachIsPaidFor' /\ RunsBegin'
      BY <1>1, <1>3, OwedGrowsByOne, OneMoreIsOwed, RunsStillBegin DEF DispatchInv
    <2> QED
      BY <1>1, <1>3, <2>1 DEF DispatchInv, SignalAtHand, NotRecordedYet, StartedFirst, BeingRecorded,
                              OneRunOfWorkflow
  <1>4. CASE /\ pass.at = "record" /\ pass'.at = "list"
             /\ recorded' = recorded \cup {d} /\ UNCHANGED <<made, waking, started, mishaps>>
    <2>1. \A e \in Dispatches : Settled(e) => Settled(e)'
      BY <1>4 DEF Settled, UnderWay
    <2>2. Owed' \subseteq Owed
      BY <1>1, <1>4, <2>1, OwedIs, OwedWillBe DEF DispatchInv, IsOwed
    <2>3. EachIsPaidFor' /\ RunsBegin'
      BY <1>4, <2>2, NothingMoreIsOwed, RunsStillBegin DEF DispatchInv
    <2> QED
      BY <1>1, <1>4, <2>3 DEF DispatchInv, SignalAtHand, NotRecordedYet, StartedFirst, BeingRecorded,
                              OneRunOfWorkflow
  <1> QED
    BY <1>2, <1>3, <1>4 DEF StartOwnerTask, RecordRun, AutomationRestart, Mishap, Onward, At, NoPass,
                            DispatchInv, AutomationTypes, Passes

LEMMA DispatchStep == DispatchInv /\ [AutomationNext]_automationVars => DispatchInv'
  BY OthersKeep, BeginningKeeps, LoopKeeps, DispatchKeeps, SettlingKeeps DEF AutomationNext, ReconcileSteps

-----------------------------------------------------------------------------

\* The loop's place, its records and the tasks it has created fit together, and each
\* task that is neither recorded nor at hand is owed to a store error or a restart
\* (automation/service.go:146, 231).
THEOREM DispatchInvariant == AutomationSpec => []DispatchInv
  BY DispatchInitially, DispatchStep, PTL DEF AutomationSpec

\* Every variable has its type.
THEOREM TypesOfAutomation == AutomationSpec => []AutomationTypeOK
  <1>1. DispatchInv => AutomationTypeOK
    BY DEF DispatchInv, AutomationTypes, AutomationTypeOK, Passes
  <1> QED
    BY <1>1, DispatchInvariant, PTL

\* A signal has one task or run, but for one more per store error or restart; a
\* workflow has no second one; a recorded task was started, and a recorded run was, or
\* is about to be, or met a store error or a restart before its first write
\* (automation/service.go:146, 153; workflows/service.go:160, 376).
THEOREM SignalsAreDispatchedOnce == AutomationSpec => []OneDispatchPerSignal
  <1>1. DispatchInv => OneDispatchPerSignal
    BY RepeatsAreOwed DEF DispatchInv, AutomationTypes, StartedFirst, BeingRecorded, RunsBegin,
                          OneRunOfWorkflow, OneDispatchPerSignal
  <1> QED
    BY <1>1, DispatchInvariant, PTL
=============================================================================
