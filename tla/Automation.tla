------------------------------ MODULE Automation ------------------------------
(***************************************************************************)
(* internal/v2/automation: watcher scripts that the daemon runs for roles, *)
(* with the handlers (app/routes.go) and the tools                         *)
(* (tools/namespace_automation.go) that create, pause and resume them.     *)
(*                                                                         *)
(* One goroutine reconciles: it lists the automations, and for each one    *)
(* that is active and due it runs the watcher and dispatches the signal    *)
(* that the watcher gives to the owner role, as a task, or as a run of the *)
(* automation's workflow.  The look for an earlier dispatch, the dispatch  *)
(* and the record of it are calls of the store one after the other.  A     *)
(* workflow's run is stored as queued; a goroutine of its own, which does  *)
(* not outlive the daemon, makes it a running one.                         *)
(*                                                                         *)
(* A watcher's output is the key of its signal; "quiet" stands for every   *)
(* status but needs_agent and for output that is an error.  Their runs,    *)
(* and those of failed dispatches, are stored under a key of their own     *)
(* that nobody looks up: nothing is left of them here.                     *)
(***************************************************************************)
EXTENDS Naturals, FiniteSets

CONSTANTS
  AutomationIds,
  WorkflowBacked,     \* those that name a workflow
  RunsOnce,           \* those with an "@every" schedule that cannot be parsed
  OwnerRole,          \* the role that owns an automation
  Callers,            \* [http, role, owns, skilled]: handlers and the roles of tools
  Signals,            \* what a watcher may report
  AutomationLimit,    \* bound on automations
  AutomationTroubles  \* bound on store errors and restarts

ASSUME AutomationParameters ==
  /\ WorkflowBacked \subseteq AutomationIds /\ RunsOnce \subseteq AutomationIds
  /\ AutomationLimit \in Nat /\ AutomationTroubles \in Nat

VARIABLES
  automation,  \* the state in an automation's row, "none" before it is stored
  setup,       \* what is there for it: the role, its watcher; its workflow, with steps
  signal,      \* what its watcher would report
  lastRuns,    \* the automations that are not due again yet (in memory)
  pass,        \* the reconcile loop
  request,     \* a request that has read a row and is about to write it
  made,        \* the tasks or workflow runs created for a signal
  waking,      \* the signals with a queued run and a goroutine about to begin it
  started,     \* the signals of which one was started
  recorded,    \* the dispatches in v2_automation_runs
  mishaps      \* store errors and restarts

automationVars ==
  <<automation, setup, signal, lastRuns, pass, request, made, waking, started, recorded,
    mishaps>>

\* What a pass has done about signals.
dispatchVars == <<made, waking, started, recorded>>

Dispatches == AutomationIds \X Signals

\* Pass: the automations that are left of the list, and the one at hand.
NoPass == [at |-> "idle", left |-> {}, id |-> "none", key |-> "quiet"]
PassAt == {"idle", "list", "watch", "lookup", "dispatch", "start", "record"}

NoRequest == [id |-> "none", state |-> "none"]

Mishap == mishaps < AutomationTroubles /\ mishaps' = mishaps + 1

AutomationInit ==
  /\ automation = [a \in AutomationIds |-> "none"]
  /\ setup = [a \in AutomationIds |-> {"role"}]
  /\ signal = [a \in AutomationIds |-> "quiet"]
  /\ lastRuns = {}
  /\ pass = NoPass
  /\ request = NoRequest
  /\ made = [d \in Dispatches |-> 0]
  /\ waking = {}
  /\ started = {}
  /\ recorded = {}
  /\ mishaps = 0

-----------------------------------------------------------------------------
(* Clients *)

\* The role must be installed; the watcher need not be there yet.  A tool makes
\* active automations, a client may store one in either state.
CreateAutomation(a) ==
  /\ automation[a] = "none"
  /\ Cardinality({b \in AutomationIds : automation[b] # "none"}) < AutomationLimit
  /\ "role" \in setup[a]
  /\ \E state \in {"active", "paused"} : automation' = [automation EXCEPT ![a] = state]
  /\ UNCHANGED <<setup, signal, lastRuns, pass, request, dispatchVars, mishaps>>

\* roleCanControlAutomation: a role controls what it owns, and what its spec
\* lists, by the automation's id or by its owner.
RoleControls(c, a) == OwnerRole[a] = c.role \/ {a, OwnerRole[a]} \cap c.owns # {}

\* Pause and Resume read the row, once the tool has found that its caller has
\* the two skills and controls the automation; the HTTP handlers ask for nothing.
ReadAutomation(c, a, state) ==
  /\ request = NoRequest
  /\ automation[a] # "none"
  /\ c.http \/ (c.skilled /\ RoleControls(c, a))
  /\ state = "active" => {"role", "watcher"} \subseteq setup[a]
  /\ request' = [id |-> a, state |-> state]
  /\ UNCHANGED <<automation, setup, signal, lastRuns, pass, dispatchVars, mishaps>>

\* ... and write it back with the new state.
WriteAutomation ==
  /\ request # NoRequest
  /\ \/ automation' = [automation EXCEPT ![request.id] = request.state] /\ UNCHANGED mishaps
     \/ Mishap /\ UNCHANGED automation
  /\ request' = NoRequest
  /\ UNCHANGED <<setup, signal, lastRuns, pass, dispatchVars>>

\* A role can be there without the watcher in its folder; a workflow that exists in the
\* automation's workspace, with a trigger that can be used, without steps that can.
Setups(a) ==
  {files \cup rows : files \in {{}, {"role"}, {"role", "watcher"}},
                    rows \in IF a \in WorkflowBacked
                            THEN {{}, {"workflow"}, {"workflow", "steps"}} ELSE {{}}}

\* A role is installed or removed, a watcher written, a workflow created or changed;
\* what the watcher sees changes.
SetupChanges(a) ==
  /\ automation[a] # "none"
  /\ \/ \E things \in Setups(a) :
          things # setup[a] /\ setup' = [setup EXCEPT ![a] = things] /\ UNCHANGED signal
     \/ \E s \in Signals \cup {"quiet"} :
          s # signal[a] /\ signal' = [signal EXCEPT ![a] = s] /\ UNCHANGED setup
  /\ UNCHANGED <<automation, lastRuns, pass, request, dispatchVars, mishaps>>

-----------------------------------------------------------------------------
(* Reconcile *)

\* The schedule says that it is time again; one that due cannot parse never does.
BecomesDue(a) ==
  /\ a \in lastRuns \ RunsOnce
  /\ lastRuns' = lastRuns \ {a}
  /\ UNCHANGED <<automation, setup, signal, pass, request, dispatchVars, mishaps>>

ListAutomations ==
  /\ pass.at = "idle"
  /\ \/ /\ pass' = [NoPass EXCEPT !.at = "list",
                                  !.left = {a \in AutomationIds : automation[a] = "active"}]
        /\ UNCHANGED mishaps
     \/ Mishap /\ UNCHANGED pass
  /\ UNCHANGED <<automation, setup, signal, lastRuns, request, dispatchVars>>

\* The loop goes on with the next automation; errors are collected and logged.
Onward == [pass EXCEPT !.at = "list"]
At(next) == pass' = [pass EXCEPT !.at = next]

FinishPass ==
  /\ pass.at = "list" /\ pass.left = {}
  /\ pass' = NoPass
  /\ UNCHANGED <<automation, setup, signal, lastRuns, request, dispatchVars, mishaps>>

\* reconcileOne: the automation counts as run before anything is looked at.
\* Without role or watcher the run is an error.
Take(a) ==
  /\ pass.at = "list" /\ a \in pass.left
  /\ lastRuns' = lastRuns \cup {a}
  /\ pass' = [pass EXCEPT !.left = @ \ {a}, !.id = a,
       !.at = IF a \notin lastRuns /\ {"role", "watcher"} \subseteq setup[a] THEN "watch" ELSE "list"]
  /\ UNCHANGED <<automation, setup, signal, request, dispatchVars, mishaps>>

\* The watcher runs, for half a minute at most.
RunWatcher ==
  /\ pass.at = "watch"
  /\ pass' = IF signal[pass.id] \in Signals
             THEN [pass EXCEPT !.at = "lookup", !.key = signal[pass.id]] ELSE Onward
  /\ UNCHANGED <<automation, setup, signal, lastRuns, request, dispatchVars, mishaps>>

ThisDispatch == <<pass.id, pass.key>>

\* Mutant: earlier dispatches are not looked up.
LookUpNothing ==
  /\ pass.at = "lookup"
  /\ At("dispatch")
  /\ UNCHANGED <<automation, setup, signal, lastRuns, request, dispatchVars, mishaps>>

\* GetRunByDedupeKey: a signal that was dispatched is not dispatched again.
LookUp ==
  /\ pass.at = "lookup"
  /\ \/ /\ pass' = IF ThisDispatch \in recorded THEN Onward ELSE [pass EXCEPT !.at = "dispatch"]
        /\ UNCHANGED mishaps
     \/ Mishap /\ pass' = Onward
  /\ UNCHANGED <<automation, setup, signal, lastRuns, request, dispatchVars>>

\* triggerWorkflow and TriggerAsync: a run with the signal's reference is found,
\* whatever has become of it, or else stored as queued, and a goroutine begun for it.
\* Without a workflow to use, or steps for a new run, the dispatch is an error.
TriggerWorkflow ==
  LET d == ThisDispatch
      there == setup[pass.id]
  IN
  /\ pass.at = "dispatch" /\ pass.id \in WorkflowBacked
  /\ \/ /\ "workflow" \in there /\ made[d] = 1
        /\ At("record")
        /\ UNCHANGED <<made, waking, mishaps>>
     \/ /\ {"workflow", "steps"} \subseteq there /\ made[d] = 0
        /\ made' = [made EXCEPT ![d] = 1]
        /\ waking' = waking \cup {d}
        /\ At("record")
        /\ UNCHANGED mishaps
     \/ /\ \/ /\ "workflow" \notin there \/ (made[d] = 0 /\ "steps" \notin there)
              /\ UNCHANGED mishaps
           \/ Mishap
        /\ pass' = Onward
        /\ UNCHANGED <<made, waking>>
  /\ UNCHANGED <<automation, setup, signal, lastRuns, request, started, recorded>>

\* executeRun's first write makes the run a running one.  After an error of the store
\* it is failed, or queued for good.
BeginRun(d) ==
  /\ d \in waking
  /\ waking' = waking \ {d}
  /\ \/ started' = started \cup {d} /\ UNCHANGED mishaps
     \/ Mishap /\ UNCHANGED started
  /\ UNCHANGED <<automation, setup, signal, lastRuns, pass, request, made, recorded>>

\* createOwnerTask creates a task, if the role is still installed.
CreateOwnerTask ==
  /\ pass.at = "dispatch" /\ pass.id \notin WorkflowBacked
  /\ \/ /\ "role" \in setup[pass.id]
        /\ made' = [made EXCEPT ![ThisDispatch] = @ + 1]
        /\ At("start")
        /\ UNCHANGED mishaps
     \/ /\ \/ "role" \notin setup[pass.id] /\ UNCHANGED mishaps
           \/ Mishap
        /\ pass' = Onward
        /\ UNCHANGED made
  /\ UNCHANGED <<automation, setup, signal, lastRuns, request, waking, started, recorded>>

\* Mutant: a failed dispatch is recorded under the signal's own key.
StartOrRecord ==
  /\ pass.at = "start"
  /\ \/ started' = started \cup {ThisDispatch} /\ At("record") /\ UNCHANGED mishaps
     \/ Mishap /\ At("record") /\ UNCHANGED started
  /\ UNCHANGED <<automation, setup, signal, lastRuns, request, made, waking, recorded>>

\* The task is started.  An error leaves it pending, and the run's key unique.
StartOwnerTask ==
  /\ pass.at = "start"
  /\ \/ started' = started \cup {ThisDispatch} /\ At("record") /\ UNCHANGED mishaps
     \/ Mishap /\ pass' = Onward /\ UNCHANGED started
  /\ UNCHANGED <<automation, setup, signal, lastRuns, request, made, waking, recorded>>

\* recordRun
RecordRun ==
  /\ pass.at = "record"
  /\ \/ recorded' = recorded \cup {ThisDispatch} /\ UNCHANGED mishaps
     \/ Mishap /\ UNCHANGED recorded
  /\ pass' = Onward
  /\ UNCHANGED <<automation, setup, signal, lastRuns, request, made, waking, started>>

\* The daemon starts again, and knows no last runs.  markInterrupted looks for running
\* runs only: a queued one stays as it is, without a goroutine.
AutomationRestart ==
  /\ Mishap
  /\ lastRuns' = {} /\ pass' = NoPass /\ request' = NoRequest /\ waking' = {}
  /\ UNCHANGED <<automation, setup, signal, made, started, recorded>>

ReconcileSteps ==
  \/ ListAutomations \/ FinishPass \/ RunWatcher \/ LookUp
  \/ TriggerWorkflow \/ CreateOwnerTask \/ StartOwnerTask \/ RecordRun
  \/ \E a \in AutomationIds : Take(a)

AutomationNext ==
  \/ ReconcileSteps
  \/ \E d \in waking : BeginRun(d)
  \/ WriteAutomation \/ AutomationRestart
  \/ \E a \in AutomationIds :
       \/ CreateAutomation(a) \/ SetupChanges(a) \/ BecomesDue(a)
       \/ \E c \in Callers, state \in {"active", "paused"} : ReadAutomation(c, a, state)

\* The loop's goroutine and those of runs are scheduled, and time passes.
AutomationFairness ==
  /\ WF_automationVars(ReconcileSteps)
  /\ \A d \in Dispatches : WF_automationVars(BeginRun(d))
  /\ \A a \in AutomationIds : WF_automationVars(BecomesDue(a))

AutomationSpec == AutomationInit /\ [][AutomationNext]_automationVars /\ AutomationFairness

-----------------------------------------------------------------------------

\* Every variable has its type.
AutomationTypeOK ==
  /\ automation \in [AutomationIds -> {"none", "active", "paused"}]
  /\ setup \in [AutomationIds -> SUBSET {"role", "watcher", "workflow", "steps"}]
  /\ signal \in [AutomationIds -> Signals \cup {"quiet"}]
  /\ lastRuns \subseteq AutomationIds
  /\ pass \in [at : PassAt, left : SUBSET AutomationIds,
               id : AutomationIds \cup {"none"}, key : Signals \cup {"quiet"}]
  /\ made \in [Dispatches -> Nat]
  /\ waking \cup started \cup recorded \subseteq Dispatches
  /\ mishaps \in 0 .. AutomationTroubles

\* The tasks of a signal but the last, by number.
Repeats == UNION {{d} \X (1 .. made[d] - 1) : d \in Dispatches}

\* The run of a workflow that was never begun and never will be.
Abandoned(d) == d[1] \in WorkflowBacked /\ made[d] > 0 /\ d \notin waking \cup started

\* A signal has one task or workflow run, over every number of passes, requests
\* and changes of what is there: each further one is owed to a store error or a
\* restart of its own, between the creation and the record, and a workflow has no
\* further one at all.  The task of a signal that is recorded as dispatched was
\* started; a workflow's run was, or has a goroutine that will begin it, unless an
\* error of the store or a restart came before its first write.
OneDispatchPerSignal ==
  /\ Cardinality(Repeats) <= mishaps
  /\ \A d \in Dispatches : made[d] > 1 => d[1] \notin WorkflowBacked
  /\ \A d \in recorded :
       d \in started \/ (d[1] \in WorkflowBacked /\ (d \in waking \/ mishaps > 0))

\* A signal that stays is dispatched, if from some time on the automation is active
\* and all that it needs is there: whatever failed before, the next passes make up
\* for it.  They do not for a workflow's run that was stored and abandoned, nor does
\* an automation whose schedule cannot be parsed have a next pass.
SignalsAreDispatched ==
  \A d \in Dispatches :
    LET a == d[1]
        Stays == /\ automation[a] = "active" /\ signal[a] = d[2]
                 /\ {"role", "watcher"} \subseteq setup[a]
                 /\ a \in WorkflowBacked => {"workflow", "steps"} \subseteq setup[a]
    IN  a \notin RunsOnce /\ <>[]Stays => <>(d \in started \/ Abandoned(d))
=============================================================================
