------------------------------ MODULE MCProgress ------------------------------
(***************************************************************************)
(* What must happen to tasks and to the signals of automations.  The two   *)
(* share no state here, as a task that an automation has started is one of *)
(* TaskManager's; `focus' is the one that a behaviour is about.  Of the    *)
(* automations one has a task for its signals, one a workflow, and one a   *)
(* schedule that cannot be parsed.                                         *)
(***************************************************************************)
EXTENDS TaskManager, Automation

VARIABLE focus

\* A caller that waits for its task, and one that does not.
MCTwoOrigins == {<<"agent", "workflow">>, <<"shell", "http">>}

MCOwnerRole == [a \in AutomationIds |-> "r1"]
MCCallers == {[http |-> FALSE, role |-> "r1", owns |-> {}, skilled |-> TRUE],
              [http |-> TRUE, role |-> "none", owns |-> {}, skilled |-> FALSE]}

ProgressInit == focus \in {"tasks", "automations"} /\ Init /\ AutomationInit

ProgressNext ==
  \/ focus = "tasks" /\ Next /\ UNCHANGED <<automationVars, focus>>
  \/ focus = "automations" /\ AutomationNext /\ UNCHANGED <<vars, focus>>

\* The fairness of Automation counts for behaviours about it.
ProgressSpec ==
  /\ ProgressInit /\ [][ProgressNext]_<<vars, automationVars, focus>>
  /\ Fairness
  /\ WF_automationVars(focus = "automations" /\ ReconcileSteps)
  /\ \A d \in Dispatches : WF_automationVars(focus = "automations" /\ BeginRun(d))
  /\ \A a \in AutomationIds : WF_automationVars(focus = "automations" /\ BecomesDue(a))
=============================================================================
