----------------------------- MODULE MCWorkflow -----------------------------
(***************************************************************************)
(* Small instances of Workflow for TLC: a gate between two tasks.          *)
(***************************************************************************)
EXTENDS Workflow

MCSteps == <<"role_task", "approval", "role_task">>
MCOneGate == <<"approval", "role_task">>
=============================================================================
