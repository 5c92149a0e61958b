-------------------------- MODULE MCTurnLifecycle --------------------------
(***************************************************************************)
(* A small instance of TurnLifecycle for TLC: the message of an agent task *)
(* and a report batch share a session.  The batch can wait behind the      *)
(* message or be preempted by it, so that two agents are at work and a     *)
(* hand-over can follow an interruption.                                   *)
(***************************************************************************)
EXTENDS TurnLifecycle

MCUserTurns == {"task"}
MCTaskTurns == {"task"}
MCBatchTurns == {"b1"}
=============================================================================
