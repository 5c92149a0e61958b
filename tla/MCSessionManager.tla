-------------------------- MODULE MCSessionManager --------------------------
(***************************************************************************)
(* A small instance of SessionManager for TLC.  Three user messages and    *)
(* two report batches are the fewest turns with which a batch can be       *)
(* active, a second one queued, a user message waiting behind it and       *)
(* another one preempting.                                                 *)
(***************************************************************************)
EXTENDS SessionManager

MCUserTurns == {"u1", "u2", "u3"}
MCBatchTurns == {"b1", "b2"}
=============================================================================
