---------------------------- MODULE MCTaskManager ----------------------------
(***************************************************************************)
(* Small instances of TaskManager for TLC.  Two tasks compete for the      *)
(* manager's lock; each is created in every way the callers do.  They are  *)
(* interchangeable, which the safety run makes use of.                     *)
(***************************************************************************)
EXTENDS TaskManager, TLC

MCAllOrigins == (Kind \X {"http"}) \cup ({"agent"} \X {"tool", "workflow"})

MCSymmetry == Permutations(Tasks)
=============================================================================
