-------------------------- MODULE MCReportDelivery --------------------------
(***************************************************************************)
(* Small instances of ReportDelivery for TLC: reports for one session, a   *)
(* user and a client that submits a batch of its own.  The service needs   *)
(* at most one batch turn per report, per store error and per restart, so  *)
(* it never runs out of turn ids.                                          *)
(***************************************************************************)
EXTENDS ReportDelivery

MCUserTurns == {"u1"}
MCTwoReports == {"r1", "r2"}
MCOneReport == {"r1"}
MCHttpBatches == {"h1"}

MCServiceBatches == {"b1", "b2", "b3"}
MCBatchTurns == MCServiceBatches \cup MCHttpBatches
=============================================================================
