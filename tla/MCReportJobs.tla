---------------------------- MODULE MCReportJobs ----------------------------
(***************************************************************************)
(* Instances of ReportJobs for TLC.  Every process has the default worker  *)
(* id, the case in which the worker_id column tells them least apart.      *)
(***************************************************************************)
EXTENDS ReportJobs

SharedId == [p \in Procs |-> "report-worker"]
=============================================================================
