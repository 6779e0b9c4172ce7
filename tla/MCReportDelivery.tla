-------------------------- MODULE MCReportDelivery --------------------------
(***************************************************************************)
(* Instances of ReportDelivery for TLC: the keys are those of the          *)
(* schedules' slots and, where WebKeys is not empty, of web requests that  *)
(* compete with them for the workers.                                      *)
(***************************************************************************)
EXTENDS ReportDelivery

CONSTANT WebKeys

AllKeys == WebKeys \cup (Schedules \X (1 .. MaxSlot))

SharedId == [p \in Procs |-> "report-worker"]
=============================================================================
