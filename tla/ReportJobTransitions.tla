----------------------- MODULE ReportJobTransitions -----------------------
(***************************************************************************)
(* What table report_job allows to happen to a row, whoever updates it:    *)
(* the trigger enforce_report_job_transition of 0032_report_job_core.sql.  *)
(* An update outside Transition raises and rolls back its transaction.     *)
(* "none" is a row that is not inserted yet.                               *)
(***************************************************************************)
EXTENDS Naturals

CONSTANTS Keys,         \* idempotency keys: one row each
          MaxAttempts   \* report_job.max_attempts

VARIABLES status, attempt, scope

JobStatus == {"queued", "running", "succeeded", "failed", "canceled"}

\* the edges of the status column
Edge(k) ==
    \/ status[k] = "queued" /\ status'[k] \in {"running", "canceled"}
    \/ status[k] = "running" /\ status'[k] \in {"succeeded", "failed"}
    \/ status[k] = "failed" /\ status'[k] = "queued" /\ attempt[k] < MaxAttempts

\* a claim increments attempt, nothing else touches it
AttemptRule(k) ==
    attempt'[k] = IF status[k] = "queued" /\ status'[k] = "running"
                  THEN attempt[k] + 1 ELSE attempt[k]

Insert(k) ==
    /\ status[k] = "none"
    /\ status'[k] = "queued"
    /\ attempt'[k] = 0

Update(k) ==
    /\ status[k] \in JobStatus \ {"succeeded", "canceled"}
    /\ Edge(k)
    /\ AttemptRule(k)
    /\ scope'[k] = scope[k]

Same(k) == status'[k] = status[k] /\ attempt'[k] = attempt[k] /\ scope'[k] = scope[k]

Init == /\ \A k \in Keys : status[k] = "none"
        /\ \A k \in Keys : attempt[k] = 0

Next == \A k \in Keys : Insert(k) \/ Update(k) \/ Same(k)

Spec == Init /\ [][Next]_<<status, attempt, scope>>
=============================================================================
