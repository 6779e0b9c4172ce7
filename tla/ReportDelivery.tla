--------------------------- MODULE ReportDelivery ---------------------------
(***************************************************************************)
(* Scheduled reports, on top of the job queue of ReportJobs:               *)
(* services/reports/scheduled_delivery.py turns every due slot of a        *)
(* schedule into a report job and a delivery run, and routes the finished  *)
(* artifact to the recipient through the notification router.              *)
(*                                                                         *)
(* Slots are the instants next_run yields, numbered in order; now is the   *)
(* last slot that has come.  The job of slot n of schedule s has the       *)
(* idempotency key <<s, n>>, and so has its delivery run.  enqueue_due and *)
(* route_completed each lock what they update, so each is one step.        *)
(***************************************************************************)
EXTENDS ReportJobs, SequencesExt

CONSTANTS Schedules,      \* table report_delivery_schedule
          MaxSlot,        \* bound: slots
          ScheduledScope  \* the report a schedule asks for

Slots == 1 .. MaxSlot

Runs == Schedules \X Slots

ASSUME DeliveryAssumption ==
    /\ Runs \subseteq Keys
    /\ IsFiniteSet(Schedules)
    /\ MaxSlot \in Nat
    /\ ScheduledScope \in Scopes

VARIABLES
    now,        \* last slot whose instant has passed
    nextRun,    \* next_run_at; 0 for a schedule that does not exist yet
    first,      \* history: nextRun when the schedule was created
    run,        \* report_delivery_run.status
    members,    \* schedules whose recipient is a tenant member
    notified    \* runs with a report_ready event (one per dedupe_key)

deliveryVars == <<now, nextRun, first, run, members, notified>>
allVars == <<vars, deliveryVars>>

RunStatus == {"none", "queued", "artifact_pending", "routed", "blocked_recipient",
              "blocked_expired", "failed"}

DeliveryInit ==
    /\ Init
    /\ now = 0
    /\ nextRun = [s \in Schedules |-> 0]
    /\ first = [s \in Schedules |-> 0]
    /\ run = [r \in Runs |-> "none"]
    /\ members = Schedules
    /\ notified = {}

\* next_run(spec, after): the first slot strictly after
NextRun(n) == n + 1

\* create_schedule
CreateSchedule(s) ==
    /\ nextRun[s] = 0
    /\ s \in members
    /\ nextRun' = [nextRun EXCEPT ![s] = NextRun(now)]
    /\ first' = [first EXCEPT ![s] = NextRun(now)]
    /\ UNCHANGED <<vars, now, run, members, notified>>

DueSchedules == {s \in Schedules : 0 < nextRun[s] /\ nextRun[s] <= now}

\* the key is free, or its job is the one asked for; otherwise enqueue_job raises
\* IdempotencyConflict
Acceptable(k) == status[k] = "none" \/ scope[k] = ScheduledScope

\* enqueue_job for every key of K; a key that has its job already is rejoined.
\* The jobs of one transaction have one queued_at: they are claimed in any order.
EnqueueJobs(K) ==
    LET fresh == {k \in K : status[k] = "none"} IN
    /\ \A k \in K : Acceptable(k)
    /\ status' = [k \in Keys |-> IF k \in fresh THEN "queued" ELSE status[k]]
    /\ scope' = [k \in Keys |-> IF k \in fresh THEN ScheduledScope ELSE scope[k]]
    /\ \E q \in SetToSeqs(fresh) : queue' = queue \o q
    /\ log' = log \cup (fresh \X {"queued"} \X {0})
    /\ accepted' = accepted \cup (K \X {ScheduledScope})
    /\ UNCHANGED <<attempt, owner, artifact, expired, files, mart, procVars, events>>

\* Mutant: the next slot is taken after now, not after the slot just served
Following_SkipsMissed(s) == NextRun(now)

\* the slot after the one just served: a schedule catches up slot by slot
Following(s) == NextRun(nextRun[s])

\* enqueue_due: the slot nextRun[s] of every due schedule, in one transaction.
\* One conflict raises out of it: no schedule of the tenant gets its run.
EnqueueDue ==
    LET slot(s)  == <<s, nextRun[s]>>
        wanted   == {slot(s) : s \in DueSchedules \cap members}
        orphaned == {slot(s) : s \in DueSchedules \ members}
    IN  /\ DueSchedules # {}
        /\ EnqueueJobs(wanted)
        /\ run' = [r \in Runs |-> IF run[r] # "none" THEN run[r]
                                  ELSE IF r \in wanted THEN "artifact_pending"
                                  ELSE IF r \in orphaned THEN "blocked_recipient"
                                  ELSE "none"]
        /\ nextRun' = [s \in Schedules |-> IF s \in DueSchedules THEN Following(s) ELSE nextRun[s]]
        /\ UNCHANGED <<now, first, members, notified>>

\* Mutant: expiry is not rechecked
RouteCompleted_Expired(r) ==
    /\ run[r] = "artifact_pending" /\ status[r] = "succeeded"
    /\ IF r[1] \notin members
       THEN run' = [run EXCEPT ![r] = "blocked_recipient"] /\ UNCHANGED notified
       ELSE run' = [run EXCEPT ![r] = "routed"] /\ notified' = notified \cup {r}
    /\ UNCHANGED <<vars, now, nextRun, first, members>>

\* route_completed
RouteCompleted(r) ==
    /\ run[r] = "artifact_pending" /\ status[r] = "succeeded"
    /\ IF r[1] \in members /\ r \notin expired
       THEN run' = [run EXCEPT ![r] = "routed"] /\ notified' = notified \cup {r}
       ELSE /\ run' = [run EXCEPT ![r] = IF r[1] \notin members THEN "blocked_recipient"
                                         ELSE "blocked_expired"]
            /\ UNCHANGED notified
    /\ UNCHANGED <<vars, now, nextRun, first, members>>

-----------------------------------------------------------------------------

Tick ==
    /\ now < MaxSlot
    /\ now' = now + 1
    /\ UNCHANGED <<vars, nextRun, first, run, members, notified>>

\* a recipient leaves the tenant, or comes back
Membership(s) ==
    /\ events < MaxEvents
    /\ events' = events + 1
    /\ members' = IF s \in members THEN members \ {s} ELSE members \cup {s}
    /\ UNCHANGED <<rowVars, files, mart, procVars, accepted, now, nextRun, first, run, notified>>

DeliveryStep ==
    \/ \E s \in Schedules : CreateSchedule(s) \/ Membership(s)
    \/ EnqueueDue
    \/ \E r \in Runs : RouteCompleted(r)
    \/ Tick

\* The job queue works as in ReportJobs.  createReport takes whatever key the
\* browser sends, the key of a slot included.
JobStep ==
    /\ \/ \E k \in Keys, s \in Scopes : Request(k, s)
       \/ \E p \in Procs : WorkerStep(p)
       \/ Around
    /\ UNCHANGED deliveryVars

DeliveryNext == DeliveryStep \/ JobStep

DeliverySpec == DeliveryInit /\ [][DeliveryNext]_allVars

-----------------------------------------------------------------------------
(* Properties *)

\* Every variable of the delivery tables has its column's type.
DeliveryTypeOK ==
    /\ TypeOK
    /\ now \in 0 .. MaxSlot
    /\ nextRun \in [Schedules -> 0 .. MaxSlot + 1]
    /\ first \in [Schedules -> 0 .. MaxSlot + 1]
    /\ run \in [Runs -> RunStatus]
    /\ members \subseteq Schedules
    /\ notified \subseteq Runs

\* enqueue_due catches up slot by slot: from the creation of a schedule on,
\* every slot before next_run_at has its delivery run, and no later one has,
\* however late the task ran and whoever left the tenant in between.
NoSlotSkipped ==
    \A r \in Runs :
        run[r] # "none" <=> 0 < nextRun[r[1]] /\ first[r[1]] <= r[2] /\ r[2] < nextRun[r[1]]

\* A run that is not blocked stands on a job of its own slot with the
\* schedule's scope, and a routed one on a finished job; the recipient was
\* told of exactly the routed runs.
RunHasItsJob ==
    \A r \in Runs :
        /\ run[r] \in {"artifact_pending", "routed", "blocked_expired"} =>
               status[r] # "none" /\ scope[r] = ScheduledScope
        /\ run[r] \in {"routed", "blocked_expired"} => status[r] = "succeeded"
        /\ run[r] = "routed" <=> r \in notified

\* Nobody is told of a report that cannot be downloaded at that moment:
\* authorizedArtifact and readAuthorizedArtifact find the row, unexpired, and
\* its file.
NotifiedIsDownloadable ==
    [][\A r \in notified' \ notified :
           /\ r[1] \in members
           /\ r \notin expired
           /\ artifact[r] # None /\ <<r, artifact[r]>> \in files]_allVars

-----------------------------------------------------------------------------
(* What a comment says, and the code does not do *)

\* "Create idempotent report jobs for due schedules" (scheduled_delivery.py:160):
\* enqueue_due can serve what is due.  A web request that took the key of a
\* slot for another report stops it for every schedule of the tenant.
DueCanBeEnqueued ==
    \A s \in DueSchedules \cap members : Acceptable(<<s, nextRun[s]>>)
=============================================================================
