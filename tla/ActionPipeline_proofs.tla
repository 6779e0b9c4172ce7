----------------------- MODULE ActionPipeline_proofs -----------------------
(***************************************************************************)
(* Proofs about ActionPipeline for any set of actions, entities, bids and  *)
(* workers.                                                                *)
(***************************************************************************)
EXTENDS ActionPipeline, FiniteSetTheorems, TLAPS

\* Between the two provider calls, and until the result is persisted, a live
\* worker has an action of its batch in hand.  TypeOK alone is not inductive:
\* Write indexes the rows with cur[w].
InHand ==
    \A w \in Workers : pc[w] \in {"write", "persist"} => cur[w] \in todo[w] /\ w \in LiveWorkers

TypeInv == TypeOK /\ InHand

\* Every action of the pipeline keeps the variables in their types.
LEMMA TypeStep == TypeInv /\ [Next]_vars => TypeInv'
<1> SUFFICES ASSUME TypeInv, [Next]_vars PROVE TypeInv'
  OBVIOUS
<1> USE PipelineAssumption DEF TypeInv, TypeOK, InHand, RowStatus, FailureClass, ErrorClass, Result,
        rowVars, worldVars, workerVars, callVars
<1>1. ASSUME NEW P \in SUBSET Actions, ProposeBatch(P) PROVE TypeInv'
  BY <1>1 DEF ProposeBatch
<1>2. ASSUME NEW P \in SUBSET Actions, ProposeRaises(P) PROVE TypeInv'
  BY <1>2 DEF ProposeRaises
<1>3. ASSUME NEW a \in Actions, Approve(a) PROVE TypeInv'
  <2> DEFINE ever == {c \in Actions : approvedAt[c] > 0} \cup {a}
  <2>1. Cardinality(ever) \in Nat
    <3>1. ever \in SUBSET Actions
      OBVIOUS
    <3> QED
      BY <3>1, FS_Subset, FS_CardinalityType
  <2>2. ApprovedLast(a) \in [Actions -> Nat]
    <3> HIDE DEF ever
    <3>1. ApprovedLast(a) = [b \in Actions |-> IF b = a THEN Cardinality(ever)
                               ELSE IF 0 < approvedAt[a] /\ approvedAt[a] < approvedAt[b]
                               THEN approvedAt[b] - 1 ELSE approvedAt[b]]
      BY DEF ApprovedLast, ever
    <3> QED
      BY <2>1, <3>1
  <2> QED
    BY <1>3, <2>2 DEF Approve
<1>4. ASSUME NEW a \in Actions, Reject(a) PROVE TypeInv'
  BY <1>4 DEF Reject
<1>5. ASSUME NEW a \in Actions, Replay(a) PROVE TypeInv'
  BY <1>5 DEF Replay
<1>6. ASSUME ReleaseDue PROVE TypeInv'
  BY <1>6 DEF ReleaseDue
<1>7. ASSUME NEW w \in Workers, Fetch(w) PROVE TypeInv'
  BY <1>7 DEF Fetch, Approved
<1>8. ASSUME NEW w \in Workers, NEW a \in Actions, CheckControl(w, a) PROVE TypeInv'
  <2>1. pc[w] = "control" /\ PhaseUnchanged /\ (Block(w, a) \/ Keep(w, a))
    BY <1>8, Zenon DEF CheckControl
  <2>2. CASE Block(w, a)
    BY <2>1, <2>2 DEF Block, Stage, PhaseUnchanged
  <2>3. CASE Keep(w, a)
    BY <2>1, <2>3 DEF Keep, PhaseUnchanged
  <2> QED
    BY <2>1, <2>2, <2>3
<1>9. ASSUME NEW w \in Workers, NEW a \in Actions, Refuse(w, a) PROVE TypeInv'
  BY <1>9 DEF Refuse, Block, Stage, PhaseUnchanged
<1>10. ASSUME NEW w \in Workers, NEW a \in Actions, CheckGuardrails(w, a) PROVE TypeInv'
  <2>1. CASE Block(w, a)
    BY <1>10, <2>1 DEF CheckGuardrails, Block, Stage, PhaseUnchanged
  <2>2. CASE Keep(w, a)
    BY <1>10, <2>2 DEF CheckGuardrails, InTurn, Keep, PhaseUnchanged
  <2> QED
    BY <1>10, <2>1, <2>2 DEF CheckGuardrails
<1>11. ASSUME NEW w \in Workers, ControlDone(w) PROVE TypeInv'
  <2>1. PICK p \in {"commit", "apply", "guard", "refuse"}, work \in {{}, elig[w]} : Enter(w, p, work)
    BY <1>11, Zenon DEF ControlDone
  <2> QED
    BY <2>1 DEF Enter
<1>12. ASSUME NEW w \in Workers, RefuseDone(w) PROVE TypeInv'
  BY <1>12 DEF RefuseDone, Enter
<1>13. ASSUME NEW w \in Workers, GuardDone(w) PROVE TypeInv'
  <2>1. PICK p \in {"commit", "apply"}, work \in {{}, elig[w]} : Enter(w, p, work)
    BY <1>13, Zenon DEF GuardDone
  <2> QED
    BY <2>1 DEF Enter
<1>14. ASSUME NEW w \in Workers, ApplyDone(w) PROVE TypeInv'
  BY <1>14 DEF ApplyDone, Enter
<1>15. ASSUME NEW w \in Workers, LoadFails(w) PROVE TypeInv'
  BY <1>15 DEF LoadFails
<1>16. ASSUME NEW w \in Workers, NEW a \in Actions, Read(w, a) PROVE TypeInv'
  <2>1. CASE pc' = [pc EXCEPT ![w] = "write"] /\ UNCHANGED out
    BY <1>16, <2>1 DEF Read, InTurn
  <2>2. CASE \E r \in ErrorClass : /\ pc' = [pc EXCEPT ![w] = "persist"]
                                   /\ out' = [out EXCEPT ![w] = r]
    BY <1>16, <2>2 DEF Read, InTurn
  <2> QED
    BY <1>16, <2>1, <2>2 DEF Read, InTurn
<1>17. ASSUME NEW w \in Workers, Write(w) PROVE TypeInv'
  <2>1. cur[w] \in Actions /\ EntityOf[cur[w]] \in Entities
    BY <1>17 DEF Write
  <2>2. live' \in [Entities -> Values]
    <3>1. live' \in {live, [live EXCEPT ![EntityOf[cur[w]]] = target[cur[w]]]}
      BY <1>17, Zenon DEF Write
    <3>2. target[cur[w]] \in Values
      BY <2>1
    <3> QED
      BY <3>1, <3>2
  <2>3. out' \in [Workers -> {"ok"} \cup ErrorClass] /\ answered' \in SUBSET Actions
    <3>1. CASE answered' = answered \cup {cur[w]} /\ UNCHANGED out
      BY <2>1, <3>1
    <3>2. CASE UNCHANGED answered /\ \E r \in ErrorClass : out' = [out EXCEPT ![w] = r]
      BY <3>2
    <3> QED
      BY <1>17, <3>1, <3>2, Zenon DEF Write
  <2> QED
    BY <1>17, <2>1, <2>2, <2>3 DEF Write
<1>18. ASSUME NEW w \in Workers, Persist(w) PROVE TypeInv'
  BY <1>18 DEF Persist, Stage, ApplyResult
<1>19. ASSUME NEW w \in Workers, NEW a \in Actions, DryApply(w, a) PROVE TypeInv'
  BY <1>19 DEF DryApply, InTurn, Stage, PhaseUnchanged
<1>20. ASSUME NEW w \in Workers, Commit(w) PROVE TypeInv'
  <2>1. status' \in [Actions -> RowStatus]
    BY <1>20 DEF Commit, StatusAfter
  <2>2. age' \in [Actions -> {"unset", "today", "window", "old"}]
    BY <1>20 DEF Commit, AgeAfter
  <2>3. /\ retries' \in [Actions -> Nat]
        /\ sched' \in [Actions -> {"unset", "ahead", "due"}]
    BY <1>20 DEF Commit
  <2>4. dead' \in [Actions -> BOOLEAN]
    BY <1>20, Zenon DEF Commit, WillRetry
  <2> QED
    BY <1>20, <2>1, <2>2, <2>3, <2>4 DEF Commit, EndRun
<1>21. ASSUME NEW w \in Workers, Crash(w) PROVE TypeInv'
  BY <1>21 DEF Crash, EndRun
<1>22. ASSUME NEW w \in Workers, DeadlockVictim(w) PROVE TypeInv'
  BY <1>22 DEF DeadlockVictim, EndRun
<1>23. ASSUME NewDay PROVE TypeInv'
  BY <1>23 DEF NewDay
<1>24. ASSUME NEW a \in Actions, WindowEnds(a) PROVE TypeInv'
  BY <1>24 DEF WindowEnds
<1>25. ASSUME NEW a \in Actions, Lapse(a) PROVE TypeInv'
  BY <1>25 DEF Lapse
<1>26. ASSUME NEW a \in Actions, BackoffEnds(a) PROVE TypeInv'
  BY <1>26 DEF BackoffEnds
<1>27. ASSUME NEW e \in Entities, NEW v \in Values, SellerEdit(e, v) PROVE TypeInv'
  BY <1>27 DEF SellerEdit, OutsideEvent
<1>28. ASSUME NEW e \in Entities, TakeControl(e) PROVE TypeInv'
  BY <1>28 DEF TakeControl, OutsideEvent
<1>29. ASSUME NEW e \in Entities, ResumeAutomation(e) PROVE TypeInv'
  BY <1>29 DEF ResumeAutomation, OutsideEvent
<1>30. ASSUME NEW m \in {"off", "dry", "live"}, SaveSettings(m) PROVE TypeInv'
  BY <1>30 DEF SaveSettings, OutsideEvent
<1>31. CASE UNCHANGED vars
  BY <1>31 DEF vars
<1> QED
  BY <1>1, <1>2, <1>3, <1>4, <1>5, <1>6, <1>7, <1>8, <1>9, <1>10, <1>11, <1>12, <1>13, <1>14, <1>15, <1>16, <1>17, <1>18, <1>19, <1>20, <1>21, <1>22, <1>23, <1>24, <1>25, <1>26, <1>27, <1>28, <1>29, <1>30, <1>31 DEF Next, WorkerStep, EmptyRun, Disturb, Time

\* The initial states are well typed.
LEMMA InitTyped == Init => TypeInv
BY PipelineAssumption DEF Init, TypeInv, TypeOK, InHand, RowStatus, FailureClass, ErrorClass, Result

\* Every state of the pipeline is well typed: every column, setting and
\* worker variable holds a value the code could have stored there.
THEOREM TypeCorrect == Spec => []TypeOK
<1>1. TypeInv => TypeOK
  BY DEF TypeInv
<1> QED
  BY <1>1, InitTyped, TypeStep, PTL DEF Spec

-----------------------------------------------------------------------------
(* The steps that touch the decision columns of a row *)

decision == <<status, retries, sched, dead, released>>

\* Only proposals, decisions, retries, replays, the end of a backoff and the
\* commit of a worker change a row's status, retry columns or dead letter.
LEMMA RowSteps ==
  ASSUME [Next]_vars
  PROVE  \/ \E P \in SUBSET Actions : ProposeBatch(P)
         \/ \E a \in Actions : Approve(a) \/ Reject(a) \/ Replay(a) \/ BackoffEnds(a)
         \/ ReleaseDue
         \/ \E w \in Workers : Commit(w)
         \/ UNCHANGED decision
BY DEF decision, Next, WorkerStep, Disturb, Time, vars, rowVars, worldVars, workerVars,
   ProposeRaises, Fetch, EmptyRun, CheckControl, Refuse, CheckGuardrails, Read, DryApply,
   ControlDone, RefuseDone, GuardDone, ApplyDone, Enter, Write, Persist, LoadFails, Crash,
   DeadlockVictim, NewDay, WindowEnds, Lapse, OutsideEvent, TakeControl, ResumeAutomation,
   SellerEdit, SaveSettings, PhaseUnchanged

-----------------------------------------------------------------------------
(* The retry budget, for any number of workers *)

\* A scheduled retry has been counted and is within the budget, and releases
\* never outnumber the failures that were counted.
RetryInv ==
    \A a \in Actions :
        /\ released[a] <= retries[a]
        /\ released[a] <= MaxRetries
        /\ sched[a] # "unset" => released[a] < retries[a] /\ retries[a] <= MaxRetries

\* The retry bookkeeping is preserved by every step that touches it.
LEMMA RetryStep == TypeInv /\ RetryInv /\ [Next]_vars => RetryInv'
<1> SUFFICES ASSUME TypeInv, RetryInv, [Next]_vars PROVE RetryInv'
  OBVIOUS
<1> USE PipelineAssumption DEF TypeInv, TypeOK, RetryInv
<1>1. ASSUME NEW P \in SUBSET Actions, ProposeBatch(P) PROVE RetryInv'
  BY <1>1 DEF ProposeBatch
<1>2. ASSUME NEW a \in Actions, Approve(a) \/ Reject(a) PROVE RetryInv'
  BY <1>2 DEF Approve, Reject
<1>3. ASSUME NEW a \in Actions, Replay(a) PROVE RetryInv'
  BY <1>3 DEF Replay
<1>4. ASSUME NEW a \in Actions, BackoffEnds(a) PROVE RetryInv'
  BY <1>4 DEF BackoffEnds
<1>5. ASSUME ReleaseDue PROVE RetryInv'
  BY <1>5 DEF ReleaseDue, DueRows
<1>6. ASSUME NEW w \in Workers, Commit(w) PROVE RetryInv'
  BY <1>6 DEF Commit, WillRetry
<1>7. CASE UNCHANGED decision
  BY <1>7 DEF decision
<1> QED
  BY <1>1, <1>2, <1>3, <1>4, <1>5, <1>6, <1>7, RowSteps

\* release_due_retries returns an action to review at most max_retry_attempts
\* times, however many workers fail it and whoever replays its dead letters.
THEOREM RetryBudgetHolds == Spec => []RetryBudget
<1>1. Init => TypeInv /\ RetryInv
  BY InitTyped, PipelineAssumption DEF Init, RetryInv
<1>2. TypeInv /\ RetryInv => RetryBudget
  BY DEF RetryInv, RetryBudget
<1> QED
  BY <1>1, <1>2, TypeStep, RetryStep, PTL DEF Spec

-----------------------------------------------------------------------------
(* Human control that stands, for any number of workers *)

\* What a run carries past validate_control_batch is free of the entities
\* that were held when it began and still are.
ControlInv ==
    \A w \in Workers :
        /\ \A e \in standing[w] : held[e]
        /\ pc[w] = "idle" => elig[w] = {} /\ \A a \in Actions : staged[w][a] = "untouched"
        /\ pc[w] \in {"control", "refuse", "guard"} =>
               \A a \in elig[w] : EntityOf[a] \notin standing[w]
        /\ pc[w] \in {"refuse", "guard", "apply", "write", "persist"} =>
               \A a \in todo[w] : EntityOf[a] \notin standing[w]
        /\ \A a \in Actions : staged[w][a] = "applied" => EntityOf[a] \notin standing[w]

\* Every action preserves it.
LEMMA ControlStep == TypeInv /\ ControlInv /\ [Next]_vars => ControlInv'
<1> SUFFICES ASSUME TypeInv, ControlInv, [Next]_vars PROVE ControlInv'
  OBVIOUS
<1> USE PipelineAssumption DEF TypeInv, TypeOK, InHand, ControlInv, FailureClass, ErrorClass,
        Result, rowVars, worldVars, workerVars
<1>1. ASSUME NEW w \in Workers, Fetch(w) PROVE ControlInv'
  BY <1>1 DEF Fetch
<1>2. ASSUME NEW w \in Workers, NEW a \in Actions, CheckControl(w, a) PROVE ControlInv'
  <2>1. pc[w] = "control" /\ PhaseUnchanged
    BY <1>2 DEF CheckControl
  <2>2. CASE Block(w, a)
    BY <2>1, <2>2 DEF Block, Stage, PhaseUnchanged
  <2>3. CASE ~held[EntityOf[a]] /\ Keep(w, a)
    BY <2>1, <2>3 DEF Keep, PhaseUnchanged
  <2> QED
    BY <1>2, <2>2, <2>3, Zenon DEF CheckControl
<1>3. ASSUME NEW w \in Workers, NEW a \in Actions, Refuse(w, a) PROVE ControlInv'
  BY <1>3 DEF Refuse, Block, Stage, PhaseUnchanged
<1>4. ASSUME NEW w \in Workers, NEW a \in Actions, CheckGuardrails(w, a) PROVE ControlInv'
  <2>1. CASE Block(w, a)
    BY <1>4, <2>1 DEF CheckGuardrails, Block, Stage, PhaseUnchanged
  <2>2. CASE Keep(w, a)
    BY <1>4, <2>2 DEF CheckGuardrails, InTurn, Keep, PhaseUnchanged
  <2> QED
    BY <1>4, <2>1, <2>2 DEF CheckGuardrails
<1>5. ASSUME NEW w \in Workers, ControlDone(w) PROVE ControlInv'
  <2>1. pc[w] = "control"
    BY <1>5 DEF ControlDone
  <2>2. PICK p \in {"commit", "apply", "guard", "refuse"}, work \in {{}, elig[w]} : Enter(w, p, work)
    BY <1>5, Zenon DEF ControlDone
  <2> QED
    BY <2>1, <2>2 DEF Enter
<1>6. ASSUME NEW w \in Workers, RefuseDone(w) \/ ApplyDone(w) PROVE ControlInv'
  <2>1. Enter(w, "commit", {})
    BY <1>6 DEF RefuseDone, ApplyDone
  <2> QED
    BY <2>1 DEF Enter
<1>7. ASSUME NEW w \in Workers, GuardDone(w) PROVE ControlInv'
  <2>1. pc[w] = "guard"
    BY <1>7 DEF GuardDone
  <2>2. PICK p \in {"commit", "apply"}, work \in {{}, elig[w]} : Enter(w, p, work)
    BY <1>7, Zenon DEF GuardDone
  <2> QED
    BY <2>1, <2>2 DEF Enter
<1>8. ASSUME NEW w \in Workers, LoadFails(w) PROVE ControlInv'
  BY <1>8 DEF LoadFails
<1>9. ASSUME NEW w \in Workers, NEW a \in Actions, Read(w, a) PROVE ControlInv'
  <2>1. PICK p \in {"write", "persist"} : pc' = [pc EXCEPT ![w] = p]
    BY <1>9 DEF Read
  <2> QED
    BY <1>9, <2>1 DEF Read, InTurn
<1>10. ASSUME NEW w \in Workers, Write(w) PROVE ControlInv'
  BY <1>10 DEF Write
<1>11. ASSUME NEW w \in Workers, Persist(w) PROVE ControlInv'
  BY <1>11 DEF Persist, Stage
<1>12. ASSUME NEW w \in Workers, NEW a \in Actions, DryApply(w, a) PROVE ControlInv'
  BY <1>12 DEF DryApply, InTurn, Stage, PhaseUnchanged
<1>13. ASSUME NEW w \in Workers, EndRun(w), UNCHANGED held PROVE ControlInv'
  BY <1>13 DEF EndRun
<1>14. ASSUME NEW e \in Entities, TakeControl(e) PROVE ControlInv'
  BY <1>14 DEF TakeControl, OutsideEvent
<1>15. ASSUME NEW e \in Entities, ResumeAutomation(e) PROVE ControlInv'
  BY <1>15 DEF ResumeAutomation, OutsideEvent
<1>16. CASE UNCHANGED <<held, pc, todo, elig, staged, standing>>
  BY <1>16
<1> QED
  BY <1>1, <1>2, <1>3, <1>4, <1>5, <1>6, <1>7, <1>8, <1>9, <1>10, <1>11, <1>12, <1>13, <1>14, <1>15, <1>16
  DEF Next, WorkerStep, Disturb, Time, vars, EmptyRun, Commit, Crash, DeadlockVictim,
      ProposeBatch, ProposeRaises, Approve, Reject, Replay, ReleaseDue, NewDay, WindowEnds,
      Lapse, BackoffEnds, SellerEdit, SaveSettings, OutsideEvent

\* An entity taken over before a run starts, and not given back, is neither
\* written to Amazon nor recorded as changed by that run.
THEOREM StandingControlHolds == Spec => []StandingControlRespected
<1>1. Init => TypeInv /\ ControlInv
  BY InitTyped DEF Init, ControlInv
<1>2. TypeInv /\ ControlInv => StandingControlRespected
  BY DEF TypeInv, TypeOK, InHand, ControlInv, StandingControlRespected
<1> QED
  BY <1>1, <1>2, TypeStep, ControlStep, PTL DEF Spec

-----------------------------------------------------------------------------
(* Applied rows were answered, for any number of live workers *)

\* An ok verdict, and a staged or committed applied, follow a provider call
\* that returned without an error.
AnsweredInv ==
    /\ AppliedWasAnswered
    /\ \A w \in Workers :
        /\ pc[w] = "persist" /\ out[w] = "ok" => cur[w] \in answered
        /\ \A a \in Actions : staged[w][a] = "applied" => a \in answered

\* Every action preserves it, when no worker dry-runs.
LEMMA AnsweredStep ==
  ASSUME LiveWorkers = Workers
  PROVE  TypeInv /\ AnsweredInv /\ [Next]_vars => AnsweredInv'
<1> SUFFICES ASSUME TypeInv, AnsweredInv, [Next]_vars PROVE AnsweredInv'
  OBVIOUS
<1> USE PipelineAssumption DEF TypeInv, TypeOK, InHand, AnsweredInv, AppliedWasAnswered,
        FailureClass, ErrorClass, Result, rowVars, worldVars, workerVars, callVars
<1>1. ASSUME NEW P \in SUBSET Actions, ProposeBatch(P) PROVE AnsweredInv'
  BY <1>1 DEF ProposeBatch
<1>2. ASSUME NEW a \in Actions, Approve(a) \/ Reject(a) PROVE AnsweredInv'
  BY <1>2 DEF Approve, Reject
<1>3. ASSUME NEW a \in Actions, Replay(a) PROVE AnsweredInv'
  BY <1>3 DEF Replay
<1>4. ASSUME ReleaseDue PROVE AnsweredInv'
  BY <1>4 DEF ReleaseDue
<1>5. ASSUME NEW w \in Workers, NEW a \in Actions, Block(w, a), PhaseUnchanged PROVE AnsweredInv'
  BY <1>5 DEF Block, Stage, PhaseUnchanged
<1>6. ASSUME NEW w \in Workers, NEW a \in Actions, Read(w, a) PROVE AnsweredInv'
  BY <1>6 DEF Read
<1>7. ASSUME NEW w \in Workers, Write(w) PROVE AnsweredInv'
  <2>1. cur[w] \in Actions
    BY <1>7 DEF Write
  <2>2. out'[w] = "ok" => cur[w] \in answered'
    <3>1. \/ answered' = answered \cup {cur[w]}
          \/ \E r \in ErrorClass : out' = [out EXCEPT ![w] = r]
      BY <1>7, Zenon DEF Write
    <3> QED
      BY <2>1, <3>1
  <2>3. answered \subseteq answered'
    BY <1>7, Zenon DEF Write
  <2>4. UNCHANGED <<status, cur, staged>> /\ pc' = [pc EXCEPT ![w] = "persist"]
        /\ \A v \in Workers \ {w} : out'[v] = out[v]
    BY <1>7 DEF Write
  <2> QED
    BY <2>1, <2>2, <2>3, <2>4
<1>8. ASSUME NEW w \in Workers, Persist(w) PROVE AnsweredInv'
  <2>1. cur[w] \in Actions
    BY <1>8 DEF Persist
  <2>2. ApplyResult(w) = "applied" => cur[w] \in answered
    BY <1>8 DEF Persist, ApplyResult
  <2> QED
    BY <1>8, <2>1, <2>2 DEF Persist, Stage
<1>9. ASSUME NEW w \in Workers, Commit(w) PROVE AnsweredInv'
  BY <1>9 DEF Commit, EndRun, StatusAfter
<1>10. ASSUME NEW w \in Workers, EndRun(w), UNCHANGED <<status, answered>> PROVE AnsweredInv'
  BY <1>10 DEF EndRun
<1>11. ASSUME NEW w \in Workers, NEW p \in {"control", "refuse", "guard", "apply", "commit"},
              pc' = [pc EXCEPT ![w] = p], UNCHANGED <<status, cur, out, staged, answered>>
       PROVE  AnsweredInv'
  BY <1>11
<1>12. CASE UNCHANGED <<status, pc, cur, out, staged, answered>>
  BY <1>12
<1>13. ASSUME NEW w \in Workers, WorkerStep(w) PROVE AnsweredInv'
  <2>1. ASSUME NEW a \in Actions,
               CheckControl(w, a) \/ Refuse(w, a) \/ CheckGuardrails(w, a) \/ DryApply(w, a)
        PROVE  AnsweredInv'
    BY <1>5, <1>12, <2>1
    DEF CheckControl, Refuse, CheckGuardrails, Keep, PhaseUnchanged, DryApply
  <2>2. CASE Fetch(w) \/ EmptyRun(w)
    <3>1. CASE Fetch(w)
      BY <1>11, <3>1 DEF Fetch
    <3>2. CASE EmptyRun(w)
      BY <1>12, <3>2 DEF EmptyRun, vars
    <3> QED
      BY <2>2, <3>1, <3>2
  <2>3. CASE ControlDone(w) \/ RefuseDone(w) \/ GuardDone(w) \/ ApplyDone(w)
    BY <1>10, <1>11, <2>3 DEF ControlDone, RefuseDone, GuardDone, ApplyDone, Enter
  <2> QED
    BY <1>6, <1>7, <1>8, <1>9, <1>13, <2>1, <2>2, <2>3, Zenon DEF WorkerStep
<1>14. ASSUME NEW w \in Workers, Disturb(w) PROVE AnsweredInv'
  BY <1>10, <1>11, <1>12, <1>14 DEF Disturb, LoadFails, Crash, DeadlockVictim
<1>15. CASE Time
  BY <1>12, <1>15 DEF Time, NewDay, WindowEnds, Lapse, BackoffEnds
<1> QED
  BY <1>1, <1>2, <1>3, <1>4, <1>12, <1>13, <1>14, <1>15
  DEF Next, vars, ProposeRaises, TakeControl, ResumeAutomation, SellerEdit, SaveSettings,
      OutsideEvent

\* With live workers only, a row never says applied unless a provider call for
\* it returned without an error, whatever crashed, raised or raced.
THEOREM AppliedWasAnsweredHolds ==
  ASSUME LiveWorkers = Workers
  PROVE  Spec => []AppliedWasAnswered
<1>1. Init => TypeInv /\ AnsweredInv
  BY InitTyped DEF Init, AnsweredInv, AppliedWasAnswered
<1>2. AnsweredInv => AppliedWasAnswered
  BY DEF AnsweredInv
<1>3. TypeInv /\ AnsweredInv /\ [Next]_vars => AnsweredInv'
  BY AnsweredStep
<1> QED
  BY <1>1, <1>2, <1>3, TypeStep, PTL DEF Spec

-----------------------------------------------------------------------------
(* A single worker per tenant: what a run holds stays approved *)

SingleWorker == \A v, w \in Workers : v = w

\* The rows of the batch, and those with an uncommitted update, are approved:
\* only the worker itself moves a row out of approved.
BatchApproved ==
    \A w \in Workers, a \in Actions :
        a \in todo[w] \cup elig[w] \/ staged[w][a] # "untouched" => status[a] = "approved"

\* Every action preserves it when no second worker can commit.
LEMMA BatchStep ==
  ASSUME SingleWorker
  PROVE  TypeInv /\ BatchApproved /\ [Next]_vars => BatchApproved'
<1> SUFFICES ASSUME TypeInv, BatchApproved, [Next]_vars PROVE BatchApproved'
  OBVIOUS
<1> USE PipelineAssumption DEF TypeInv, TypeOK, InHand, BatchApproved, rowVars, worldVars,
        workerVars
<1>1. ASSUME NEW P \in SUBSET Actions, ProposeBatch(P) PROVE BatchApproved'
  BY <1>1 DEF ProposeBatch, Proposable
<1>2. ASSUME NEW a \in Actions, Approve(a) \/ Reject(a) PROVE BatchApproved'
  BY <1>2 DEF Approve, Reject, Decidable
<1>3. ASSUME NEW a \in Actions, Replay(a) PROVE BatchApproved'
  BY <1>3 DEF Replay
<1>4. ASSUME ReleaseDue PROVE BatchApproved'
  BY <1>4 DEF ReleaseDue, DueRows
<1>5. ASSUME NEW w \in Workers, Fetch(w) PROVE BatchApproved'
  BY <1>5 DEF Fetch, Approved
<1>6. ASSUME NEW w \in Workers, NEW a \in Actions, a \in todo[w], Block(w, a), PhaseUnchanged
      PROVE  BatchApproved'
  BY <1>6 DEF Block, Stage, PhaseUnchanged
<1>7. ASSUME NEW w \in Workers, NEW a \in Actions, a \in todo[w], Keep(w, a), PhaseUnchanged
      PROVE  BatchApproved'
  BY <1>7 DEF Keep, PhaseUnchanged
<1>8. ASSUME NEW w \in Workers, NEW work \in {{}, elig[w]}, NEW p, Enter(w, p, work)
      PROVE  BatchApproved'
  BY <1>8 DEF Enter
<1>9. ASSUME NEW w \in Workers, LoadFails(w) PROVE BatchApproved'
  BY <1>9 DEF LoadFails
<1>10. ASSUME NEW w \in Workers, Persist(w) PROVE BatchApproved'
  BY <1>10 DEF Persist, Stage
<1>11. ASSUME NEW w \in Workers, NEW a \in Actions, DryApply(w, a) PROVE BatchApproved'
  BY <1>11 DEF DryApply, InTurn, Stage, PhaseUnchanged
<1>12. ASSUME NEW w \in Workers, EndRun(w) PROVE BatchApproved'
  BY <1>12, SingleWorker DEF EndRun, SingleWorker
<1>13. CASE UNCHANGED <<status, todo, elig, staged>>
  BY <1>13
<1>14. ASSUME NEW w \in Workers, WorkerStep(w) PROVE BatchApproved'
  <2>1. ASSUME NEW a \in Actions, CheckControl(w, a) \/ Refuse(w, a) \/ CheckGuardrails(w, a)
        PROVE  BatchApproved'
    BY <2>1, <1>6, <1>7, Zenon DEF CheckControl, Refuse, CheckGuardrails, InTurn
  <2>2. ASSUME ControlDone(w) \/ RefuseDone(w) \/ GuardDone(w) \/ ApplyDone(w)
        PROVE  BatchApproved'
    BY <2>2, <1>8, Zenon DEF ControlDone, RefuseDone, GuardDone, ApplyDone
  <2>3. ASSUME NEW a \in Actions, Read(w, a) PROVE BatchApproved'
    BY <2>3, <1>13 DEF Read
  <2>4. ASSUME Write(w) PROVE BatchApproved'
    BY <2>4, <1>13 DEF Write
  <2>5. ASSUME EmptyRun(w) PROVE BatchApproved'
    BY <2>5, <1>13 DEF EmptyRun, vars
  <2> QED
    BY <1>14, <1>5, <1>10, <1>11, <1>12, <2>1, <2>2, <2>3, <2>4, <2>5 DEF WorkerStep, Commit
<1> QED
  BY <1>1, <1>2, <1>3, <1>4, <1>9, <1>12, <1>13, <1>14
  DEF Next, Disturb, Time, vars, Crash, DeadlockVictim, ProposeRaises, NewDay, WindowEnds,
      Lapse, BackoffEnds, TakeControl, ResumeAutomation, SellerEdit, SaveSettings, OutsideEvent

\* The batch of the only worker stays approved until it commits.
LEMMA BatchHolds ==
  ASSUME SingleWorker
  PROVE  Spec => [](TypeInv /\ BatchApproved)
<1>1. Init => TypeInv /\ BatchApproved
  BY InitTyped DEF Init, BatchApproved
<1>2. TypeInv /\ BatchApproved /\ [Next]_vars => BatchApproved'
  BY BatchStep
<1> QED
  BY <1>1, <1>2, TypeStep, PTL DEF Spec

\* With one worker per tenant, update_bid is only ever called for a row that
\* is approved at that moment.
THEOREM OnlyApprovedHolds ==
  ASSUME SingleWorker
  PROVE  Spec => []OnlyApprovedIsWritten
<1>1. TypeInv /\ BatchApproved => OnlyApprovedIsWritten
  BY DEF TypeInv, TypeOK, InHand, BatchApproved, OnlyApprovedIsWritten
<1>2. Spec => [](TypeInv /\ BatchApproved)
  BY BatchHolds
<1> QED
  BY <1>1, <1>2, PTL

\* The failure bookkeeping follows every status change.
LEMMA FailureStep ==
  TypeInv /\ BatchApproved /\ FailureAccounted /\ [Next]_vars => FailureAccounted'
<1> SUFFICES ASSUME TypeInv, BatchApproved, FailureAccounted, [Next]_vars
             PROVE  FailureAccounted'
  OBVIOUS
<1> USE DEF TypeInv, TypeOK, FailureAccounted
<1>1. ASSUME NEW P \in SUBSET Actions, ProposeBatch(P) PROVE FailureAccounted'
  BY <1>1 DEF ProposeBatch, Proposable
<1>2. ASSUME NEW a \in Actions, Approve(a) \/ Reject(a) PROVE FailureAccounted'
  BY <1>2 DEF Approve, Reject, Decidable
<1>3. ASSUME NEW a \in Actions, Replay(a) PROVE FailureAccounted'
  BY <1>3 DEF Replay
<1>4. ASSUME NEW a \in Actions, BackoffEnds(a) PROVE FailureAccounted'
  BY <1>4 DEF BackoffEnds
<1>5. ASSUME ReleaseDue PROVE FailureAccounted'
  BY <1>5 DEF ReleaseDue, DueRows
<1>6. ASSUME NEW w \in Workers, Commit(w) PROVE FailureAccounted'
  <2> SUFFICES ASSUME NEW a \in Actions
               PROVE  IF status'[a] = "failed" THEN dead'[a] <=> sched'[a] = "unset"
                                               ELSE ~dead'[a] /\ sched'[a] = "unset"
    OBVIOUS
  <2>1. staged[w][a] \in Result
    OBVIOUS
  <2>2. CASE staged[w][a] = "untouched"
    BY <1>6, <2>2 DEF Commit, StatusAfter, NewFailure, FailureClass
  <2>3. CASE staged[w][a] = "applied"
    BY <1>6, <2>3 DEF Commit, StatusAfter, NewFailure, FailureClass, BatchApproved
  <2>4. CASE staged[w][a] \in FailureClass
    <3>1. NewFailure(w, a)
      BY <2>4 DEF NewFailure, FailureClass, BatchApproved
    <3>2. status'[a] = "failed"
      BY <1>6, <2>4 DEF Commit, StatusAfter, FailureClass
    <3>3. dead'[a] = ~WillRetry(w, a) /\ sched'[a] = IF WillRetry(w, a) THEN "ahead" ELSE "unset"
      BY <1>6, <3>1 DEF Commit
    <3> QED
      BY <3>2, <3>3
  <2> QED
    BY <2>1, <2>2, <2>3, <2>4 DEF Result
<1>7. CASE UNCHANGED decision
  BY <1>7 DEF decision
<1> QED
  BY <1>1, <1>2, <1>3, <1>4, <1>5, <1>6, <1>7, RowSteps

\* With one worker, every failed row has exactly one of a scheduled retry and
\* a dead letter, and no other row has either.
THEOREM FailureAccountedHolds ==
  ASSUME SingleWorker
  PROVE  Spec => []FailureAccounted
<1>1. Init => FailureAccounted
  BY DEF Init, FailureAccounted
<1>2. Spec => [](TypeInv /\ BatchApproved)
  BY BatchHolds
<1> QED
  BY <1>1, <1>2, FailureStep, PTL DEF Spec

\* With one worker, the pipeline implements the state machine: every change
\* it commits is an edge of ALLOWED.
THEOREM Refinement ==
  ASSUME SingleWorker
  PROVE  Spec => StateMachine
<1>1. Init => SM!Init
  BY DEF Init, SM!Init
<1>2. TypeInv /\ TypeInv' /\ BatchApproved /\ [Next]_vars => [SM!Next]_status
  <2> SUFFICES ASSUME TypeInv, TypeInv', BatchApproved, [Next]_vars
               PROVE  SM!Next \/ UNCHANGED status
    OBVIOUS
  <2> USE DEF TypeInv, TypeOK, SM!Next, SM!Move, SM!Allowed, SM!Status
  <2>1. status' \in [Actions -> SM!Status \cup {"none"}]
    BY DEF RowStatus
  <2>2. ASSUME NEW P \in SUBSET Actions, ProposeBatch(P) PROVE SM!Next
    BY <2>1, <2>2 DEF ProposeBatch, Proposable
  <2>3. ASSUME NEW a \in Actions, Approve(a) \/ Reject(a) PROVE SM!Next
    BY <2>1, <2>3 DEF Approve, Reject, Decidable
  <2>4. ASSUME NEW a \in Actions, Replay(a) PROVE SM!Next
    BY <2>1, <2>4 DEF Replay
  <2>5. ASSUME ReleaseDue PROVE SM!Next
    BY <2>1, <2>5 DEF ReleaseDue, DueRows
  <2>6. ASSUME NEW w \in Workers, Commit(w) PROVE SM!Next
    BY <2>1, <2>6 DEF Commit, StatusAfter, BatchApproved
  <2>7. ASSUME NEW a \in Actions, BackoffEnds(a) PROVE UNCHANGED status
    BY <2>7 DEF BackoffEnds
  <2> QED
    BY <2>2, <2>3, <2>4, <2>5, <2>6, <2>7, RowSteps DEF decision
<1>3. Spec => [](TypeInv /\ BatchApproved)
  BY BatchHolds
<1> QED
  BY <1>1, <1>2, <1>3, PTL DEF Spec, StateMachine, SM!Spec

-----------------------------------------------------------------------------
(* One call for an approval, with one worker *)

\* A row that is still approved although its bid was sent is staged or in
\* hand; what is left of the batch is neither.
SentInv ==
    /\ \A a \in sent : status[a] = "approved" =>
           \E w \in Workers : staged[w][a] # "untouched" \/ (pc[w] = "persist" /\ cur[w] = a)
    /\ \A w \in Workers :
           /\ todo[w] \cap elig[w] = {}
           /\ \A a \in todo[w] \cup elig[w] : staged[w][a] = "untouched"
           /\ pc[w] = "idle" => elig[w] = {} /\ \A a \in Actions : staged[w][a] = "untouched"

\* Every action preserves it: a row leaves the transaction of its run with a
\* new status, or the run is lost and its calls are forgotten.
LEMMA SentStep ==
  ASSUME SingleWorker
  PROVE  TypeInv /\ SentInv /\ [Next]_vars => SentInv'
<1> SUFFICES ASSUME TypeInv, SentInv, [Next]_vars PROVE SentInv'
  OBVIOUS
<1> USE PipelineAssumption DEF TypeInv, TypeOK, InHand, SentInv, rowVars, worldVars, workerVars,
        callVars
<1>1. ASSUME UNCHANGED <<pc, todo, elig, cur, staged>>, sent' \subseteq sent,
             \A a \in sent' : status'[a] = "approved" => status[a] = "approved"
      PROVE  SentInv'
  BY <1>1
<1>2. ASSUME NEW P \in SUBSET Actions, ProposeBatch(P) PROVE SentInv'
  BY <1>1, <1>2 DEF ProposeBatch
<1>3. ASSUME NEW a \in Actions, Approve(a) \/ Reject(a) \/ Replay(a) PROVE SentInv'
  BY <1>1, <1>3 DEF Approve, Reject, Replay
<1>4. ASSUME ReleaseDue PROVE SentInv'
  BY <1>1, <1>4 DEF ReleaseDue
<1>5. ASSUME NEW w \in Workers, Fetch(w) PROVE SentInv'
  BY <1>5, SingleWorker DEF Fetch, Approved, SingleWorker
<1>6. ASSUME NEW w \in Workers, pc[w] # "idle", NEW a \in todo[w], Block(w, a), PhaseUnchanged
      PROVE  SentInv'
  <2>1. PICK r \in ErrorClass : Stage(w, a, r)
    BY <1>6 DEF Block
  <2>2. r # "untouched" /\ r \in Result
    BY DEF ErrorClass, FailureClass, Result
  <2>3. /\ staged' = [staged EXCEPT ![w][a] = r] /\ todo' = [todo EXCEPT ![w] = @ \ {a}]
        /\ UNCHANGED <<status, pc, elig, cur, sent>>
    BY <1>6, <2>1 DEF Block, Stage, PhaseUnchanged
  <2>4. w \in Workers /\ a \in Actions /\ pc[w] # "idle"
    BY <1>6
  <2> QED
    BY <2>2, <2>3, <2>4, SingleWorker DEF SingleWorker
<1>7. ASSUME NEW w \in Workers, pc[w] # "idle", NEW a \in todo[w], Keep(w, a), PhaseUnchanged
      PROVE  SentInv'
  <2>1. /\ elig' = [elig EXCEPT ![w] = @ \cup {a}] /\ todo' = [todo EXCEPT ![w] = @ \ {a}]
        /\ UNCHANGED <<status, pc, staged, cur, sent>>
    BY <1>7 DEF Keep, PhaseUnchanged
  <2>2. pc[w] # "idle"
    BY <1>7
  <2> QED
    BY <2>1, <2>2, SingleWorker DEF SingleWorker
<1>8. ASSUME NEW w \in Workers, NEW p \in {"commit", "apply", "guard", "refuse"},
             NEW work \in {{}, elig[w]}, Enter(w, p, work), pc[w] # "persist", pc[w] # "idle"
      PROVE  SentInv'
  BY <1>8 DEF Enter
<1>9. ASSUME NEW w \in Workers, LoadFails(w) PROVE SentInv'
  BY <1>9 DEF LoadFails
<1>10. ASSUME NEW w \in Workers, NEW a \in Actions, Read(w, a) PROVE SentInv'
  <2>1. PICK p \in {"write", "persist"} : pc' = [pc EXCEPT ![w] = p]
    BY <1>10 DEF Read
  <2>2. pc[w] = "apply" /\ UNCHANGED <<status, todo, elig, staged, sent>>
    BY <1>10 DEF Read
  <2> QED
    BY <2>1, <2>2, SingleWorker DEF SingleWorker
<1>11. ASSUME NEW w \in Workers, Write(w) PROVE SentInv'
  BY <1>11 DEF Write
<1>12. ASSUME NEW w \in Workers, Persist(w) PROVE SentInv'
  <2>1. cur[w] \in todo[w] /\ ApplyResult(w) # "untouched"
    BY <1>12 DEF Persist, ApplyResult, ErrorClass, FailureClass
  <2> QED
    BY <1>12, <2>1 DEF Persist, Stage
<1>13. ASSUME NEW w \in Workers, NEW a \in Actions, DryApply(w, a) PROVE SentInv'
  BY <1>13 DEF DryApply, InTurn, Stage, PhaseUnchanged
<1>14. ASSUME NEW w \in Workers, Commit(w) PROVE SentInv'
  BY <1>14, SingleWorker DEF Commit, EndRun, StatusAfter, SingleWorker
<1>15. ASSUME NEW w \in Workers, EndRun(w), sent' = sent \ InDoubt(w), UNCHANGED status
       PROVE  SentInv'
  BY <1>15, SingleWorker DEF EndRun, InDoubt, SingleWorker
<1>16. ASSUME NEW w \in Workers, WorkerStep(w) PROVE SentInv'
  <2>1. ASSUME NEW a \in Actions, CheckControl(w, a) \/ Refuse(w, a) \/ CheckGuardrails(w, a)
        PROVE  SentInv'
    BY <2>1, <1>6, <1>7, Zenon DEF CheckControl, Refuse, CheckGuardrails, InTurn
  <2>2. ASSUME ControlDone(w) \/ RefuseDone(w) \/ GuardDone(w) \/ ApplyDone(w)
        PROVE  SentInv'
    BY <2>2, <1>8 DEF ControlDone, RefuseDone, GuardDone, ApplyDone
  <2>3. ASSUME EmptyRun(w) PROVE SentInv'
    BY <2>3, <1>1 DEF EmptyRun, vars
  <2> QED
    BY <1>16, <1>5, <1>10, <1>11, <1>12, <1>13, <1>14, <2>1, <2>2, <2>3 DEF WorkerStep
<1>17. ASSUME NEW w \in Workers, Disturb(w) PROVE SentInv'
  BY <1>9, <1>15, <1>17 DEF Disturb, Crash, DeadlockVictim
<1>18. CASE UNCHANGED <<status, pc, todo, elig, cur, staged, sent>>
  BY <1>1, <1>18
<1> QED
  BY <1>2, <1>3, <1>4, <1>16, <1>17, <1>18
  DEF Next, Time, vars, ProposeRaises, NewDay, WindowEnds, Lapse, BackoffEnds, TakeControl,
      ResumeAutomation, SellerEdit, SaveSettings, OutsideEvent

\* With one worker per tenant, update_bid is called at most once for an
\* approval, failed calls included, unless the run that called was lost.
THEOREM SentOnceHolds ==
  ASSUME SingleWorker
  PROVE  Spec => SentOncePerApproval
<1>1. Init => SentInv
  BY DEF Init, SentInv
<1>2. TypeInv /\ BatchApproved /\ SentInv /\ [Next]_vars =>
          [\A w \in Workers : ProviderCall(w) => cur[w] \notin sent]_vars
  <2> SUFFICES ASSUME TypeInv, BatchApproved, SentInv, NEW w \in Workers, ProviderCall(w)
               PROVE  cur[w] \notin sent
    OBVIOUS
  <2>1. pc[w] = "write" /\ cur[w] \in todo[w]
    BY DEF ProviderCall, TypeInv, InHand
  <2>2. cur[w] \in Actions /\ status[cur[w]] = "approved" /\ staged[w][cur[w]] = "untouched"
    BY <2>1 DEF TypeInv, TypeOK, BatchApproved, SentInv
  <2> QED
    BY <2>1, <2>2, SingleWorker DEF SentInv, SingleWorker
<1>3. TypeInv /\ SentInv /\ [Next]_vars => SentInv'
  BY SentStep
<1>4. Spec => [](TypeInv /\ BatchApproved)
  BY BatchHolds
<1> QED
  BY <1>1, <1>2, <1>3, <1>4, PTL DEF Spec, SentOncePerApproval

-----------------------------------------------------------------------------
(* The daily limit, with one live worker *)

TodayRows == {a \in Actions : status[a] = "applied" /\ age[a] = "today"}

\* The rows a run may still commit as applied: those it recorded so, those
\* validate_apply_guardrails let through, and those left to apply.
Reserved(w) ==
    {a \in Actions : \/ staged[w][a] = "applied"
                     \/ pc[w] = "guard" /\ a \in elig[w]
                     \/ pc[w] \in {"apply", "write", "persist"} /\ a \in todo[w]}

\* Nothing is recorded as applied before the guardrails were checked.
NothingAppliedYet ==
    \A w \in Workers : pc[w] \in {"idle", "control", "refuse", "guard"} =>
        \A a \in Actions : staged[w][a] # "applied"

\* The limit holds because it holds with every reserved row counted as
\* applied today: the guardrail reads the counter once per action, long before
\* the run commits.
LimitInv ==
    /\ NothingAppliedYet
    /\ Cardinality(TodayRows) <= DailyLimit
    /\ \A w \in Workers : Cardinality(TodayRows) + Cardinality(Reserved(w)) <= DailyLimit

\* A set of rows has as many members as its cardinality says, and a part of
\* it has no more.
LEMMA RowSets ==
  ASSUME NEW S \in SUBSET Actions
  PROVE  /\ IsFiniteSet(S) /\ Cardinality(S) \in Nat
         /\ \A T \in SUBSET S : Cardinality(T) \in Nat /\ Cardinality(T) <= Cardinality(S)
BY PipelineAssumption, FS_Subset, FS_CardinalityType

\* Two sets of rows together have at most the sum of their members.
LEMMA RowUnion ==
  ASSUME NEW S \in SUBSET Actions, NEW T \in SUBSET Actions
  PROVE  Cardinality(S \cup T) <= Cardinality(S) + Cardinality(T)
<1>1. Cardinality(S) \in Nat /\ Cardinality(T) \in Nat /\ Cardinality(S \cap T) \in Nat
  BY RowSets
<1>2. Cardinality(S \cup T) = Cardinality(S) + Cardinality(T) - Cardinality(S \cap T)
  BY RowSets, FS_Union
<1> QED
  BY <1>1, <1>2

\* One more row adds at most one.
LEMMA RowAdded ==
  ASSUME NEW S \in SUBSET Actions, NEW a \in Actions
  PROVE  Cardinality(S \cup {a}) <= Cardinality(S) + 1
<1>1. IsFiniteSet(S) /\ Cardinality(S) \in Nat
  BY RowSets
<1>2. Cardinality(S \cup {a}) = IF a \in S THEN Cardinality(S) ELSE Cardinality(S) + 1
  BY <1>1, FS_AddElement
<1> QED
  BY <1>1, <1>2

\* A step that applies no row and reserves none keeps the limit.
LEMMA NothingReserved ==
  ASSUME LimitInv, NothingAppliedYet',
         TodayRows' \subseteq TodayRows,
         \A w \in Workers : Reserved(w)' \subseteq Reserved(w)
  PROVE  LimitInv'
<1>1. TodayRows \in SUBSET Actions /\ \A w \in Workers : Reserved(w) \in SUBSET Actions
  BY DEF TodayRows, Reserved
<1>2. /\ Cardinality(TodayRows) \in Nat /\ Cardinality(TodayRows') \in Nat
      /\ Cardinality(TodayRows') <= Cardinality(TodayRows)
  BY <1>1, RowSets
<1>3. ASSUME NEW w \in Workers
      PROVE  /\ Cardinality(Reserved(w)) \in Nat /\ Cardinality(Reserved(w)') \in Nat
             /\ Cardinality(Reserved(w)') <= Cardinality(Reserved(w))
  BY <1>1, RowSets
<1>4. Cardinality(TodayRows') <= DailyLimit
  BY <1>2, PipelineAssumption DEF LimitInv
<1>5. ASSUME NEW w \in Workers
      PROVE  Cardinality(TodayRows') + Cardinality(Reserved(w)') <= DailyLimit
  <2>1. Cardinality(TodayRows) + Cardinality(Reserved(w)) <= DailyLimit
    BY DEF LimitInv
  <2> QED
    BY <2>1, <1>2, <1>3, PipelineAssumption
<1> QED
  BY <1>4, <1>5 DEF LimitInv

\* Every action preserves it, when no second worker commits in between and no
\* dry run goes around the guardrails.
LEMMA LimitStep ==
  ASSUME SingleWorker, LiveWorkers = Workers
  PROVE  TypeInv /\ LimitInv /\ [Next]_vars => LimitInv'
<1> SUFFICES ASSUME TypeInv, LimitInv, [Next]_vars PROVE LimitInv'
  OBVIOUS
<1> USE DEF TypeInv, TypeOK, InHand, rowVars, worldVars, workerVars
<1>0. NothingAppliedYet
  BY DEF LimitInv
<1>1. ASSUME UNCHANGED <<pc, todo, elig, staged>>,
             \A a \in Actions : status'[a] = "applied" /\ age'[a] = "today" =>
                                    status[a] = "applied" /\ age[a] = "today"
      PROVE  LimitInv'
  <2>1. NothingAppliedYet'
    BY <1>0, <1>1 DEF NothingAppliedYet
  <2>2. TodayRows' \subseteq TodayRows
    BY <1>1 DEF TodayRows
  <2>3. \A w \in Workers : Reserved(w)' = Reserved(w)
    BY <1>1 DEF Reserved
  <2> QED
    BY <2>1, <2>2, <2>3, NothingReserved
<1>2. ASSUME NEW w \in Workers, UNCHANGED <<status, age>>, NothingAppliedYet',
             Reserved(w)' \subseteq Reserved(w)
      PROVE  LimitInv'
  <2>1. TodayRows' = TodayRows
    BY <1>2 DEF TodayRows
  <2>2. \A v \in Workers : Reserved(v)' \subseteq Reserved(v)
    BY <1>2, SingleWorker DEF SingleWorker
  <2> QED
    BY <1>2, <2>1, <2>2, NothingReserved
<1>3. ASSUME NEW P \in SUBSET Actions, ProposeBatch(P) PROVE LimitInv'
  BY <1>1, <1>3 DEF ProposeBatch
<1>4. ASSUME NEW a \in Actions, Approve(a) \/ Reject(a) \/ Replay(a) PROVE LimitInv'
  BY <1>1, <1>4 DEF Approve, Reject, Replay
<1>5. ASSUME ReleaseDue PROVE LimitInv'
  BY <1>1, <1>5 DEF ReleaseDue
<1>6. ASSUME NewDay \/ \E a \in Actions : WindowEnds(a) PROVE LimitInv'
  BY <1>1, <1>6 DEF NewDay, WindowEnds
<1>7. ASSUME NEW w \in Workers, Fetch(w) PROVE LimitInv'
  <2>1. Reserved(w)' \subseteq Reserved(w) /\ NothingAppliedYet'
    BY <1>0, <1>7 DEF Fetch, Reserved, NothingAppliedYet
  <2> QED
    BY <1>2, <1>7, <2>1 DEF Fetch
<1>8. ASSUME NEW w \in Workers, NEW a \in Actions, Block(w, a), PhaseUnchanged PROVE LimitInv'
  <2>1. Reserved(w)' \subseteq Reserved(w) /\ NothingAppliedYet'
    BY <1>0, <1>8 DEF Block, Stage, PhaseUnchanged, Reserved, NothingAppliedYet, ErrorClass,
                      FailureClass
  <2> QED
    BY <1>2, <1>8, <2>1 DEF PhaseUnchanged
<1>9. ASSUME NEW w \in Workers, NEW a \in Actions, CheckControl(w, a) PROVE LimitInv'
  <2>1. CASE Keep(w, a)
    <3>1. Reserved(w)' \subseteq Reserved(w) /\ NothingAppliedYet'
      BY <1>0, <1>9, <2>1 DEF CheckControl, Keep, PhaseUnchanged, Reserved, NothingAppliedYet
    <3> QED
      BY <1>2, <1>9, <3>1 DEF CheckControl, PhaseUnchanged
  <2> QED
    BY <1>8, <1>9, <2>1, Zenon DEF CheckControl
<1>10. ASSUME NEW w \in Workers, NEW a \in Actions, CheckGuardrails(w, a) PROVE LimitInv'
  <2>1. CASE WithinLimits(w, a) /\ Keep(w, a)
    <3>1. /\ pc[w] = "guard" /\ pc' = pc /\ staged' = staged /\ status' = status /\ age' = age
          /\ elig' = [elig EXCEPT ![w] = @ \cup {a}]
      BY <1>10, <2>1 DEF CheckGuardrails, Keep, PhaseUnchanged
    <3>2. NothingAppliedYet'
      BY <1>0, <3>1 DEF NothingAppliedYet
    <3>3. TodayRows' = TodayRows
      BY <3>1 DEF TodayRows
    <3>4. Reserved(w) = elig[w] /\ Reserved(w)' = elig[w] \cup {a}
      BY <1>0, <3>1 DEF Reserved, NothingAppliedYet
    <3>5. /\ IsFiniteSet(elig[w]) /\ Cardinality(elig[w]) \in Nat
          /\ Cardinality(TodayRows) \in Nat
          /\ Cardinality(elig[w] \cup {a}) \in Nat
      BY RowSets DEF TodayRows
    <3>6. Cardinality(elig[w] \cup {a}) <= Cardinality(elig[w]) + 1
      BY RowAdded, Zenon
    <3>7. Cardinality(TodayRows) + Cardinality(elig[w]) < DailyLimit
      BY <2>1 DEF WithinLimits, AppliedToday, TodayRows
    <3>8. Cardinality(TodayRows) + Cardinality(elig[w] \cup {a}) <= DailyLimit
      BY <3>5, <3>6, <3>7, PipelineAssumption
    <3> QED
      BY <3>2, <3>3, <3>4, <3>8, SingleWorker DEF LimitInv, SingleWorker
  <2> QED
    BY <1>8, <1>10, <2>1, Zenon DEF CheckGuardrails
<1>11. ASSUME NEW w \in Workers, NEW p \in {"commit", "guard", "refuse"},
              NEW work \in {{}, elig[w]}, Enter(w, p, work),
              p = "commit" \/ pc[w] = "control"
       PROVE  LimitInv'
  <2>1. /\ pc' = [pc EXCEPT ![w] = p] /\ staged' = staged /\ status' = status /\ age' = age
        /\ elig' = [elig EXCEPT ![w] = {}]
    BY <1>11 DEF Enter
  <2>2. NothingAppliedYet'
    BY <1>0, <1>11, <2>1 DEF NothingAppliedYet
  <2>3. Reserved(w)' \subseteq Reserved(w)
    BY <2>1 DEF Reserved
  <2> QED
    BY <1>2, <2>1, <2>2, <2>3
<1>12. ASSUME NEW w \in Workers, ControlDone(w) \/ RefuseDone(w) \/ ApplyDone(w) PROVE LimitInv'
  BY <1>11, <1>12, LiveWorkers = Workers, Zenon DEF ControlDone, RefuseDone, ApplyDone
<1>13. ASSUME NEW w \in Workers, GuardDone(w) PROVE LimitInv'
  <2>1. CASE Enter(w, "apply", elig[w])
    <3>1. pc[w] = "guard" /\ pc' = [pc EXCEPT ![w] = "apply"] /\ todo' = [todo EXCEPT ![w] = elig[w]]
          /\ staged' = staged /\ status' = status /\ age' = age
      BY <1>13, <2>1 DEF GuardDone, Enter
    <3>2. Reserved(w)' \subseteq Reserved(w) /\ NothingAppliedYet'
      BY <1>0, <3>1 DEF Reserved, NothingAppliedYet
    <3> QED
      BY <1>2, <3>1, <3>2
  <2> QED
    BY <1>11, <1>13, <2>1, Zenon DEF GuardDone
<1>14. ASSUME NEW w \in Workers, LoadFails(w) PROVE LimitInv'
  <2>1. Reserved(w)' \subseteq Reserved(w) /\ NothingAppliedYet'
    BY <1>0, <1>14 DEF LoadFails, Reserved, NothingAppliedYet
  <2> QED
    BY <1>2, <1>14, <2>1 DEF LoadFails
<1>15. ASSUME NEW w \in Workers, NEW p \in {"write", "persist"}, pc[w] \in {"apply", "write"},
              pc' = [pc EXCEPT ![w] = p], UNCHANGED <<status, age, todo, elig, staged>>
       PROVE  LimitInv'
  <2>1. Reserved(w)' \subseteq Reserved(w) /\ NothingAppliedYet'
    BY <1>0, <1>15 DEF Reserved, NothingAppliedYet
  <2> QED
    BY <1>2, <1>15, <2>1
<1>16. ASSUME NEW w \in Workers, NEW a \in Actions, Read(w, a) PROVE LimitInv'
  BY <1>15, <1>16 DEF Read
<1>17. ASSUME NEW w \in Workers, Write(w) PROVE LimitInv'
  BY <1>15, <1>17 DEF Write
<1>18. ASSUME NEW w \in Workers, Persist(w) PROVE LimitInv'
  <2>1. Reserved(w)' \subseteq Reserved(w) /\ NothingAppliedYet'
    BY <1>0, <1>18 DEF Persist, Stage, Reserved, NothingAppliedYet
  <2> QED
    BY <1>2, <1>18, <2>1 DEF Persist
<1>19. ASSUME NEW w \in Workers, NEW a \in Actions, DryApply(w, a) PROVE LimitInv'
  BY <1>19, LiveWorkers = Workers DEF DryApply
<1>20. ASSUME NEW w \in Workers, EndRun(w)
       PROVE  NothingAppliedYet' /\ Reserved(w)' = {}
  BY <1>0, <1>20 DEF EndRun, Reserved, NothingAppliedYet
<1>21. ASSUME NEW w \in Workers, Crash(w) \/ DeadlockVictim(w) PROVE LimitInv'
  BY <1>2, <1>20, <1>21 DEF Crash, DeadlockVictim
<1>22. ASSUME NEW w \in Workers, Commit(w) PROVE LimitInv'
  <2>1. TodayRows' \subseteq TodayRows \cup Reserved(w)
    BY <1>22 DEF Commit, StatusAfter, AgeAfter, TodayRows, Reserved, Result
  <2>2. Cardinality(TodayRows \cup Reserved(w)) <= Cardinality(TodayRows) + Cardinality(Reserved(w))
    BY RowUnion DEF TodayRows, Reserved
  <2>3. Cardinality(TodayRows) + Cardinality(Reserved(w)) <= DailyLimit
    BY DEF LimitInv
  <2>4. /\ Cardinality(TodayRows') \in Nat
        /\ Cardinality(TodayRows \cup Reserved(w)) \in Nat
        /\ Cardinality(TodayRows') <= Cardinality(TodayRows \cup Reserved(w))
    <3>1. TodayRows \cup Reserved(w) \in SUBSET Actions
      BY DEF TodayRows, Reserved
    <3> QED
      BY <2>1, <3>1, RowSets
  <2>5. Cardinality(TodayRows) \in Nat /\ Cardinality(Reserved(w)) \in Nat
    BY RowSets DEF TodayRows, Reserved
  <2>6. Cardinality(TodayRows') <= DailyLimit
    BY <2>2, <2>3, <2>4, <2>5, PipelineAssumption
  <2>7. NothingAppliedYet' /\ \A v \in Workers : Reserved(v)' = {}
    BY <1>20, <1>22, SingleWorker DEF Commit, SingleWorker
  <2>8. ASSUME NEW v \in Workers
        PROVE  Cardinality(TodayRows') + Cardinality(Reserved(v)') <= DailyLimit
    <3>1. Cardinality(Reserved(v)') = 0
      BY <2>7, FS_EmptySet, Zenon
    <3> HIDE DEF TypeInv, TypeOK, InHand
    <3> QED
      BY <2>4, <2>6, <3>1
  <2> QED
    BY <2>6, <2>7, <2>8 DEF LimitInv
<1>23. CASE UNCHANGED <<status, age, pc, todo, elig, staged>>
  BY <1>1, <1>23
<1>24. ASSUME NEW w \in Workers, WorkerStep(w) PROVE LimitInv'
  BY <1>7, <1>8, <1>9, <1>10, <1>12, <1>13, <1>16, <1>17, <1>18, <1>19, <1>22, <1>23, <1>24
  DEF WorkerStep, EmptyRun, Refuse, vars
<1> QED
  BY <1>3, <1>4, <1>5, <1>6, <1>14, <1>21, <1>23, <1>24
  DEF Next, Disturb, Time, vars, ProposeRaises, Lapse, BackoffEnds, TakeControl,
      ResumeAutomation, SellerEdit, SaveSettings, OutsideEvent

\* With one live worker per tenant, the rows applied in a day never exceed
\* max_changes_per_day: not after any number of runs, batches, crashes, retries
\* or midnights.
THEOREM DailyLimitHolds ==
  ASSUME SingleWorker, LiveWorkers = Workers
  PROVE  Spec => []DailyLimitRespected
<1>1. Init => LimitInv
  <2> SUFFICES ASSUME Init PROVE LimitInv
    OBVIOUS
  <2>1. TodayRows = {} /\ \A w \in Workers : Reserved(w) = {}
    BY DEF Init, TodayRows, Reserved
  <2>2. Cardinality({}) = 0
    BY FS_EmptySet
  <2>3. Cardinality(TodayRows) = 0 /\ \A w \in Workers : Cardinality(Reserved(w)) = 0
    BY <2>1, <2>2, Zenon
  <2>4. NothingAppliedYet
    BY DEF Init, NothingAppliedYet
  <2> QED
    BY <2>3, <2>4, PipelineAssumption DEF LimitInv
<1>2. LimitInv => DailyLimitRespected
  BY DEF LimitInv, TodayRows, DailyLimitRespected, AppliedToday
<1>3. TypeInv /\ LimitInv /\ [Next]_vars => LimitInv'
  BY LimitStep
<1> QED
  BY <1>1, <1>2, <1>3, InitTyped, TypeStep, PTL DEF Spec
=============================================================================
