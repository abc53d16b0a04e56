------------------------- MODULE CheckRunnerProofs -------------------------
(***************************************************************************)
(* Proofs about CheckRunner, for every number of targets, calls and        *)
(* processes, every threshold and every bound.                             *)
(***************************************************************************)
EXTENDS CheckRunner, TLAPS

\* What the local variables of a call may hold where it stands: a call under
\* way has a target, and a check that has ended has a result.
CallInv ==
  \A j \in Jobs :
    /\ InCall(j) => job[j].target \in Targets
    /\ job[j].pc \in {"checked", "decided"} => job[j].result \in CheckResultStatus

TypeInv == TypeOK /\ CallInv

\* A single API process, however many calls it has under way.
OneProcessOnly == \A j, k \in Jobs : ProcOf[j] = ProcOf[k]

-----------------------------------------------------------------------------
(* The transition function and the counters.                               *)

\* The raised thresholds and the counter bound are positive.
LEMMA ThresholdsPositive ==
  /\ failureThreshold \in Nat /\ failureThreshold >= 1
  /\ recoveryThreshold \in Nat /\ recoveryThreshold >= 1
  /\ CounterCap \in Nat /\ CounterCap >= 1
  BY ThresholdsAssumption, StoreAssumption
     DEF failureThreshold, recoveryThreshold, AtLeastOne

\* A stored counter stays within its column's bound.
LEMMA CappedInRange ==
  ASSUME NEW n \in Nat
  PROVE  Capped(n) \in 0..CounterCap
  BY ThresholdsPositive DEF Capped

\* A success never opens, and resolves only an incident that is there.
LEMMA OnSuccessShape ==
  ASSUME NEW current, current.consecutiveSuccesses \in Nat
  PROVE  /\ OnSuccess(current).status \in {"UP", "DOWN"}
         /\ OnSuccess(current).consecutiveFailures \in Nat
         /\ OnSuccess(current).consecutiveSuccesses \in Nat
         /\ OnSuccess(current).shouldOpenIncident = FALSE
         /\ OnSuccess(current).shouldResolveIncident => current.hasActiveIncident
  <1>1. /\ OnSuccess(current).status \in {"UP", "DOWN"}
        /\ OnSuccess(current).consecutiveFailures \in Nat
        /\ OnSuccess(current).consecutiveSuccesses \in Nat
    BY DEF OnSuccess
  <1>2. OnSuccess(current).shouldOpenIncident = FALSE
    BY DEF OnSuccess
  <1>3. OnSuccess(current).shouldResolveIncident => current.hasActiveIncident
    BY Zenon DEF OnSuccess
  <1> QED
    BY <1>1, <1>2, <1>3

\* A failure never resolves, and opens only where no incident is.
LEMMA OnFailureShape ==
  ASSUME NEW current, current.consecutiveFailures \in Nat
  PROVE  /\ OnFailure(current).status \in {"DEGRADED", "DOWN"}
         /\ OnFailure(current).consecutiveFailures \in Nat
         /\ OnFailure(current).consecutiveSuccesses \in Nat
         /\ OnFailure(current).shouldOpenIncident => ~current.hasActiveIncident
         /\ OnFailure(current).shouldResolveIncident = FALSE
  <1>1. /\ OnFailure(current).status \in {"DEGRADED", "DOWN"}
        /\ OnFailure(current).consecutiveFailures \in Nat
        /\ OnFailure(current).consecutiveSuccesses \in Nat
    BY DEF OnFailure
  <1>2. OnFailure(current).shouldOpenIncident => ~current.hasActiveIncident
    BY Zenon DEF OnFailure
  <1>3. OnFailure(current).shouldResolveIncident = FALSE
    BY DEF OnFailure
  <1> QED
    BY <1>1, <1>2, <1>3

\* A decision is a verdict with natural counters; it never both opens and
\* resolves, it opens only without and resolves only with an active incident.
LEMMA DecisionShape ==
  ASSUME TypeInv, NEW j \in Jobs
  PROVE  /\ Decision(j).status \in TargetStatus
         /\ Decision(j).consecutiveFailures \in Nat
         /\ Decision(j).consecutiveSuccesses \in Nat
         /\ Decision(j).shouldOpenIncident => job[j].incident = NoIncident
         /\ Decision(j).shouldResolveIncident => job[j].incident \in IncidentIds
  <1> DEFINE current ==
        [ status               |-> job[j].row.status,
          consecutiveFailures  |-> job[j].row.consecutiveFailures,
          consecutiveSuccesses |-> job[j].row.consecutiveSuccesses,
          hasActiveIncident    |-> job[j].incident # NoIncident ]
  <1>1. job[j] \in JobRecord
    BY DEF TypeInv, TypeOK, RunnerTypeOK
  <1>2. /\ job[j].row.consecutiveFailures \in Nat
        /\ job[j].row.consecutiveSuccesses \in Nat
        /\ job[j].incident \in IncidentIds \cup {NoIncident}
    BY <1>1, ThresholdsPositive DEF JobRecord, TargetRow
  <1>3. /\ current.consecutiveFailures \in Nat
        /\ current.consecutiveSuccesses \in Nat
    BY <1>2
  <1>4. current.hasActiveIncident <=> job[j].incident # NoIncident
    BY Zenon
  <1>5. Decision(j) = IF job[j].result = "SUCCESS" THEN OnSuccess(current)
                                                   ELSE OnFailure(current)
    BY DEF Decision, ComputeHealthTransition
  <1> HIDE DEF current
  <1>6. CASE job[j].result = "SUCCESS"
    BY <1>2, <1>3, <1>4, <1>5, <1>6, OnSuccessShape DEF TargetStatus
  <1>7. CASE job[j].result # "SUCCESS"
    BY <1>2, <1>3, <1>4, <1>5, <1>7, OnFailureShape DEF TargetStatus
  <1> QED
    BY <1>6, <1>7

\* A run of results that grows is a run of results.
LEMMA AppendResultInRange ==
  ASSUME NEW tail \in ResultRun, NEW result \in CheckResultStatus
  PROVE  AppendResult(tail, result) \in ResultRun
  <1>1. tail.run + 1 \in Nat
    BY ThresholdsPositive DEF ResultRun
  <1>2. Capped(tail.run + 1) \in 0..CounterCap
    BY <1>1, CappedInRange
  <1> QED
    BY <1>2, ThresholdsPositive DEF AppendResult, ResultRun

\* The id given to a new incident belongs to no row.
LEMMA NewIdIsNew ==
  ASSUME NEW t \in Targets, NewIds(t) # {}
  PROVE  /\ (CHOOSE i \in NewIds(t) : TRUE) \in IncidentIds
         /\ incidents[t][CHOOSE i \in NewIds(t) : TRUE].status = "ABSENT"
  <1>1. (CHOOSE i \in NewIds(t) : TRUE) \in NewIds(t)
    OBVIOUS
  <1> QED
    BY <1>1 DEF NewIds

-----------------------------------------------------------------------------
(* Type correctness.                                                       *)

\* The local variables of a slot without a call are typed.
LEMMA NoJobTyped == NoJob \in JobRecord
  BY ThresholdsPositive
     DEF NoJob, JobRecord, JobState, FreshRow, TargetRow, TargetStatus

\* The typing invariant holds of a started process and its tables.
LEMMA TypeInit == Init => TypeInv
  <1> SUFFICES ASSUME Init PROVE TypeInv
    OBVIOUS
  <1> USE DEF Init, EmptyTables, RunnerInit
  <1>1. FreshRow \in TargetRow /\ PausedRow \in TargetRow
    <2>1. FreshRow \in TargetRow
      BY ThresholdsPositive DEF FreshRow, TargetRow, TargetStatus
    <2>2. PausedRow \in TargetRow
      BY <2>1 DEF PausedRow, TargetRow, TargetStatus
    <2> QED
      BY <2>1, <2>2
  <1>2. StoreTypeOK
    <2>1. targets \in [Targets -> TargetRow]
      BY <1>1
    <2>2. AbsentIncident \in IncidentRow
      BY DEF AbsentIncident, IncidentRow
    <2>3. [last |-> "NONE", run |-> 0] \in ResultRun
      BY ThresholdsPositive DEF ResultRun
    <2> QED
      BY <2>1, <2>2, <2>3 DEF StoreTypeOK
  <1>3. RunnerTypeOK
    <2>1. job \in [Jobs -> JobRecord]
      BY NoJobTyped
    <2>2. inFlight \in [Procs -> SUBSET Targets] /\ healthy \in [Targets -> BOOLEAN]
      OBVIOUS
    <2>3. flips \in 0..MaxFlips /\ faults \in 0..MaxFaults
      BY RunnerAssumption
    <2> QED
      BY <2>1, <2>2, <2>3 DEF RunnerTypeOK
  <1>4. CallInv
    BY DEF CallInv, InCall, NoJob
  <1> QED
    BY <1>2, <1>3, <1>4 DEF TypeInv, TypeOK

\* What persist writes is typed.
LEMMA WriteAllTyped ==
  ASSUME TypeInv, NEW j \in Jobs, job[j].pc = "decided", WriteAll(j)
  PROVE  StoreTypeOK'
  <1> DEFINE t == job[j].target
             decision == Decision(j)
             new == CHOOSE i \in NewIds(t) : TRUE
  <1>1. t \in Targets /\ job[j].result \in CheckResultStatus
    BY DEF TypeInv, CallInv, InCall
  <1>2. /\ decision.status \in TargetStatus
        /\ Capped(decision.consecutiveFailures) \in 0..CounterCap
        /\ Capped(decision.consecutiveSuccesses) \in 0..CounterCap
        /\ decision.shouldResolveIncident => job[j].incident \in IncidentIds
    BY DecisionShape, CappedInRange
  <1> HIDE DEF t, decision
  <1>3. WriteResult(t, job[j].result, decision)
    BY DEF WriteAll, t, decision
  <1>4. targets' \in [Targets -> TargetRow]
    <2> DEFINE row == [targets[t] EXCEPT
                         !.status = decision.status,
                         !.consecutiveFailures = Capped(decision.consecutiveFailures),
                         !.consecutiveSuccesses = Capped(decision.consecutiveSuccesses)]
    <2>1. targets \in [Targets -> TargetRow]
      BY DEF TypeInv, TypeOK, StoreTypeOK
    <2>2. targets[t] \in TargetRow
      BY <1>1, <2>1
    <2>3. row \in TargetRow
      BY <1>2, <2>2 DEF TargetRow
    <2>4. targets' = [targets EXCEPT ![t] = row]
      BY <1>1, <1>3, <2>1 DEF WriteResult
    <2> HIDE DEF row
    <2> QED
      BY <2>1, <2>3, <2>4
  <1>5. results' \in [Targets -> ResultRun]
    BY <1>1, <1>3, AppendResultInRange DEF WriteResult, TypeInv, TypeOK, StoreTypeOK
  <1>6. incidents' \in [Targets -> [IncidentIds -> IncidentRow]] /\ audit' \subseteq AuditEvent
    <2>1. CASE decision.shouldOpenIncident
      <3>1. NewIds(t) # {} /\ OpenIncidentRow(t, new)
        BY <2>1 DEF WriteAll, t, decision
      <3>2. new \in IncidentIds
        BY <3>1, <1>1, NewIdIsNew
      <3> HIDE DEF new
      <3>3. OpenIncident \in IncidentRow
        BY DEF OpenIncident, AbsentIncident, IncidentRow, IncidentStatus
      <3> QED
        BY <1>1, <3>1, <3>2, <3>3
           DEF OpenIncidentRow, TypeInv, TypeOK, StoreTypeOK, AuditEvent, IncidentAction
    <2>2. CASE ~decision.shouldOpenIncident /\ decision.shouldResolveIncident
      <3>1. ResolveIncidentRow(t, job[j].incident)
        BY <2>2 DEF WriteAll, t, decision
      <3> QED
        BY <1>1, <1>2, <2>2, <3>1
           DEF ResolveIncidentRow, TypeInv, TypeOK, StoreTypeOK, AuditEvent,
               IncidentAction, IncidentRow, IncidentStatus
    <2>3. CASE ~decision.shouldOpenIncident /\ ~decision.shouldResolveIncident
      <3>1. UNCHANGED <<incidents, audit>>
        BY <2>3 DEF WriteAll, t, decision
      <3> QED
        BY <3>1 DEF TypeInv, TypeOK, StoreTypeOK
    <2> QED
      BY <2>1, <2>2, <2>3
  <1> QED
    BY <1>4, <1>5, <1>6 DEF StoreTypeOK

\* The step of a call that goes on with the record it has, but for some of
\* its fields.
LEMMA CallGoesOn ==
  ASSUME TypeInv, NEW j \in Jobs, NEW new \in JobRecord,
         job' = [job EXCEPT ![j] = new],
         new.pc # "idle" => new.target \in Targets,
         new.pc \in {"checked", "decided"} => new.result \in CheckResultStatus
  PROVE  job' \in [Jobs -> JobRecord] /\ CallInv'
  BY DEF TypeInv, TypeOK, RunnerTypeOK, CallInv, InCall

\* A call that ends, in whatever way, stays typed until its finally.
LEMMA FinishTyped ==
  ASSUME TypeInv, NEW j \in Jobs, InCall(j),
         NEW outcome \in {"ran", "error"}, Finish(j, outcome)
  PROVE  job' \in [Jobs -> JobRecord] /\ CallInv'
  <1> DEFINE new == [job[j] EXCEPT !.pc = "releasing", !.outcome = outcome]
  <1>1. new \in JobRecord /\ new.pc = "releasing" /\ new.target \in Targets
    BY DEF TypeInv, TypeOK, RunnerTypeOK, CallInv, InCall, JobRecord, JobState
  <1>2. job' = [job EXCEPT ![j] = new]
    BY DEF Finish
  <1> HIDE DEF new
  <1> QED
    BY <1>1, <1>2, CallGoesOn

\* Every step of a call, every fault and every flip keeps the types.
LEMMA TypeStep == TypeInv /\ [Next]_vars => TypeInv'
  <1> SUFFICES ASSUME TypeInv, [Next]_vars PROVE TypeInv'
    OBVIOUS
  <1> USE DEF TypeInv, TypeOK, RunnerTypeOK, CallInv, InCall
  <1>1. ASSUME NEW j \in Jobs, NEW t \in Targets, TryAcquire(j, t) PROVE TypeInv'
    <2>1. StoreTypeOK'
      BY <1>1 DEF TryAcquire, storeVars, StoreTypeOK
    <2>2. [NoJob EXCEPT !.pc = "locked", !.target = t] \in JobRecord
      BY NoJobTyped DEF JobRecord, JobState
    <2>3. job' = [job EXCEPT ![j] = [NoJob EXCEPT !.pc = "locked", !.target = t]]
      BY <1>1 DEF TryAcquire
    <2>4. job' \in [Jobs -> JobRecord]
      BY <2>2, <2>3
    <2>5. CallInv'
      BY <2>3 DEF NoJob
    <2> QED
      BY <1>1, <2>1, <2>4, <2>5, RunnerAssumption DEF TryAcquire
  <1>2. ASSUME NEW j \in Jobs, ReadTarget(j) PROVE TypeInv'
    <2>1. StoreTypeOK'
      BY <1>2 DEF ReadTarget, storeVars, StoreTypeOK
    <2>2. targets[job[j].target] \in TargetRow
      BY <1>2 DEF ReadTarget, StoreTypeOK
    <2> DEFINE row == targets[job[j].target]
               new == IF Checkable(row)
                      THEN [job[j] EXCEPT !.pc = "checking", !.row = row]
                      ELSE [job[j] EXCEPT !.pc = "releasing", !.outcome = "paused"]
    <2>3. /\ new \in JobRecord
          /\ new.pc \in {"checking", "releasing"}
          /\ new.target \in Targets
      <3>1. job[j] \in JobRecord /\ job[j].target \in Targets
        BY <1>2 DEF ReadTarget
      <3>2. CASE Checkable(row)
        BY <2>2, <3>1, <3>2 DEF JobRecord, JobState
      <3>3. CASE ~Checkable(row)
        BY <3>1, <3>3 DEF JobRecord, JobState
      <3> QED
        BY <3>2, <3>3
    <2>4. job' = [job EXCEPT ![j] = new]
      BY <1>2 DEF ReadTarget
    <2> HIDE DEF new
    <2>5. job' \in [Jobs -> JobRecord] /\ CallInv'
      BY <2>3, <2>4, CallGoesOn
    <2> QED
      BY <1>2, <2>1, <2>5 DEF ReadTarget
  <1>3. ASSUME NEW j \in Jobs, CheckTarget(j) PROVE TypeInv'
    <2>1. StoreTypeOK'
      BY <1>3 DEF CheckTarget, storeVars, StoreTypeOK
    <2>2. PICK result \in CheckResultStatus :
            job' = [job EXCEPT ![j].pc = "checked", ![j].result = result]
      BY <1>3 DEF CheckTarget, CheckResultStatus
    <2> DEFINE new == [job[j] EXCEPT !.pc = "checked", !.result = result]
    <2>3. new \in JobRecord /\ new.target \in Targets /\ new.result \in CheckResultStatus
      BY <1>3 DEF CheckTarget, JobRecord, JobState
    <2>4. job' = [job EXCEPT ![j] = new]
      BY <2>2
    <2> HIDE DEF new
    <2>5. job' \in [Jobs -> JobRecord] /\ CallInv'
      BY <2>3, <2>4, CallGoesOn
    <2> QED
      BY <1>3, <2>1, <2>5 DEF CheckTarget
  <1>4. ASSUME NEW j \in Jobs, FindActiveIncident(j) PROVE TypeInv'
    <2>1. StoreTypeOK'
      BY <1>4 DEF FindActiveIncident, storeVars, StoreTypeOK
    <2>2. PICK i \in IncidentIds \cup {NoIncident} :
            job' = [job EXCEPT ![j].pc = "decided", ![j].incident = i]
      BY <1>4 DEF FindActiveIncident, ActiveIncidents
    <2> DEFINE new == [job[j] EXCEPT !.pc = "decided", !.incident = i]
    <2>3. new \in JobRecord /\ new.target \in Targets /\ new.result \in CheckResultStatus
      <3>1. /\ job[j] \in JobRecord
            /\ job[j].target \in Targets /\ job[j].result \in CheckResultStatus
        BY <1>4 DEF FindActiveIncident
      <3> QED
        BY <3>1 DEF JobRecord, JobState
    <2>4. job' = [job EXCEPT ![j] = new]
      BY <2>2
    <2> HIDE DEF new
    <2>5. job' \in [Jobs -> JobRecord] /\ CallInv'
      BY <2>3, <2>4, CallGoesOn
    <2> QED
      BY <1>4, <2>1, <2>5 DEF FindActiveIncident
  <1>5. ASSUME NEW j \in Jobs, Persist(j) PROVE TypeInv'
    <2>1. StoreTypeOK'
      BY <1>5, WriteAllTyped DEF Persist
    <2>2. job' \in [Jobs -> JobRecord] /\ CallInv'
      BY <1>5, FinishTyped DEF Persist
    <2> QED
      BY <1>5, <2>1, <2>2 DEF Persist
  <1>6. ASSUME NEW j \in Jobs, UniqueViolation(j) PROVE TypeInv'
    <2>1. StoreTypeOK'
      BY <1>6 DEF UniqueViolation, storeVars, StoreTypeOK
    <2>2. job' \in [Jobs -> JobRecord] /\ CallInv'
      BY <1>6, FinishTyped DEF UniqueViolation
    <2> QED
      BY <1>6, <2>1, <2>2 DEF UniqueViolation
  <1>7. ASSUME NEW j \in Jobs, Release(j) PROVE TypeInv'
    <2>1. StoreTypeOK'
      BY <1>7 DEF Release, storeVars, StoreTypeOK
    <2>2. job' \in [Jobs -> JobRecord]
      BY <1>7, NoJobTyped DEF Release
    <2>3. CallInv'
      BY <1>7 DEF Release, NoJob
    <2> QED
      BY <1>7, <2>1, <2>2, <2>3, RunnerAssumption DEF Release
  <1>8. ASSUME NEW j \in Jobs, JobFault(j) PROVE TypeInv'
    <2>1. StoreTypeOK'
      BY <1>8 DEF JobFault, StatementFails, AuditInsertFails, storeVars, StoreTypeOK
    <2>2. PICK outcome \in {"ran", "error"} : InCall(j) /\ Finish(j, outcome)
      BY <1>8 DEF JobFault, StatementFails, AuditInsertFails
    <2>3. faults' \in 0..MaxFaults /\ UNCHANGED <<inFlight, healthy, flips>>
      BY <1>8, RunnerAssumption DEF JobFault, StatementFails, AuditInsertFails, Fault
    <2>4. job' \in [Jobs -> JobRecord] /\ CallInv'
      BY <2>2, FinishTyped
    <2> QED
      BY <2>1, <2>3, <2>4
  <1>9. ASSUME NEW p \in Procs, RunnerCrash(p) PROVE TypeInv'
    <2>1. StoreTypeOK'
      BY <1>9 DEF RunnerCrash, storeVars, StoreTypeOK
    <2>2. job' \in [Jobs -> JobRecord]
      BY <1>9, NoJobTyped DEF RunnerCrash
    <2>3. CallInv'
      BY <1>9 DEF RunnerCrash, NoJob
    <2> QED
      BY <1>9, <2>1, <2>2, <2>3, RunnerAssumption DEF RunnerCrash, Fault
  <1>10. ASSUME NEW t \in Targets, Flip(t) PROVE TypeInv'
    <2>1. StoreTypeOK'
      BY <1>10 DEF Flip, storeVars, StoreTypeOK
    <2> QED
      BY <1>10, <2>1, RunnerAssumption DEF Flip
  <1>11. CASE UNCHANGED vars
    BY <1>11 DEF vars, storeVars, runnerVars, StoreTypeOK
  <1> QED
    BY <1>1, <1>2, <1>3, <1>4, <1>5, <1>6, <1>7, <1>8, <1>9, <1>10, <1>11
       DEF Next, JobStep

\* Every variable keeps its type: the counters stay within their bound, and
\* a call that is under way has a target and, once checked, a result.
THEOREM TypeCorrect == Spec => []TypeOK
  <1>1. TypeInv => TypeOK
    BY DEF TypeInv
  <1> QED
    BY TypeInit, TypeStep, <1>1, PTL DEF Spec

-----------------------------------------------------------------------------
(* The lock.                                                               *)

\* A step that leaves every lock and every call's target and "is under way"
\* alone keeps the lock exact.
LEMMA LockUntouched ==
  ASSUME LockInv, UNCHANGED inFlight,
         \A j \in Jobs : /\ InCall(j)' <=> InCall(j)
                         /\ InCall(j) => job'[j].target = job[j].target
  PROVE  LockInv'
  BY DEF LockInv

\* A started runner holds no lock and has no call.
LEMMA LockInit == RunnerInit => LockInv
  <1> SUFFICES ASSUME RunnerInit PROVE LockInv
    OBVIOUS
  <1>1. \A p \in Procs : inFlight[p] = {}
    BY DEF RunnerInit
  <1>2. \A j \in Jobs : ~InCall(j)
    BY DEF RunnerInit, NoJob, InCall
  <1> QED
    BY <1>1, <1>2 DEF LockInv

\* Only taking a lock, releasing it and a crash touch the locks, and each
\* keeps them exact.
LEMMA LockStep == TypeInv /\ LockInv /\ [Next]_vars => LockInv'
  <1> SUFFICES ASSUME TypeInv, LockInv, [Next]_vars PROVE LockInv'
    OBVIOUS
  <1>0. /\ job \in [Jobs -> JobRecord]
        /\ inFlight \in [Procs -> SUBSET Targets]
        /\ \A j \in Jobs : ProcOf[j] \in Procs
    BY RunnerAssumption DEF TypeInv, TypeOK, RunnerTypeOK
  <1>1. ASSUME NEW j \in Jobs, NEW t \in Targets, TryAcquire(j, t) PROVE LockInv'
    <2>1. /\ job[j].pc = "idle"
          /\ t \notin inFlight[ProcOf[j]]
          /\ inFlight' = [inFlight EXCEPT ![ProcOf[j]] = @ \cup {t}]
          /\ job' = [job EXCEPT ![j] = [NoJob EXCEPT !.pc = "locked", !.target = t]]
      BY <1>1 DEF TryAcquire
    <2>2. job'[j].pc = "locked" /\ job'[j].target = t
      BY <1>0, <2>1 DEF NoJob
    <2>3. \A k \in Jobs \ {j} : job'[k] = job[k]
      BY <1>0, <2>1
    <2> QED
      BY <1>0, <2>1, <2>2, <2>3 DEF LockInv, InCall
  <1>2. ASSUME NEW j \in Jobs, Release(j) PROVE LockInv'
    <2>1. /\ job[j].pc = "releasing"
          /\ inFlight' = [inFlight EXCEPT ![ProcOf[j]] = @ \ {job[j].target}]
          /\ job'[j].pc = "idle"
      BY <1>0, <1>2 DEF Release, NoJob
    <2>2. \A k \in Jobs \ {j} : job'[k] = job[k]
      BY <1>0, <1>2 DEF Release
    <2> QED
      BY <1>0, <2>1, <2>2 DEF LockInv, InCall
  <1>3. ASSUME NEW p \in Procs, RunnerCrash(p) PROVE LockInv'
    <2>1. inFlight' = [inFlight EXCEPT ![p] = {}]
      BY <1>3 DEF RunnerCrash
    <2>2. \A k \in Jobs : IF ProcOf[k] = p THEN job'[k].pc = "idle"
                                           ELSE job'[k] = job[k]
      BY <1>3 DEF RunnerCrash, NoJob
    <2> QED
      BY <1>0, <2>1, <2>2 DEF LockInv, InCall
  <1>4. ASSUME NEW j \in Jobs,
               \/ ReadTarget(j) \/ CheckTarget(j) \/ FindActiveIncident(j)
               \/ Persist(j) \/ UniqueViolation(j) \/ JobFault(j)
        PROVE  LockInv'
    <2> USE DEF InCall
    <2>1. CASE ReadTarget(j)
      BY <1>0, <2>1, LockUntouched DEF ReadTarget, JobRecord
    <2>2. CASE CheckTarget(j)
      BY <1>0, <2>2, LockUntouched DEF CheckTarget, JobRecord
    <2>3. CASE FindActiveIncident(j)
      BY <1>0, <2>3, LockUntouched DEF FindActiveIncident, JobRecord
    <2>4. CASE Persist(j)
      BY <1>0, <2>4, LockUntouched DEF Persist, Finish, JobRecord
    <2>5. CASE UniqueViolation(j)
      BY <1>0, <2>5, LockUntouched DEF UniqueViolation, Finish, JobRecord
    <2>6. CASE JobFault(j)
      BY <1>0, <2>6, LockUntouched
         DEF JobFault, StatementFails, AuditInsertFails, Finish, JobRecord
    <2> QED
      BY <1>4, <2>1, <2>2, <2>3, <2>4, <2>5, <2>6
  <1>5. ASSUME NEW t \in Targets, Flip(t) PROVE LockInv'
    BY <1>5 DEF Flip, LockInv, InCall
  <1>6. CASE UNCHANGED vars
    BY <1>6 DEF vars, runnerVars, LockInv, InCall
  <1> QED
    BY <1>1, <1>2, <1>3, <1>4, <1>5, <1>6 DEF Next, JobStep

\* In every process a target is locked exactly while one call for it is under
\* way, and by that call only: no way a call can end leaves a lock behind or
\* takes another call's lock away.
THEOREM LockExact == Spec => []LockInv
  <1>1. Init => LockInv
    BY LockInit DEF Init
  <1> QED
    BY TypeInit, TypeStep, LockStep, <1>1, PTL DEF Spec

-----------------------------------------------------------------------------
(* Incidents.                                                              *)

\* The only step that writes incidents is persist.
LEMMA OthersLeaveTables ==
  ASSUME [Next]_vars, \A j \in Jobs : ~Persist(j)
  PROVE  UNCHANGED storeVars
  BY Zenon DEF Next, JobStep, JobFault, vars, TryAcquire, ReadTarget, CheckTarget,
         FindActiveIncident, UniqueViolation, Release, StatementFails,
         AuditInsertFails, RunnerCrash, Flip

\* What persist does to the incidents of its target t: it opens a row that
\* was absent when no other is active, resolves the one it found, or neither.
LEMMA PersistIncidents ==
  ASSUME TypeInv, NEW j \in Jobs, Persist(j), NEW t, t = job[j].target
  PROVE  /\ t \in Targets
         /\ \/ \E i \in IncidentIds :
                 /\ incidents[t][i].status = "ABSENT"
                 /\ OpenIncidentRow(t, i)
            \/ job[j].incident \in IncidentIds /\ ResolveIncidentRow(t, job[j].incident)
            \/ UNCHANGED <<incidents, audit>>
  <1>1. t \in Targets
    BY DEF Persist, TypeInv, CallInv, InCall
  <1>2. CASE Decision(j).shouldOpenIncident
    <2>1. NewIds(t) # {} /\ OpenIncidentRow(t, CHOOSE i \in NewIds(t) : TRUE)
      BY <1>2 DEF Persist, WriteAll
    <2> QED
      BY <1>1, <2>1, NewIdIsNew
  <1>3. CASE ~Decision(j).shouldOpenIncident
    BY <1>1, <1>3, DecisionShape DEF Persist, WriteAll
  <1> QED
    BY <1>1, <1>2, <1>3

\* The two writes touch one incident row each, and what they leave there.
LEMMA OpenWritesOneRow ==
  ASSUME TypeInv, NEW t \in Targets, NEW i \in IncidentIds, OpenIncidentRow(t, i)
  PROVE  /\ incidents'[t][i] = OpenIncident
         /\ \A u \in Targets, k \in IncidentIds :
              u # t \/ k # i => incidents'[u][k] = incidents[u][k]
  BY DEF OpenIncidentRow, TypeInv, TypeOK, StoreTypeOK

\* Resolving an incident leaves it RESOLVED and the other rows alone.
LEMMA ResolveWritesOneRow ==
  ASSUME TypeInv, NEW t \in Targets, NEW i \in IncidentIds, ResolveIncidentRow(t, i)
  PROVE  /\ incidents'[t][i].status = "RESOLVED"
         /\ \A u \in Targets, k \in IncidentIds :
              u # t \/ k # i => incidents'[u][k] = incidents[u][k]
  <1>1. incidents \in [Targets -> [IncidentIds -> IncidentRow]]
    BY DEF TypeInv, TypeOK, StoreTypeOK
  <1>2. incidents' = [incidents EXCEPT ![t][i] =
                        [@ EXCEPT !.status = "RESOLVED", !.resolvedAt = TRUE]]
    BY <1>1 DEF ResolveIncidentRow
  <1>3. incidents'[t][i] =
          [incidents[t][i] EXCEPT !.status = "RESOLVED", !.resolvedAt = TRUE]
    BY <1>1, <1>2
  <1>4. incidents[t][i] \in IncidentRow
    BY <1>1
  <1>5. incidents'[t][i].status = "RESOLVED"
    BY <1>3, <1>4 DEF IncidentRow
  <1>6. \A u \in Targets, k \in IncidentIds :
          u # t \/ k # i => incidents'[u][k] = incidents[u][k]
    BY <1>1, <1>2
  <1> QED
    BY <1>5, <1>6

\* No step makes a second incident of a target active.
LEMMA OneActiveStep == TypeInv /\ OneActiveIncident /\ [Next]_vars => OneActiveIncident'
  <1> SUFFICES ASSUME TypeInv, OneActiveIncident, [Next]_vars PROVE OneActiveIncident'
    OBVIOUS
  <1> USE DEF OneActiveIncident, ActiveIncidents, Active
  <1>1. CASE \A j \in Jobs : ~Persist(j)
    BY <1>1, OthersLeaveTables DEF storeVars
  <1>2. ASSUME NEW j \in Jobs, Persist(j) PROVE OneActiveIncident'
    <2> DEFINE t == job[j].target
    <2>0. t \in Targets
      BY <1>2, PersistIncidents
    <2>1. ASSUME NEW i \in IncidentIds, OpenIncidentRow(t, i) PROVE OneActiveIncident'
      BY <2>0, <2>1, OpenWritesOneRow DEF OpenIncidentRow, IndexAllows
    <2>2. CASE job[j].incident \in IncidentIds /\ ResolveIncidentRow(t, job[j].incident)
      <3>1. \A u \in Targets : ActiveIncidents(u)' \subseteq ActiveIncidents(u)
        BY <2>0, <2>2, ResolveWritesOneRow
      <3> QED
        BY <3>1
    <2>3. CASE UNCHANGED <<incidents, audit>>
      BY <2>3
    <2> QED
      BY <1>2, <2>1, <2>2, <2>3, PersistIncidents
  <1> QED
    BY <1>1, <1>2

\* However many processes and calls there are, a target never has two
\* incidents that are not RESOLVED.
THEOREM OneActive == Spec => []OneActiveIncident
  <1>1. Init => OneActiveIncident
    BY DEF Init, EmptyTables, OneActiveIncident, ActiveIncidents, Active, AbsentIncident
  <1> QED
    BY TypeInit, TypeStep, OneActiveStep, <1>1, PTL DEF Spec

\* A row that is RESOLVED is not written back by any step.
LEMMA ResolvedStep ==
  TypeInv /\ [Next]_vars =>
    \A t \in Targets, i \in IncidentIds :
      incidents[t][i].status = "RESOLVED" => incidents'[t][i].status = "RESOLVED"
  <1> SUFFICES ASSUME TypeInv, [Next]_vars, NEW t \in Targets, NEW i \in IncidentIds,
                      incidents[t][i].status = "RESOLVED"
               PROVE  incidents'[t][i].status = "RESOLVED"
    OBVIOUS
  <1>1. CASE \A j \in Jobs : ~Persist(j)
    BY <1>1, OthersLeaveTables DEF storeVars
  <1>2. ASSUME NEW j \in Jobs, Persist(j) PROVE incidents'[t][i].status = "RESOLVED"
    <2>1. PICK u \in Targets : u = job[j].target
      BY <1>2, PersistIncidents
    <2>2. ASSUME NEW k \in IncidentIds, incidents[u][k].status = "ABSENT",
                 OpenIncidentRow(u, k)
          PROVE  incidents'[t][i].status = "RESOLVED"
      BY <2>2, OpenWritesOneRow
    <2>3. CASE job[j].incident \in IncidentIds /\ ResolveIncidentRow(u, job[j].incident)
      BY <2>3, ResolveWritesOneRow
    <2>4. CASE UNCHANGED <<incidents, audit>>
      BY <2>4
    <2> QED
      BY <1>2, <2>1, <2>2, <2>3, <2>4, PersistIncidents
  <1> QED
    BY <1>1, <1>2

\* RESOLVED is a final state of an incident in every interleaving of checks,
\* even of processes that hold decisions about the same incident.
THEOREM ResolvedForGood == Spec => ResolvedIsFinal
  BY TypeInit, TypeStep, ResolvedStep, PTL DEF Spec, ResolvedIsFinal

\* The incident a call has found is a row of its target.
FoundExists ==
  \A j \in Jobs :
    job[j].pc = "decided" /\ job[j].incident # NoIncident
      => incidents[job[j].target][job[j].incident].status # "ABSENT"

TrailInv == IncidentTrail /\ FoundExists

\* What a step does to a row of the incident table and to its events: it is
\* left alone, it is opened, or it is resolved, each with its event.
RowKept(t, i) ==
  /\ incidents'[t][i] = incidents[t][i]
  /\ <<"INCIDENT_OPENED", t, i>> \in audit' <=> <<"INCIDENT_OPENED", t, i>> \in audit
  /\ <<"INCIDENT_RESOLVED", t, i>> \in audit' <=> <<"INCIDENT_RESOLVED", t, i>> \in audit

RowOpened(t, i) ==
  /\ incidents'[t][i] = OpenIncident
  /\ <<"INCIDENT_OPENED", t, i>> \in audit'

RowResolved(t, i) ==
  /\ incidents[t][i].status # "ABSENT"
  /\ incidents'[t][i].status = "RESOLVED"
  /\ <<"INCIDENT_OPENED", t, i>> \in audit' <=> <<"INCIDENT_OPENED", t, i>> \in audit
  /\ <<"INCIDENT_RESOLVED", t, i>> \in audit'

\* Each row of the incident table is kept, opened or resolved by a step.
LEMMA RowAndEvents ==
  ASSUME TypeInv, FoundExists, [Next]_vars,
         NEW t \in Targets, NEW i \in IncidentIds
  PROVE  RowKept(t, i) \/ RowOpened(t, i) \/ RowResolved(t, i)
  <1>1. CASE \A j \in Jobs : ~Persist(j)
    BY <1>1, OthersLeaveTables DEF storeVars, RowKept
  <1>2. ASSUME NEW j \in Jobs, Persist(j)
        PROVE  RowKept(t, i) \/ RowOpened(t, i) \/ RowResolved(t, i)
    <2>1. PICK u \in Targets : u = job[j].target
      BY <1>2, PersistIncidents
    <2>2. ASSUME NEW k \in IncidentIds, OpenIncidentRow(u, k)
          PROVE  RowKept(t, i) \/ RowOpened(t, i)
      <3>1. audit' = audit \cup {<<"INCIDENT_OPENED", u, k>>}
        BY <2>2 DEF OpenIncidentRow
      <3>2. CASE u = t /\ k = i
        BY <2>2, <3>1, <3>2, OpenWritesOneRow DEF RowOpened
      <3>3. CASE u # t \/ k # i
        BY <2>2, <3>1, <3>3, OpenWritesOneRow DEF RowKept
      <3> QED
        BY <3>2, <3>3
    <2>3. ASSUME NEW k \in IncidentIds, k = job[j].incident, ResolveIncidentRow(u, k)
          PROVE  RowKept(t, i) \/ RowResolved(t, i)
      <3>1. audit' = audit \cup {<<"INCIDENT_RESOLVED", u, k>>}
        BY <2>3 DEF ResolveIncidentRow
      <3>2. incidents[u][k].status # "ABSENT"
        BY <1>2, <2>1, <2>3, StoreAssumption DEF Persist, FoundExists
      <3>3. CASE u = t /\ k = i
        BY <2>3, <3>1, <3>2, <3>3, ResolveWritesOneRow DEF RowResolved
      <3>4. CASE u # t \/ k # i
        BY <2>3, <3>1, <3>4, ResolveWritesOneRow DEF RowKept
      <3> QED
        BY <3>3, <3>4
    <2>4. CASE UNCHANGED <<incidents, audit>>
      BY <2>4 DEF RowKept
    <2> QED
      BY <1>2, <2>1, <2>2, <2>3, <2>4, PersistIncidents
  <1> QED
    BY <1>1, <1>2

\* What a step does to a call: it leaves it alone, takes it to its next await
\* before the writes, or out of the part between the read and the writes.
CallMoves(j) ==
  \/ job'[j] = job[j]
  \/ ReadTarget(j)
  \/ CheckTarget(j)
  \/ FindActiveIncident(j)
  \/ job'[j].pc \in {"idle", "locked", "releasing"}

\* Every step moves every call in one of these ways.
LEMMA CallStep ==
  ASSUME TypeInv, [Next]_vars, NEW j \in Jobs
  PROVE  CallMoves(j)
  <1>0. job \in [Jobs -> JobRecord]
    BY DEF TypeInv, TypeOK, RunnerTypeOK
  <1>1. ASSUME NEW k \in Jobs, NEW t \in Targets, TryAcquire(k, t) PROVE CallMoves(j)
    BY <1>0, <1>1 DEF TryAcquire, NoJob, CallMoves
  <1>2. ASSUME NEW k \in Jobs, ReadTarget(k) \/ CheckTarget(k) \/ FindActiveIncident(k)
        PROVE  CallMoves(j)
    <2>1. CASE k = j
      BY <1>2, <2>1 DEF CallMoves
    <2>2. CASE k # j
      BY <1>0, <1>2, <2>2 DEF CallMoves, ReadTarget, CheckTarget, FindActiveIncident
    <2> QED
      BY <2>1, <2>2
  <1>3. ASSUME NEW k \in Jobs, NEW outcome, Finish(k, outcome) PROVE CallMoves(j)
    BY <1>0, <1>3 DEF CallMoves, Finish, JobRecord
  <1>4. ASSUME NEW k \in Jobs, Release(k) PROVE CallMoves(j)
    BY <1>0, <1>4 DEF CallMoves, Release, NoJob
  <1>5. ASSUME NEW p \in Procs, RunnerCrash(p) PROVE CallMoves(j)
    <2>1. job'[j] = IF ProcOf[j] = p THEN NoJob ELSE job[j]
      BY <1>5 DEF RunnerCrash
    <2> QED
      BY <2>1 DEF CallMoves, NoJob
  <1>6. CASE UNCHANGED job
    BY <1>6 DEF CallMoves
  <1> QED
    BY <1>1, <1>2, <1>3, <1>4, <1>5, <1>6
       DEF Next, JobStep, JobFault, Persist, UniqueViolation, StatementFails,
           AuditInsertFails, Flip, vars, runnerVars

\* A call finds rows that exist, and no step removes a row.
LEMMA FoundStep == TypeInv /\ FoundExists /\ [Next]_vars => FoundExists'
  <1> SUFFICES ASSUME TypeInv, FoundExists, [Next]_vars, NEW j \in Jobs,
                      job'[j].pc = "decided", job'[j].incident # NoIncident
               PROVE  incidents'[job'[j].target][job'[j].incident].status # "ABSENT"
    BY DEF FoundExists
  <1>1. job \in [Jobs -> JobRecord]
    BY DEF TypeInv, TypeOK, RunnerTypeOK
  <1>2. \/ FindActiveIncident(j)
        \/ job[j].pc = "decided" /\ job'[j] = job[j]
    <2>1. ASSUME ReadTarget(j) PROVE FALSE
      <3>1. job[j] \in JobRecord
        BY <1>1
      <3>2. \/ job'[j] = [job[j] EXCEPT !.pc = "checking", !.row = targets[job[j].target]]
            \/ job'[j] = [job[j] EXCEPT !.pc = "releasing", !.outcome = "paused"]
        BY <1>1, <2>1 DEF ReadTarget
      <3> QED
        BY <3>1, <3>2 DEF JobRecord
    <2>2. ~CheckTarget(j)
      BY <1>1 DEF CheckTarget, JobRecord
    <2> QED
      BY <2>1, <2>2, CallStep DEF CallMoves
  <1>3. CASE FindActiveIncident(j)
    <2>1. /\ incidents' = incidents
          /\ job'[j].target = job[j].target
          /\ job'[j].incident \in ActiveIncidents(job[j].target)
      BY <1>1, <1>3 DEF FindActiveIncident, storeVars, JobRecord
    <2> QED
      BY <2>1 DEF ActiveIncidents, Active
  <1>4. CASE job[j].pc = "decided" /\ job'[j] = job[j]
    <2>1. job[j].target \in Targets /\ job[j].incident \in IncidentIds
      BY <1>1, <1>4 DEF TypeInv, CallInv, InCall, JobRecord
    <2>2. incidents[job[j].target][job[j].incident].status # "ABSENT"
      BY <1>4 DEF FoundExists
    <2> QED
      BY <1>4, <2>1, <2>2, RowAndEvents
         DEF RowKept, RowOpened, RowResolved, OpenIncident, AbsentIncident
  <1> QED
    BY <1>2, <1>3, <1>4

\* No step makes the incident table and the audit trail disagree.
LEMMA TrailStep == TypeInv /\ TrailInv /\ [Next]_vars => TrailInv'
  <1> SUFFICES ASSUME TypeInv, TrailInv, [Next]_vars PROVE IncidentTrail'
    BY FoundStep DEF TrailInv
  <1> SUFFICES ASSUME NEW t \in Targets, NEW i \in IncidentIds
               PROVE  /\ incidents'[t][i].status # "ABSENT"
                           <=> <<"INCIDENT_OPENED", t, i>> \in audit'
                      /\ incidents'[t][i].resolvedAt
                           => <<"INCIDENT_RESOLVED", t, i>> \in audit'
    BY DEF IncidentTrail
  <1>1. /\ incidents[t][i].status # "ABSENT" <=> <<"INCIDENT_OPENED", t, i>> \in audit
        /\ incidents[t][i].resolvedAt => <<"INCIDENT_RESOLVED", t, i>> \in audit
    BY DEF TrailInv, IncidentTrail
  <1>2. CASE RowKept(t, i)
    BY <1>1, <1>2 DEF RowKept
  <1>3. CASE RowOpened(t, i)
    BY <1>3 DEF RowOpened, OpenIncident, AbsentIncident
  <1>4. CASE RowResolved(t, i)
    BY <1>1, <1>4 DEF RowResolved
  <1> QED
    BY <1>2, <1>3, <1>4, RowAndEvents DEF TrailInv

\* Whatever fails, and whichever process dies, the audit trail has the opening
\* of exactly the incidents there are, and the resolution of each that ended.
THEOREM TrailComplete == Spec => []IncidentTrail
  <1>1. Init => TrailInv
    BY DEF Init, EmptyTables, RunnerInit, TrailInv, IncidentTrail, FoundExists,
           AbsentIncident, NoJob
  <1>2. TrailInv => IncidentTrail
    BY DEF TrailInv
  <1> QED
    BY TypeInit, TypeStep, TrailStep, <1>1, <1>2, PTL DEF Spec

-----------------------------------------------------------------------------
(* What the lock buys: when all calls run in one process, the checks of a  *)
(* target are serial, and so the row, the results and the incidents agree. *)

SerialInv ==
  /\ TypeInv
  /\ LockInv
  /\ OneActiveIncident
  /\ SnapshotCurrent
  /\ CountersFollowResults
  /\ StatusMatchesIncident

-----------------------------------------------------------------------------
(* What persist does to its own target and to the others.                  *)

\* The rows of other targets are not touched.
LEMMA PersistElsewhere ==
  ASSUME TypeInv, NEW j \in Jobs, Persist(j),
         NEW u \in Targets, u # job[j].target
  PROVE  /\ targets'[u] = targets[u]
         /\ results'[u] = results[u]
         /\ ActiveIncidents(u)' = ActiveIncidents(u)
  <1>1. WriteResult(job[j].target, job[j].result, Decision(j))
    BY DEF Persist, WriteAll
  <1>2. targets'[u] = targets[u] /\ results'[u] = results[u]
    BY <1>1 DEF WriteResult, TypeInv, TypeOK, StoreTypeOK
  <1>3. \A i \in IncidentIds : incidents'[u][i] = incidents[u][i]
    <2>1. PICK t \in Targets : t = job[j].target
      BY PersistIncidents
    <2>2. ASSUME NEW i \in IncidentIds, OpenIncidentRow(t, i)
          PROVE  \A k \in IncidentIds : incidents'[u][k] = incidents[u][k]
      BY <2>1, <2>2, OpenWritesOneRow
    <2>3. CASE job[j].incident \in IncidentIds /\ ResolveIncidentRow(t, job[j].incident)
      BY <2>1, <2>3, ResolveWritesOneRow
    <2>4. CASE UNCHANGED <<incidents, audit>>
      BY <2>4
    <2> QED
      BY <2>1, <2>2, <2>3, <2>4, PersistIncidents
  <1>4. ActiveIncidents(u)' = ActiveIncidents(u)
    BY <1>3 DEF ActiveIncidents, Active
  <1> QED
    BY <1>2, <1>4

\* The row of its own target gets the decision and the newest result.
LEMMA PersistHere ==
  ASSUME TypeInv, NEW j \in Jobs, Persist(j), NEW t, t = job[j].target
  PROVE  /\ targets'[t].status = Decision(j).status
         /\ targets'[t].consecutiveFailures = Capped(Decision(j).consecutiveFailures)
         /\ targets'[t].consecutiveSuccesses = Capped(Decision(j).consecutiveSuccesses)
         /\ results'[t] = AppendResult(results[t], job[j].result)
  <1>1. t \in Targets
    BY PersistIncidents
  <1>2. WriteResult(t, job[j].result, Decision(j))
    BY DEF Persist, WriteAll
  <1>3. targets[t] \in TargetRow
    BY <1>1 DEF TypeInv, TypeOK, StoreTypeOK
  <1> DEFINE new == [targets[t] EXCEPT
                       !.status = Decision(j).status,
                       !.consecutiveFailures = Capped(Decision(j).consecutiveFailures),
                       !.consecutiveSuccesses = Capped(Decision(j).consecutiveSuccesses)]
  <1>4. targets'[t] = new
    BY <1>1, <1>2 DEF WriteResult, TypeInv, TypeOK, StoreTypeOK
  <1>5. /\ new.status = Decision(j).status
        /\ new.consecutiveFailures = Capped(Decision(j).consecutiveFailures)
        /\ new.consecutiveSuccesses = Capped(Decision(j).consecutiveSuccesses)
    BY <1>3 DEF TargetRow
  <1>6. results'[t] = AppendResult(results[t], job[j].result)
    BY <1>1, <1>2 DEF WriteResult, TypeInv, TypeOK, StoreTypeOK
  <1> QED
    BY <1>4, <1>5, <1>6

-----------------------------------------------------------------------------
(* The snapshot.                                                           *)

\* Until a call writes, nobody else can: the target of every other call
\* under way in the process is another one.
LEMMA SnapshotStep ==
  ASSUME OneProcessOnly, TypeInv, LockInv, OneActiveIncident, SnapshotCurrent, [Next]_vars
  PROVE  SnapshotCurrent'
  <1> SUFFICES ASSUME NEW j \in Jobs
               PROVE  /\ job'[j].pc \in {"checking", "checked", "decided"}
                           => job'[j].row = targets'[job'[j].target]
                      /\ job'[j].pc = "decided" =>
                           ActiveIncidents(job[j].target)' =
                             IF job'[j].incident = NoIncident THEN {} ELSE {job'[j].incident}
    BY DEF SnapshotCurrent
  <1> DEFINE t == job[j].target
  <1>1. job \in [Jobs -> JobRecord]
    BY DEF TypeInv, TypeOK, RunnerTypeOK
  <1>2. CASE job'[j].pc \in {"idle", "locked", "releasing"}
    BY <1>2
  <1>3. CASE ReadTarget(j)
    <2>1. job'[j] = IF Checkable(targets[t])
                    THEN [job[j] EXCEPT !.pc = "checking", !.row = targets[t]]
                    ELSE [job[j] EXCEPT !.pc = "releasing", !.outcome = "paused"]
      BY <1>1, <1>3 DEF ReadTarget
    <2>2. /\ job'[j].target = t
          /\ job'[j].pc = "checking" => job'[j].row = targets[t]
          /\ job'[j].pc \notin {"checked", "decided"}
      BY <1>1, <2>1 DEF JobRecord
    <2>3. targets' = targets
      BY <1>3 DEF ReadTarget, storeVars
    <2> QED
      BY <2>2, <2>3
  <1>4. CASE CheckTarget(j)
    <2>1. /\ job'[j].target = t
          /\ job'[j].row = job[j].row
          /\ job'[j].pc = "checked"
      BY <1>1, <1>4 DEF CheckTarget, JobRecord
    <2>2. targets' = targets /\ job[j].row = targets[t]
      BY <1>4 DEF CheckTarget, storeVars, SnapshotCurrent
    <2> QED
      BY <2>1, <2>2
  <1>5. CASE FindActiveIncident(j)
    <2>1. PICK i \in IF ActiveIncidents(t) = {} THEN {NoIncident} ELSE ActiveIncidents(t) :
            job' = [job EXCEPT ![j].pc = "decided", ![j].incident = i]
      BY <1>5 DEF FindActiveIncident
    <2>2. /\ job'[j].target = t
          /\ job'[j].row = job[j].row
          /\ job'[j].incident = i
      BY <1>1, <2>1 DEF JobRecord
    <2>3. t \in Targets /\ job[j].row = targets[t]
      BY <1>5 DEF FindActiveIncident, SnapshotCurrent, TypeInv, CallInv, InCall
    <2>4. UNCHANGED <<targets, incidents>>
      BY <1>5 DEF FindActiveIncident, storeVars
    <2>5. ActiveIncidents(t) = IF i = NoIncident THEN {} ELSE {i}
      BY <2>1, <2>3, StoreAssumption DEF OneActiveIncident, ActiveIncidents
    <2> QED
      BY <2>2, <2>3, <2>4, <2>5 DEF ActiveIncidents
  <1>6. CASE job'[j] = job[j] /\ job[j].pc \in {"checking", "checked", "decided"}
    <2>1. PICK u \in Targets : u = t
      BY <1>6 DEF TypeInv, CallInv, InCall
    <2>2. (\A k \in Jobs : ~Persist(k)) => UNCHANGED <<targets, incidents>>
      BY OthersLeaveTables DEF storeVars
    <2>3. ASSUME NEW k \in Jobs, Persist(k)
          PROVE  targets'[u] = targets[u] /\ ActiveIncidents(u)' = ActiveIncidents(u)
      <3>1. k # j
        BY <1>1, <1>6, <2>3 DEF Persist, Finish, JobRecord
      <3>2. job[k].target # u
        BY <1>6, <2>1, <2>3, <3>1 DEF OneProcessOnly, LockInv, InCall, Persist
      <3> QED
        BY <2>3, <3>2, PersistElsewhere
    <2>4. targets'[u] = targets[u] /\ ActiveIncidents(u)' = ActiveIncidents(u)
      BY <2>2, <2>3 DEF ActiveIncidents
    <2>5. /\ job[j].row = targets[u]
          /\ job[j].pc = "decided" =>
               ActiveIncidents(u) = IF job[j].incident = NoIncident THEN {}
                                    ELSE {job[j].incident}
      BY <1>6, <2>1 DEF SnapshotCurrent
    <2>6. job'[j].target = u
      BY <1>6, <2>1
    <2> QED
      BY <1>6, <2>4, <2>5, <2>6 DEF ActiveIncidents
  <1>7. CASE job'[j] = job[j] /\ job[j].pc \notin {"checking", "checked", "decided"}
    BY <1>7
  <1> QED
    BY <1>2, <1>3, <1>4, <1>5, <1>6, <1>7, CallStep DEF CallMoves

-----------------------------------------------------------------------------
(* The decision, from the row and the incident it is made from.            *)

RecoveryPending(j) ==
  /\ job[j].incident # NoIncident \/ job[j].row.status = "DOWN"
  /\ job[j].row.consecutiveSuccesses + 1 < recoveryThreshold

FailuresReached(j) == job[j].row.consecutiveFailures + 1 >= failureThreshold

\* What persist decides of a success.
LEMMA DecisionOnSuccess ==
  ASSUME NEW j, job[j].result = "SUCCESS"
  PROVE  /\ Decision(j).status = IF RecoveryPending(j) THEN "DOWN" ELSE "UP"
         /\ Decision(j).consecutiveFailures = 0
         /\ Decision(j).consecutiveSuccesses = job[j].row.consecutiveSuccesses + 1
         /\ ~Decision(j).shouldOpenIncident
         /\ Decision(j).shouldResolveIncident
              <=> ~RecoveryPending(j) /\ job[j].incident # NoIncident
  BY Zenon DEF Decision, ComputeHealthTransition, OnSuccess, RecoveryPending

\* What persist decides of a failure.
LEMMA DecisionOnFailure ==
  ASSUME NEW j, job[j].result # "SUCCESS"
  PROVE  /\ Decision(j).status = IF FailuresReached(j) THEN "DOWN" ELSE "DEGRADED"
         /\ Decision(j).consecutiveFailures = job[j].row.consecutiveFailures + 1
         /\ Decision(j).consecutiveSuccesses = 0
         /\ Decision(j).shouldOpenIncident
              <=> FailuresReached(j) /\ job[j].incident = NoIncident
         /\ ~Decision(j).shouldResolveIncident
  BY Zenon DEF Decision, ComputeHealthTransition, OnFailure, FailuresReached

-----------------------------------------------------------------------------
(* Counters and results.                                                   *)

\* A commit extends the counters and the run of results alike.
LEMMA CountersStep ==
  ASSUME TypeInv, SnapshotCurrent, CountersFollowResults, [Next]_vars
  PROVE  CountersFollowResults'
  <1> SUFFICES ASSUME NEW t \in Targets
               PROVE  /\ targets'[t].consecutiveFailures =
                           IF results'[t].last = "FAILURE" THEN results'[t].run ELSE 0
                      /\ targets'[t].consecutiveSuccesses =
                           IF results'[t].last = "SUCCESS" THEN results'[t].run ELSE 0
    BY DEF CountersFollowResults
  <1>0. /\ targets[t].consecutiveFailures =
             IF results[t].last = "FAILURE" THEN results[t].run ELSE 0
        /\ targets[t].consecutiveSuccesses =
             IF results[t].last = "SUCCESS" THEN results[t].run ELSE 0
        /\ results[t].run \in Nat
        /\ results[t] \in ResultRun
    <2>1. results[t] \in ResultRun
      BY DEF TypeInv, TypeOK, StoreTypeOK
    <2> QED
      BY <2>1, ThresholdsPositive DEF CountersFollowResults, ResultRun
  <1>1. CASE \A j \in Jobs : ~Persist(j)
    BY <1>0, <1>1, OthersLeaveTables DEF storeVars
  <1>2. ASSUME NEW j \in Jobs, Persist(j), job[j].target # t
        PROVE  targets'[t] = targets[t] /\ results'[t] = results[t]
    BY <1>2, PersistElsewhere
  <1>3. ASSUME NEW j \in Jobs, Persist(j), job[j].target = t
        PROVE  /\ targets'[t].consecutiveFailures =
                    IF results'[t].last = "FAILURE" THEN results'[t].run ELSE 0
               /\ targets'[t].consecutiveSuccesses =
                    IF results'[t].last = "SUCCESS" THEN results'[t].run ELSE 0
    <2>1. /\ targets'[t].consecutiveFailures = Capped(Decision(j).consecutiveFailures)
          /\ targets'[t].consecutiveSuccesses = Capped(Decision(j).consecutiveSuccesses)
          /\ results'[t] = AppendResult(results[t], job[j].result)
      BY <1>3, PersistHere
    <2>2. job[j].row = targets[t] /\ job[j].result \in CheckResultStatus
      BY <1>3 DEF Persist, SnapshotCurrent, TypeInv, CallInv
    <2>3. /\ results'[t].last = job[j].result
          /\ results'[t].run = IF results[t].last = job[j].result
                               THEN Capped(results[t].run + 1) ELSE 1
      BY <2>1 DEF AppendResult
    <2>4. Capped(0) = 0 /\ Capped(1) = 1
      BY ThresholdsPositive DEF Capped
    <2>5. CASE job[j].result = "SUCCESS"
      BY <1>0, <2>1, <2>2, <2>3, <2>4, <2>5, DecisionOnSuccess
    <2>6. CASE job[j].result = "FAILURE"
      BY <1>0, <2>1, <2>2, <2>3, <2>4, <2>6, DecisionOnFailure
    <2> QED
      BY <2>2, <2>5, <2>6 DEF CheckResultStatus
  <1> QED
    BY <1>0, <1>1, <1>2, <1>3

-----------------------------------------------------------------------------
(* Status and incidents.                                                   *)

\* Whether the target has an active incident after a call has written.
LEMMA IncidentAfter ==
  ASSUME TypeInv, SnapshotCurrent, StatusMatchesIncident,
         NEW j \in Jobs, Persist(j), NEW t \in Targets, t = job[j].target
  PROVE  /\ job[j].result = "SUCCESS" =>
              (ActiveIncidents(t)' # {} <=> RecoveryPending(j))
         /\ job[j].result # "SUCCESS" =>
              (ActiveIncidents(t)' # {} <=> ActiveIncidents(t) # {} \/ FailuresReached(j))
  <1>1. /\ job[j].row = targets[t]
        /\ ActiveIncidents(t) = IF job[j].incident = NoIncident THEN {}
                                ELSE {job[j].incident}
    BY DEF Persist, SnapshotCurrent
  <1>2. WriteAll(j)
    BY DEF Persist
  <1>3. CASE job[j].result = "SUCCESS" /\ RecoveryPending(j)
    <2>1. UNCHANGED incidents
      BY <1>2, <1>3, DecisionOnSuccess DEF WriteAll
    <2>2. ActiveIncidents(t) # {}
      BY <1>1, <1>3 DEF RecoveryPending, StatusMatchesIncident, HasActiveIncident
    <2> QED
      BY <1>3, <2>1, <2>2 DEF ActiveIncidents
  <1>4. CASE job[j].result = "SUCCESS" /\ ~RecoveryPending(j)
    <2>1. CASE job[j].incident = NoIncident
      <3>1. UNCHANGED incidents
        BY <1>2, <1>4, <2>1, DecisionOnSuccess DEF WriteAll
      <3> QED
        BY <1>1, <1>4, <2>1, <3>1 DEF ActiveIncidents
    <2>2. CASE job[j].incident # NoIncident
      <3>1. ResolveIncidentRow(t, job[j].incident)
        BY <1>2, <1>4, <2>2, DecisionOnSuccess DEF WriteAll
      <3>2. job[j].incident \in IncidentIds
        BY <2>2 DEF TypeInv, TypeOK, RunnerTypeOK, JobRecord
      <3>3. ActiveIncidents(t)' = {}
        BY <1>1, <2>2, <3>1, <3>2, ResolveWritesOneRow DEF ActiveIncidents, Active
      <3> QED
        BY <1>4, <3>3
    <2> QED
      BY <2>1, <2>2
  <1>5. CASE job[j].result # "SUCCESS" /\ FailuresReached(j)
    <2>1. CASE job[j].incident = NoIncident
      <3>1. NewIds(t) # {} /\ OpenIncidentRow(t, CHOOSE i \in NewIds(t) : TRUE)
        BY <1>2, <1>5, <2>1, DecisionOnFailure DEF WriteAll
      <3>2. PICK i \in IncidentIds : OpenIncidentRow(t, i)
        BY <3>1, NewIdIsNew
      <3>3. i \in ActiveIncidents(t)'
        BY <3>2, OpenWritesOneRow DEF ActiveIncidents, Active, OpenIncident, AbsentIncident
      <3> QED
        BY <1>5, <3>3
    <2>2. CASE job[j].incident # NoIncident
      <3>1. UNCHANGED incidents
        BY <1>2, <1>5, <2>2, DecisionOnFailure DEF WriteAll
      <3> QED
        BY <1>1, <1>5, <2>2, <3>1 DEF ActiveIncidents
    <2> QED
      BY <2>1, <2>2
  <1>6. CASE job[j].result # "SUCCESS" /\ ~FailuresReached(j)
    <2>1. UNCHANGED incidents
      BY <1>2, <1>6, DecisionOnFailure DEF WriteAll
    <2> QED
      BY <1>6, <2>1 DEF ActiveIncidents
  <1> QED
    BY <1>3, <1>4, <1>5, <1>6

\* A commit leaves the status and the incident it decided.
LEMMA StatusStep ==
  ASSUME TypeInv, SnapshotCurrent, StatusMatchesIncident, [Next]_vars
  PROVE  StatusMatchesIncident'
  <1> SUFFICES ASSUME NEW t \in Targets
               PROVE  /\ targets'[t].status = "DOWN" => ActiveIncidents(t)' # {}
                      /\ targets'[t].status \in {"UP", "UNKNOWN"} => ActiveIncidents(t)' = {}
    BY DEF StatusMatchesIncident, HasActiveIncident
  <1>1. /\ targets[t].status = "DOWN" => ActiveIncidents(t) # {}
        /\ targets[t].status \in {"UP", "UNKNOWN"} => ActiveIncidents(t) = {}
    BY DEF StatusMatchesIncident, HasActiveIncident
  <1>2. (\A j \in Jobs : ~Persist(j)) => UNCHANGED <<targets, incidents>>
    BY OthersLeaveTables DEF storeVars
  <1>3. ASSUME NEW j \in Jobs, Persist(j), job[j].target # t
        PROVE  targets'[t] = targets[t] /\ ActiveIncidents(t)' = ActiveIncidents(t)
    BY <1>3, PersistElsewhere
  <1>4. ASSUME NEW j \in Jobs, Persist(j), job[j].target = t
        PROVE  /\ targets'[t].status = "DOWN" => ActiveIncidents(t)' # {}
               /\ targets'[t].status \in {"UP", "UNKNOWN"} => ActiveIncidents(t)' = {}
    <2>1. targets'[t].status = Decision(j).status
      BY <1>4, PersistHere
    <2>2. CASE job[j].result = "SUCCESS"
      BY <1>4, <2>1, <2>2, DecisionOnSuccess, IncidentAfter
    <2>3. CASE job[j].result # "SUCCESS"
      BY <1>4, <2>1, <2>3, DecisionOnFailure, IncidentAfter
    <2> QED
      BY <2>2, <2>3
  <1> QED
    BY <1>1, <1>2, <1>3, <1>4 DEF ActiveIncidents

-----------------------------------------------------------------------------
\* The serial invariant holds of a started process and its tables.
LEMMA SerialInit == Init => SerialInv
  <1> SUFFICES ASSUME Init PROVE SerialInv
    OBVIOUS
  <1> USE DEF Init, EmptyTables, RunnerInit
  <1>1. TypeInv
    BY TypeInit
  <1>2. \A j \in Jobs : job[j].pc = "idle"
    BY DEF NoJob
  <1>3. LockInv /\ SnapshotCurrent
    BY <1>2, RunnerAssumption DEF LockInv, SnapshotCurrent, InCall
  <1>4. \A t \in Targets : ActiveIncidents(t) = {}
    BY DEF ActiveIncidents, Active, AbsentIncident
  <1>5. OneActiveIncident
    BY <1>4 DEF OneActiveIncident
  <1>6. \A t \in Targets : /\ targets[t].consecutiveFailures = 0
                           /\ targets[t].consecutiveSuccesses = 0
                           /\ targets[t].status \in {"UNKNOWN", "PAUSED"}
                           /\ results[t] = [last |-> "NONE", run |-> 0]
    <2>1. /\ FreshRow.consecutiveFailures = 0
          /\ FreshRow.consecutiveSuccesses = 0
          /\ FreshRow.status = "UNKNOWN"
      BY DEF FreshRow
    <2>2. /\ PausedRow.consecutiveFailures = 0
          /\ PausedRow.consecutiveSuccesses = 0
          /\ PausedRow.status = "PAUSED"
      BY DEF PausedRow, FreshRow
    <2> QED
      BY <2>1, <2>2
  <1>7. CountersFollowResults
    BY <1>6 DEF CountersFollowResults
  <1>8. StatusMatchesIncident
    BY <1>4, <1>6 DEF StatusMatchesIncident, HasActiveIncident
  <1> QED
    BY <1>1, <1>3, <1>5, <1>7, <1>8 DEF SerialInv

\* In one process every step keeps the serial invariant.
LEMMA SerialStep ==
  ASSUME OneProcessOnly
  PROVE  SerialInv /\ [Next]_vars => SerialInv'
  BY TypeStep, LockStep, OneActiveStep, SnapshotStep, CountersStep, StatusStep DEF SerialInv

\* In one process the serial invariant always holds.
LEMMA Serial ==
  ASSUME OneProcessOnly
  PROVE  Spec => []SerialInv
  BY SerialInit, SerialStep, PTL DEF Spec

\* In one process, the row and the incident a call decides from are, when it
\* writes, still what the tables hold: the lock makes up for reading them
\* before the HTTP check and outside the writes.
THEOREM SnapshotStaysCurrent ==
  ASSUME OneProcessOnly
  PROVE  Spec => []SnapshotCurrent
  <1>1. SerialInv => SnapshotCurrent
    BY DEF SerialInv
  <1> QED
    BY Serial, <1>1, PTL

\* In one process, no result is counted twice or lost: the counters of a row
\* are the newest run of its stored results.
THEOREM CountersExact ==
  ASSUME OneProcessOnly
  PROVE  Spec => []CountersFollowResults
  <1>1. SerialInv => CountersFollowResults
    BY DEF SerialInv
  <1> QED
    BY Serial, <1>1, PTL

\* In one process, and as long as only checks write, a target is DOWN only
\* with an active incident, and UP only without.
THEOREM StatusExact ==
  ASSUME OneProcessOnly
  PROVE  Spec => []StatusMatchesIncident
  <1>1. SerialInv => StatusMatchesIncident
    BY DEF SerialInv
  <1> QED
    BY Serial, <1>1, PTL

-----------------------------------------------------------------------------
(* The runner implements the serial health model.                          *)

\* Only enabled targets are checked, and no enabled target shows PAUSED.
CheckedTargetsShown ==
  /\ \A t \in Targets : targets[t].enabled => targets[t].status # "PAUSED"
  /\ \A j \in Jobs : job[j].pc \in {"checking", "checked", "decided"} => job[j].row.enabled

\* No check makes an enabled target PAUSED, or works on a disabled row.
LEMMA ShownStep ==
  ASSUME TypeInv, CheckedTargetsShown, [Next]_vars
  PROVE  CheckedTargetsShown'
  <1>1. ASSUME NEW t \in Targets, targets'[t].enabled
        PROVE  targets'[t].status # "PAUSED"
    <2>1. (\A j \in Jobs : ~Persist(j)) => UNCHANGED targets
      BY OthersLeaveTables DEF storeVars
    <2>2. ASSUME NEW j \in Jobs, Persist(j), job[j].target # t
          PROVE  targets'[t] = targets[t]
      BY <2>2, PersistElsewhere
    <2>3. ASSUME NEW j \in Jobs, Persist(j), job[j].target = t
          PROVE  targets'[t].status # "PAUSED"
      <3>1. targets'[t].status = Decision(j).status
        BY <2>3, PersistHere
      <3> QED
        BY <3>1, DecisionOnSuccess, DecisionOnFailure
    <2> QED
      BY <1>1, <2>1, <2>2, <2>3 DEF CheckedTargetsShown
  <1>2. ASSUME NEW j \in Jobs, job'[j].pc \in {"checking", "checked", "decided"}
        PROVE  job'[j].row.enabled
    <2>1. job \in [Jobs -> JobRecord]
      BY DEF TypeInv, TypeOK, RunnerTypeOK
    <2>2. CASE job'[j] = job[j]
      BY <1>2, <2>2 DEF CheckedTargetsShown
    <2>3. CASE ReadTarget(j)
      <3>1. job'[j] = IF Checkable(targets[job[j].target])
                      THEN [job[j] EXCEPT !.pc = "checking", !.row = targets[job[j].target]]
                      ELSE [job[j] EXCEPT !.pc = "releasing", !.outcome = "paused"]
        BY <2>1, <2>3 DEF ReadTarget
      <3> QED
        BY <1>2, <2>1, <3>1 DEF JobRecord, Checkable
    <2>4. CASE CheckTarget(j)
      BY <2>1, <2>4 DEF CheckTarget, JobRecord, CheckedTargetsShown
    <2>5. CASE FindActiveIncident(j)
      BY <2>1, <2>5 DEF FindActiveIncident, JobRecord, CheckedTargetsShown
    <2> QED
      BY <1>2, <2>2, <2>3, <2>4, <2>5, CallStep DEF CallMoves
  <1> QED
    BY <1>1, <1>2 DEF CheckedTargetsShown

ModelInv == SerialInv /\ CheckedTargetsShown

\* The initial tables map to an initial state of the model.
LEMMA ModelInit == Init => Model!AbstractInit /\ ModelInv
  <1> SUFFICES ASSUME Init PROVE Model!AbstractInit /\ ModelInv
    OBVIOUS
  <1> USE DEF Init, EmptyTables, RunnerInit
  <1>1. \A t \in Targets : /\ targets[t].status \in {"UNKNOWN", "PAUSED"}
                           /\ targets[t].enabled => targets[t].status # "PAUSED"
    <2>1. FreshRow.status = "UNKNOWN"
      BY DEF FreshRow
    <2>2. PausedRow.status = "PAUSED" /\ PausedRow.enabled = FALSE
      BY DEF PausedRow, FreshRow
    <2> QED
      BY <2>1, <2>2
  <1>2. \A t \in Targets : HasActiveIncident(t) = FALSE
    BY DEF HasActiveIncident, ActiveIncidents, Active, AbsentIncident
  <1>3. CheckedTargetsShown
    BY <1>1 DEF CheckedTargetsShown, NoJob
  <1>4. Model!AbstractInit
    <2>1. [t \in Targets |-> HasActiveIncident(t)] = [t \in Targets |-> FALSE]
      BY <1>2
    <2>2. [t \in Targets |-> targets[t].status] \in [Targets -> {"UNKNOWN", "PAUSED"}]
      BY <1>1
    <2> QED
      BY <2>1, <2>2 DEF Model!AbstractInit
  <1> QED
    BY SerialInit, <1>3, <1>4 DEF ModelInv

\* The model's run of equal results and the table's grow alike.
LEMMA ExtendIsAppend ==
  ASSUME NEW tail \in ResultRun, NEW result \in CheckResultStatus
  PROVE  Model!Extend(tail, result) = AppendResult(tail, result)
  BY ThresholdsPositive DEF Model!Extend, Model!Longer, AppendResult, Capped, ResultRun

\* The commit of a call is a check of its target in the model.
LEMMA PersistIsCheck ==
  ASSUME ModelInv, NEW j \in Jobs, Persist(j)
  PROVE  Model!AbstractNext
  <1> USE DEF ModelInv, SerialInv
  <1>1. PICK t \in Targets : t = job[j].target
    BY PersistIncidents
  <1>2. /\ job[j].row = targets[t]
        /\ targets[t].status # "PAUSED"
        /\ job[j].result \in CheckResultStatus
        /\ results[t] \in ResultRun
    BY <1>1 DEF Persist, SnapshotCurrent, CheckedTargetsShown, TypeInv, CallInv,
                TypeOK, StoreTypeOK
  <1>3. /\ targets'[t].status = Decision(j).status
        /\ results'[t] = AppendResult(results[t], job[j].result)
    BY <1>1, PersistHere
  <1>4. \A u \in Targets \ {t} : /\ targets'[u] = targets[u]
                                 /\ results'[u] = results[u]
                                 /\ ActiveIncidents(u)' = ActiveIncidents(u)
    BY <1>1, PersistElsewhere
  <1>5. results' = [results EXCEPT ![t] = Model!Extend(@, job[j].result)]
    <2>1. results' = [results EXCEPT ![t] = AppendResult(@, job[j].result)]
      BY <1>1 DEF Persist, WriteAll, WriteResult
    <2>2. results \in [Targets -> ResultRun]
      BY DEF TypeInv, TypeOK, StoreTypeOK
    <2> QED
      BY <1>2, <2>1, <2>2, ExtendIsAppend
  <1>6. results'[t].last = job[j].result
    BY <1>3 DEF AppendResult
  <1>7. /\ job[j].result = "SUCCESS" =>
             results'[t].run = Capped(targets[t].consecutiveSuccesses + 1)
        /\ job[j].result = "FAILURE" =>
             results'[t].run = Capped(targets[t].consecutiveFailures + 1)
    <2>1. Capped(0 + 1) = 1
      BY ThresholdsPositive DEF Capped
    <2> QED
      BY <1>2, <1>3, <2>1 DEF AppendResult, CountersFollowResults, CheckResultStatus
  <1>8. targets[t].consecutiveSuccesses \in Nat /\ targets[t].consecutiveFailures \in Nat
    BY ThresholdsPositive DEF TypeInv, TypeOK, StoreTypeOK, TargetRow
  <1>9. Model!FailuresNeeded = failureThreshold /\ Model!SuccessesNeeded = recoveryThreshold
    BY DEF Model!FailuresNeeded, Model!SuccessesNeeded, failureThreshold,
           recoveryThreshold, AtLeastOne
  <1>10. CASE job[j].result = "SUCCESS"
    <2>1. results'[t].run < Model!SuccessesNeeded
            <=> targets[t].consecutiveSuccesses + 1 < recoveryThreshold
      BY <1>7, <1>8, <1>9, <1>10, ThresholdsPositive, StoreAssumption DEF Capped
    <2>2. RecoveryPending(j) <=> HasActiveIncident(t) /\ results'[t].run < Model!SuccessesNeeded
      BY <1>1, <1>2, <2>1
         DEF RecoveryPending, HasActiveIncident, Persist, SnapshotCurrent,
             StatusMatchesIncident
    <2>3. HasActiveIncident(t)' <=> RecoveryPending(j)
      BY <1>1, <1>10, IncidentAfter DEF HasActiveIncident
    <2>4. targets'[t].status = IF HasActiveIncident(t)' THEN "DOWN" ELSE "UP"
      BY <1>3, <1>10, <2>3, DecisionOnSuccess
    <2>5. Model!Succeed(t)
      BY <1>2, <1>4, <1>5, <1>10, <2>2, <2>3, <2>4 DEF Model!Succeed, HasActiveIncident
    <2> QED
      BY <2>5 DEF Model!AbstractNext
  <1>11. CASE job[j].result = "FAILURE"
    <2>1. results'[t].run >= Model!FailuresNeeded <=> FailuresReached(j)
      BY <1>2, <1>7, <1>8, <1>9, <1>11, ThresholdsPositive, StoreAssumption
         DEF Capped, FailuresReached
    <2>2. HasActiveIncident(t)'
            <=> HasActiveIncident(t) \/ results'[t].run >= Model!FailuresNeeded
      BY <1>1, <1>11, <2>1, IncidentAfter DEF HasActiveIncident
    <2>3. targets'[t].status =
            IF results'[t].run >= Model!FailuresNeeded THEN "DOWN" ELSE "DEGRADED"
      BY <1>3, <1>11, <2>1, DecisionOnFailure
    <2>4. Model!Fail(t)
      BY <1>2, <1>4, <1>5, <1>11, <2>2, <2>3 DEF Model!Fail, HasActiveIncident
    <2> QED
      BY <2>4 DEF Model!AbstractNext
  <1> QED
    BY <1>2, <1>10, <1>11 DEF CheckResultStatus

\* Every step maps to a check of the model or to a stutter.
LEMMA ModelStep ==
  ASSUME OneProcessOnly, ModelInv, [Next]_vars
  PROVE  ModelInv' /\ [Model!AbstractNext]_(Model!abstractVars)
  <1>1. ModelInv'
    BY SerialStep, ShownStep DEF ModelInv, SerialInv
  <1>2. CASE \A j \in Jobs : ~Persist(j)
    <2>1. UNCHANGED storeVars
      BY <1>2, OthersLeaveTables
    <2> QED
      BY <1>1, <2>1 DEF storeVars, Model!abstractVars, HasActiveIncident,
                        ActiveIncidents, Active
  <1>3. CASE \E j \in Jobs : Persist(j)
    BY <1>1, <1>3, PersistIsCheck
  <1> QED
    BY <1>2, <1>3

\* In one process the runner is the serial health model: reads before the HTTP
\* check, locks, transactions, failing statements and crashes cannot be seen in
\* the verdicts, the incidents and the results of a target.
THEOREM Implements ==
  ASSUME OneProcessOnly
  PROVE  Spec => ImplementsHealthModel
  BY ModelInit, ModelStep, PTL DEF Spec, ImplementsHealthModel, Model!AbstractSpec
=============================================================================
