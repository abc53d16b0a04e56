-------------------------- MODULE SchedulerProofs --------------------------
(***************************************************************************)
(* The ticks of Scheduler and their batches of checks, for every number of *)
(* processes, calls, slots and targets.                                    *)
(***************************************************************************)
EXTENDS Scheduler, CheckRunnerProofs

\* Every call has its record.
CallsOK == DOMAIN job = Jobs

TickInv ==
  /\ CallsOK
  /\ SchedulerTypeOK
  /\ TickOwnsItsChecks

-----------------------------------------------------------------------------
(* What a step of a call does to the calls.                                *)

\* It is a step of a call under way, and no other call is touched.
LEMMA StepTouchesItsCall ==
  ASSUME CallsOK, NEW j \in Jobs, JobStep(j) \/ JobFault(j)
  PROVE  CallsOK' /\ job[j].pc # "idle" /\ \A k \in Jobs : k # j => job'[k] = job[k]
  <1> USE DEF CallsOK
  <1>1. CASE ReadTarget(j)
    BY <1>1 DEF ReadTarget
  <1>2. CASE CheckTarget(j)
    BY <1>2 DEF CheckTarget
  <1>3. CASE FindActiveIncident(j)
    BY <1>3 DEF FindActiveIncident
  <1>4. CASE Persist(j)
    BY <1>4 DEF Persist, Finish
  <1>5. CASE UniqueViolation(j)
    BY <1>5 DEF UniqueViolation, Finish
  <1>6. CASE Release(j)
    BY <1>6 DEF Release
  <1>7. CASE StatementFails(j)
    BY <1>7 DEF StatementFails, Finish
  <1>8. CASE AuditInsertFails(j)
    BY <1>8 DEF AuditInsertFails, Finish
  <1> QED
    BY <1>1, <1>2, <1>3, <1>4, <1>5, <1>6, <1>7, <1>8 DEF JobStep, JobFault

-----------------------------------------------------------------------------
(* What a batch does to the calls and the locks.                           *)

\* A call that holds the lock of target t and has done nothing yet.
LockedFor(t) == [NoJob EXCEPT !.pc = "locked", !.target = t]

\* What a batch does to the calls and the locks: the targets granted are
\* locked, each by one call that was idle.
BatchEffect(p, granted) ==
  /\ inFlight' = [inFlight EXCEPT ![p] = @ \cup granted]
  /\ \A j \in Jobs :
       \/ job'[j] = job[j]
       \/ /\ j \in SlotsOf(p) /\ job[j].pc = "idle" /\ ProcOf[j] = p
          /\ \E t \in granted : job'[j] = LockedFor(t)
  /\ \A t \in granted : \E j \in Jobs : ProcOf[j] = p /\ job'[j] = LockedFor(t)
  /\ \A j, k \in Jobs :
       job'[j] # job[j] /\ job'[k] # job[k] /\ job'[j].target = job'[k].target => j = k
  /\ job' = [j \in Jobs |-> job'[j]]

\* Every batch does that, to targets of its list that were not in flight.
LEMMA BatchLocks ==
  ASSUME SchedulerTypeOK, NEW p \in Procs, NextBatch(p)
  PROVE  \E granted \in SUBSET (Targets \ inFlight[p]) : BatchEffect(p, granted)
  <1>1. \E batch \in SUBSET due[p] :
          \E slot \in [batch \ inFlight[p] -> SlotsOf(p)] :
            /\ \A t, u \in batch \ inFlight[p] : slot[t] = slot[u] => t = u
            /\ job' = Started(batch \ inFlight[p], slot)
            /\ inFlight' = [inFlight EXCEPT ![p] = @ \cup (batch \ inFlight[p])]
    BY Zenon DEF NextBatch
  <1>2. PICK granted \in SUBSET (due[p] \ inFlight[p]) :
          \E slot \in [granted -> SlotsOf(p)] :
            /\ \A t, u \in granted : slot[t] = slot[u] => t = u
            /\ job' = Started(granted, slot)
            /\ inFlight' = [inFlight EXCEPT ![p] = @ \cup granted]
    <2>1. PICK batch \in SUBSET due[p] :
            \E slot \in [batch \ inFlight[p] -> SlotsOf(p)] :
              /\ \A t, u \in batch \ inFlight[p] : slot[t] = slot[u] => t = u
              /\ job' = Started(batch \ inFlight[p], slot)
              /\ inFlight' = [inFlight EXCEPT ![p] = @ \cup (batch \ inFlight[p])]
      BY <1>1
    <2>2. batch \ inFlight[p] \in SUBSET (due[p] \ inFlight[p])
      OBVIOUS
    <2> QED
      BY Zenon, <2>1, <2>2
  <1>3. PICK slot \in [granted -> SlotsOf(p)] :
          /\ \A t, u \in granted : slot[t] = slot[u] => t = u
          /\ job' = Started(granted, slot)
          /\ inFlight' = [inFlight EXCEPT ![p] = @ \cup granted]
    BY <1>2
  <1>4. granted \in SUBSET (Targets \ inFlight[p])
    BY DEF SchedulerTypeOK
  <1>5. \A t \in granted : (CHOOSE u \in granted : slot[u] = slot[t]) = t
    BY <1>3
  <1>6. \A t \in granted :
          /\ slot[t] \in SlotsOf(p) /\ slot[t] \in Jobs /\ ProcOf[slot[t]] = p
          /\ job[slot[t]].pc = "idle"
          /\ job'[slot[t]] = LockedFor(t)
    <2> TAKE t \in granted
    <2>1. slot[t] \in SlotsOf(p)
      BY <1>3
    <2>2. slot[t] \in Jobs /\ ProcOf[slot[t]] = p /\ job[slot[t]].pc = "idle"
      BY <2>1, TickJobsAssumption DEF SlotsOf, NextBatch, BatchDone
    <2>3. job'[slot[t]] = [NoJob EXCEPT !.pc = "locked",
                             !.target = CHOOSE u \in granted : slot[u] = slot[t]]
      BY <1>3, <2>2 DEF Started
    <2> QED
      BY <1>5, <2>2, <2>3 DEF LockedFor
  <1>7. \A j \in Jobs : job'[j] = job[j] \/ \E t \in granted : slot[t] = j
    BY <1>3 DEF Started
  <1>8. \A j, k \in Jobs :
          job'[j] # job[j] /\ job'[k] # job[k] /\ job'[j].target = job'[k].target => j = k
    <2> TAKE j, k \in Jobs
    <2> HAVE job'[j] # job[j] /\ job'[k] # job[k] /\ job'[j].target = job'[k].target
    <2>1. PICK t \in granted : slot[t] = j
      BY <1>7
    <2>2. PICK u \in granted : slot[u] = k
      BY <1>7
    <2>3. LockedFor(t).target = t /\ LockedFor(u).target = u
      BY DEF NoJob, LockedFor
    <2>4. job'[j] = LockedFor(t) /\ job'[k] = LockedFor(u)
      BY <1>6, <2>1, <2>2
    <2> QED
      BY <2>1, <2>2, <2>3, <2>4
  <1>9. \A j \in Jobs :
          \/ job'[j] = job[j]
          \/ /\ j \in SlotsOf(p) /\ job[j].pc = "idle" /\ ProcOf[j] = p
             /\ \E t \in granted : job'[j] = LockedFor(t)
    <2> TAKE j \in Jobs
    <2>1. ASSUME NEW t \in granted, slot[t] = j
          PROVE  /\ j \in SlotsOf(p) /\ job[j].pc = "idle" /\ ProcOf[j] = p
                 /\ job'[j] = LockedFor(t)
      BY <1>6, <2>1
    <2> QED
      BY <1>7, <2>1
  <1>10. \A t \in granted : \E j \in Jobs : ProcOf[j] = p /\ job'[j] = LockedFor(t)
    BY <1>6
  <1>11. job' = [j \in Jobs |-> job'[j]]
    BY <1>3 DEF Started
  <1>12. BatchEffect(p, granted)
    BY Zenon, <1>3, <1>8, <1>9, <1>10, <1>11 DEF BatchEffect
  <1> QED
    BY <1>4, <1>12

-----------------------------------------------------------------------------
(* The invariant.                                                          *)

\* Steps that leave every tick and every call of a tick alone.
LEMMA TicksAlone ==
  ASSUME TickInv, UNCHANGED tickVars, CallsOK',
         \A j \in TickJobs : job[j].pc = "idle" => job'[j] = job[j]
  PROVE  TickInv'
  <1>1. SchedulerTypeOK'
    BY DEF TickInv, SchedulerTypeOK, tickVars
  <1>2. TickOwnsItsChecks'
    BY DEF TickInv, TickOwnsItsChecks, BatchDone, SlotsOf, tickVars
  <1> QED
    BY <1>1, <1>2 DEF TickInv

LEMMA TickStepKeeps ==
  ASSUME TickInv, NEW p \in Procs, BeginTick(p) \/ TickStep(p) \/ QueryFails(p)
  PROVE  TickInv'
  <1> USE TickJobsAssumption DEF TickInv, SchedulerTypeOK
  <1>1. CASE BeginTick(p)
    BY <1>1 DEF BeginTick, runnerVars, CallsOK, TickOwnsItsChecks, BatchDone
  <1>2. ASSUME NEW found \in SUBSET Targets, QueryDue(p, found) PROVE TickInv'
    BY <1>2 DEF QueryDue, runnerVars, CallsOK, TickOwnsItsChecks, BatchDone
  <1>3. CASE NextBatch(p)
    <2>1. phase[p] = "running" /\ phase' = phase
      BY <1>3 DEF NextBatch
    <2>2. SchedulerTypeOK'
      <3>1. PICK batch \in SUBSET due[p] : due' = [due EXCEPT ![p] = @ \ batch]
        BY <1>3 DEF NextBatch
      <3> QED
        BY <2>1, <3>1
    <2>3. PICK granted \in SUBSET (Targets \ inFlight[p]) : BatchEffect(p, granted)
      BY <1>3, BatchLocks
    <2>4. CallsOK' /\ \A j \in Jobs : j \notin SlotsOf(p) => job'[j] = job[j]
      BY <2>3 DEF BatchEffect, CallsOK
    <2>5. ASSUME NEW q \in Procs, phase'[q] # "running" PROVE BatchDone(q)'
      <3>1. q # p /\ BatchDone(q)
        BY <2>1, <2>5 DEF TickOwnsItsChecks
      <3>2. \A j \in SlotsOf(q) : j \in Jobs /\ j \notin SlotsOf(p)
        BY <3>1 DEF SlotsOf
      <3> QED
        BY <2>4, <3>1, <3>2 DEF BatchDone, SlotsOf
    <2> QED
      BY <2>2, <2>4, <2>5 DEF TickOwnsItsChecks
  <1>4. CASE EndTick(p)
    BY <1>4 DEF EndTick, runnerVars, CallsOK, TickOwnsItsChecks, BatchDone
  <1>5. CASE QueryFails(p)
    BY <1>5 DEF QueryFails, CallsOK, TickOwnsItsChecks, BatchDone
  <1> QED
    BY <1>1, <1>2, <1>3, <1>4, <1>5 DEF TickStep

LEMMA CrashKeeps ==
  ASSUME TickInv, NEW p \in Procs, RunnerCrash(p), SchedulerCrash(p)
  PROVE  TickInv'
  <1> USE TickJobsAssumption DEF TickInv, SchedulerTypeOK, RunnerCrash, SchedulerCrash
  <1>1. CallsOK' /\ SchedulerTypeOK'
    BY DEF CallsOK
  <1>2. ASSUME NEW q \in Procs, phase'[q] # "running" PROVE BatchDone(q)'
    <2>1. \A j \in SlotsOf(q) : j \in Jobs /\ ProcOf[j] = q
      BY DEF SlotsOf
    <2>2. CASE q = p
      BY <2>1, <2>2 DEF BatchDone, SlotsOf, NoJob
    <2>3. CASE q # p
      BY <1>2, <2>1, <2>3 DEF BatchDone, SlotsOf, TickOwnsItsChecks
    <2> QED
      BY <2>2, <2>3
  <1> QED
    BY <1>1, <1>2 DEF TickOwnsItsChecks

LEMMA NextKeeps == ASSUME TickInv, SchedulerOnlyNext PROVE TickInv'
  <1>1. CASE SchedulerNext
    BY <1>1, TickStepKeeps DEF SchedulerNext
  <1>2. ASSUME NEW j \in Jobs, JobStep(j) \/ JobFault(j), UNCHANGED tickVars PROVE TickInv'
    BY <1>2, StepTouchesItsCall, TicksAlone, TickJobsAssumption DEF TickInv
  <1>3. CASE ManualCheck /\ UNCHANGED tickVars
    <2>1. PICK j \in Jobs \ TickJobs, t \in Targets : TryAcquire(j, t)
      BY <1>3 DEF ManualCheck
    <2>2. CallsOK' /\ \A k \in TickJobs : job'[k] = job[k]
      BY <2>1, TickJobsAssumption DEF TryAcquire, TickInv, CallsOK
    <2> QED
      BY <1>3, <2>2, TicksAlone
  <1>4. ASSUME NEW t \in Targets, Flip(t), UNCHANGED tickVars PROVE TickInv'
    <2>1. CallsOK' /\ job' = job
      BY <1>4 DEF Flip, TickInv, CallsOK
    <2> QED
      BY <1>4, <2>1, TicksAlone
  <1>5. ASSUME NEW p \in Procs, RunnerCrash(p), SchedulerCrash(p) PROVE TickInv'
    BY <1>5, CrashKeeps
  <1> QED
    BY <1>1, <1>2, <1>3, <1>4, <1>5 DEF SchedulerOnlyNext

LEMMA TicksStart == SchedulerOnlyInit => TickInv
  BY TickJobsAssumption
  DEF SchedulerOnlyInit, Init, RunnerInit, SchedulerInit, TickInv, CallsOK, SchedulerTypeOK,
      TickOwnsItsChecks, BatchDone, SlotsOf, NoJob

LEMMA TicksStep == TickInv /\ [SchedulerOnlyNext]_schedulerVars => TickInv'
  <1>1. ASSUME TickInv, UNCHANGED schedulerVars PROVE TickInv'
    BY <1>1 DEF schedulerVars, vars, runnerVars, tickVars, TickInv, CallsOK, SchedulerTypeOK,
                TickOwnsItsChecks, BatchDone
  <1> QED
    BY <1>1, NextKeeps

LEMMA TickInvariantHolds == SchedulerSafeSpec => []TickInv
  BY TicksStart, TicksStep, PTL DEF SchedulerSafeSpec

\* The flag and the due list of every tick keep their types.
THEOREM TickTypes == SchedulerSafeSpec => []SchedulerTypeOK
  <1>1. TickInv => SchedulerTypeOK
    BY DEF TickInv
  <1> QED
    BY <1>1, TickInvariantHolds, PTL

\* A tick that is not running has no check under way, for every number of
\* processes, of slots and of manual checks beside it: so the slots of a
\* process bound its scheduled checks.
THEOREM NoCheckOutlivesItsTick == SchedulerSafeSpec => []TickOwnsItsChecks
  <1>1. TickInv => TickOwnsItsChecks
    BY DEF TickInv
  <1> QED
    BY <1>1, TickInvariantHolds, PTL

-----------------------------------------------------------------------------
(* The locks of a batch.                                                   *)

\* A batch keeps the tables, the locks and the calls typed.
LEMMA BatchTyped ==
  ASSUME TypeInv, SchedulerTypeOK, NEW p \in Procs, NextBatch(p)
  PROVE  TypeInv'
  <1>0. TypeInv /\ TypeOK /\ StoreTypeOK /\ RunnerTypeOK /\ CallInv
    BY DEF TypeInv, TypeOK
  <1>1. PICK granted \in SUBSET (Targets \ inFlight[p]) : BatchEffect(p, granted)
    BY BatchLocks
  <1>2. UNCHANGED <<storeVars, healthy, flips, faults>>
    BY DEF NextBatch
  <1>3. \A t \in granted :
          LockedFor(t) \in JobRecord /\ LockedFor(t).pc = "locked" /\ LockedFor(t).target = t
    BY NoJobTyped DEF LockedFor, JobRecord, JobState
  <1>4. \A j \in Jobs : job'[j] = job[j] \/ \E t \in granted : job'[j] = LockedFor(t)
    BY <1>1 DEF BatchEffect
  <1>5. \A j \in Jobs : job'[j] \in JobRecord
    BY <1>0, <1>3, <1>4 DEF RunnerTypeOK
  <1>6. job' = [j \in Jobs |-> job'[j]]
    BY <1>1 DEF BatchEffect
  <1>7. job' \in [Jobs -> JobRecord]
    BY <1>5, <1>6
  <1>8. inFlight' \in [Procs -> SUBSET Targets]
    BY <1>0, <1>1 DEF BatchEffect, RunnerTypeOK
  <1>9. CallInv'
    BY <1>0, <1>3, <1>4 DEF CallInv, InCall
  <1> QED
    BY <1>0, <1>2, <1>7, <1>8, <1>9
       DEF TypeInv, TypeOK, StoreTypeOK, RunnerTypeOK, storeVars

\* A batch keeps the lock exact: what it locks was not in flight, and it gives
\* each target one call.
LEMMA BatchLockExact ==
  ASSUME TypeInv, LockInv, SchedulerTypeOK, NEW p \in Procs, NextBatch(p)
  PROVE  LockInv'
  <1>1. PICK granted \in SUBSET (Targets \ inFlight[p]) : BatchEffect(p, granted)
    BY BatchLocks
  <1>2. /\ inFlight'[p] = inFlight[p] \cup granted
        /\ \A q \in Procs \ {p} : inFlight'[q] = inFlight[q]
    BY <1>1 DEF BatchEffect, TypeInv, TypeOK, RunnerTypeOK
  <1>3. \A j \in Jobs :
          \/ job'[j] = job[j]
          \/ /\ ~InCall(j) /\ InCall(j)' /\ ProcOf[j] = p /\ job'[j].target \in granted
    <2> SUFFICES ASSUME NEW j \in Jobs, job'[j] # job[j]
                 PROVE  ~InCall(j) /\ InCall(j)' /\ ProcOf[j] = p /\ job'[j].target \in granted
      OBVIOUS
    <2>1. PICK t \in granted : job'[j] = LockedFor(t)
      BY <1>1 DEF BatchEffect
    <2>2. job[j].pc = "idle" /\ ProcOf[j] = p
      BY <1>1 DEF BatchEffect
    <2> QED
      BY <2>1, <2>2 DEF InCall, LockedFor, NoJob
  <1>4. \A t \in granted : \E j \in Jobs :
          ProcOf[j] = p /\ InCall(j)' /\ job'[j].target = t
    <2> TAKE t \in granted
    <2>1. PICK j \in Jobs : ProcOf[j] = p /\ job'[j] = LockedFor(t)
      BY <1>1 DEF BatchEffect
    <2> QED
      BY <2>1 DEF InCall, LockedFor, NoJob
  <1>5. ASSUME NEW q \in Procs, NEW t \in Targets
        PROVE  t \in inFlight'[q] <=>
                 \E j \in Jobs : ProcOf[j] = q /\ InCall(j)' /\ job'[j].target = t
    <2>1. ASSUME t \in inFlight[q]
          PROVE  \E j \in Jobs : ProcOf[j] = q /\ InCall(j)' /\ job'[j].target = t
      <3>1. PICK j \in Jobs : ProcOf[j] = q /\ InCall(j) /\ job[j].target = t
        BY <2>1 DEF LockInv
      <3>2. job'[j] = job[j]
        BY <1>3, <3>1
      <3> QED
        BY <3>1, <3>2 DEF InCall
    <2>2. ASSUME NEW j \in Jobs, ProcOf[j] = q, InCall(j)', job'[j].target = t
          PROVE  t \in inFlight'[q]
      <3>1. CASE job'[j] = job[j]
        <4>1. t \in inFlight[q]
          BY <2>2, <3>1 DEF LockInv, InCall
        <4> QED
          BY <1>2, <4>1
      <3>2. CASE job'[j] # job[j]
        BY <1>2, <1>3, <2>2, <3>2
      <3> QED
        BY <3>1, <3>2
    <2> QED
      BY <1>2, <1>4, <2>1, <2>2
  <1>6. ASSUME NEW j \in Jobs, NEW k \in Jobs, InCall(j)', InCall(k)', ProcOf[j] = ProcOf[k],
               job'[j].target = job'[k].target
        PROVE  j = k
    <2>1. CASE job'[j] = job[j] /\ job'[k] = job[k]
      BY <1>6, <2>1 DEF LockInv, InCall
    <2>2. CASE job'[j] # job[j] /\ job'[k] # job[k]
      BY <1>1, <1>6, <2>2 DEF BatchEffect
    <2>3. \A m, n \in Jobs :
            job'[m] = job[m] /\ InCall(m)' /\ job'[n] # job[n] /\ ProcOf[m] = ProcOf[n]
              => job'[m].target # job'[n].target
      <3> TAKE m, n \in Jobs
      <3> HAVE job'[m] = job[m] /\ InCall(m)' /\ job'[n] # job[n] /\ ProcOf[m] = ProcOf[n]
      <3>1. ProcOf[n] = p /\ job'[n].target \in granted
        BY <1>3
      <3>2. job'[n].target \in Targets \ inFlight[p]
        BY <1>1, <3>1
      <3>3. ProcOf[m] = p /\ InCall(m)
        BY <3>1 DEF InCall
      <3>4. job[m].target \in Targets => job[m].target \in inFlight[p]
        BY <3>3 DEF LockInv
      <3> QED
        BY <3>2, <3>4
    <2> QED
      BY <1>6, <2>1, <2>2, <2>3
  <1> QED
    BY <1>5, <1>6 DEF LockInv

-----------------------------------------------------------------------------
(* The calls of the scheduler and of the requests together.                *)

FaultOnly == Fault /\ UNCHANGED <<storeVars, inFlight, job, healthy, flips>>

\* A step of a tick starts a batch, or fails, or touches neither call nor table.
LEMMA KindsOfTickSteps ==
  ASSUME NEW p \in Procs, BeginTick(p) \/ TickStep(p) \/ QueryFails(p)
  PROVE  UNCHANGED vars \/ FaultOnly \/ NextBatch(p)
  <1>1. CASE BeginTick(p) \/ EndTick(p) \/ \E found \in SUBSET Targets : QueryDue(p, found)
    BY <1>1 DEF BeginTick, EndTick, QueryDue, vars
  <1>2. CASE QueryFails(p)
    BY <1>2 DEF QueryFails, FaultOnly
  <1> QED
    BY <1>1, <1>2 DEF TickStep

\* A fault of the tick leaves the tables and the calls typed.
LEMMA FaultKeepsTypes == ASSUME TypeInv, FaultOnly PROVE TypeInv'
  BY RunnerAssumption
     DEF FaultOnly, Fault, storeVars, TypeInv, TypeOK, StoreTypeOK, RunnerTypeOK, CallInv, InCall

CallsInv == TickInv /\ TypeInv /\ LockInv

LEMMA CallsStart == SchedulerOnlyInit => CallsInv
  <1>1. SchedulerOnlyInit => TickInv
    BY TicksStart
  <1>2. Init => LockInv
    BY LockInit DEF Init
  <1> QED
    BY <1>1, <1>2, TypeInit DEF SchedulerOnlyInit, CallsInv

LEMMA CallsStep == CallsInv /\ [SchedulerOnlyNext]_schedulerVars => CallsInv'
  <1> SUFFICES ASSUME CallsInv, [SchedulerOnlyNext]_schedulerVars PROVE CallsInv'
    OBVIOUS
  <1>1. TickInv'
    BY TicksStep DEF CallsInv
  <1>2. [Next]_vars \/ FaultOnly \/ \E p \in Procs : NextBatch(p)
    <2>1. CASE SchedulerNext
      BY <2>1, KindsOfTickSteps DEF SchedulerNext
    <2>2. ASSUME NEW j \in Jobs, JobStep(j) \/ JobFault(j) PROVE Next
      BY <2>2 DEF Next
    <2>3. ASSUME ManualCheck PROVE Next
      BY <2>3 DEF ManualCheck, Next
    <2> QED
      BY <2>1, <2>2, <2>3 DEF SchedulerOnlyNext, Next, schedulerVars
  <1>3. CASE [Next]_vars
    BY <1>1, <1>3, TypeStep, LockStep DEF CallsInv
  <1>4. CASE FaultOnly
    BY <1>1, <1>4, FaultKeepsTypes DEF CallsInv, FaultOnly, LockInv, InCall
  <1>5. ASSUME NEW p \in Procs, NextBatch(p) PROVE CallsInv'
    BY <1>1, <1>5, BatchTyped, BatchLockExact DEF CallsInv, TickInv
  <1> QED
    BY <1>2, <1>3, <1>4, <1>5

LEMMA CallsInvHolds == SchedulerSafeSpec => []CallsInv
  BY CallsStart, CallsStep, PTL DEF SchedulerSafeSpec

\* Batches and single requests share the lock: a process holds a target's lock
\* exactly while one of its calls for it is under way.
THEOREM SchedulerLockExact == SchedulerSafeSpec => []LockInv
  <1>1. CallsInv => LockInv
    BY DEF CallsInv
  <1> QED
    BY CallsInvHolds, <1>1, PTL
=============================================================================
