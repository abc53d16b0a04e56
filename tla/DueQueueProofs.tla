-------------------------- MODULE DueQueueProofs --------------------------
(***************************************************************************)
(* DueQueue, for every number of processes, calls, slots and targets and   *)
(* every limit: its ordered and limited list is one way to implement       *)
(* Scheduler, and, in one process, the times it is ordered by never go      *)
(* back.                                                                   *)
(***************************************************************************)
EXTENDS DueQueue, SchedulerProofs

-----------------------------------------------------------------------------
(* The ordered list is a list of Scheduler.                                *)

LEMMA DueStepIsAStep ==
  ASSUME DueNext PROVE SchedulerOnlyNext
  <1>1. ASSUME NEW p \in Procs, BeginTick(p) \/ QueryFails(p) PROVE SchedulerOnlyNext
    BY <1>1 DEF SchedulerOnlyNext, SchedulerNext
  <1>2. ASSUME NEW p \in Procs, DueTick(p) PROVE SchedulerOnlyNext
    <2>1. ASSUME NEW elapsed \in SUBSET Targets, QueryOldest(p, elapsed) PROVE SchedulerOnlyNext
      <3>1. PICK found \in SUBSET elapsed : QueryDue(p, found)
        BY <2>1 DEF QueryOldest
      <3>2. found \in SUBSET Targets
        OBVIOUS
      <3> QED
        BY <3>1, <3>2 DEF SchedulerOnlyNext, SchedulerNext, TickStep
    <2>2. CASE NextBatch(p) \/ EndTick(p)
      BY <2>2 DEF SchedulerOnlyNext, SchedulerNext, TickStep
    <2> QED
      BY <1>2, <2>1, <2>2 DEF DueTick
  <1>3. ASSUME NEW p \in Procs, RunnerCrash(p), SchedulerCrash(p) PROVE SchedulerOnlyNext
    BY <1>3 DEF SchedulerOnlyNext
  <1>4. ASSUME NEW j \in Jobs, TimedStep(j) \/ LoseCheck(j), UNCHANGED tickVars
        PROVE  SchedulerOnlyNext
    <2>1. JobStep(j) \/ JobFault(j)
      BY <1>4 DEF TimedStep, StartCheck, StoreCheck, LoseCheck, JobStep, JobFault
    <2> QED
      BY <1>4, <2>1 DEF SchedulerOnlyNext
  <1>5. CASE (ManualCheck \/ \E t \in Targets : Flip(t)) /\ UNCHANGED tickVars
    BY <1>5 DEF SchedulerOnlyNext
  <1> QED
    BY <1>1, <1>2, <1>3, <1>4, <1>5 DEF DueNext

\* Whatever order and limit the due list has, the ticks are ticks of Scheduler:
\* what holds of any list holds of this one.
THEOREM DueQueueImplementsScheduler == DueSpec => SchedulerSafeSpec
  <1>1. DueInit => SchedulerOnlyInit
    BY DEF DueInit
  <1>2. [DueNext]_dueVars => [SchedulerOnlyNext]_schedulerVars
    BY DueStepIsAStep DEF dueVars
  <1> QED
    BY <1>1, <1>2, PTL DEF DueSpec, SchedulerSafeSpec

-----------------------------------------------------------------------------
(* The times.                                                              *)

Moments == Targets \cup Jobs

\* The pairs are of things that have a time.
PairsDated ==
  /\ timeline \subseteq Moments \X Moments
  /\ \A x, y \in Moments : <<x, y>> \in timeline => Dated(x) /\ Dated(y)

\* Of two times one is the earlier.
TimesOrdered ==
  \A x, y \in Moments : Dated(x) /\ Dated(y) /\ x # y =>
    (<<x, y>> \in timeline <=> <<y, x>> \notin timeline)

TimesTransitive ==
  \A x, y, z \in Moments :
    <<x, y>> \in timeline /\ <<y, z>> \in timeline => <<x, z>> \in timeline

UnderWay == {"checking", "checked", "decided"}

\* A call has a time while it works on one, and its target's is not after it.
ChecksDated ==
  \A j \in Jobs :
    /\ Dated(j) <=> job[j].pc \in UnderWay
    /\ Dated(j) => <<j, job[j].target>> \notin timeline

TimeInv == PairsDated /\ TimesOrdered /\ TimesTransitive /\ ChecksDated

LEMMA TimeInvSuffices == CallsInv /\ TimeInv => TimelineOK
  <1> SUFFICES ASSUME CallsInv, TimeInv PROVE TimelineOK
    OBVIOUS
  <1>1. ASSUME NEW x \in Moments, NEW y \in Moments, Dated(x), Dated(y), x # y
        PROVE  Before(x, y) <=> ~Before(y, x)
    BY <1>1 DEF TimeInv, TimesOrdered, Before, NeverChecked
  <1>2. ASSUME NEW x \in Moments, NEW y \in Moments, NEW z \in Moments,
               Dated(x), Dated(y), Dated(z), Before(x, y), Before(y, z)
        PROVE  Before(x, z)
    BY <1>2 DEF TimeInv, TimesOrdered, TimesTransitive, Before, NeverChecked
  <1>3. ASSUME NEW j \in Jobs, Dated(j) PROVE ~Before(j, job[j].target)
    BY <1>3 DEF TimeInv, ChecksDated, Before, NeverChecked
  <1> QED
    BY <1>1, <1>2, <1>3 DEF TimelineOK, TimeInv, ChecksDated, Moments, UnderWay

\* What is left when some times are dropped is still an order.
LEMMA DropTimes ==
  ASSUME PairsDated, TimesOrdered, TimesTransitive, NEW gone, timeline' = Without(gone)
  PROVE  /\ PairsDated' /\ TimesOrdered' /\ TimesTransitive'
         /\ \A x, y \in Moments :
              <<x, y>> \in timeline' <=> <<x, y>> \in timeline /\ x \notin gone /\ y \notin gone
  <1>1. \A x, y \in Moments :
          <<x, y>> \in timeline' <=> <<x, y>> \in timeline /\ x \notin gone /\ y \notin gone
    BY DEF Without
  <1>2. timeline' \subseteq Moments \X Moments
    BY DEF Without, PairsDated
  <1>3. \A x \in Moments : Dated(x)' <=> Dated(x) /\ x \notin gone
    BY <1>1 DEF Dated
  <1> QED
    BY <1>1, <1>2, <1>3 DEF PairsDated, TimesOrdered, TimesTransitive

\* So is the order with one more time at its end.
LEMMA AddLatest ==
  ASSUME PairsDated, TimesOrdered, TimesTransitive, NEW j \in Jobs, ~Dated(j),
         timeline' = Latest(j)
  PROVE  /\ PairsDated' /\ TimesOrdered' /\ TimesTransitive'
         /\ \A x, y \in Moments :
              <<x, y>> \in timeline' <=>
                <<x, y>> \in timeline \/ (y = j /\ (x = j \/ Dated(x)))
  <1>1. \A x, y \in Moments :
          <<x, y>> \in timeline' <=> <<x, y>> \in timeline \/ (y = j /\ (x = j \/ Dated(x)))
    BY DEF Latest, Moments
  <1>2. timeline' \subseteq Moments \X Moments
    BY DEF Latest, PairsDated, Moments
  <1>3. \A x \in Moments : Dated(x)' <=> Dated(x) \/ x = j
    BY <1>1 DEF Dated
  <1>4. j \in Moments
    BY DEF Moments
  <1>5. \A x \in Moments : <<x, j>> \notin timeline /\ <<j, x>> \notin timeline
    BY <1>4 DEF PairsDated
  <1> QED
    BY <1>1, <1>2, <1>3, <1>4, <1>5 DEF PairsDated, TimesOrdered, TimesTransitive

\* And the order in which a check's time has become its target's.
LEMMA StoreTime ==
  ASSUME PairsDated, TimesOrdered, TimesTransitive, NEW j \in Jobs,
         job[j].target \in Targets, Dated(j),
         timeline' = {<<Stored(pair[1], j), Stored(pair[2], j)>> :
                        pair \in Without({job[j].target})}
  PROVE  /\ PairsDated' /\ TimesOrdered' /\ TimesTransitive'
         /\ \A x, y \in Moments \ {j, job[j].target} :
              <<x, y>> \in timeline' <=> <<x, y>> \in timeline
         /\ ~Dated(j)'
  <1> DEFINE t == job[j].target
             Was(x) == IF x = t THEN j ELSE x
  <1>1. j \in Moments /\ t \in Moments /\ j # t
    BY MomentsAssumption DEF Moments
  <1>2. \A x, y \in Moments :
          <<x, y>> \in timeline' <=> x # j /\ y # j /\ <<Was(x), Was(y)>> \in timeline
    <2> TAKE x, y \in Moments
    <2>1. ASSUME <<x, y>> \in timeline'
          PROVE  x # j /\ y # j /\ <<Was(x), Was(y)>> \in timeline
      <3>1. PICK pair \in Without({t}) : <<x, y>> = <<Stored(pair[1], j), Stored(pair[2], j)>>
        BY <2>1
      <3>2. pair \in timeline /\ pair[1] # t /\ pair[2] # t
        BY <3>1 DEF Without
      <3>3. pair = <<pair[1], pair[2]>>
        BY <3>2 DEF PairsDated
      <3>4. x = Stored(pair[1], j) /\ y = Stored(pair[2], j)
        BY <3>1
      <3> QED
        BY <1>1, <3>2, <3>3, <3>4 DEF Stored
    <2>2. ASSUME x # j, y # j, <<Was(x), Was(y)>> \in timeline
          PROVE  <<x, y>> \in timeline'
      <3> DEFINE pair == <<Was(x), Was(y)>>
      <3>1. pair \in Without({t})
        BY <1>1, <2>2 DEF Without
      <3>2. Stored(pair[1], j) = x /\ Stored(pair[2], j) = y
        BY <1>1, <2>2 DEF Stored
      <3> QED
        BY <3>1, <3>2
    <2> QED
      BY <2>1, <2>2
  <1>3. timeline' \subseteq Moments \X Moments
    <2>1. ASSUME NEW pair \in Without({t})
          PROVE  Stored(pair[1], j) \in Moments /\ Stored(pair[2], j) \in Moments
      <3>1. pair[1] \in Moments /\ pair[2] \in Moments
        BY DEF Without, PairsDated
      <3> QED
        BY <1>1, <3>1 DEF Stored
    <2>2. ASSUME NEW z \in timeline' PROVE z \in Moments \X Moments
      <3>1. PICK pair \in Without({t}) : z = <<Stored(pair[1], j), Stored(pair[2], j)>>
        OBVIOUS
      <3> QED
        BY <2>1, <3>1
    <2> QED
      BY <2>2
  <1>4. \A x \in Moments : Was(x) \in Moments
    BY <1>1
  <1>5. \A x, y \in Moments : x # j /\ y # j /\ Was(x) = Was(y) => x = y
    BY <1>1
  <1>6. \A x \in Moments : Dated(x)' <=> x # j /\ Dated(Was(x))
    BY <1>2 DEF Dated
  <1>7. \A x \in Moments \ {j, t} : Was(x) = x
    OBVIOUS
  <1> HIDE DEF Was
  <1>8. PairsDated'
    BY <1>2, <1>3, <1>4, <1>6 DEF PairsDated
  <1>9. TimesOrdered'
    BY <1>2, <1>4, <1>5, <1>6 DEF TimesOrdered
  <1>10. TimesTransitive'
    BY <1>2, <1>4 DEF TimesTransitive
  <1> QED
    BY <1>1, <1>2, <1>6, <1>7, <1>8, <1>9, <1>10

-----------------------------------------------------------------------------
(* The invariant.                                                          *)

\* A step that leaves the times alone, and the calls that have one.
LEMMA TimesAlone ==
  ASSUME TimeInv, UNCHANGED timeline,
         \A k \in Jobs : \/ job'[k] = job[k]
                         \/ /\ job'[k].pc \in UnderWay <=> job[k].pc \in UnderWay
                            /\ job[k].pc \in UnderWay => job'[k].target = job[k].target
  PROVE  TimeInv'
  BY DEF TimeInv, PairsDated, TimesOrdered, TimesTransitive, ChecksDated, Dated

LEMMA TimedStepKeeps ==
  ASSUME OneProcessOnly, CallsInv, TimeInv, NEW j \in Jobs, TimedStep(j) \/ LoseCheck(j)
  PROVE  TimeInv'
  <1>0. /\ job[j] \in JobRecord
        /\ DOMAIN job = Jobs
        /\ job[j].pc # "idle"
        /\ \A k \in Jobs : k # j => job'[k] = job[k]
    <2>1. JobStep(j) \/ JobFault(j)
      BY DEF TimedStep, StartCheck, StoreCheck, LoseCheck, JobStep, JobFault
    <2> QED
      BY <2>1, StepTouchesItsCall
         DEF CallsInv, TickInv, CallsOK, TypeInv, TypeOK, RunnerTypeOK
  <1>1. job[j].target \in Targets
    BY <1>0 DEF CallsInv, TypeInv, CallInv, InCall
  <1>2. j \in Moments /\ job[j].target \in Moments /\ j # job[j].target
    BY <1>1, MomentsAssumption DEF Moments
  <1>3. \A k \in Jobs : k # j => k \in Moments /\ k # job[j].target
    BY <1>1, MomentsAssumption DEF Moments
  <1>4. \A k \in Jobs : k # j /\ job[k].pc \in UnderWay =>
          job[k].target \in Moments /\ job[k].target # j /\ job[k].target # job[j].target
    <2> SUFFICES ASSUME NEW k \in Jobs, k # j, job[k].pc \in UnderWay
                 PROVE  job[k].target \in Targets /\ job[k].target # job[j].target
      BY MomentsAssumption DEF Moments
    <2>1. InCall(k) /\ InCall(j)
      BY <1>0 DEF InCall, UnderWay
    <2> QED
      BY <2>1 DEF OneProcessOnly, CallsInv, TypeInv, CallInv, LockInv
  <1>5. CASE StartCheck(j)
    <2>1. /\ job[j].pc = "locked"
          /\ job'[j].target = job[j].target
          /\ job'[j].pc \in {"checking", "releasing"}
      BY <1>0, <1>5 DEF StartCheck, ReadTarget, JobRecord
    <2>2. CASE job'[j].pc = "checking"
      <3>1. ~Dated(j) /\ timeline' = Latest(j)
        BY <1>5, <2>1, <2>2 DEF StartCheck, TimeInv, ChecksDated, UnderWay
      <3>2. /\ PairsDated' /\ TimesOrdered' /\ TimesTransitive'
            /\ \A x, y \in Moments :
                 <<x, y>> \in timeline' <=>
                   <<x, y>> \in timeline \/ (y = j /\ (x = j \/ Dated(x)))
        BY <3>1, AddLatest DEF TimeInv
      <3>3. ASSUME NEW k \in Jobs
            PROVE  /\ Dated(k)' <=> job'[k].pc \in UnderWay
                   /\ Dated(k)' => <<k, job'[k].target>> \notin timeline'
        <4>1. CASE k = j
          BY <1>2, <2>1, <2>2, <3>1, <3>2, <4>1 DEF UnderWay, Dated, TimeInv, PairsDated
        <4>2. CASE k # j
          BY <1>0, <1>2, <1>3, <1>4, <3>2, <4>2 DEF TimeInv, ChecksDated, Dated
        <4> QED
          BY <4>1, <4>2
      <3> QED
        BY <3>2, <3>3 DEF TimeInv, ChecksDated
    <2>3. CASE job'[j].pc = "releasing"
      <3>1. UNCHANGED timeline
        BY <1>5, <2>3 DEF StartCheck
      <3> QED
        BY <1>0, <2>1, <2>3, <3>1, TimesAlone DEF UnderWay
    <2> QED
      BY <2>1, <2>2, <2>3
  <1>6. CASE (CheckTarget(j) \/ FindActiveIncident(j) \/ Release(j)) /\ UNCHANGED timeline
    <2>1. CASE CheckTarget(j)
      BY <1>0, <1>6, <2>1, TimesAlone DEF CheckTarget, UnderWay, JobRecord
    <2>2. CASE FindActiveIncident(j)
      <3>1. /\ job[j].pc = "checked" /\ job'[j].pc = "decided"
            /\ job'[j].target = job[j].target
        BY <1>0, <2>2 DEF FindActiveIncident, JobRecord
      <3> QED
        BY <1>0, <1>6, <3>1, TimesAlone DEF UnderWay
    <2>3. CASE Release(j)
      BY <1>0, <1>6, <2>3, TimesAlone DEF Release, UnderWay, NoJob
    <2> QED
      BY <1>6, <2>1, <2>2, <2>3
  <1>7. CASE StoreCheck(j)
    <2>1. job[j].pc = "decided" /\ job'[j].pc = "releasing"
      BY <1>0, <1>7 DEF StoreCheck, Persist, Finish, JobRecord
    <2>2. Dated(j)
      BY <2>1 DEF TimeInv, ChecksDated, UnderWay
    <2>3. /\ PairsDated' /\ TimesOrdered' /\ TimesTransitive'
          /\ \A x, y \in Moments \ {j, job[j].target} :
               <<x, y>> \in timeline' <=> <<x, y>> \in timeline
          /\ ~Dated(j)'
      BY <1>1, <1>7, <2>2, StoreTime DEF StoreCheck, TimeInv
    <2>4. ASSUME NEW k \in Jobs
          PROVE  /\ Dated(k)' <=> job'[k].pc \in UnderWay
                 /\ Dated(k)' => <<k, job'[k].target>> \notin timeline'
      <3>1. CASE k = j
        BY <2>1, <2>3, <3>1 DEF UnderWay
      <3>2. CASE k # j
        BY <1>0, <1>3, <1>4, <2>3, <3>2 DEF TimeInv, ChecksDated, Dated
      <3> QED
        BY <3>1, <3>2
    <2> QED
      BY <2>3, <2>4 DEF TimeInv, ChecksDated
  <1>8. CASE LoseCheck(j)
    <2>1. job'[j].pc = "releasing"
      BY <1>0, <1>8 DEF LoseCheck, UniqueViolation, StatementFails, AuditInsertFails, Finish,
                        JobRecord
    <2>2. /\ PairsDated' /\ TimesOrdered' /\ TimesTransitive'
          /\ \A x, y \in Moments :
               <<x, y>> \in timeline' <=> <<x, y>> \in timeline /\ x \notin {j} /\ y \notin {j}
      BY <1>8, DropTimes DEF LoseCheck, TimeInv
    <2>3. ASSUME NEW k \in Jobs
          PROVE  /\ Dated(k)' <=> job'[k].pc \in UnderWay
                 /\ Dated(k)' => <<k, job'[k].target>> \notin timeline'
      <3>1. CASE k = j
        BY <1>2, <2>1, <2>2, <3>1 DEF UnderWay, Dated
      <3>2. CASE k # j
        BY <1>0, <1>3, <1>4, <2>2, <3>2 DEF TimeInv, ChecksDated, Dated
      <3> QED
        BY <3>1, <3>2
    <2> QED
      BY <2>2, <2>3 DEF TimeInv, ChecksDated
  <1> QED
    BY <1>5, <1>6, <1>7, <1>8 DEF TimedStep

LEMMA CrashDropsTimes ==
  ASSUME CallsInv, TimeInv, NEW p \in Procs, RunnerCrash(p),
         timeline' = Without({j \in Jobs : ProcOf[j] = p})
  PROVE  TimeInv'
  <1> DEFINE gone == {j \in Jobs : ProcOf[j] = p}
  <1>1. /\ PairsDated' /\ TimesOrdered' /\ TimesTransitive'
        /\ \A x, y \in Moments :
             <<x, y>> \in timeline' <=> <<x, y>> \in timeline /\ x \notin gone /\ y \notin gone
    BY DropTimes DEF TimeInv
  <1>2. ASSUME NEW k \in Jobs
        PROVE  /\ Dated(k)' <=> job'[k].pc \in UnderWay
               /\ Dated(k)' => <<k, job'[k].target>> \notin timeline'
    <2>1. k \in Moments
      BY DEF Moments
    <2>2. CASE k \in gone
      <3>1. job'[k] = NoJob
        BY <2>2 DEF RunnerCrash
      <3> QED
        BY <1>1, <2>1, <2>2, <3>1 DEF NoJob, UnderWay, Dated
    <2>3. CASE k \notin gone
      <3>1. job'[k] = job[k]
        BY <2>3 DEF RunnerCrash
      <3>2. Dated(k)' <=> Dated(k)
        BY <1>1, <2>1, <2>3 DEF Dated
      <3>3. Dated(k) => job[k].target \in Moments
        BY DEF TimeInv, ChecksDated, UnderWay, CallsInv, TypeInv, CallInv, InCall, Moments
      <3> QED
        BY <1>1, <2>1, <3>1, <3>2, <3>3 DEF TimeInv, ChecksDated
    <2> QED
      BY <2>2, <2>3
  <1> QED
    BY <1>1, <1>2 DEF TimeInv, ChecksDated

LEMMA TimesKept ==
  ASSUME OneProcessOnly
  PROVE  CallsInv /\ TimeInv /\ [DueNext]_dueVars => TimeInv'
  <1> SUFFICES ASSUME CallsInv, TimeInv, [DueNext]_dueVars PROVE TimeInv'
    OBVIOUS
  <1>1. ASSUME NEW p \in Procs, BeginTick(p) \/ QueryFails(p) \/ EndTick(p), UNCHANGED timeline
        PROVE  TimeInv'
    BY <1>1, TimesAlone DEF BeginTick, QueryFails, EndTick, runnerVars
  <1>2. ASSUME NEW p \in Procs, NEW elapsed \in SUBSET Targets, QueryOldest(p, elapsed)
        PROVE  TimeInv'
    BY <1>2, TimesAlone DEF QueryOldest, QueryDue, runnerVars
  <1>3. ASSUME NEW p \in Procs, NextBatch(p), UNCHANGED timeline PROVE TimeInv'
    <2>1. PICK granted \in SUBSET (Targets \ inFlight[p]) : BatchEffect(p, granted)
      BY <1>3, BatchLocks DEF CallsInv, TickInv
    <2>2. \A t \in granted : LockedFor(t).pc = "locked"
      BY DEF LockedFor, NoJob
    <2>3. \A k \in Jobs : \/ job'[k] = job[k]
                          \/ job'[k].pc \notin UnderWay /\ job[k].pc \notin UnderWay
      BY <2>1, <2>2 DEF BatchEffect, UnderWay
    <2> QED
      BY <1>3, <2>3, TimesAlone
  <1>4. ASSUME NEW p \in Procs, RunnerCrash(p),
               timeline' = Without({j \in Jobs : ProcOf[j] = p})
        PROVE  TimeInv'
    BY <1>4, CrashDropsTimes
  <1>5. ASSUME NEW j \in Jobs, TimedStep(j) \/ LoseCheck(j) PROVE TimeInv'
    BY <1>5, TimedStepKeeps
  <1>6. CASE ManualCheck /\ UNCHANGED timeline
    <2>1. PICK j \in Jobs \ TickJobs, t \in Targets : TryAcquire(j, t)
      BY <1>6 DEF ManualCheck
    <2>2. /\ \A k \in Jobs : k # j => job'[k] = job[k]
          /\ job[j].pc = "idle" /\ job'[j].pc = "locked"
      BY <2>1 DEF TryAcquire, NoJob, CallsInv, TickInv, CallsOK
    <2> QED
      BY <1>6, <2>2, TimesAlone DEF UnderWay
  <1>7. ASSUME NEW t \in Targets, Flip(t), UNCHANGED timeline PROVE TimeInv'
    BY <1>7, TimesAlone DEF Flip
  <1>8. CASE UNCHANGED dueVars
    BY <1>8, TimesAlone DEF dueVars, schedulerVars, vars, runnerVars
  <1> QED
    BY <1>1, <1>2, <1>3, <1>4, <1>5, <1>6, <1>7, <1>8 DEF DueNext, DueTick

\* In one process, the times of the checks, stored and under way, are in one
\* order, a call has one while it may still store it, and no call that is under
\* way would store a time older than its target's: lastCheckedAt only moves
\* forward, whatever checks fail, are refused, or die with the process.
THEOREM TimesMoveForward ==
  ASSUME OneProcessOnly
  PROVE  DueSpec => []TimelineOK
  <1>1. DueInit => TimeInv
    BY DEF DueInit, SchedulerOnlyInit, Init, RunnerInit, NoJob, TimeInv, PairsDated,
           TimesOrdered, TimesTransitive, ChecksDated, UnderWay, Dated
  <1>2. DueSpec => []CallsInv
    BY DueQueueImplementsScheduler, CallsInvHolds, PTL
  <1>3. DueSpec => [](CallsInv /\ TimeInv)
    BY <1>1, <1>2, TimesKept, PTL DEF DueSpec
  <1> QED
    BY <1>3, TimeInvSuffices, PTL
=============================================================================
