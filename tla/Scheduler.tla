----------------------------- MODULE Scheduler -----------------------------
(***************************************************************************)
(* SchedulerService: the tick that finds the due targets and runs their    *)
(* checks in batches, on top of CheckRunner.                               *)
(*                                                                         *)
(* Time is abstracted: whether a target's interval has elapsed, and the    *)
(* order of the due list, are left open (any set of targets the query may  *)
(* return, in any order).  DueQueue adds the order and the limit of the    *)
(* list, and the fairness of time.                                         *)
(***************************************************************************)
EXTENDS CheckRunner, FiniteSets

CONSTANT TickJobs   \* the calls of runForTarget a tick may have under way:
                    \* those of one process are its maxConcurrentChecks

ASSUME TickJobsAssumption == TickJobs \subseteq Jobs

VARIABLES
  phase,    \* of each process' tick: "off" is ticking = false
  due       \* the due targets its running tick has not started yet

tickVars == <<phase, due>>

\* Type invariant of the tick: its flag, with its stage, and its due list.
SchedulerTypeOK ==
  /\ phase \in [Procs -> {"off", "querying", "running"}]
  /\ due \in [Procs -> SUBSET Targets]

SchedulerInit ==
  /\ phase = [p \in Procs |-> "off"]
  /\ due = [p \in Procs |-> {}]

\* Faulty variant: the due list leaves out targets known to be DOWN.
SchedulableUnlessDown(row) ==
  row.enabled /\ ~row.archived /\ row.status \notin {"PAUSED", "DOWN"}

\* The conditions of findDueTargets, but for the time.
Schedulable(row) == row.enabled /\ ~row.archived /\ row.status # "PAUSED"

SlotsOf(p) == {j \in TickJobs : ProcOf[j] = p}
BatchDone(p) == \A j \in SlotsOf(p) : job[j].pc = "idle"

\* The interval fires; a tick still running makes this one return at once.
BeginTick(p) ==
  /\ phase[p] = "off"
  /\ phase' = [phase EXCEPT ![p] = "querying"]
  /\ UNCHANGED <<storeVars, runnerVars, due>>

QueryDue(p, found) ==
  /\ phase[p] = "querying"
  /\ found \subseteq {t \in Targets : Schedulable(targets[t])}
  /\ due' = [due EXCEPT ![p] = found]
  /\ phase' = [phase EXCEPT ![p] = IF found = {} THEN "off" ELSE "running"]
  /\ UNCHANGED <<storeVars, runnerVars>>

\* Faulty variant: a failing query leaves the tick's flag set.
QueryFailsUncaught(p) ==
  /\ Fault
  /\ phase[p] = "querying"
  /\ phase' = [phase EXCEPT ![p] = "failed"]
  /\ UNCHANGED <<storeVars, inFlight, job, healthy, flips, due>>

\* The query fails; tick logs it and its finally clears the flag.
QueryFails(p) ==
  /\ Fault
  /\ phase[p] = "querying"
  /\ phase' = [phase EXCEPT ![p] = "off"]
  /\ UNCHANGED <<storeVars, inFlight, job, healthy, flips, due>>

\* The calls, with one for each target granted in the slot it is given.
Started(granted, slot) ==
  [j \in Jobs |->
     IF \E t \in granted : slot[t] = j
     THEN [NoJob EXCEPT !.pc = "locked",
                        !.target = CHOOSE t \in granted : slot[t] = j]
     ELSE job[j]]

\* The next slice of the due list: its calls of runForTarget all start, and
\* try their locks, before the first of them awaits.  A target in flight is
\* refused and left out until a later tick.
NextBatch(p) ==
  /\ phase[p] = "running"
  /\ due[p] # {}
  /\ BatchDone(p)
  /\ \E batch \in SUBSET due[p] :
       /\ batch = due[p] \/ Cardinality(batch) = Cardinality(SlotsOf(p))
       /\ Cardinality(batch) \in 1..Cardinality(SlotsOf(p))
       /\ LET granted == batch \ inFlight[p]
          IN  \E slot \in [granted -> SlotsOf(p)] :
                /\ \A t, u \in granted : slot[t] = slot[u] => t = u
                /\ job' = Started(granted, slot)
                /\ inFlight' = [inFlight EXCEPT ![p] = @ \cup granted]
       /\ due' = [due EXCEPT ![p] = @ \ batch]
  /\ UNCHANGED <<storeVars, healthy, flips, faults, phase>>

\* Faulty variant: the tick does not wait for its last batch.
EndTickEarly(p) ==
  /\ phase[p] = "running"
  /\ due[p] = {}
  /\ phase' = [phase EXCEPT ![p] = "off"]
  /\ UNCHANGED <<storeVars, runnerVars, due>>

EndTick(p) ==
  /\ phase[p] = "running"
  /\ due[p] = {}
  /\ BatchDone(p)
  /\ phase' = [phase EXCEPT ![p] = "off"]
  /\ UNCHANGED <<storeVars, runnerVars, due>>

TickStep(p) ==
  \/ \E found \in SUBSET Targets : QueryDue(p, found)
  \/ NextBatch(p)
  \/ EndTick(p)

\* The tick of a process that dies dies with it.
SchedulerCrash(p) ==
  /\ phase' = [phase EXCEPT ![p] = "off"]
  /\ due' = [due EXCEPT ![p] = {}]

SchedulerNext ==
  \E p \in Procs : BeginTick(p) \/ TickStep(p) \/ QueryFails(p)

-----------------------------------------------------------------------------
(* The scheduler with the checks it runs, and requests for the other jobs  *)
(* (check-now) on any target at any time.                                  *)
schedulerVars == <<vars, tickVars>>

SchedulerOnlyInit == Init /\ SchedulerInit

ManualCheck == \E j \in Jobs \ TickJobs, t \in Targets : TryAcquire(j, t)

SchedulerOnlyNext ==
  \/ SchedulerNext
  \/ /\ \/ \E j \in Jobs : JobStep(j) \/ JobFault(j)
        \/ ManualCheck
        \/ \E t \in Targets : Flip(t)
     /\ UNCHANGED tickVars
  \/ \E p \in Procs : RunnerCrash(p) /\ SchedulerCrash(p)

SchedulerSafeSpec == SchedulerOnlyInit /\ [][SchedulerOnlyNext]_schedulerVars

\* A tick always ends, though checks in it fail or reject and targets are
\* refused, and so the flag that keeps ticks apart never stays set.
TicksEnd == \A p \in Procs : phase[p] # "off" ~> phase[p] = "off"

\* No more scheduled checks run at once than the process has slots, and none
\* outlives its tick.
TickOwnsItsChecks ==
  \A p \in Procs : phase[p] # "running" => BatchDone(p)
=============================================================================
