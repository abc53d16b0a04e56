---------------------------- MODULE CheckRunner ----------------------------
(***************************************************************************)
(* CheckRunnerService with TargetLockService: one check of one target,     *)
(* from the lock to the committed result, run by several jobs in several   *)
(* API processes.  A job is one call of runForTarget; who calls it (the    *)
(* scheduler's tick, POST check-now) does not matter here.                 *)
(*                                                                         *)
(* Awaits split a call into steps, and anything may happen between them:   *)
(*                                                                         *)
(*   idle -> locked -> checking -> checked -> decided -> releasing -> idle *)
(*                                                                         *)
(* A process may crash, and so lose its locks and calls; the database and  *)
(* the audit insert may fail.  Such faults are bounded by MaxFaults.       *)
(***************************************************************************)
EXTENDS Store

CONSTANTS
  Procs,       \* API processes
  Jobs,        \* slots for concurrent calls of runForTarget
  ProcOf,      \* the process a job runs in
  MaxFlips,    \* bound: how often the monitored services change
  MaxFaults    \* bound: how many faults occur

ASSUME RunnerAssumption ==
  /\ \A j \in Jobs : ProcOf[j] \in Procs
  /\ MaxFlips \in Nat
  /\ MaxFaults \in Nat

VARIABLES
  inFlight,    \* TargetLockService.inFlight of each process
  job,         \* the local variables of each call
  healthy,     \* environment: would a check of the target succeed now
  flips,       \* changes of healthy so far
  faults       \* faults so far

runnerVars == <<inFlight, job, healthy, flips, faults>>
vars == <<storeVars, runnerVars>>

JobState == {"idle", "locked", "checking", "checked", "decided", "releasing"}

JobRecord ==
  [ pc       : JobState,
    target   : Targets \cup {NoTarget},
    row      : TargetRow,                        \* "target" of runForTarget
    result   : CheckResultStatus \cup {"NONE"},  \* "result" of checkTarget
    incident : IncidentIds \cup {NoIncident},    \* "activeIncident" of persist
    outcome  : {"none", "ran", "paused", "error"} ]

NoJob ==
  [ pc |-> "idle", target |-> NoTarget, row |-> FreshRow, result |-> "NONE",
    incident |-> NoIncident, outcome |-> "none" ]

\* Types of the locks, the calls and the environment.
RunnerTypeOK ==
  /\ inFlight \in [Procs -> SUBSET Targets]
  /\ job \in [Jobs -> JobRecord]
  /\ healthy \in [Targets -> BOOLEAN]
  /\ flips \in 0..MaxFlips
  /\ faults \in 0..MaxFaults

\* Type invariant of the runner on its tables; the counters of a row stay in range.
TypeOK == StoreTypeOK /\ RunnerTypeOK

RunnerInit ==
  /\ inFlight = [p \in Procs |-> {}]
  /\ job = [j \in Jobs |-> NoJob]
  /\ healthy \in [Targets -> BOOLEAN]
  /\ flips = 0
  /\ faults = 0

-----------------------------------------------------------------------------
(* One call of runForTarget.                                               *)

\* Faulty variant: the lock is taken without looking.
TryAcquireUnchecked(j, t) ==
  /\ job[j].pc = "idle"
  /\ inFlight' = [inFlight EXCEPT ![ProcOf[j]] = @ \cup {t}]
  /\ job' = [job EXCEPT ![j] = [NoJob EXCEPT !.pc = "locked", !.target = t]]
  /\ UNCHANGED <<storeVars, healthy, flips, faults>>

\* locks.tryAcquire; a target that is in flight in this process is refused
\* ("locked") and nothing changes.
TryAcquire(j, t) ==
  /\ job[j].pc = "idle"
  /\ t \notin inFlight[ProcOf[j]]
  /\ inFlight' = [inFlight EXCEPT ![ProcOf[j]] = @ \cup {t}]
  /\ job' = [job EXCEPT ![j] = [NoJob EXCEPT !.pc = "locked", !.target = t]]
  /\ UNCHANGED <<storeVars, healthy, flips, faults>>

Checkable(row) == row.enabled /\ ~row.archived

\* The snapshot of the row that the rest of the call works with.
ReadTarget(j) ==
  LET row == targets[job[j].target]
  IN  /\ job[j].pc = "locked"
      /\ job' = [job EXCEPT ![j] =
                   IF Checkable(row)
                   THEN [@ EXCEPT !.pc = "checking", !.row = row]
                   ELSE [@ EXCEPT !.pc = "releasing", !.outcome = "paused"]]
      /\ UNCHANGED <<storeVars, inFlight, healthy, flips, faults>>

\* engine.checkTarget returns; it turns every network error into a FAILURE.
CheckTarget(j) ==
  /\ job[j].pc = "checking"
  /\ job' = [job EXCEPT ![j].pc = "checked",
                        ![j].result = IF healthy[job[j].target] THEN "SUCCESS"
                                                                ELSE "FAILURE"]
  /\ UNCHANGED <<storeVars, inFlight, healthy, flips, faults>>

\* BEGIN, and the SELECT of the active incident.
FindActiveIncident(j) ==
  LET active == ActiveIncidents(job[j].target)
  IN  /\ job[j].pc = "checked"
      /\ \E i \in IF active = {} THEN {NoIncident} ELSE active :
           job' = [job EXCEPT ![j].pc = "decided", ![j].incident = i]
      /\ UNCHANGED <<storeVars, inFlight, healthy, flips, faults>>

\* computeHealthTransition on the snapshot and the incident found.
Decision(j) ==
  ComputeHealthTransition(
    [ status               |-> job[j].row.status,
      consecutiveFailures  |-> job[j].row.consecutiveFailures,
      consecutiveSuccesses |-> job[j].row.consecutiveSuccesses,
      hasActiveIncident    |-> job[j].incident # NoIncident ],
    job[j].result)

\* INSERT check_results and UPDATE monitor_targets.
WriteResult(t, result, decision) ==
  /\ results' = [results EXCEPT ![t] = AppendResult(@, result)]
  /\ targets' = [targets EXCEPT
       ![t].status = decision.status,
       ![t].consecutiveFailures = Capped(decision.consecutiveFailures),
       ![t].consecutiveSuccesses = Capped(decision.consecutiveSuccesses)]

\* INSERT incidents, if the unique index lets it, with its audit event.
OpenIncidentRow(t, i) ==
  /\ IndexAllows(t, i)
  /\ incidents' = [incidents EXCEPT ![t][i] = OpenIncident]
  /\ audit' = audit \cup {<<"INCIDENT_OPENED", t, i>>}

\* UPDATE incidents by id, whatever the row holds now, with its audit event.
ResolveIncidentRow(t, i) ==
  /\ incidents' = [incidents EXCEPT ![t][i].status = "RESOLVED",
                                    ![t][i].resolvedAt = TRUE]
  /\ audit' = audit \cup {<<"INCIDENT_RESOLVED", t, i>>}

\* Faulty variant of WriteAll: persist saves the whole snapshot of the row.
WriteWholeRow(j) ==
  LET t        == job[j].target
      decision == Decision(j)
  IN  /\ results' = [results EXCEPT ![t] = AppendResult(@, job[j].result)]
      /\ targets' = [targets EXCEPT ![t] = [job[j].row EXCEPT !.status = decision.status]]
      /\ UNCHANGED <<incidents, audit>>

\* The writes of persist, and COMMIT.
WriteAll(j) ==
  LET t        == job[j].target
      decision == Decision(j)
  IN  /\ WriteResult(t, job[j].result, decision)
      /\ IF decision.shouldOpenIncident
         THEN NewIds(t) # {} /\ OpenIncidentRow(t, CHOOSE i \in NewIds(t) : TRUE)
         ELSE IF decision.shouldResolveIncident
              THEN ResolveIncidentRow(t, job[j].incident)
              ELSE UNCHANGED <<incidents, audit>>

Finish(j, outcome) ==
  job' = [job EXCEPT ![j].pc = "releasing", ![j].outcome = outcome]

Persist(j) ==
  /\ job[j].pc = "decided"
  /\ WriteAll(j)
  /\ Finish(j, "ran")
  /\ UNCHANGED <<inFlight, healthy, flips, faults>>

\* The index refuses the new incident: the transaction rolls back and the
\* call rejects.
UniqueViolation(j) ==
  /\ job[j].pc = "decided"
  /\ Decision(j).shouldOpenIncident
  /\ HasActiveIncident(job[j].target)
  /\ Finish(j, "error")
  /\ UNCHANGED <<storeVars, inFlight, healthy, flips, faults>>

\* finally: locks.release.
Release(j) ==
  /\ job[j].pc = "releasing"
  /\ inFlight' = [inFlight EXCEPT ![ProcOf[j]] = @ \ {job[j].target}]
  /\ job' = [job EXCEPT ![j] = NoJob]
  /\ UNCHANGED <<storeVars, healthy, flips, faults>>

JobStep(j) ==
  \/ ReadTarget(j)
  \/ CheckTarget(j)
  \/ FindActiveIncident(j)
  \/ Persist(j)
  \/ UniqueViolation(j)
  \/ Release(j)

-----------------------------------------------------------------------------
(* Faults and the environment.                                             *)

Fault == faults < MaxFaults /\ faults' = faults + 1

\* Faulty variant: a failing call ends without its finally.
StatementFailsUnreleased(j) ==
  /\ Fault
  /\ job[j].pc \in {"locked", "checked", "decided"}
  /\ job' = [job EXCEPT ![j] = NoJob]
  /\ UNCHANGED <<storeVars, inFlight, healthy, flips>>

\* A query or statement fails: findOne, or any of the transaction's, which
\* rolls back.  The call rejects and still reaches its finally.
StatementFails(j) ==
  /\ Fault
  /\ job[j].pc \in {"locked", "checked", "decided"}
  /\ Finish(j, "error")
  /\ UNCHANGED <<storeVars, inFlight, healthy, flips>>

\* Faulty variant: the audit event has a connection of its own, and the
\* transaction commits without it.
AuditInsertFailsAlone(j) ==
  LET t == job[j].target
  IN  /\ Fault
      /\ job[j].pc = "decided"
      /\ Decision(j).shouldOpenIncident /\ ~HasActiveIncident(t)
      /\ WriteResult(t, job[j].result, Decision(j))
      /\ \E i \in NewIds(t) : incidents' = [incidents EXCEPT ![t][i] = OpenIncident]
      /\ Finish(j, "ran")
      /\ UNCHANGED <<audit, inFlight, healthy, flips>>

\* The audit insert inside the transaction fails.  AuditService.record
\* swallows the error, but PostgreSQL has aborted the transaction and its
\* COMMIT rolls back: the call reports that it ran, and nothing is stored.
AuditInsertFails(j) ==
  /\ Fault
  /\ job[j].pc = "decided"
  /\ \/ Decision(j).shouldOpenIncident /\ ~HasActiveIncident(job[j].target)
     \/ Decision(j).shouldResolveIncident
  /\ Finish(j, "ran")
  /\ UNCHANGED <<storeVars, inFlight, healthy, flips>>

\* Faulty variant: the locks outlive the process.
RunnerCrashKeepsLocks(p) ==
  /\ Fault
  /\ job' = [j \in Jobs |-> IF ProcOf[j] = p THEN NoJob ELSE job[j]]
  /\ UNCHANGED <<storeVars, inFlight, healthy, flips>>

\* Process p dies and is started again: its locks and its calls are gone.
RunnerCrash(p) ==
  /\ Fault
  /\ inFlight' = [inFlight EXCEPT ![p] = {}]
  /\ job' = [j \in Jobs |-> IF ProcOf[j] = p THEN NoJob ELSE job[j]]
  /\ UNCHANGED <<storeVars, healthy, flips>>

\* A monitored service breaks or is repaired.
Flip(t) ==
  /\ flips < MaxFlips
  /\ flips' = flips + 1
  /\ healthy' = [healthy EXCEPT ![t] = ~@]
  /\ UNCHANGED <<storeVars, inFlight, job, faults>>

JobFault(j) == StatementFails(j) \/ AuditInsertFails(j)

-----------------------------------------------------------------------------
Init ==
  /\ targets \in [Targets -> {FreshRow, PausedRow}]
  /\ EmptyTables
  /\ RunnerInit

Next ==
  \/ \E j \in Jobs, t \in Targets : TryAcquire(j, t)
  \/ \E j \in Jobs : JobStep(j) \/ JobFault(j)
  \/ \E p \in Procs : RunnerCrash(p)
  \/ \E t \in Targets : Flip(t)

Spec == Init /\ [][Next]_vars

\* A call that holds a lock goes on (every await in it is bounded: the check
\* by its timeout, the statements by the database), and every target is
\* checked again and again (the scheduler's interval).
Fairness ==
  /\ \A j \in Jobs : WF_vars(JobStep(j))
  /\ \A t \in Targets : SF_vars(\E j \in Jobs : TryAcquire(j, t))

FairSpec == Spec /\ Fairness

-----------------------------------------------------------------------------
(* Properties.                                                             *)

InCall(j) == job[j].pc # "idle"

\* The lock is exact: a process holds a target's lock exactly while one of
\* its calls for that target is under way, whatever way calls end, and two
\* calls for one target never run together in a process.
LockInv ==
  /\ \A p \in Procs, t \in Targets :
       t \in inFlight[p] <=> \E j \in Jobs : ProcOf[j] = p /\ InCall(j) /\ job[j].target = t
  /\ \A j, k \in Jobs :
       InCall(j) /\ InCall(k) /\ ProcOf[j] = ProcOf[k] /\ job[j].target = job[k].target
         => j = k

\* With one process and nobody else writing targets, the row a call read
\* before its HTTP check is still the row when it writes, and the incident
\* it found is still the one: the lock makes reading outside the transaction
\* safe.
SnapshotCurrent ==
  \A j \in Jobs :
    LET t == job[j].target
    IN  /\ job[j].pc \in {"checking", "checked", "decided"} => job[j].row = targets[t]
        /\ job[j].pc = "decided" =>
             ActiveIncidents(t) = IF job[j].incident = NoIncident THEN {}
                                  ELSE {job[j].incident}

\* The counters of a target's row are those of the stored check results.
CountersFollowResults ==
  \A t \in Targets :
    /\ targets[t].consecutiveFailures =
         IF results[t].last = "FAILURE" THEN results[t].run ELSE 0
    /\ targets[t].consecutiveSuccesses =
         IF results[t].last = "SUCCESS" THEN results[t].run ELSE 0

\* A target marked DOWN has an active incident, and one marked UP has none
\* (docs/CHECK_ENGINE.md: "the database can never hold a target marked DOWN
\* with no incident").
StatusMatchesIncident ==
  \A t \in Targets :
    /\ targets[t].status = "DOWN" => HasActiveIncident(t)
    /\ targets[t].status \in {"UP", "UNKNOWN"} => ~HasActiveIncident(t)

\* An incident that is RESOLVED stays so: the lifecycle has no way back.
ResolvedIsFinal ==
  [][\A t \in Targets, i \in IncidentIds :
       incidents[t][i].status = "RESOLVED" => incidents'[t][i].status = "RESOLVED"]_vars

\* Every lock that is taken is given back, whatever fails on the way.
LocksReleased ==
  \A p \in Procs, t \in Targets : t \in inFlight[p] ~> t \notin inFlight[p]

\* Once a service stays healthy (or broken), its target ends up UP without
\* an active incident (or DOWN with one), however the checks, faults and
\* processes interleaved before.
Converges ==
  \A t \in Targets :
    /\ <>[](Checkable(targets[t]) /\ healthy[t])
         => <>[](targets[t].status = "UP" /\ ~HasActiveIncident(t))
    /\ <>[](Checkable(targets[t]) /\ ~healthy[t])
         => <>[](targets[t].status = "DOWN" /\ HasActiveIncident(t))

\* The runner implements the serial health model: mapping the tables to its
\* variables, every step is one check of it or changes nothing.
Model == INSTANCE HealthModel WITH
  streak  <- results,
  open    <- [t \in Targets |-> HasActiveIncident(t)],
  verdict <- [t \in Targets |-> targets[t].status]

\* Under that mapping, what runForTarget commits is the serial model of checks.
ImplementsHealthModel == Model!AbstractSpec
=============================================================================
