------------------------------ MODULE Monitor ------------------------------
(***************************************************************************)
(* The monitoring core as it runs: the scheduler's ticks, the checks, the  *)
(* operators' target requests and their acknowledgements share the tables, *)
(* in one or several API processes that may crash.                         *)
(*                                                                         *)
(* A session s that asks for check-now runs its check as the job s.        *)
(***************************************************************************)
EXTENDS Scheduler, TargetsService, IncidentsService

CONSTANT Starts    \* what earlier runs may have left of a target

AllStarts == {"new", "paused", "down", "paused-down"}

ASSUME MonitorAssumption ==
  /\ Starts \subseteq AllStarts /\ IncidentIds # {}
  /\ Sessions \subseteq Jobs \ TickJobs
  /\ \A a \in Acknowledgers : ProcOf[a] \in Procs

allVars == <<vars, tickVars, sessionVars, ackVars>>

\* Type invariant of the composition.
MonitorTypeOK ==
  TypeOK /\ SchedulerTypeOK /\ SessionsTypeOK /\ AcksTypeOK

\* A target as it was created, or left DOWN with its incident; and either of
\* them paused, which touches no incident.
DownRow == [FreshRow EXCEPT !.status = "DOWN", !.consecutiveFailures = failureThreshold]

StartRow(start) ==
  CASE start = "new"         -> FreshRow
    [] start = "paused"      -> PausedRow
    [] start = "down"        -> DownRow
    [] start = "paused-down" -> [DownRow EXCEPT !.enabled = FALSE, !.status = "PAUSED"]

FirstId == CHOOSE i \in IncidentIds : TRUE

MonitorInit ==
  /\ \E start \in [Targets -> Starts] :
       LET down == {t \in Targets : start[t] \in {"down", "paused-down"}}
       IN  /\ targets = [t \in Targets |-> StartRow(start[t])]
           /\ incidents = [t \in Targets |-> [i \in IncidentIds |->
                             IF t \in down /\ i = FirstId THEN OpenIncident ELSE AbsentIncident]]
           /\ audit = {<<"INCIDENT_OPENED", t, FirstId>> : t \in down}
  /\ results = [t \in Targets |-> [last |-> "NONE", run |-> 0]]
  /\ RunnerInit /\ SchedulerInit /\ SessionsInit /\ AcksInit

-----------------------------------------------------------------------------
RunJob(j) == JobStep(j) /\ UNCHANGED <<tickVars, sessionVars, ackVars>>

\* check-now calls runForTarget, and is answered with 409 if that is refused.
CallRunner(s) ==
  LET t == session[s].target
  IN  /\ session[s].pc = "calling"
      /\ IF t \in inFlight[ProcOf[s]]
         THEN /\ session' = [session EXCEPT ![s] = NoSession]
              /\ UNCHANGED vars
         ELSE /\ TryAcquire(s, t)
              /\ Goto(s, "running")
      /\ UNCHANGED <<tickVars, requests, ackVars>>

\* The call has returned; the answer changes nothing.
AnswerCheckNow(s) ==
  /\ session[s].pc = "running"
  /\ job[s].pc = "idle"
  /\ session' = [session EXCEPT ![s] = NoSession]
  /\ UNCHANGED <<vars, tickVars, requests, ackVars>>

RunTick == SchedulerNext /\ UNCHANGED <<sessionVars, ackVars>>

StartRequest(s) ==
  /\ \E op \in Operations, t \in Targets : FindOne(s, op, t)
  /\ UNCHANGED <<runnerVars, tickVars, ackVars>>

RunSession(s) ==
  \/ SessionStep(s) /\ UNCHANGED <<runnerVars, tickVars, ackVars>>
  \/ CallRunner(s)
  \/ AnswerCheckNow(s)

StartAck(a) ==
  /\ \E t \in Targets, i \in IncidentIds : FindIncident(a, t, i)
  /\ UNCHANGED <<runnerVars, tickVars, sessionVars>>

RunAck(a) ==
  /\ AckStep(a)
  /\ UNCHANGED <<runnerVars, tickVars, sessionVars>>

\* The audit insert after a save fails: record swallows it, and the request
\* goes on without its event.
AuditLost(s) ==
  /\ Fault
  /\ session[s].pc \in {"saved", "requested"}
  /\ session' = [session EXCEPT ![s] =
                   IF @.op = "check-now" THEN [@ EXCEPT !.pc = "calling"] ELSE NoSession]
  /\ UNCHANGED <<storeVars, inFlight, job, healthy, flips, tickVars, requests,
                 ackVars>>

\* A statement of save fails: the request is answered with 500.
SaveFails(s) ==
  /\ Fault
  /\ session[s].pc \in {"mutated", "loaded"}
  /\ session' = [session EXCEPT ![s] = NoSession]
  /\ UNCHANGED <<storeVars, inFlight, job, healthy, flips, tickVars, requests,
                 ackVars>>

\* A statement of an acknowledgement's save fails, or its audit insert.
AckFails(a) ==
  /\ Fault
  /\ ack[a].pc # "idle"
  /\ ack' = [ack EXCEPT ![a] = NoAck]
  /\ UNCHANGED <<storeVars, inFlight, job, healthy, flips, tickVars, sessionVars,
                 acks>>

RunFault(j) ==
  /\ JobFault(j)
  /\ UNCHANGED <<tickVars, sessionVars, ackVars>>

Crash(p) ==
  /\ RunnerCrash(p)
  /\ SchedulerCrash(p)
  /\ session' = [s \in Sessions |-> IF ProcOf[s] = p THEN NoSession ELSE session[s]]
  /\ ack' = [a \in Acknowledgers |-> IF ProcOf[a] = p THEN NoAck ELSE ack[a]]
  /\ UNCHANGED <<requests, acks>>

ServiceChanges(t) ==
  Flip(t) /\ UNCHANGED <<tickVars, sessionVars, ackVars>>

-----------------------------------------------------------------------------
MonitorNext ==
  \/ \E j \in Jobs : RunJob(j) \/ RunFault(j)
  \/ RunTick
  \/ \E s \in Sessions :
       StartRequest(s) \/ RunSession(s) \/ SaveFails(s) \/ AuditLost(s)
  \/ \E a \in Acknowledgers : StartAck(a) \/ RunAck(a) \/ AckFails(a)
  \/ \E p \in Procs : Crash(p)
  \/ \E t \in Targets : ServiceChanges(t)

MonitorSpec == MonitorInit /\ [][MonitorNext]_allVars

\* Calls, ticks and requests under way go on; nobody has to make a request.
MonitorFairness ==
  /\ \A j \in Jobs : WF_allVars(RunJob(j))
  /\ \A p \in Procs :
       /\ WF_allVars(BeginTick(p) /\ UNCHANGED <<sessionVars, ackVars>>)
       /\ WF_allVars(TickStep(p) /\ UNCHANGED <<sessionVars, ackVars>>)
  /\ \A t \in Targets :
       SF_allVars(/\ \E p \in Procs, found \in SUBSET Targets :
                       t \in found /\ QueryDue(p, found)
                  /\ UNCHANGED <<sessionVars, ackVars>>)
  /\ \A s \in Sessions : WF_allVars(RunSession(s))
  /\ \A a \in Acknowledgers : WF_allVars(RunAck(a))

MonitorFairSpec == MonitorSpec /\ MonitorFairness

-----------------------------------------------------------------------------
(* Properties.                                                             *)

\* Every request under way comes to its end, though the check it asked for
\* is refused, fails, or dies with its process.
RequestsEnd ==
  /\ \A s \in Sessions : session[s].pc # "idle" ~> session[s].pc = "idle"
  /\ \A a \in Acknowledgers : ack[a].pc # "idle" ~> ack[a].pc = "idle"

(* Statements of the repository's documents that the code does not keep.   *)

\* docs/HEALTH_MODEL.md: "Pausing sets enabled = false and status = PAUSED",
\* and a target stays so until it is resumed.
DisabledMeansPaused ==
  \A t \in Targets : ~targets[t].enabled => targets[t].status = "PAUSED"

\* docs/CHECK_ENGINE.md: "the database can never hold a target marked DOWN
\* with no incident".
DownHasIncident ==
  \A t \in Targets : targets[t].status = "DOWN" => HasActiveIncident(t)

\* audit.service.ts: "Auditing must never break the operation it describes":
\* a check that reports that it ran, and decided to open an incident, has
\* opened it.
AuditNeverBreaks ==
  [][\A j \in Jobs :
       job[j].pc = "decided" /\ Decision(j).shouldOpenIncident /\ job'[j].outcome = "ran"
         => HasActiveIncident(job[j].target)']_allVars
=============================================================================
