------------------------------- MODULE Store -------------------------------
(***************************************************************************)
(* The PostgreSQL tables the API processes share, as far as monitoring     *)
(* reads and writes them.  Every module that EXTENDS this one acts on      *)
(* these variables; each of its actions is one committed statement or one  *)
(* committed transaction.                                                  *)
(*                                                                         *)
(*   targets    monitor_targets: the columns health and scheduling use     *)
(*   incidents  incidents: the rows of each target, by id                  *)
(*   results    check_results: the newest run of equal outcomes, which is  *)
(*              all the rest of the system could tell about the rows       *)
(*   audit      audit_events, as the set of what has been recorded         *)
(***************************************************************************)
EXTENDS HealthState

CONSTANTS
  Targets,        \* ids of the monitored targets
  NoTarget,       \* the target of a call that is not under way
  IncidentIds,    \* ids the incident rows of one target may have
  NoIncident,     \* "no row" where a query returns null
  CounterCap      \* bound: counters above it are not told apart

ASSUME StoreAssumption ==
  /\ NoTarget \notin Targets
  /\ NoIncident \notin IncidentIds
  /\ CounterCap \in Nat
  /\ CounterCap >= failureThreshold
  /\ CounterCap >= recoveryThreshold

VARIABLES targets, incidents, results, audit

storeVars == <<targets, incidents, results, audit>>

IncidentStatus == {"OPEN", "ACKNOWLEDGED", "RESOLVED"}

TargetRow ==
  [ enabled              : BOOLEAN,
    archived             : BOOLEAN,
    status               : TargetStatus,
    consecutiveFailures  : 0..CounterCap,
    consecutiveSuccesses : 0..CounterCap ]

\* An incident row; "ABSENT" stands for a row that was never inserted, and
\* the two timestamps are kept as "is it set".
IncidentRow ==
  [ status         : IncidentStatus \cup {"ABSENT"},
    acknowledgedAt : BOOLEAN,
    resolvedAt     : BOOLEAN ]

ResultRun == [last : CheckResultStatus \cup {"NONE"}, run : 0..CounterCap]

TargetAction ==
  {"TARGET_PAUSED", "TARGET_RESUMED", "TARGET_ARCHIVED", "TARGET_UPDATED",
   "MANUAL_CHECK_REQUESTED"}
IncidentAction == {"INCIDENT_OPENED", "INCIDENT_ACKNOWLEDGED", "INCIDENT_RESOLVED"}

AuditEvent ==
  (TargetAction \X Targets) \cup (IncidentAction \X Targets \X IncidentIds)

\* Types of the tables.
StoreTypeOK ==
  /\ targets \in [Targets -> TargetRow]
  /\ incidents \in [Targets -> [IncidentIds -> IncidentRow]]
  /\ results \in [Targets -> ResultRun]
  /\ audit \subseteq AuditEvent

\* A row as TargetsService.create saves it, and the same row paused.
FreshRow ==
  [ enabled |-> TRUE, archived |-> FALSE, status |-> "UNKNOWN",
    consecutiveFailures |-> 0, consecutiveSuccesses |-> 0 ]
PausedRow == [FreshRow EXCEPT !.enabled = FALSE, !.status = "PAUSED"]

AbsentIncident ==
  [status |-> "ABSENT", acknowledgedAt |-> FALSE, resolvedAt |-> FALSE]
OpenIncident == [AbsentIncident EXCEPT !.status = "OPEN"]

\* Every table but monitor_targets starts empty.
EmptyTables ==
  /\ incidents = [t \in Targets |-> [i \in IncidentIds |-> AbsentIncident]]
  /\ results = [t \in Targets |-> [last |-> "NONE", run |-> 0]]
  /\ audit = {}

Capped(n) == IF n > CounterCap THEN CounterCap ELSE n

Active(row) == row.status \in {"OPEN", "ACKNOWLEDGED"}

\* WHERE target_id = t AND status <> 'RESOLVED'
ActiveIncidents(t) == {i \in IncidentIds : Active(incidents[t][i])}
HasActiveIncident(t) == ActiveIncidents(t) # {}

\* Faulty variant of NewIds: a target's resolved incident is opened again.
ReusedIds(t) == {i \in IncidentIds : ~Active(incidents[t][i])}

\* The ids a new row may get; IncidentIds bounds the incidents of a target.
NewIds(t) == {i \in IncidentIds : incidents[t][i].status = "ABSENT"}

\* Faulty variant of IndexAllows: a schema without the index.
NoIndex(t, i) == TRUE

\* uq_incidents_one_active_per_target lets row i of target t become active.
IndexAllows(t, i) == ActiveIncidents(t) \subseteq {i}

\* The newest run of equal outcomes once a result is appended.
AppendResult(tail, result) ==
  [ last |-> result,
    run  |-> IF tail.last = result THEN Capped(tail.run + 1) ELSE 1 ]

\* TypeORM's Repository.save: of the columns of the entity in memory, those
\* that differ from the row as save re-read it ("loaded") are written; the
\* others keep what the table holds now ("current").
SaveRow(entity, loaded, current) ==
  [ c \in DOMAIN current |-> IF entity[c] # loaded[c] THEN entity[c] ELSE current[c] ]

-----------------------------------------------------------------------------
(* What the tables promise whoever writes them.                            *)

\* A target has at most one incident that is not RESOLVED, in every
\* interleaving of checks, acknowledgements and processes: the partial
\* unique index of the migration.
OneActiveIncident ==
  \A t \in Targets : \A i, k \in ActiveIncidents(t) : i = k

\* The audit trail and the incident table never disagree: an incident row
\* exists exactly when its opening is on record, and none is resolved
\* without a record of the resolution (persist writes both in one
\* transaction, and a failed audit insert takes the incident with it).
IncidentTrail ==
  \A t \in Targets, i \in IncidentIds :
    /\ incidents[t][i].status # "ABSENT" <=> <<"INCIDENT_OPENED", t, i>> \in audit
    /\ incidents[t][i].resolvedAt => <<"INCIDENT_RESOLVED", t, i>> \in audit
=============================================================================
