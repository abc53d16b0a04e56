--------------------------- MODULE MonitorProofs ---------------------------
(***************************************************************************)
(* What holds of the composed core: for every number of processes, calls,  *)
(* ticks, target requests and acknowledgements.  What CheckRunnerProofs    *)
(* says of the steps of a check is used here; the steps that are not one   *)
(* of those are a batch that starts, the writes of the requests, and the   *)
(* faults of the tick and of the requests.                                 *)
(***************************************************************************)
EXTENDS Monitor, SchedulerProofs

\* A request under way has an operation and a target, an acknowledgement an
\* incident.
RequestInv ==
  /\ \A s \in Sessions :
       session[s].pc # "idle" => session[s].target \in Targets /\ session[s].op \in Operations
  /\ \A a \in Acknowledgers :
       ack[a].pc # "idle" => ack[a].target \in Targets /\ ack[a].id \in IncidentIds

MonitorInv == MonitorTypeOK /\ CallInv /\ RequestInv

-----------------------------------------------------------------------------
(* Kinds of steps, as the tables and the runner see them.                  *)

BatchStarts == \E p \in Procs : NextBatch(p)

RowSaved == UNCHANGED runnerVars /\ \E s \in Sessions : UpdateRow(s)

IncidentSaved == UNCHANGED runnerVars /\ \E a \in Acknowledgers : UpdateIncident(a)

EventRecorded ==
  /\ UNCHANGED <<targets, incidents, results, runnerVars>>
  /\ \/ \E op \in Operations, t \in Targets : audit' = audit \cup {<<AuditActionOf(op), t>>}
     \/ \E t \in Targets, i \in IncidentIds :
          audit' = audit \cup {<<"INCIDENT_ACKNOWLEDGED", t, i>>}

StepKind ==
  [Next]_vars \/ FaultOnly \/ BatchStarts \/ RowSaved \/ IncidentSaved \/ EventRecorded

\* The steps of the monitor are of these kinds.
LEMMA KindsOfSteps == ASSUME RequestInv, [MonitorNext]_allVars PROVE StepKind
  <1> USE DEF StepKind
  <1>1. ASSUME NEW j \in Jobs, RunJob(j) \/ RunFault(j) PROVE StepKind
    BY <1>1 DEF RunJob, RunFault, Next
  <1>2. CASE RunTick
    <2>1. PICK p \in Procs : BeginTick(p) \/ TickStep(p) \/ QueryFails(p)
      BY <1>2 DEF RunTick, SchedulerNext
    <2> QED
      BY <2>1, KindsOfTickSteps DEF BatchStarts
  <1>3. ASSUME NEW s \in Sessions, StartRequest(s) PROVE StepKind
    BY <1>3 DEF StartRequest, FindOne, vars
  <1>4. ASSUME NEW s \in Sessions, SessionStep(s), UNCHANGED runnerVars PROVE StepKind
    <2>1. CASE RefuseUpdate(s) \/ LoadRow(s)
      BY <1>4, <2>1 DEF RefuseUpdate, LoadRow, vars
    <2>2. CASE UpdateRow(s)
      BY <1>4, <2>2 DEF RowSaved
    <2>3. CASE RecordAudit(s)
      BY <1>4, <2>3 DEF RecordAudit, EventRecorded, RequestInv
    <2> QED
      BY <1>4, <2>1, <2>2, <2>3 DEF SessionStep
  <1>5. ASSUME NEW s \in Sessions, CallRunner(s) PROVE StepKind
    <2>1. session[s].target \in Targets /\ s \in Jobs
      BY <1>5, MonitorAssumption DEF CallRunner, RequestInv
    <2> QED
      BY <1>5, <2>1 DEF CallRunner, Next
  <1>6. ASSUME NEW s \in Sessions, AnswerCheckNow(s) PROVE StepKind
    BY <1>6 DEF AnswerCheckNow
  <1>7. ASSUME NEW s \in Sessions, SaveFails(s) \/ AuditLost(s) PROVE StepKind
    BY <1>7 DEF SaveFails, AuditLost, FaultOnly
  <1>8. ASSUME NEW a \in Acknowledgers, StartAck(a) PROVE StepKind
    BY <1>8 DEF StartAck, FindIncident, vars
  <1>9. ASSUME NEW a \in Acknowledgers, RunAck(a) PROVE StepKind
    <2>1. CASE LoadIncident(a) \/ UpdateRefused(a)
      BY <1>9, <2>1 DEF RunAck, LoadIncident, UpdateRefused, vars
    <2>2. CASE UpdateIncident(a)
      BY <1>9, <2>2 DEF RunAck, IncidentSaved
    <2>3. CASE RecordAck(a)
      BY <1>9, <2>3 DEF RunAck, RecordAck, EventRecorded, RequestInv
    <2> QED
      BY <1>9, <2>1, <2>2, <2>3 DEF RunAck, AckStep
  <1>10. ASSUME NEW a \in Acknowledgers, AckFails(a) PROVE StepKind
    BY <1>10 DEF AckFails, FaultOnly
  <1>11. ASSUME NEW p \in Procs, Crash(p) PROVE StepKind
    BY <1>11 DEF Crash, Next
  <1>12. ASSUME NEW t \in Targets, ServiceChanges(t) PROVE StepKind
    BY <1>12 DEF ServiceChanges, Next
  <1>13. CASE UNCHANGED allVars
    BY <1>13 DEF allVars
  <1> QED
    BY <1>1, <1>2, <1>3, <1>4, <1>5, <1>6, <1>7, <1>8, <1>9, <1>10, <1>11, <1>12, <1>13
       DEF MonitorNext, RunSession

-----------------------------------------------------------------------------
(* Type correctness.                                                       *)

\* save leaves a row: of each column, what the entity or what the table has.
LEMMA SavedTargetTyped ==
  ASSUME NEW entity \in TargetRow, NEW loaded \in TargetRow, NEW current \in TargetRow
  PROVE  /\ SaveRow(entity, loaded, current) \in TargetRow
         /\ \A c \in DOMAIN current :
              SaveRow(entity, loaded, current)[c] =
                IF entity[c] # loaded[c] THEN entity[c] ELSE current[c]
         /\ DOMAIN current = {"enabled", "archived", "status", "consecutiveFailures",
                              "consecutiveSuccesses"}
  <1> DEFINE saved == SaveRow(entity, loaded, current)
             columns == {"enabled", "archived", "status", "consecutiveFailures",
                         "consecutiveSuccesses"}
  <1>1. DOMAIN current = columns
    BY DEF TargetRow
  <1>2. \A c \in columns : saved[c] = IF entity[c] # loaded[c] THEN entity[c] ELSE current[c]
    BY <1>1 DEF SaveRow
  <1>3. saved = [ enabled |-> saved.enabled, archived |-> saved.archived, status |-> saved.status,
                  consecutiveFailures |-> saved.consecutiveFailures,
                  consecutiveSuccesses |-> saved.consecutiveSuccesses ]
    BY <1>1 DEF SaveRow
  <1>4. /\ saved.enabled \in BOOLEAN /\ saved.archived \in BOOLEAN
        /\ saved.status \in TargetStatus
        /\ saved.consecutiveFailures \in 0..CounterCap
        /\ saved.consecutiveSuccesses \in 0..CounterCap
    <2>1. /\ entity.enabled \in BOOLEAN /\ current.enabled \in BOOLEAN
          /\ entity.archived \in BOOLEAN /\ current.archived \in BOOLEAN
          /\ entity.status \in TargetStatus /\ current.status \in TargetStatus
          /\ entity.consecutiveFailures \in 0..CounterCap
          /\ current.consecutiveFailures \in 0..CounterCap
          /\ entity.consecutiveSuccesses \in 0..CounterCap
          /\ current.consecutiveSuccesses \in 0..CounterCap
      BY DEF TargetRow
    <2> HIDE DEF saved
    <2> QED
      BY <1>2, <2>1
  <1> HIDE DEF saved
  <1>5. saved \in TargetRow
    BY <1>3, <1>4 DEF TargetRow
  <1> QED
    BY <1>1, <1>2, <1>5 DEF saved

\* The same of an incident.
LEMMA SavedIncidentTyped ==
  ASSUME NEW entity \in IncidentRow, NEW loaded \in IncidentRow, NEW current \in IncidentRow
  PROVE  /\ SaveRow(entity, loaded, current) \in IncidentRow
         /\ SaveRow(entity, loaded, current).status =
              IF entity.status # loaded.status THEN entity.status ELSE current.status
         /\ SaveRow(entity, loaded, current).resolvedAt =
              IF entity.resolvedAt # loaded.resolvedAt THEN entity.resolvedAt
                                                       ELSE current.resolvedAt
  <1> DEFINE saved == SaveRow(entity, loaded, current)
             columns == {"status", "acknowledgedAt", "resolvedAt"}
  <1>1. DOMAIN current = columns
    BY DEF IncidentRow
  <1>2. \A c \in columns : saved[c] = IF entity[c] # loaded[c] THEN entity[c] ELSE current[c]
    BY <1>1 DEF SaveRow
  <1>3. saved = [ status |-> saved.status, acknowledgedAt |-> saved.acknowledgedAt,
                  resolvedAt |-> saved.resolvedAt ]
    BY <1>1 DEF SaveRow
  <1>4. /\ saved.status \in IncidentStatus \cup {"ABSENT"}
        /\ saved.acknowledgedAt \in BOOLEAN /\ saved.resolvedAt \in BOOLEAN
    <2>1. /\ entity.status \in IncidentStatus \cup {"ABSENT"}
          /\ current.status \in IncidentStatus \cup {"ABSENT"}
          /\ entity.acknowledgedAt \in BOOLEAN /\ current.acknowledgedAt \in BOOLEAN
          /\ entity.resolvedAt \in BOOLEAN /\ current.resolvedAt \in BOOLEAN
      BY DEF IncidentRow
    <2> HIDE DEF saved
    <2> QED
      BY <1>2, <2>1
  <1> HIDE DEF saved
  <1>5. saved \in IncidentRow
    BY <1>3, <1>4 DEF IncidentRow
  <1> QED
    BY <1>2, <1>5 DEF saved

\* Tables, locks and calls stay typed by every kind of step.
LEMMA TypeKeeps == ASSUME MonitorInv, StepKind PROVE TypeInv'
  <1>0. TypeInv /\ TypeOK /\ StoreTypeOK /\ RunnerTypeOK /\ CallInv
    BY DEF MonitorInv, MonitorTypeOK, TypeInv, TypeOK
  <1>1. ASSUME UNCHANGED runnerVars, StoreTypeOK' PROVE TypeInv'
    BY <1>0, <1>1 DEF TypeInv, TypeOK, RunnerTypeOK, CallInv, InCall, runnerVars
  <1>2. CASE [Next]_vars
    BY <1>0, <1>2, TypeStep
  <1>3. CASE FaultOnly
    BY <1>0, <1>3, FaultKeepsTypes
  <1>4. ASSUME NEW p \in Procs, NextBatch(p) PROVE TypeInv'
    BY <1>0, <1>4, BatchTyped DEF MonitorInv, MonitorTypeOK
  <1>5. ASSUME UNCHANGED runnerVars, NEW s \in Sessions, UpdateRow(s) PROVE TypeInv'
    <2>1. /\ session[s].target \in Targets
          /\ session[s].entity \in TargetRow /\ session[s].loaded \in TargetRow
      BY <1>5 DEF UpdateRow, MonitorInv, RequestInv, MonitorTypeOK, SessionsTypeOK, SessionRecord
    <2>2. targets[session[s].target] \in TargetRow
      BY <1>0, <2>1 DEF StoreTypeOK
    <2>3. SaveRow(session[s].entity, session[s].loaded, targets[session[s].target]) \in TargetRow
      BY <2>1, <2>2, SavedTargetTyped
    <2>4. StoreTypeOK'
      BY <1>0, <1>5, <2>1, <2>3 DEF UpdateRow, StoreTypeOK
    <2> QED
      BY <1>1, <1>5, <2>4
  <1>6. ASSUME UNCHANGED runnerVars, NEW a \in Acknowledgers, UpdateIncident(a) PROVE TypeInv'
    <2>1. /\ ack[a].target \in Targets /\ ack[a].id \in IncidentIds
          /\ ack[a].entity \in IncidentRow /\ ack[a].loaded \in IncidentRow
      BY <1>6 DEF UpdateIncident, MonitorInv, RequestInv, MonitorTypeOK, AcksTypeOK, AckRecord
    <2>2. incidents[ack[a].target][ack[a].id] \in IncidentRow
      BY <1>0, <2>1 DEF StoreTypeOK
    <2>3. SavedIncident(a) \in IncidentRow
      BY <2>1, <2>2, SavedIncidentTyped DEF SavedIncident
    <2>4. StoreTypeOK'
      BY <1>0, <1>6, <2>1, <2>3 DEF UpdateIncident, StoreTypeOK
    <2> QED
      BY <1>1, <1>6, <2>4
  <1>7. CASE EventRecorded
    <2>1. audit' \subseteq AuditEvent
      <3>1. ASSUME NEW op \in Operations, NEW t \in Targets
            PROVE  <<AuditActionOf(op), t>> \in AuditEvent
        <4>1. AuditActionOf(op) \in TargetAction
          BY SessionsAssumption DEF AllOperations, AuditActionOf, TargetAction
        <4> QED
          BY <4>1 DEF AuditEvent
      <3>2. ASSUME NEW t \in Targets, NEW i \in IncidentIds
            PROVE  <<"INCIDENT_ACKNOWLEDGED", t, i>> \in AuditEvent
        BY DEF AuditEvent, IncidentAction
      <3> QED
        BY <1>0, <1>7, <3>1, <3>2 DEF EventRecorded, StoreTypeOK
    <2>2. StoreTypeOK'
      BY <1>0, <1>7, <2>1 DEF EventRecorded, StoreTypeOK
    <2> QED
      BY <1>1, <1>7, <2>2 DEF EventRecorded
  <1> QED
    BY <1>2, <1>3, <1>4, <1>5, <1>6, <1>7 DEF StepKind, BatchStarts, RowSaved, IncidentSaved

\* The lock stays exact when a batch takes its locks, and no other step of
\* the tick or of a request touches a lock or a call.
LEMMA LockKeeps == ASSUME MonitorInv, LockInv, StepKind PROVE LockInv'
  <1>0. TypeInv
    BY DEF MonitorInv, MonitorTypeOK, TypeInv
  <1>1. CASE [Next]_vars
    BY <1>0, <1>1, LockStep
  <1>2. CASE UNCHANGED <<inFlight, job>>
    BY <1>2 DEF LockInv, InCall
  <1>3. ASSUME NEW p \in Procs, NextBatch(p) PROVE LockInv'
    BY <1>0, <1>3, BatchLockExact DEF MonitorInv, MonitorTypeOK
  <1> QED
    BY <1>1, <1>2, <1>3
       DEF StepKind, FaultOnly, BatchStarts, RowSaved, IncidentSaved, EventRecorded, runnerVars

\* Ticks stay typed: only their own steps and a crash touch them.
LEMMA TicksTyped == ASSUME SchedulerTypeOK, [MonitorNext]_allVars PROVE SchedulerTypeOK'
  <1>1. CASE UNCHANGED tickVars
    BY <1>1 DEF SchedulerTypeOK, tickVars
  <1>2. ASSUME NEW p \in Procs, BeginTick(p) \/ TickStep(p) \/ QueryFails(p)
        PROVE  SchedulerTypeOK'
    <2>1. ASSUME NEW found \in SUBSET Targets, QueryDue(p, found) PROVE SchedulerTypeOK'
      BY <2>1 DEF QueryDue, SchedulerTypeOK
    <2>2. CASE NextBatch(p)
      <3>1. PICK batch \in SUBSET due[p] :
              due' = [due EXCEPT ![p] = @ \ batch] /\ phase' = phase
        BY <2>2 DEF NextBatch
      <3> QED
        BY <3>1 DEF SchedulerTypeOK
    <2>3. CASE BeginTick(p) \/ EndTick(p) \/ QueryFails(p)
      BY <2>3 DEF BeginTick, EndTick, QueryFails, SchedulerTypeOK
    <2> QED
      BY <1>2, <2>1, <2>2, <2>3 DEF TickStep
  <1>3. ASSUME NEW p \in Procs, SchedulerCrash(p) PROVE SchedulerTypeOK'
    BY <1>3 DEF SchedulerCrash, SchedulerTypeOK
  <1>4. ASSUME NEW s \in Sessions, RunSession(s) PROVE UNCHANGED tickVars
    BY <1>4 DEF RunSession, CallRunner, AnswerCheckNow
  <1> QED
    BY <1>1, <1>2, <1>3, <1>4
       DEF MonitorNext, RunJob, RunFault, RunTick, SchedulerNext, StartRequest, SaveFails,
           AuditLost, StartAck, RunAck, AckFails, Crash, ServiceChanges, allVars

-----------------------------------------------------------------------------
(* The requests.                                                           *)

\* What a request under way may hold; NoSession is one that is not.
SessionOK(record) ==
  /\ record \in SessionRecord
  /\ record.pc # "idle" => record.target \in Targets /\ record.op \in Operations

AckOK(record) ==
  /\ record \in AckRecord
  /\ record.pc # "idle" => record.target \in Targets /\ record.id \in IncidentIds

\* A slot without a request is one that may be.
LEMMA NoSessionTyped == SessionOK(NoSession) /\ FreshRow \in TargetRow
  <1>1. FreshRow \in TargetRow
    BY ThresholdsPositive DEF FreshRow, TargetRow, TargetStatus
  <1> QED
    BY <1>1 DEF NoSession, SessionOK, SessionRecord, SessionState

\* And so is one without an acknowledgement.
LEMMA NoAckTyped == AckOK(NoAck) /\ AbsentIncident \in IncidentRow
  <1>1. AbsentIncident \in IncidentRow
    BY DEF AbsentIncident, IncidentRow
  <1> QED
    BY <1>1 DEF NoAck, AckOK, AckRecord

\* The copy a request changes is still a row.
LEMMA MutatedTyped ==
  ASSUME NEW op \in Operations, NEW row \in TargetRow
  PROVE  Mutated(op, row) \in TargetRow
  <1>1. op \in AllOperations
    BY SessionsAssumption
  <1>2. CASE op = "pause"
    BY <1>2 DEF Mutated, TargetRow, TargetStatus
  <1>3. CASE op = "resume"
    <2>1. 0 \in 0..CounterCap
      BY ThresholdsPositive
    <2>2. Mutated(op, row) =
            [row EXCEPT !.enabled = TRUE, !.status = "UNKNOWN",
                        !.consecutiveFailures = 0, !.consecutiveSuccesses = 0]
      BY <1>3 DEF Mutated
    <2> QED
      BY <2>1, <2>2 DEF TargetRow, TargetStatus
  <1>4. CASE op = "archive"
    BY <1>4 DEF Mutated, TargetRow, TargetStatus
  <1>5. CASE op \in {"update", "check-now"}
    BY <1>5 DEF Mutated
  <1> QED
    BY <1>1, <1>2, <1>3, <1>4, <1>5 DEF AllOperations

\* What a step does to a request: it starts it, moves it on in one of its
\* steps, ends it, or leaves it alone.
SessionMoves(s) ==
  \/ session'[s] = session[s]
  \/ session'[s] = NoSession
  \/ \E op \in Operations, t \in Targets : FindOne(s, op, t)
  \/ LoadRow(s)
  \/ UpdateRow(s)
  \/ /\ session[s].pc \in {"saved", "requested", "calling"}
     /\ \E pc \in {"calling", "running"} : session'[s] = [session[s] EXCEPT !.pc = pc]

AckMoves(a) ==
  \/ ack'[a] = ack[a]
  \/ ack'[a] = NoAck
  \/ \E t \in Targets, i \in IncidentIds : FindIncident(a, t, i)
  \/ LoadIncident(a)
  \/ UpdateIncident(a)

\* Every step moves every request in one of these ways.
LEMMA SessionSteps ==
  ASSUME DOMAIN session = Sessions, [MonitorNext]_allVars, NEW s \in Sessions
  PROVE  /\ SessionMoves(s)
         /\ session' = [u \in Sessions |-> session'[u]] \/ UNCHANGED session
  <1> DEFINE Done == /\ SessionMoves(s)
                     /\ session' = [u \in Sessions |-> session'[u]] \/ UNCHANGED session
  <1>1. CASE UNCHANGED session
    BY <1>1 DEF SessionMoves
  <1>2. ASSUME NEW u \in Sessions, NEW new, session' = [session EXCEPT ![u] = new],
               u = s => SessionMoves(s)
        PROVE  Done
    BY <1>2 DEF SessionMoves
  <1> HIDE DEF Done
  <1>3. ASSUME NEW u \in Sessions, StartRequest(u) PROVE Done
    <2>1. PICK op \in Operations, t \in Targets : FindOne(u, op, t)
      BY <1>3 DEF StartRequest
    <2>2. PICK new : session' = [session EXCEPT ![u] = new]
      BY <2>1 DEF FindOne
    <2>3. u = s => SessionMoves(s)
      BY <2>1 DEF SessionMoves
    <2> QED
      BY <1>2, <2>2, <2>3
  <1>4. ASSUME NEW u \in Sessions, LoadRow(u) PROVE Done
    <2>1. u = s => SessionMoves(s)
      BY <1>4 DEF SessionMoves
    <2>2. session' = [session EXCEPT ![u] =
            [@ EXCEPT !.pc = "loaded", !.loaded = targets[session[u].target]]]
      BY <1>4 DEF LoadRow
    <2> QED
      BY <1>2, <2>1, <2>2
  <1>5. ASSUME NEW u \in Sessions, UpdateRow(u) PROVE Done
    <2>1. u = s => SessionMoves(s)
      BY <1>5 DEF SessionMoves
    <2>2. session' = [session EXCEPT ![u] =
            [@ EXCEPT !.pc = "saved", !.entity = FreshRow, !.loaded = FreshRow]]
      BY <1>5 DEF UpdateRow
    <2> QED
      BY <1>2, <2>1, <2>2
  <1>6. ASSUME NEW u \in Sessions, session[u].pc \in {"saved", "requested"},
               session' = [session EXCEPT ![u] =
                 IF @.op = "check-now" THEN [@ EXCEPT !.pc = "calling"] ELSE NoSession]
        PROVE  Done
    <2>1. u = s => SessionMoves(s)
      BY <1>6 DEF SessionMoves
    <2> QED
      BY <1>2, <1>6, <2>1
  <1>7. ASSUME NEW u \in Sessions, session' = [session EXCEPT ![u] = NoSession] PROVE Done
    <2>1. u = s => SessionMoves(s)
      BY <1>7 DEF SessionMoves
    <2> QED
      BY <1>2, <1>7, <2>1
  <1>8. ASSUME NEW u \in Sessions, session[u].pc = "calling", Goto(u, "running") PROVE Done
    <2>1. session' = [session EXCEPT ![u] = [@ EXCEPT !.pc = "running"]]
      BY <1>8 DEF Goto
    <2>2. u = s => SessionMoves(s)
      BY <1>8, <2>1 DEF SessionMoves
    <2> QED
      BY <1>2, <2>1, <2>2
  <1>9. ASSUME NEW u \in Sessions, RunSession(u) \/ SaveFails(u) \/ AuditLost(u) PROVE Done
    BY <1>4, <1>5, <1>6, <1>7, <1>8, <1>9
       DEF RunSession, SessionStep, RefuseUpdate, RecordAudit, CallRunner, AnswerCheckNow,
           SaveFails, AuditLost
  <1>10. ASSUME NEW p \in Procs, Crash(p) PROVE Done
    <2>1. session' = [u \in Sessions |-> IF ProcOf[u] = p THEN NoSession ELSE session[u]]
      BY <1>10 DEF Crash
    <2> QED
      BY <2>1 DEF Done, SessionMoves
  <1>11. Done
    <2>1. UNCHANGED session => Done
      BY <1>1 DEF Done
    <2> QED
      BY <1>3, <1>9, <1>10, <2>1
         DEF MonitorNext, RunJob, RunFault, RunTick, StartAck, RunAck, AckFails,
             ServiceChanges, allVars, sessionVars
  <1> QED
    BY <1>11 DEF Done

\* The same of the acknowledgements.
LEMMA AckSteps ==
  ASSUME DOMAIN ack = Acknowledgers, [MonitorNext]_allVars, NEW a \in Acknowledgers
  PROVE  /\ AckMoves(a)
         /\ ack' = [b \in Acknowledgers |-> ack'[b]] \/ UNCHANGED ack
  <1> DEFINE Done == /\ AckMoves(a)
                     /\ ack' = [b \in Acknowledgers |-> ack'[b]] \/ UNCHANGED ack
  <1>1. CASE UNCHANGED ack
    BY <1>1 DEF AckMoves
  <1>2. ASSUME NEW b \in Acknowledgers, NEW new, ack' = [ack EXCEPT ![b] = new],
               b = a => AckMoves(a)
        PROVE  Done
    BY <1>2 DEF AckMoves
  <1> HIDE DEF Done
  <1>3. ASSUME NEW b \in Acknowledgers, StartAck(b) PROVE Done
    <2>1. PICK t \in Targets, i \in IncidentIds : FindIncident(b, t, i)
      BY <1>3 DEF StartAck
    <2>2. PICK new : ack' = [ack EXCEPT ![b] = new]
      BY <2>1 DEF FindIncident
    <2>3. b = a => AckMoves(a)
      BY <2>1 DEF AckMoves
    <2> QED
      BY <1>2, <2>2, <2>3
  <1>4. ASSUME NEW b \in Acknowledgers, LoadIncident(b) PROVE Done
    <2>1. b = a => AckMoves(a)
      BY <1>4 DEF AckMoves
    <2>2. ack' = [ack EXCEPT ![b] =
            [@ EXCEPT !.pc = "loaded", !.loaded = incidents[ack[b].target][ack[b].id]]]
      BY <1>4 DEF LoadIncident
    <2> QED
      BY <1>2, <2>1, <2>2
  <1>5. ASSUME NEW b \in Acknowledgers, UpdateIncident(b) PROVE Done
    <2>1. b = a => AckMoves(a)
      BY <1>5 DEF AckMoves
    <2>2. ack' = [ack EXCEPT ![b] =
            [@ EXCEPT !.pc = "saved", !.entity = AbsentIncident, !.loaded = AbsentIncident]]
      BY <1>5 DEF UpdateIncident
    <2> QED
      BY <1>2, <2>1, <2>2
  <1>6. ASSUME NEW b \in Acknowledgers, UpdateRefused(b) \/ RecordAck(b) \/ AckFails(b)
        PROVE  Done
    <2>1. ack' = [ack EXCEPT ![b] = NoAck]
      BY <1>6 DEF UpdateRefused, RecordAck, AckFails
    <2>2. b = a => AckMoves(a)
      BY <2>1 DEF AckMoves
    <2> QED
      BY <1>2, <2>1, <2>2
  <1>7. ASSUME NEW p \in Procs, Crash(p) PROVE Done
    <2>1. ack' = [b \in Acknowledgers |-> IF ProcOf[b] = p THEN NoAck ELSE ack[b]]
      BY <1>7 DEF Crash
    <2> QED
      BY <2>1 DEF Done, AckMoves
  <1>8. ASSUME NEW s \in Sessions, RunSession(s) PROVE UNCHANGED ack
    BY <1>8 DEF RunSession, CallRunner, AnswerCheckNow, ackVars
  <1>9. Done
    <2>1. UNCHANGED ack => Done
      BY <1>1 DEF Done
    <2> QED
      BY <1>3, <1>4, <1>5, <1>6, <1>7, <1>8, <2>1
         DEF MonitorNext, RunJob, RunFault, RunTick, StartRequest, SaveFails, AuditLost,
             RunAck, AckStep, ServiceChanges, allVars, ackVars
  <1> QED
    BY <1>9 DEF Done

\* Requests stay typed.
LEMMA SessionsTyped ==
  ASSUME MonitorInv, [MonitorNext]_allVars
  PROVE  SessionsTypeOK' /\ \A s \in Sessions : SessionOK(session'[s])
  <1>0. /\ targets \in [Targets -> TargetRow]
        /\ session \in [Sessions -> SessionRecord] /\ requests \in 0..MaxRequests
        /\ \A s \in Sessions : SessionOK(session[s])
    BY DEF MonitorInv, MonitorTypeOK, TypeOK, StoreTypeOK, SessionsTypeOK, RequestInv, SessionOK
  <1>1. ASSUME NEW s \in Sessions PROVE SessionOK(session'[s])
    <2>1. SessionMoves(s)
      BY <1>0, SessionSteps
    <2>2. CASE session'[s] \in {session[s], NoSession}
      BY <1>0, <2>2, NoSessionTyped
    <2>3. ASSUME NEW op \in Operations, NEW t \in Targets, FindOne(s, op, t)
          PROVE  SessionOK(session'[s])
      <3>1. Mutated(op, targets[t]) \in TargetRow
        BY <1>0, MutatedTyped
      <3>2. session'[s] = [ pc     |-> IF op = "check-now" THEN "requested" ELSE "mutated",
                            op     |-> op,
                            target |-> t,
                            entity |-> Mutated(op, targets[t]),
                            loaded |-> FreshRow ]
        BY <1>0, <2>3 DEF FindOne
      <3> QED
        BY <3>1, <3>2, NoSessionTyped DEF SessionOK, SessionRecord, SessionState
    <2>4. CASE LoadRow(s)
      <3>1. targets[session[s].target] \in TargetRow
        BY <1>0, <2>4 DEF LoadRow, SessionOK
      <3>2. session'[s] = [session[s] EXCEPT !.pc = "loaded",
                                             !.loaded = targets[session[s].target]]
        BY <1>0, <2>4 DEF LoadRow
      <3> QED
        BY <1>0, <2>4, <3>1, <3>2 DEF LoadRow, SessionOK, SessionRecord, SessionState
    <2>5. CASE UpdateRow(s)
      <3>1. session'[s] = [session[s] EXCEPT !.pc = "saved",
                                             !.entity = FreshRow, !.loaded = FreshRow]
        BY <1>0, <2>5 DEF UpdateRow
      <3>2. /\ session[s] \in SessionRecord
            /\ session[s].target \in Targets /\ session[s].op \in Operations
        BY <1>0, <2>5 DEF UpdateRow, SessionOK
      <3>3. session'[s] \in SessionRecord
        BY <3>1, <3>2, NoSessionTyped DEF SessionRecord, SessionState
      <3>4. session'[s].target \in Targets /\ session'[s].op \in Operations
        BY <3>1, <3>2 DEF SessionRecord
      <3> QED
        BY <3>3, <3>4 DEF SessionOK
    <2>6. ASSUME session[s].pc \in {"saved", "requested", "calling"},
                 NEW pc \in {"calling", "running"}, session'[s] = [session[s] EXCEPT !.pc = pc]
          PROVE  SessionOK(session'[s])
      BY <1>0, <2>6 DEF SessionOK, SessionRecord, SessionState
    <2> QED
      BY <2>1, <2>2, <2>3, <2>4, <2>5, <2>6 DEF SessionMoves
  <1>2. requests' \in 0..MaxRequests
    <2>1. CASE UNCHANGED requests
      BY <1>0, <2>1
    <2>2. ASSUME NEW s \in Sessions, NEW op, NEW t, FindOne(s, op, t)
          PROVE  requests' \in 0..MaxRequests
      BY <1>0, <2>2, SessionsAssumption DEF FindOne
    <2>3. ASSUME NEW s \in Sessions, RunSession(s) PROVE UNCHANGED requests
      BY <2>3 DEF RunSession, SessionStep, RefuseUpdate, LoadRow, UpdateRow, RecordAudit,
                  CallRunner, AnswerCheckNow
    <2> QED
      BY <2>1, <2>2, <2>3
         DEF MonitorNext, RunJob, RunFault, RunTick, StartRequest, SaveFails, AuditLost,
             StartAck, RunAck, AckFails, Crash, ServiceChanges, allVars, sessionVars
  <1>3. session' \in [Sessions -> SessionRecord]
    <2>1. \A s \in Sessions : session'[s] \in SessionRecord
      BY <1>1 DEF SessionOK
    <2>2. CASE Sessions = {}
      <3>1. UNCHANGED session \/ session' = [u \in Sessions |-> session'[u]]
        BY <2>2 DEF MonitorNext, RunJob, RunFault, RunTick, StartAck, RunAck, AckFails, Crash,
                    ServiceChanges, allVars, sessionVars
      <3> QED
        BY <1>0, <2>2, <3>1
    <2>3. CASE Sessions # {}
      <3>1. UNCHANGED session \/ session' = [u \in Sessions |-> session'[u]]
        BY <1>0, <2>3, SessionSteps
      <3> QED
        BY <1>0, <2>1, <3>1
    <2> QED
      BY <2>2, <2>3
  <1> QED
    BY <1>1, <1>2, <1>3 DEF SessionsTypeOK

\* Acknowledgements stay typed.
LEMMA AcksTyped ==
  ASSUME MonitorInv, [MonitorNext]_allVars
  PROVE  AcksTypeOK' /\ \A a \in Acknowledgers : AckOK(ack'[a])
  <1>0. /\ incidents \in [Targets -> [IncidentIds -> IncidentRow]]
        /\ ack \in [Acknowledgers -> AckRecord] /\ acks \in 0..MaxAcks
        /\ \A a \in Acknowledgers : AckOK(ack[a])
    BY DEF MonitorInv, MonitorTypeOK, TypeOK, StoreTypeOK, AcksTypeOK, RequestInv, AckOK
  <1>1. ASSUME NEW a \in Acknowledgers PROVE AckOK(ack'[a])
    <2>1. AckMoves(a)
      BY <1>0, AckSteps
    <2>2. CASE ack'[a] \in {ack[a], NoAck}
      BY <1>0, <2>2, NoAckTyped
    <2>3. ASSUME NEW t \in Targets, NEW i \in IncidentIds, FindIncident(a, t, i)
          PROVE  AckOK(ack'[a])
      <3> DEFINE entity == [incidents[t][i] EXCEPT !.status = "ACKNOWLEDGED",
                                                   !.acknowledgedAt = TRUE]
      <3>1. entity \in IncidentRow
        <4>1. incidents[t][i] \in IncidentRow
          BY <1>0
        <4> QED
          BY <4>1 DEF IncidentRow, IncidentStatus
      <3>2. ack'[a] = [NoAck EXCEPT !.pc = "mutated", !.target = t, !.id = i,
                                    !.entity = entity]
        BY <1>0, <2>3 DEF FindIncident
      <3> HIDE DEF entity
      <3> QED
        BY <3>1, <3>2, NoAckTyped DEF AckOK, AckRecord, NoAck
    <2>4. CASE LoadIncident(a)
      <3>1. incidents[ack[a].target][ack[a].id] \in IncidentRow
        BY <1>0, <2>4 DEF LoadIncident, AckOK
      <3>2. ack'[a] = [ack[a] EXCEPT !.pc = "loaded",
                                     !.loaded = incidents[ack[a].target][ack[a].id]]
        BY <1>0, <2>4 DEF LoadIncident
      <3> QED
        BY <1>0, <2>4, <3>1, <3>2 DEF LoadIncident, AckOK, AckRecord
    <2>5. CASE UpdateIncident(a)
      <3>1. ack'[a] = [ack[a] EXCEPT !.pc = "saved", !.entity = AbsentIncident,
                                     !.loaded = AbsentIncident]
        BY <1>0, <2>5 DEF UpdateIncident
      <3> QED
        BY <1>0, <2>5, <3>1, NoAckTyped DEF UpdateIncident, AckOK, AckRecord
    <2> QED
      BY <2>1, <2>2, <2>3, <2>4, <2>5 DEF AckMoves
  <1>2. acks' \in 0..MaxAcks
    <2>1. CASE UNCHANGED acks
      BY <1>0, <2>1
    <2>2. ASSUME NEW a \in Acknowledgers, NEW t, NEW i, FindIncident(a, t, i)
          PROVE  acks' \in 0..MaxAcks
      BY <1>0, <2>2, AcksAssumption DEF FindIncident
    <2>3. ASSUME NEW s \in Sessions, RunSession(s) PROVE UNCHANGED acks
      BY <2>3 DEF RunSession, CallRunner, AnswerCheckNow, ackVars
    <2>4. ASSUME NEW a \in Acknowledgers, RunAck(a) PROVE UNCHANGED acks
      BY <2>4 DEF RunAck, AckStep, LoadIncident, UpdateIncident, UpdateRefused, RecordAck
    <2> QED
      BY <2>1, <2>2, <2>3, <2>4
         DEF MonitorNext, RunJob, RunFault, RunTick, StartRequest, SaveFails, AuditLost,
             StartAck, AckFails, Crash, ServiceChanges, allVars, ackVars
  <1>3. ack' \in [Acknowledgers -> AckRecord]
    <2>1. \A a \in Acknowledgers : ack'[a] \in AckRecord
      BY <1>1 DEF AckOK
    <2>2. CASE Acknowledgers = {}
      <3>1. ASSUME NEW s \in Sessions, RunSession(s) PROVE UNCHANGED ack
        BY <3>1 DEF RunSession, CallRunner, AnswerCheckNow, ackVars
      <3>2. UNCHANGED ack \/ ack' = [b \in Acknowledgers |-> ack'[b]]
        BY <2>2, <3>1 DEF MonitorNext, RunJob, RunFault, RunTick, StartRequest, SaveFails,
                          AuditLost, Crash, ServiceChanges, allVars, ackVars
      <3> QED
        BY <1>0, <2>2, <3>2
    <2>3. CASE Acknowledgers # {}
      <3>1. UNCHANGED ack \/ ack' = [b \in Acknowledgers |-> ack'[b]]
        BY <1>0, <2>3, AckSteps
      <3> QED
        BY <1>0, <2>1, <3>1
    <2> QED
      BY <2>2, <2>3
  <1> QED
    BY <1>1, <1>2, <1>3 DEF AcksTypeOK

-----------------------------------------------------------------------------
(* The invariants of every composition.                                    *)

\* The rows that earlier runs may have left are rows.
LEMMA StartRowTyped ==
  ASSUME NEW start \in Starts
  PROVE  /\ StartRow(start) \in TargetRow
         /\ StartRow(start).consecutiveSuccesses = 0
         /\ ~StartRow(start).archived
         /\ StartRow(start).status = "PAUSED" => ~StartRow(start).enabled
  <1>1. start \in AllStarts
    BY MonitorAssumption
  <1>2. 0 \in 0..CounterCap /\ failureThreshold \in 0..CounterCap
    BY ThresholdsPositive, StoreAssumption
  <1> QED
    BY <1>1, <1>2
       DEF AllStarts, StartRow, DownRow, PausedRow, FreshRow, TargetRow, TargetStatus

\* The first incident of a target that was left DOWN has one of its ids.
LEMMA FirstIdTyped == FirstId \in IncidentIds
  BY MonitorAssumption DEF FirstId

\* What the tables hold at the start, one target at a time: the incident of a
\* target left DOWN with its event, and no other.
LEMMA TablesStart ==
  ASSUME MonitorInit
  PROVE  \E down \in SUBSET Targets :
           /\ incidents = [t \in Targets |-> [i \in IncidentIds |->
                             IF t \in down /\ i = FirstId THEN OpenIncident ELSE AbsentIncident]]
           /\ audit = {<<"INCIDENT_OPENED", t, FirstId>> : t \in down}
           /\ \E start \in [Targets -> Starts] : targets = [t \in Targets |-> StartRow(start[t])]
  BY DEF MonitorInit

\* Nothing is under way in a started monitor, and its tables are typed.
LEMMA MonitorStarts == MonitorInit => MonitorInv
  <1> SUFFICES ASSUME MonitorInit PROVE MonitorInv
    OBVIOUS
  <1> USE DEF MonitorInit
  <1>1. StoreTypeOK
    <2>1. PICK down \in SUBSET Targets :
            /\ incidents = [t \in Targets |-> [i \in IncidentIds |->
                              IF t \in down /\ i = FirstId THEN OpenIncident ELSE AbsentIncident]]
            /\ audit = {<<"INCIDENT_OPENED", t, FirstId>> : t \in down}
            /\ \E start \in [Targets -> Starts] : targets = [t \in Targets |-> StartRow(start[t])]
      BY TablesStart
    <2> HIDE DEF MonitorInit
    <2>2. targets \in [Targets -> TargetRow]
      BY <2>1, StartRowTyped
    <2>3. incidents \in [Targets -> [IncidentIds -> IncidentRow]]
      <3>1. OpenIncident \in IncidentRow /\ AbsentIncident \in IncidentRow
        BY DEF OpenIncident, AbsentIncident, IncidentRow, IncidentStatus
      <3> QED
        BY <2>1, <3>1
    <2>4. audit \subseteq AuditEvent
      BY <2>1, FirstIdTyped DEF AuditEvent, IncidentAction
    <2>5. results \in [Targets -> ResultRun]
      <3>1. results = [t \in Targets |-> [last |-> "NONE", run |-> 0]]
        BY DEF MonitorInit
      <3>2. [last |-> "NONE", run |-> 0] \in ResultRun
        BY ThresholdsPositive DEF ResultRun
      <3> QED
        BY <3>1, <3>2
    <2> QED
      BY <2>2, <2>3, <2>4, <2>5 DEF StoreTypeOK
  <1>2. RunnerTypeOK /\ CallInv
    BY NoJobTyped, RunnerAssumption
       DEF RunnerInit, RunnerTypeOK, CallInv, InCall, NoJob
  <1>3. SchedulerTypeOK
    BY DEF SchedulerInit, SchedulerTypeOK
  <1>4. SessionsTypeOK
    BY NoSessionTyped, SessionsAssumption DEF SessionsInit, SessionsTypeOK, SessionOK
  <1>5. AcksTypeOK
    BY NoAckTyped, AcksAssumption DEF AcksInit, AcksTypeOK, AckOK
  <1>6. RequestInv
    BY DEF RequestInv, SessionsInit, AcksInit, NoSession, NoAck
  <1> QED
    BY <1>1, <1>2, <1>3, <1>4, <1>5, <1>6 DEF MonitorInv, MonitorTypeOK, TypeOK

\* The typing invariant of the composition is kept by every step of it.
LEMMA MonitorInvStep == MonitorInv /\ [MonitorNext]_allVars => MonitorInv'
  <1> SUFFICES ASSUME MonitorInv, [MonitorNext]_allVars PROVE MonitorInv'
    OBVIOUS
  <1>1. TypeInv'
    BY KindsOfSteps, TypeKeeps DEF MonitorInv
  <1>2. SchedulerTypeOK'
    BY TicksTyped DEF MonitorInv, MonitorTypeOK
  <1>3. RequestInv'
    BY SessionsTyped, AcksTyped DEF RequestInv, SessionOK, AckOK
  <1> QED
    BY <1>1, <1>2, <1>3, SessionsTyped, AcksTyped DEF MonitorInv, MonitorTypeOK, TypeInv

\* In the whole of the core, with its ticks, checks, requests and faults
\* together, every variable keeps its type.
THEOREM MonitorTyped == MonitorSpec => []MonitorTypeOK
  <1>1. MonitorInv => MonitorTypeOK
    BY DEF MonitorInv
  <1> QED
    BY MonitorStarts, MonitorInvStep, <1>1, PTL DEF MonitorSpec

\* A process holds a target's lock exactly while one of its calls for it is
\* under way, whoever asked for the check: the tick, by the batch, or an
\* operator.
THEOREM MonitorLockExact == MonitorSpec => []LockInv
  <1>1. MonitorInit => LockInv
    BY LockInit DEF MonitorInit
  <1>2. MonitorInv /\ LockInv /\ [MonitorNext]_allVars => LockInv'
    BY KindsOfSteps, LockKeeps DEF MonitorInv
  <1> QED
    BY MonitorStarts, MonitorInvStep, <1>1, <1>2, PTL DEF MonitorSpec

-----------------------------------------------------------------------------
(* Incidents.                                                              *)

\* What an acknowledgement saves: the row it names gets, of each column, what
\* its copy has or what the row has.
LEMMA AckSaves ==
  ASSUME MonitorInv, NEW a \in Acknowledgers, UpdateIncident(a)
  PROVE  /\ ack[a].target \in Targets /\ ack[a].id \in IncidentIds
         /\ incidents'[ack[a].target][ack[a].id] = SavedIncident(a)
         /\ \A u \in Targets, k \in IncidentIds :
              u # ack[a].target \/ k # ack[a].id => incidents'[u][k] = incidents[u][k]
         /\ SavedIncident(a).status \in
              {ack[a].entity.status, incidents[ack[a].target][ack[a].id].status}
         /\ SavedIncident(a).resolvedAt =>
              ack[a].entity.resolvedAt \/ incidents[ack[a].target][ack[a].id].resolvedAt
  <1> DEFINE t == ack[a].target
             i == ack[a].id
  <1>1. /\ t \in Targets /\ i \in IncidentIds
        /\ ack[a].entity \in IncidentRow /\ ack[a].loaded \in IncidentRow
    BY DEF UpdateIncident, MonitorInv, RequestInv, MonitorTypeOK, AcksTypeOK, AckRecord
  <1>2. incidents \in [Targets -> [IncidentIds -> IncidentRow]]
    BY DEF MonitorInv, MonitorTypeOK, TypeOK, StoreTypeOK
  <1>3. incidents' = [incidents EXCEPT ![t][i] = SavedIncident(a)]
    BY DEF UpdateIncident
  <1>4. incidents[t][i] \in IncidentRow
    BY <1>1, <1>2
  <1>5. /\ SavedIncident(a).status \in {ack[a].entity.status, incidents[t][i].status}
        /\ SavedIncident(a).resolvedAt = IF ack[a].entity.resolvedAt # ack[a].loaded.resolvedAt
                                         THEN ack[a].entity.resolvedAt
                                         ELSE incidents[t][i].resolvedAt
    BY <1>1, <1>4, SavedIncidentTyped DEF SavedIncident
  <1>6. SavedIncident(a).resolvedAt => ack[a].entity.resolvedAt \/ incidents[t][i].resolvedAt
    BY <1>5
  <1>7. /\ incidents'[t][i] = SavedIncident(a)
        /\ \A u \in Targets, k \in IncidentIds :
             u # t \/ k # i => incidents'[u][k] = incidents[u][k]
    BY <1>1, <1>2, <1>3
  <1> QED
    BY <1>1, <1>5, <1>6, <1>7

\* No step of the core makes a second incident of a target active: what an
\* acknowledgement would, the index refuses.
LEMMA OneActiveKeeps == ASSUME MonitorInv, OneActiveIncident, StepKind PROVE OneActiveIncident'
  <1>0. TypeInv
    BY DEF MonitorInv, MonitorTypeOK, TypeInv
  <1>1. CASE [Next]_vars
    BY <1>0, <1>1, OneActiveStep
  <1>2. CASE UNCHANGED incidents
    BY <1>2 DEF OneActiveIncident, ActiveIncidents
  <1>3. ASSUME NEW a \in Acknowledgers, UpdateIncident(a) PROVE OneActiveIncident'
    <2> DEFINE t == ack[a].target
               i == ack[a].id
    <2>1. /\ t \in Targets /\ i \in IncidentIds
          /\ incidents'[t][i] = SavedIncident(a)
          /\ \A u \in Targets, k \in IncidentIds :
               u # t \/ k # i => incidents'[u][k] = incidents[u][k]
      BY <1>3, AckSaves
    <2>2. Active(SavedIncident(a)) => ActiveIncidents(t) \subseteq {i}
      BY <1>3 DEF UpdateIncident, IndexRefuses, IndexAllows
    <2> HIDE DEF t, i
    <2> QED
      BY <2>1, <2>2 DEF OneActiveIncident, ActiveIncidents, Active
  <1>4. ASSUME NEW p \in Procs, NextBatch(p) PROVE UNCHANGED incidents
    BY <1>4 DEF NextBatch, storeVars
  <1>5. ASSUME NEW s \in Sessions, UpdateRow(s) PROVE UNCHANGED incidents
    BY <1>5 DEF UpdateRow
  <1> QED
    BY <1>1, <1>2, <1>3, <1>4, <1>5
       DEF StepKind, FaultOnly, BatchStarts, RowSaved, IncidentSaved, EventRecorded, storeVars

\* Checks, acknowledgements and requests, in however many processes, never
\* give a target two incidents that are not RESOLVED.
THEOREM MonitorOneActive == MonitorSpec => []OneActiveIncident
  <1>1. MonitorInit => OneActiveIncident
    <2> SUFFICES ASSUME MonitorInit, NEW t \in Targets, NEW i \in ActiveIncidents(t)
                 PROVE  i = FirstId
      BY DEF OneActiveIncident
    <2>1. incidents[t][i] = AbsentIncident => ~Active(incidents[t][i])
      BY DEF Active, AbsentIncident
    <2> QED
      BY <2>1, TablesStart DEF ActiveIncidents
  <1>2. MonitorInv /\ OneActiveIncident /\ [MonitorNext]_allVars => OneActiveIncident'
    BY KindsOfSteps, OneActiveKeeps DEF MonitorInv
  <1> QED
    BY MonitorStarts, MonitorInvStep, <1>1, <1>2, PTL DEF MonitorSpec

\* The incident an acknowledgement works on exists, and if its copy says that
\* it was resolved the trail says so too.
AckInv ==
  \A a \in Acknowledgers :
    ack[a].pc \in {"mutated", "loaded"} =>
      /\ ack[a].entity.status = "ACKNOWLEDGED"
      /\ incidents[ack[a].target][ack[a].id].status # "ABSENT"
      /\ ack[a].entity.resolvedAt => <<"INCIDENT_RESOLVED", ack[a].target, ack[a].id>> \in audit

MonitorTrailInv == TrailInv /\ AckInv

\* No event is lost and no incident row disappears.
LEMMA TrailGrows ==
  ASSUME MonitorInv, MonitorTrailInv, StepKind
  PROVE  /\ audit \subseteq audit'
         /\ \A t \in Targets, i \in IncidentIds :
              incidents[t][i].status # "ABSENT" => incidents'[t][i].status # "ABSENT"
  <1>0. TypeInv /\ FoundExists
    BY DEF MonitorInv, MonitorTypeOK, TypeInv, MonitorTrailInv, TrailInv
  <1>1. CASE [Next]_vars
    <2>1. audit \subseteq audit'
      <3>1. CASE \A j \in Jobs : ~Persist(j)
        BY <1>1, <3>1, OthersLeaveTables DEF storeVars
      <3>2. ASSUME NEW j \in Jobs, Persist(j) PROVE audit \subseteq audit'
        BY <1>0, <3>2, PersistIncidents DEF OpenIncidentRow, ResolveIncidentRow
      <3> QED
        BY <3>1, <3>2
    <2>2. ASSUME NEW t \in Targets, NEW i \in IncidentIds, incidents[t][i].status # "ABSENT"
          PROVE  incidents'[t][i].status # "ABSENT"
      BY <1>0, <1>1, <2>2, RowAndEvents
         DEF RowKept, RowOpened, RowResolved, OpenIncident, AbsentIncident
    <2> QED
      BY <2>1, <2>2
  <1>2. CASE UNCHANGED <<incidents, audit>>
    BY <1>2
  <1>3. ASSUME NEW a \in Acknowledgers, UpdateIncident(a)
        PROVE  /\ audit' = audit
               /\ \A t \in Targets, i \in IncidentIds :
                    incidents[t][i].status # "ABSENT" => incidents'[t][i].status # "ABSENT"
    <2>1. audit' = audit
      BY <1>3 DEF UpdateIncident
    <2>2. ack[a].entity.status = "ACKNOWLEDGED"
      BY <1>3 DEF UpdateIncident, MonitorTrailInv, AckInv
    <2>3. ASSUME NEW t \in Targets, NEW i \in IncidentIds, incidents[t][i].status # "ABSENT"
          PROVE  incidents'[t][i].status # "ABSENT"
      <3>1. CASE t = ack[a].target /\ i = ack[a].id
        BY <1>3, <2>2, <2>3, <3>1, AckSaves
      <3>2. CASE t # ack[a].target \/ i # ack[a].id
        BY <1>3, <2>3, <3>2, AckSaves
      <3> QED
        BY <3>1, <3>2
    <2> QED
      BY <2>1, <2>3
  <1>4. CASE EventRecorded
    BY <1>4 DEF EventRecorded
  <1>5. ASSUME NEW p \in Procs, NextBatch(p) PROVE UNCHANGED <<incidents, audit>>
    BY <1>5 DEF NextBatch, storeVars
  <1>6. ASSUME NEW s \in Sessions, UpdateRow(s) PROVE UNCHANGED <<incidents, audit>>
    BY <1>6 DEF UpdateRow
  <1> QED
    BY <1>1, <1>2, <1>3, <1>4, <1>5, <1>6
       DEF StepKind, FaultOnly, BatchStarts, RowSaved, IncidentSaved, storeVars

\* A request's own event is not that of an incident's opening or resolution.
LEMMA OtherEvents ==
  ASSUME EventRecorded, NEW t \in Targets, NEW i \in IncidentIds,
         NEW kind \in {"INCIDENT_OPENED", "INCIDENT_RESOLVED"}
  PROVE  <<kind, t, i>> \in audit' <=> <<kind, t, i>> \in audit
  <1>1. ASSUME NEW op \in Operations, NEW u \in Targets
        PROVE  <<kind, t, i>> # <<AuditActionOf(op), u>>
    <2>1. AuditActionOf(op) # kind
      BY SessionsAssumption DEF AllOperations, AuditActionOf
    <2>2. <<kind, t, i>>[1] = kind /\ <<AuditActionOf(op), u>>[1] = AuditActionOf(op)
      OBVIOUS
    <2> QED
      BY <2>1, <2>2
  <1>2. ASSUME NEW u \in Targets, NEW k \in IncidentIds
        PROVE  <<kind, t, i>> # <<"INCIDENT_ACKNOWLEDGED", u, k>>
    OBVIOUS
  <1> QED
    BY <1>1, <1>2 DEF EventRecorded

\* What a call found is still there.
LEMMA FoundKeeps == ASSUME MonitorInv, MonitorTrailInv, StepKind PROVE FoundExists'
  <1>0. TypeInv /\ FoundExists
    BY DEF MonitorInv, MonitorTypeOK, TypeInv, MonitorTrailInv, TrailInv
  <1>1. CASE [Next]_vars
    BY <1>0, <1>1, FoundStep
  <1>2. ASSUME \A j \in Jobs : job'[j].pc = "decided" => job'[j] = job[j]
        PROVE  FoundExists'
    <2> SUFFICES ASSUME NEW j \in Jobs, job'[j].pc = "decided", job'[j].incident # NoIncident
                 PROVE  incidents'[job'[j].target][job'[j].incident].status # "ABSENT"
      BY DEF FoundExists
    <2>1. job'[j] = job[j]
      BY <1>2
    <2>2. job[j].target \in Targets /\ job[j].incident \in IncidentIds
      BY <1>0, <2>1 DEF TypeInv, TypeOK, RunnerTypeOK, JobRecord, CallInv, InCall
    <2>3. incidents[job[j].target][job[j].incident].status # "ABSENT"
      BY <1>0, <2>1 DEF FoundExists
    <2> QED
      BY <2>1, <2>2, <2>3, TrailGrows
  <1>3. ASSUME NEW p \in Procs, NextBatch(p), NEW j \in Jobs, job'[j].pc = "decided"
        PROVE  job'[j] = job[j]
    <2>1. PICK granted \in SUBSET (Targets \ inFlight[p]) : BatchEffect(p, granted)
      BY <1>3, BatchLocks DEF MonitorInv, MonitorTypeOK
    <2> QED
      BY <1>3, <2>1 DEF BatchEffect, LockedFor, NoJob
  <1> QED
    BY <1>1, <1>2, <1>3
       DEF StepKind, FaultOnly, BatchStarts, RowSaved, IncidentSaved, EventRecorded, runnerVars

\* Incident rows and their events go together in every kind of step.
LEMMA TrailKeeps == ASSUME MonitorInv, MonitorTrailInv, StepKind PROVE TrailInv'
  <1>0. TypeInv /\ TrailInv /\ IncidentTrail
    BY DEF MonitorInv, MonitorTypeOK, TypeInv, MonitorTrailInv, TrailInv
  <1> SUFFICES IncidentTrail'
    BY FoundKeeps DEF TrailInv
  <1>1. CASE [Next]_vars
    BY <1>0, <1>1, TrailStep DEF TrailInv
  <1>2. CASE UNCHANGED <<incidents, audit>>
    BY <1>0, <1>2 DEF IncidentTrail
  <1>3. ASSUME NEW a \in Acknowledgers, UpdateIncident(a) PROVE IncidentTrail'
    <2>1. audit' = audit
      BY <1>3 DEF UpdateIncident
    <2>2. /\ incidents[ack[a].target][ack[a].id].status # "ABSENT"
          /\ ack[a].entity.status = "ACKNOWLEDGED"
          /\ ack[a].entity.resolvedAt
               => <<"INCIDENT_RESOLVED", ack[a].target, ack[a].id>> \in audit
      BY <1>3 DEF UpdateIncident, MonitorTrailInv, AckInv
    <2>3. ASSUME NEW t \in Targets, NEW i \in IncidentIds
          PROVE  /\ incidents'[t][i].status # "ABSENT"
                      <=> <<"INCIDENT_OPENED", t, i>> \in audit'
                 /\ incidents'[t][i].resolvedAt
                      => <<"INCIDENT_RESOLVED", t, i>> \in audit'
      <3>1. CASE t = ack[a].target /\ i = ack[a].id
        <4>1. /\ incidents'[t][i] = SavedIncident(a)
              /\ SavedIncident(a).status # "ABSENT"
              /\ SavedIncident(a).resolvedAt =>
                   ack[a].entity.resolvedAt \/ incidents[t][i].resolvedAt
          BY <1>3, <2>2, <3>1, AckSaves
        <4> QED
          BY <1>0, <2>1, <2>2, <3>1, <4>1 DEF IncidentTrail
      <3>2. CASE t # ack[a].target \/ i # ack[a].id
        <4>1. incidents'[t][i] = incidents[t][i]
          BY <1>3, <3>2, AckSaves
        <4> QED
          BY <1>0, <2>1, <4>1 DEF IncidentTrail
      <3> QED
        BY <3>1, <3>2
    <2> QED
      BY <2>3 DEF IncidentTrail
  <1>4. CASE EventRecorded
    <2>1. incidents' = incidents
      BY <1>4 DEF EventRecorded
    <2> QED
      BY <1>0, <1>4, <2>1, OtherEvents DEF IncidentTrail
  <1>5. ASSUME NEW p \in Procs, NextBatch(p) PROVE UNCHANGED <<incidents, audit>>
    BY <1>5 DEF NextBatch, storeVars
  <1>6. ASSUME NEW s \in Sessions, UpdateRow(s) PROVE UNCHANGED <<incidents, audit>>
    BY <1>6 DEF UpdateRow
  <1> QED
    BY <1>1, <1>2, <1>3, <1>4, <1>5, <1>6
       DEF StepKind, FaultOnly, BatchStarts, RowSaved, IncidentSaved, storeVars

\* An acknowledgement under way names a row that stays.
LEMMA AckKeeps ==
  ASSUME MonitorInv, MonitorTrailInv, [MonitorNext]_allVars
  PROVE  AckInv'
  <1>0. /\ ack \in [Acknowledgers -> AckRecord]
        /\ incidents \in [Targets -> [IncidentIds -> IncidentRow]]
        /\ IncidentTrail /\ AckInv
    BY DEF MonitorInv, MonitorTypeOK, TypeOK, StoreTypeOK, AcksTypeOK, MonitorTrailInv, TrailInv
  <1>1. /\ audit \subseteq audit'
        /\ \A t \in Targets, i \in IncidentIds :
             incidents[t][i].status # "ABSENT" => incidents'[t][i].status # "ABSENT"
    BY KindsOfSteps, TrailGrows DEF MonitorInv
  <1> SUFFICES ASSUME NEW a \in Acknowledgers, ack'[a].pc \in {"mutated", "loaded"}
               PROVE  /\ ack'[a].entity.status = "ACKNOWLEDGED"
                      /\ incidents'[ack'[a].target][ack'[a].id].status # "ABSENT"
                      /\ ack'[a].entity.resolvedAt =>
                           <<"INCIDENT_RESOLVED", ack'[a].target, ack'[a].id>> \in audit'
    BY DEF AckInv
  <1>2. AckMoves(a)
    BY <1>0, AckSteps
  <1>3. CASE /\ ack[a].pc \in {"mutated", "loaded"}
             /\ ack'[a].entity = ack[a].entity
             /\ ack'[a].target = ack[a].target /\ ack'[a].id = ack[a].id
    <2>1. ack[a].target \in Targets /\ ack[a].id \in IncidentIds
      BY <1>3 DEF MonitorInv, RequestInv
    <2> QED
      BY <1>0, <1>1, <1>3, <2>1 DEF AckInv
  <1>4. CASE LoadIncident(a)
    BY <1>0, <1>3, <1>4 DEF LoadIncident, AckRecord
  <1>5. ASSUME NEW t \in Targets, NEW i \in IncidentIds, FindIncident(a, t, i)
        PROVE  /\ ack'[a].entity.status = "ACKNOWLEDGED"
               /\ incidents'[ack'[a].target][ack'[a].id].status # "ABSENT"
               /\ ack'[a].entity.resolvedAt =>
                    <<"INCIDENT_RESOLVED", ack'[a].target, ack'[a].id>> \in audit'
    <2> DEFINE entity == [incidents[t][i] EXCEPT !.status = "ACKNOWLEDGED",
                                                 !.acknowledgedAt = TRUE]
    <2>1. incidents[t][i] \in IncidentRow /\ incidents[t][i].status = "OPEN"
      BY <1>0, <1>5 DEF FindIncident
    <2>2. entity.status = "ACKNOWLEDGED" /\ entity.resolvedAt = incidents[t][i].resolvedAt
      BY <2>1 DEF IncidentRow
    <2>3. ack'[a] = [NoAck EXCEPT !.pc = "mutated", !.target = t, !.id = i, !.entity = entity]
      BY <1>0, <1>5 DEF FindIncident
    <2> HIDE DEF entity
    <2>4. ack'[a].entity = entity /\ ack'[a].target = t /\ ack'[a].id = i
      BY <2>3 DEF NoAck
    <2> QED
      BY <1>0, <1>1, <2>1, <2>2, <2>4 DEF IncidentTrail
  <1>6. ack'[a] # NoAck
    BY DEF NoAck
  <1>7. ~UpdateIncident(a)
    BY <1>0 DEF UpdateIncident, AckRecord
  <1> QED
    BY <1>2, <1>3, <1>4, <1>5, <1>6, <1>7 DEF AckMoves

\* The incidents of the targets left DOWN are on record, and none is found or
\* acknowledged yet.
LEMMA MonitorTrailStarts == MonitorInit => MonitorTrailInv
  <1> SUFFICES ASSUME MonitorInit PROVE MonitorTrailInv
    OBVIOUS
  <1>1. IncidentTrail
    <2>1. PICK down \in SUBSET Targets :
            /\ incidents = [t \in Targets |-> [i \in IncidentIds |->
                              IF t \in down /\ i = FirstId THEN OpenIncident ELSE AbsentIncident]]
            /\ audit = {<<"INCIDENT_OPENED", t, FirstId>> : t \in down}
      BY TablesStart
    <2> SUFFICES ASSUME NEW t \in Targets, NEW i \in IncidentIds
                 PROVE  /\ incidents[t][i].status # "ABSENT"
                              <=> <<"INCIDENT_OPENED", t, i>> \in audit
                        /\ ~incidents[t][i].resolvedAt
      BY DEF IncidentTrail
    <2>2. incidents[t][i] = IF t \in down /\ i = FirstId THEN OpenIncident ELSE AbsentIncident
      BY <2>1
    <2>3. <<"INCIDENT_OPENED", t, i>> \in audit <=> t \in down /\ i = FirstId
      BY <2>1
    <2> QED
      BY <2>2, <2>3 DEF OpenIncident, AbsentIncident
  <1>2. FoundExists
    BY DEF MonitorInit, RunnerInit, FoundExists, NoJob
  <1>3. AckInv
    BY DEF MonitorInit, AcksInit, AckInv, NoAck
  <1> QED
    BY <1>1, <1>2, <1>3 DEF MonitorTrailInv, TrailInv

\* Rows and events stay in step.
LEMMA MonitorTrailStep == MonitorInv /\ MonitorTrailInv /\ [MonitorNext]_allVars => MonitorTrailInv'
  BY KindsOfSteps, TrailKeeps, AckKeeps DEF MonitorInv, MonitorTrailInv

\* In the whole of the core, the audit trail has the opening of exactly the
\* incidents there are and the resolution of each that ended: acknowledging
\* one late, losing the event of a request or crashing does not change that.
THEOREM MonitorTrailComplete == MonitorSpec => []IncidentTrail
  <1>1. MonitorTrailInv => IncidentTrail
    BY DEF MonitorTrailInv, TrailInv
  <1> QED
    BY MonitorStarts, MonitorInvStep, MonitorTrailStarts, MonitorTrailStep, <1>1, PTL DEF MonitorSpec
=============================================================================
