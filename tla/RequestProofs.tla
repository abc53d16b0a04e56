---------------------------- MODULE RequestProofs ----------------------------
(***************************************************************************)
(* What the requests leave of a target's row, with any number of them, of  *)
(* checks and of processes under way: PAUSED means disabled and archived   *)
(* is final but for lost updates, and a failure or a resume starts the     *)
(* recovery over but for the two ways around it that the history marks.    *)
(***************************************************************************)
EXTENDS RequestHistory, MonitorProofs

-----------------------------------------------------------------------------
(* The steps that write rows.                                              *)

\* The step that stores a check moves no other check and no request.
LEMMA StoresAlone ==
  ASSUME MonitorInv, MonitorNext, NEW j \in Jobs, Persist(j)
  PROVE  /\ UNCHANGED session
         /\ job'[j].pc = "releasing"
         /\ \A k \in Jobs : k # j => job'[k] = job[k] /\ ~Persist(k)
         /\ \A s \in Sessions : ~UpdateRow(s)
  <1>0. job \in [Jobs -> JobRecord] /\ session \in [Sessions -> SessionRecord]
    BY DEF MonitorInv, MonitorTypeOK, TypeOK, RunnerTypeOK, SessionsTypeOK
  <1>1. /\ job[j].pc = "decided" /\ job'[j].pc = "releasing"
        /\ \A k \in Jobs : k # j => job'[k] = job[k]
    BY <1>0 DEF Persist, Finish, JobRecord
  <1>2. ASSUME NEW k \in Jobs, k # j PROVE ~Persist(k)
    <2>1. Persist(k) => job'[k].pc = "releasing" /\ job[k].pc = "decided"
      BY <1>0 DEF Persist, Finish, JobRecord
    <2> QED
      BY <1>1, <1>2, <2>1
  <1>3. UNCHANGED session
    <2>1. UNCHANGED job => FALSE
      BY <1>1
    <2>2. ASSUME NEW s \in Sessions, CallRunner(s) PROVE FALSE
      <3>1. CASE TryAcquire(s, session[s].target)
        <4>1. s \in Jobs /\ job[s].pc = "idle"
          BY <3>1, MonitorAssumption DEF TryAcquire
        <4>2. job'[j] = job[j]
          BY <1>0, <1>1, <3>1, <4>1 DEF TryAcquire
        <4> QED
          BY <1>1, <4>2
      <3> QED
        BY <2>1, <2>2, <3>1 DEF CallRunner, vars, runnerVars
    <2>3. ASSUME NEW p \in Procs, Crash(p) PROVE FALSE
      <3>1. job'[j] = IF ProcOf[j] = p THEN NoJob ELSE job[j]
        BY <2>3 DEF Crash, RunnerCrash
      <3> QED
        BY <1>1, <3>1 DEF NoJob
    <2>4. ASSUME NEW s \in Sessions, RunSession(s) PROVE FALSE
      BY <2>1, <2>2, <2>4 DEF RunSession, AnswerCheckNow, vars, runnerVars
    <2>5. ASSUME NEW s \in Sessions, StartRequest(s) \/ SaveFails(s) \/ AuditLost(s) PROVE FALSE
      BY <2>1, <2>5 DEF StartRequest, SaveFails, AuditLost, runnerVars
    <2> QED
      BY <2>3, <2>4, <2>5
         DEF MonitorNext, RunJob, RunFault, RunTick, StartAck, RunAck, AckFails, ServiceChanges,
             sessionVars
  <1>4. ASSUME NEW s \in Sessions PROVE ~UpdateRow(s)
    <2>1. UpdateRow(s) => session[s].pc = "loaded" /\ session'[s].pc = "saved"
      BY <1>0 DEF UpdateRow, SessionRecord
    <2> QED
      BY <1>3, <2>1
  <1> QED
    BY <1>1, <1>2, <1>3, <1>4

\* A save moves its own request only, and writes its own target only: of each
\* column what its copy has, or what the table has.
LEMMA SaveWrites ==
  ASSUME MonitorInv, NEW s \in Sessions, UpdateRow(s),
         NEW u, u = session[s].target,
         NEW copy, copy = session[s].entity, NEW loaded, loaded = session[s].loaded
  PROVE  /\ u \in Targets
         /\ session'[s].pc = "saved"
         /\ \A v \in Sessions : v # s => session'[v] = session[v] /\ ~UpdateRow(v)
         /\ \A t \in Targets : t # u => targets'[t] = targets[t]
         /\ targets'[u].enabled =
              IF copy.enabled # loaded.enabled THEN copy.enabled ELSE targets[u].enabled
         /\ targets'[u].archived =
              IF copy.archived # loaded.archived THEN copy.archived ELSE targets[u].archived
         /\ targets'[u].status =
              IF copy.status # loaded.status THEN copy.status ELSE targets[u].status
         /\ targets'[u].consecutiveSuccesses =
              IF copy.consecutiveSuccesses # loaded.consecutiveSuccesses
              THEN copy.consecutiveSuccesses ELSE targets[u].consecutiveSuccesses
  <1>0. /\ targets \in [Targets -> TargetRow] /\ u \in Targets
        /\ session \in [Sessions -> SessionRecord] /\ session[s].pc = "loaded"
        /\ copy \in TargetRow /\ loaded \in TargetRow
    BY DEF MonitorInv, MonitorTypeOK, TypeOK, StoreTypeOK, SessionsTypeOK, SessionRecord,
           RequestInv, UpdateRow
  <1>1. /\ session'[s].pc = "saved"
        /\ \A v \in Sessions : v # s => session'[v] = session[v]
    BY <1>0 DEF UpdateRow, SessionRecord
  <1>2. ASSUME NEW v \in Sessions, v # s PROVE ~UpdateRow(v)
    <2>1. UpdateRow(v) => session[v].pc = "loaded" /\ session'[v].pc = "saved"
      BY <1>0 DEF UpdateRow, SessionRecord
    <2> QED
      BY <1>1, <1>2, <2>1
  <1> DEFINE saved == SaveRow(copy, loaded, targets[u])
  <1>3. targets' = [targets EXCEPT ![u] = saved]
    BY DEF UpdateRow
  <1>4. \A c \in {"enabled", "archived", "status", "consecutiveSuccesses"} :
          saved[c] = IF copy[c] # loaded[c] THEN copy[c] ELSE targets[u][c]
    BY <1>0, SavedTargetTyped
  <1> HIDE DEF saved
  <1>5. saved.enabled = IF copy.enabled # loaded.enabled THEN copy.enabled ELSE targets[u].enabled
    BY <1>4
  <1>6. saved.archived =
          IF copy.archived # loaded.archived THEN copy.archived ELSE targets[u].archived
    BY <1>4
  <1>7. saved.status = IF copy.status # loaded.status THEN copy.status ELSE targets[u].status
    BY <1>4
  <1>8. saved.consecutiveSuccesses =
          IF copy.consecutiveSuccesses # loaded.consecutiveSuccesses
          THEN copy.consecutiveSuccesses ELSE targets[u].consecutiveSuccesses
    BY <1>4
  <1>9. targets'[u] = saved /\ \A t \in Targets : t # u => targets'[t] = targets[t]
    BY <1>0, <1>3
  <1> QED
    BY <1>0, <1>1, <1>2, <1>5, <1>6, <1>7, <1>8, <1>9

\* A save moves no check.
LEMMA SavesAlone ==
  ASSUME MonitorInv, MonitorNext, NEW s \in Sessions, UpdateRow(s)
  PROVE  UNCHANGED job
  <1>0. session \in [Sessions -> SessionRecord] /\ session[s].pc = "loaded"
    BY DEF MonitorInv, MonitorTypeOK, SessionsTypeOK, UpdateRow
  <1>1. session'[s].pc = "saved"
    BY <1>0 DEF UpdateRow, SessionRecord
  <1>2. UNCHANGED session => FALSE
    BY <1>0, <1>1
  <1>3. ASSUME NEW u \in Sessions, CallRunner(u) PROVE FALSE
    <2>1. session[u].pc = "calling"
      BY <1>3 DEF CallRunner
    <2>2. u # s
      BY <1>0, <2>1
    <2>3. session'[s] = session[s]
      BY <1>0, <1>3, <2>2 DEF CallRunner, Goto
    <2> QED
      BY <1>0, <1>1, <2>3
  <1>4. ASSUME NEW p \in Procs, Crash(p) PROVE FALSE
    <2>1. session'[s] = IF ProcOf[s] = p THEN NoSession ELSE session[s]
      BY <1>4 DEF Crash
    <2> QED
      BY <1>0, <1>1, <2>1 DEF NoSession
  <1>5. ASSUME NEW u \in Sessions, StartRequest(u) \/ SaveFails(u) \/ AuditLost(u)
        PROVE  UNCHANGED job
    BY <1>5 DEF StartRequest, SaveFails, AuditLost, runnerVars
  <1>6. ASSUME NEW u \in Sessions, RunSession(u) PROVE UNCHANGED job
    BY <1>3, <1>6 DEF RunSession, AnswerCheckNow, vars, runnerVars
  <1> QED
    BY <1>2, <1>4, <1>5, <1>6
       DEF MonitorNext, RunJob, RunFault, RunTick, StartAck, RunAck, AckFails, ServiceChanges,
           sessionVars

\* Every step of the core moves every call in one of the runner's ways.
LEMMA CallsMove ==
  ASSUME MonitorInv, MonitorNext, NEW j \in Jobs
  PROVE  CallMoves(j)
  <1>0. TypeInv /\ SchedulerTypeOK /\ StepKind
    BY KindsOfSteps DEF MonitorInv, MonitorTypeOK, TypeInv
  <1>1. CASE [Next]_vars
    BY <1>0, <1>1, CallStep
  <1>2. CASE UNCHANGED job
    BY <1>2 DEF CallMoves
  <1>3. ASSUME NEW p \in Procs, NextBatch(p) PROVE CallMoves(j)
    <2>1. job'[j] = job[j] \/ \E t \in Targets : job'[j] = LockedFor(t)
      BY <1>0, <1>3, BatchLocks DEF BatchEffect
    <2> QED
      BY <2>1 DEF CallMoves, LockedFor, NoJob
  <1> QED
    BY <1>0, <1>1, <1>2, <1>3
       DEF StepKind, FaultOnly, BatchStarts, RowSaved, IncidentSaved, EventRecorded, runnerVars

\* Only checks that are stored and saves write the rows of targets.
LEMMA OthersLeaveRows ==
  ASSUME MonitorInv, MonitorNext,
         \A j \in Jobs : ~Persist(j), \A s \in Sessions : ~UpdateRow(s)
  PROVE  UNCHANGED targets
  <1>1. StepKind
    BY KindsOfSteps DEF MonitorInv
  <1>2. CASE [Next]_vars
    BY <1>2, OthersLeaveTables DEF storeVars
  <1>3. ASSUME NEW p \in Procs, NextBatch(p) PROVE UNCHANGED targets
    BY <1>3 DEF NextBatch, storeVars
  <1>4. ASSUME NEW a \in Acknowledgers, UpdateIncident(a) PROVE UNCHANGED targets
    BY <1>4 DEF UpdateIncident
  <1> QED
    BY <1>1, <1>2, <1>3, <1>4
       DEF StepKind, FaultOnly, BatchStarts, RowSaved, IncidentSaved, EventRecorded, storeVars

\* A check leaves the operators' columns alone and never shows PAUSED.
CheckedRow(t) ==
  /\ targets'[t].enabled = targets[t].enabled
  /\ targets'[t].archived = targets[t].archived
  /\ targets'[t].status # targets[t].status => targets'[t].status # "PAUSED"

\* A decision is UP, DEGRADED or DOWN.
LEMMA DecisionNeverPauses ==
  ASSUME TypeInv, NEW j \in Jobs
  PROVE  Decision(j).status # "PAUSED"
  <1> DEFINE current ==
        [ status               |-> job[j].row.status,
          consecutiveFailures  |-> job[j].row.consecutiveFailures,
          consecutiveSuccesses |-> job[j].row.consecutiveSuccesses,
          hasActiveIncident    |-> job[j].incident # NoIncident ]
  <1>1. job[j].row \in TargetRow
    BY DEF TypeInv, TypeOK, RunnerTypeOK, JobRecord
  <1>2. current.consecutiveFailures \in Nat /\ current.consecutiveSuccesses \in Nat
    BY <1>1, ThresholdsPositive DEF TargetRow
  <1>3. Decision(j) = IF job[j].result = "SUCCESS" THEN OnSuccess(current)
                                                   ELSE OnFailure(current)
    BY DEF Decision, ComputeHealthTransition
  <1> HIDE DEF current
  <1>4. OnSuccess(current).status # "PAUSED" /\ OnFailure(current).status # "PAUSED"
    BY <1>2, OnSuccessShape, OnFailureShape
  <1> QED
    BY <1>3, <1>4

\* The rows of targets are written by checks and by the saves of requests.
LEMMA RowSteps ==
  ASSUME MonitorInv, StepKind
  PROVE  (\A t \in Targets : CheckedRow(t)) \/ \E s \in Sessions : UpdateRow(s)
  <1>0. TypeInv /\ targets \in [Targets -> TargetRow]
    BY DEF MonitorInv, MonitorTypeOK, TypeInv, TypeOK, StoreTypeOK
  <1>1. CASE UNCHANGED targets
    BY <1>1 DEF CheckedRow
  <1>2. CASE [Next]_vars
    <2>1. CASE \A j \in Jobs : ~Persist(j)
      BY <1>1, <1>2, <2>1, OthersLeaveTables DEF storeVars
    <2>2. ASSUME NEW j \in Jobs, Persist(j), NEW t \in Targets PROVE CheckedRow(t)
      <3> DEFINE u == job[j].target
                 decision == Decision(j)
      <3>1. targets' = [targets EXCEPT
              ![u].status = decision.status,
              ![u].consecutiveFailures = Capped(decision.consecutiveFailures),
              ![u].consecutiveSuccesses = Capped(decision.consecutiveSuccesses)]
        BY <2>2 DEF Persist, WriteAll, WriteResult
      <3>2. decision.status # "PAUSED"
        BY <1>0, DecisionNeverPauses
      <3> HIDE DEF u, decision
      <3>3. targets[t] \in TargetRow
        BY <1>0
      <3>4. CASE t # u
        BY <1>0, <3>1, <3>4 DEF CheckedRow
      <3>5. CASE t = u
        <4>1. targets'[t] =
                [targets[t] EXCEPT
                   !.status = decision.status,
                   !.consecutiveFailures = Capped(decision.consecutiveFailures),
                   !.consecutiveSuccesses = Capped(decision.consecutiveSuccesses)]
          BY <1>0, <3>1, <3>5
        <4> QED
          BY <3>2, <3>3, <4>1 DEF CheckedRow, TargetRow
      <3> QED
        BY <3>4, <3>5
    <2> QED
      BY <2>1, <2>2
  <1>3. ASSUME NEW p \in Procs, NextBatch(p) PROVE UNCHANGED targets
    BY <1>3 DEF NextBatch, storeVars
  <1>4. ASSUME NEW a \in Acknowledgers, UpdateIncident(a) PROVE UNCHANGED targets
    BY <1>4 DEF UpdateIncident
  <1> QED
    BY <1>1, <1>2, <1>3, <1>4
       DEF StepKind, FaultOnly, BatchStarts, RowSaved, IncidentSaved, EventRecorded, storeVars

-----------------------------------------------------------------------------
(* Lost updates: the columns of the operators.                             *)

\* A row that no outdated copy has overwritten is consistent.
RowsInv ==
  \A t \in Targets :
    t \notin overwritten =>
      /\ targets[t].status = "PAUSED" => ~targets[t].enabled
      /\ targets[t].archived => ~targets[t].enabled

\* A copy that no other request has outdated, next to its row: an update
\* would keep the operators' columns, a pause or an archive disables, a resume
\* is of a target that is not archived; of the row as save read it, checks
\* have changed the status at most, and not to PAUSED.
UpToDate(s) ==
  LET copy    == session[s].entity
      loaded  == session[s].loaded
      current == targets[session[s].target]
      op      == session[s].op
  IN  /\ op = "update" =>
           /\ copy.enabled = current.enabled /\ copy.archived = current.archived
           /\ session[s].target \notin overwritten => (copy.status = "PAUSED" => ~copy.enabled)
      /\ op \in {"pause", "archive"} => ~copy.enabled /\ (current.archived => copy.archived)
      /\ op = "resume" => copy.status # "PAUSED" /\ ~copy.archived /\ ~current.archived
      /\ session[s].pc = "loaded" =>
           /\ loaded.enabled = current.enabled /\ loaded.archived = current.archived
           /\ loaded.status # "PAUSED" => current.status # "PAUSED"

CopyInv(s) ==
  HoldsCopy(s) => session[s].op # "check-now" /\ (s \notin outdated => UpToDate(s))

PauseInv == RowsInv /\ \A s \in Sessions : CopyInv(s)

\* Where no save changes a row, it is written by checks at most, and a mark of
\* a lost update stays.
LEMMA UnsavedRow ==
  ASSUME MonitorInv, HistoryNext, NEW t \in Targets, \A s \in Sessions : ~Changes(s, t)
  PROVE  CheckedRow(t) /\ (t \in overwritten => t \in overwritten')
  <1>1. t \in overwritten => t \in overwritten'
    BY DEF HistoryNext, Overwritten
  <1>2. CASE \E s \in Sessions : UpdateRow(s)
    <2>1. PICK s \in Sessions : UpdateRow(s)
      BY <1>2
    <2>2. targets'[t] = targets[t]
      BY <2>1, SaveWrites DEF Changes, Saves
    <2> QED
      BY <1>1, <2>2 DEF CheckedRow
  <1>3. CASE \A s \in Sessions : ~UpdateRow(s)
    BY <1>1, <1>3, KindsOfSteps, RowSteps DEF HistoryNext, MonitorInv
  <1> QED
    BY <1>2, <1>3

\* What the save of a copy that is up to date leaves.
LEMMA SaveKeepsPause ==
  ASSUME MonitorInv, PauseInv, HistoryNext, NEW t \in Targets, t \notin overwritten',
         NEW s \in Sessions, Changes(s, t)
  PROVE  /\ targets'[t].status = "PAUSED" => ~targets'[t].enabled
         /\ targets'[t].archived => ~targets'[t].enabled
         /\ targets[t].archived => targets'[t].archived
  <1> DEFINE copy == session[s].entity
             loaded == session[s].loaded
             current == targets[t]
             saved == targets'[t]
             op == session[s].op
  <1>0. /\ UpdateRow(s) /\ t = session[s].target
        /\ session[s].pc = "loaded"
        /\ op \in AllOperations
        /\ copy \in TargetRow /\ loaded \in TargetRow /\ current \in TargetRow
    BY SessionsAssumption
       DEF Changes, Saves, UpdateRow, MonitorInv, MonitorTypeOK, TypeOK, StoreTypeOK,
           SessionsTypeOK, SessionRecord, RequestInv
  <1>1. /\ saved.enabled = IF copy.enabled # loaded.enabled THEN copy.enabled ELSE current.enabled
        /\ saved.archived =
             IF copy.archived # loaded.archived THEN copy.archived ELSE current.archived
        /\ saved.status = IF copy.status # loaded.status THEN copy.status ELSE current.status
    BY <1>0, SaveWrites
  <1>2. s \notin outdated /\ (t \notin overwritten \/ op # "update")
    <2>1. \A v \in Sessions : v # s => ~Changes(v, t)
      BY <1>0, SaveWrites DEF Changes, Saves
    <2>2. ~Overwritten(t)
      BY DEF HistoryNext
    <2> QED
      BY <2>1, <2>2 DEF Overwritten
  <1>3. UpToDate(s) /\ op # "check-now"
    BY <1>0, <1>2 DEF PauseInv, CopyInv, HoldsCopy
  <1>4. /\ op = "update" =>
             /\ copy.enabled = current.enabled /\ copy.archived = current.archived
             /\ t \notin overwritten => (copy.status = "PAUSED" => ~copy.enabled)
        /\ op \in {"pause", "archive"} => ~copy.enabled /\ (current.archived => copy.archived)
        /\ op = "resume" => copy.status # "PAUSED" /\ ~copy.archived /\ ~current.archived
        /\ loaded.enabled = current.enabled /\ loaded.archived = current.archived
        /\ loaded.status # "PAUSED" => current.status # "PAUSED"
    BY <1>0, <1>3 DEF UpToDate
  <1>5. t \notin overwritten =>
          /\ current.status = "PAUSED" => ~current.enabled
          /\ current.archived => ~current.enabled
    BY DEF PauseInv, RowsInv
  <1>6. op \in {"update", "pause", "archive", "resume"}
    BY <1>0, <1>3 DEF AllOperations
  <1> HIDE DEF copy, loaded, current, saved, op
  <1>7. CASE op = "update"
    BY <1>1, <1>2, <1>4, <1>5, <1>7 DEF current, saved
  <1>8. CASE op \in {"pause", "archive"}
    BY <1>1, <1>4, <1>8 DEF current, saved
  <1>9. CASE op = "resume"
    BY <1>1, <1>4, <1>9 DEF current, saved
  <1> QED
    BY <1>6, <1>7, <1>8, <1>9

\* Rows stay consistent, and archived ones archived and disabled.
LEMMA RowsKeep ==
  ASSUME MonitorInv, PauseInv, HistoryNext, NEW t \in Targets, t \notin overwritten'
  PROVE  /\ targets'[t].status = "PAUSED" => ~targets'[t].enabled
         /\ targets'[t].archived => ~targets'[t].enabled
         /\ targets[t].archived => targets'[t].archived
  <1>1. CASE \E s \in Sessions : Changes(s, t)
    BY <1>1, SaveKeepsPause
  <1>2. CASE \A s \in Sessions : ~Changes(s, t)
    BY <1>2, UnsavedRow DEF CheckedRow, PauseInv, RowsInv
  <1> QED
    BY <1>1, <1>2

\* The copy a request starts with is up to date.
LEMMA MutatedUpToDate ==
  ASSUME NEW op \in Operations, op # "check-now", NEW row \in TargetRow, Accepts(op, row)
  PROVE  /\ op \in {"pause", "resume", "archive", "update"}
         /\ op = "update" => Mutated(op, row) = row
         /\ op \in {"pause", "archive"} =>
              ~Mutated(op, row).enabled /\ (row.archived => Mutated(op, row).archived)
         /\ op = "resume" =>
              /\ Mutated(op, row).status # "PAUSED"
              /\ ~Mutated(op, row).archived /\ ~row.archived
              /\ Mutated(op, row).consecutiveSuccesses = 0
  <1>1. op \in {"pause", "resume", "archive", "update"}
    BY SessionsAssumption DEF AllOperations
  <1>2. CASE op \in {"pause", "archive"}
    BY <1>2 DEF Mutated, TargetRow
  <1>3. CASE op = "resume"
    BY <1>3 DEF Accepts, Mutated, TargetRow
  <1>4. CASE op = "update"
    BY <1>4 DEF Mutated
  <1> QED
    BY <1>1, <1>2, <1>3, <1>4

\* A request that holds a copy held it before, has just made it, or has just
\* read the row again.
LEMMA CopyMoves ==
  ASSUME MonitorInv, MonitorNext, NEW s \in Sessions, HoldsCopy(s)'
  PROVE  \/ session'[s] = session[s]
         \/ \E op \in Operations, t \in Targets : FindOne(s, op, t) /\ op # "check-now"
         \/ LoadRow(s)
  <1>0. session \in [Sessions -> SessionRecord]
    BY DEF MonitorInv, MonitorTypeOK, SessionsTypeOK
  <1>1. SessionMoves(s)
    BY <1>0, SessionSteps
  <1>2. session'[s] = NoSession => session'[s].pc = "idle"
    BY DEF NoSession
  <1>3. ASSUME NEW op \in Operations, NEW t \in Targets, FindOne(s, op, t), op = "check-now"
        PROVE  session'[s].pc = "requested"
    BY <1>0, <1>3 DEF FindOne
  <1>4. UpdateRow(s) => session'[s].pc = "saved"
    BY <1>0 DEF UpdateRow, SessionRecord
  <1>5. ASSUME NEW pc \in {"calling", "running"}, session'[s] = [session[s] EXCEPT !.pc = pc]
        PROVE  session'[s].pc = pc
    BY <1>0, <1>5 DEF SessionRecord
  <1> QED
    BY <1>1, <1>2, <1>3, <1>4, <1>5 DEF SessionMoves, HoldsCopy

\* What a request starts with.
LEMMA Found ==
  ASSUME MonitorInv, NEW s \in Sessions, NEW op \in Operations, NEW t \in Targets,
         FindOne(s, op, t), op # "check-now"
  PROVE  /\ targets' = targets /\ targets[t] \in TargetRow /\ Accepts(op, targets[t])
         /\ session'[s].pc = "mutated" /\ session'[s].op = op /\ session'[s].target = t
         /\ session'[s].entity = Mutated(op, targets[t])
  <1>1. /\ session \in [Sessions -> SessionRecord] /\ targets \in [Targets -> TargetRow]
    BY DEF MonitorInv, MonitorTypeOK, TypeOK, StoreTypeOK, SessionsTypeOK
  <1>2. session'[s] = [ pc     |-> "mutated",
                        op     |-> op,
                        target |-> t,
                        entity |-> Mutated(op, targets[t]),
                        loaded |-> FreshRow ]
    BY <1>1 DEF FindOne
  <1> DEFINE copy == Mutated(op, targets[t])
  <1>3. session'[s].entity = copy
    <2> HIDE DEF copy
    <2>1. session'[s] = [ pc |-> "mutated", op |-> op, target |-> t, entity |-> copy,
                          loaded |-> FreshRow ]
      BY <1>2 DEF copy
    <2> QED
      BY <2>1
  <1> QED
    BY <1>1, <1>2, <1>3 DEF FindOne, storeVars

\* A copy stays up to date until another request changes its row: the checks
\* leave alone what it depends on.
LEMMA CopyKeeps ==
  ASSUME MonitorInv, PauseInv, HistoryNext, NEW s \in Sessions
  PROVE  CopyInv(s)'
  <1>0. /\ MonitorNext /\ CopyInv(s) /\ RowsInv
        /\ session \in [Sessions -> SessionRecord]
        /\ session[s].pc # "idle" => session[s].target \in Targets
    BY DEF HistoryNext, MonitorInv, MonitorTypeOK, SessionsTypeOK, RequestInv, PauseInv
  <1> SUFFICES ASSUME HoldsCopy(s)'
               PROVE  session'[s].op # "check-now" /\ (s \notin outdated' => UpToDate(s)')
    BY DEF CopyInv
  <1>1. s \notin outdated' =>
          s \notin outdated /\ \A u \in Sessions \ {s} : ~Changes(u, session[s].target)
    BY DEF HistoryNext, Outdated
  <1>2. CASE session'[s] = session[s]
    <2> DEFINE t == session[s].target
    <2>1. HoldsCopy(s) /\ t \in Targets
      BY <1>0, <1>2 DEF HoldsCopy
    <2>2. ASSUME s \notin outdated' PROVE UpToDate(s)'
      <3>1. ~UpdateRow(s)
        BY <1>0, <1>2 DEF UpdateRow, SessionRecord
      <3>2. \A u \in Sessions : ~Changes(u, t)
        BY <1>1, <2>2, <3>1 DEF Changes, Saves
      <3>3. CheckedRow(t) /\ (t \in overwritten => t \in overwritten')
        BY <2>1, <3>2, UnsavedRow
      <3>4. UpToDate(s)
        BY <1>0, <1>1, <2>1, <2>2 DEF CopyInv
      <3> QED
        BY <1>2, <3>3, <3>4 DEF UpToDate, CheckedRow
    <2> QED
      BY <1>0, <1>2, <2>1, <2>2 DEF CopyInv
  <1>3. ASSUME NEW op \in Operations, NEW t \in Targets, FindOne(s, op, t), op # "check-now"
        PROVE  session'[s].op # "check-now" /\ UpToDate(s)'
    <2> DEFINE copy == Mutated(op, targets[t])
    <2>1. /\ targets' = targets /\ targets[t] \in TargetRow /\ Accepts(op, targets[t])
          /\ session'[s].pc = "mutated" /\ session'[s].op = op /\ session'[s].target = t
          /\ session'[s].entity = copy
      BY <1>3, Found
    <2>2. /\ op = "update" => copy = targets[t]
          /\ op \in {"pause", "archive"} =>
              ~copy.enabled /\ (targets[t].archived => copy.archived)
          /\ op = "resume" => copy.status # "PAUSED" /\ ~copy.archived /\ ~targets[t].archived
      BY <1>3, <2>1, MutatedUpToDate
    <2> HIDE DEF copy
    <2>3. t \in overwritten => t \in overwritten'
      BY <2>1, UnsavedRow DEF Changes
    <2> QED
      BY <1>0, <1>3, <2>1, <2>2, <2>3 DEF UpToDate, RowsInv
  <1>4. CASE LoadRow(s)
    <2> DEFINE t == session[s].target
    <2>1. /\ HoldsCopy(s) /\ t \in Targets /\ targets' = targets
          /\ session'[s].pc = "loaded" /\ session'[s].op = session[s].op
          /\ session'[s].entity = session[s].entity
          /\ session'[s].target = t
          /\ session'[s].loaded = targets[t]
      BY <1>0, <1>4 DEF LoadRow, storeVars, SessionRecord, HoldsCopy
    <2>2. t \in overwritten => t \in overwritten'
      BY <2>1, UnsavedRow DEF Changes
    <2>3. session[s].op # "check-now" /\ (s \notin outdated' => UpToDate(s))
      BY <1>0, <1>1, <2>1 DEF CopyInv
    <2> HIDE DEF t
    <2>4. ASSUME UpToDate(s) PROVE UpToDate(s)'
      BY <2>1, <2>2, <2>4 DEF UpToDate, t
    <2> QED
      BY <2>1, <2>3, <2>4
  <1> QED
    BY <1>0, <1>2, <1>3, <1>4, CopyMoves

\* The pause invariant holds at the start.
LEMMA PauseStarts == HistoryInit => PauseInv
  <1> SUFFICES ASSUME HistoryInit PROVE PauseInv
    OBVIOUS
  <1>1. MonitorInit
    BY DEF HistoryInit
  <1>2. RowsInv
    BY <1>1, TablesStart, StartRowTyped DEF RowsInv
  <1>3. \A s \in Sessions : ~HoldsCopy(s)
    BY <1>1 DEF MonitorInit, SessionsInit, NoSession, HoldsCopy
  <1> QED
    BY <1>2, <1>3 DEF PauseInv, CopyInv

\* Every step keeps it.
LEMMA PauseStep == ASSUME MonitorInv, PauseInv, [HistoryNext]_historyVars PROVE PauseInv'
  <1>1. CASE UNCHANGED historyVars
    BY <1>1 DEF historyVars, lostVars, allVars, vars, storeVars, sessionVars, PauseInv, RowsInv,
                CopyInv, UpToDate, HoldsCopy
  <1>2. CASE HistoryNext
    BY <1>2, RowsKeep, CopyKeeps DEF PauseInv, RowsInv
  <1> QED
    BY <1>1, <1>2

\* The steps of the history are steps of the monitor.
LEMMA HistorySteps == [HistoryNext]_historyVars => [MonitorNext]_allVars
  BY DEF HistoryNext, historyVars

\* However many requests, checks and processes there are: a target that shows
\* PAUSED is disabled, unless a request has saved a copy of its row that
\* another request had changed meanwhile.
THEOREM PausedDisabled == HistorySpec => []PausedMeansDisabled
  <1>1. HistoryInit => MonitorInv
    BY MonitorStarts DEF HistoryInit
  <1>2. MonitorInv /\ [HistoryNext]_historyVars => MonitorInv'
    BY HistorySteps, MonitorInvStep
  <1>3. MonitorInv /\ PauseInv /\ [HistoryNext]_historyVars => PauseInv'
    BY PauseStep
  <1>4. PauseInv => PausedMeansDisabled
    BY DEF PauseInv, RowsInv, PausedMeansDisabled
  <1> QED
    BY <1>1, <1>2, PauseStarts, <1>3, <1>4, PTL DEF HistorySpec

\* And an archived target stays archived and disabled, but for the same lost
\* update: no check in flight brings it back.
THEOREM ArchivedForGood == HistorySpec => ArchivedIsFinal
  <1>1. HistoryInit => MonitorInv
    BY MonitorStarts DEF HistoryInit
  <1>2. MonitorInv /\ [HistoryNext]_historyVars => MonitorInv'
    BY HistorySteps, MonitorInvStep
  <1>3. MonitorInv /\ PauseInv /\ [HistoryNext]_historyVars => PauseInv'
    BY PauseStep
  <1>4. MonitorInv /\ PauseInv /\ [HistoryNext]_historyVars =>
          [\A t \in Targets :
             targets[t].archived
               => (targets'[t].archived /\ ~targets'[t].enabled) \/ t \in overwritten']_historyVars
    BY RowsKeep
  <1> QED
    BY <1>1, <1>2, PauseStarts, <1>3, <1>4, PTL DEF HistorySpec, ArchivedIsFinal

-----------------------------------------------------------------------------
(* Starting over: the successes a row counts.                              *)

Successes(t) == targets[t].consecutiveSuccesses

\* A row counts no more successes than were regained.
RowStartsOver(t) == t \notin restored => Successes(t) <= regained[t]

\* Nor does the row a check holds.
SnapshotStartsOver(j) ==
  HoldsRow(j) /\ j \notin overtaken /\ job[j].target \notin restored
    => job[j].row.consecutiveSuccesses <= regained[job[j].target]

\* A resume under way is about to save zero.
ResumeUnderWay(s) ==
  HoldsCopy(s) /\ session[s].op = "resume" => session[s].entity.consecutiveSuccesses = 0

HistoryTyped == regained \in [Targets -> 0..CounterCap] /\ overtaken \subseteq Jobs

ResumeInv ==
  /\ HistoryTyped
  /\ \A t \in Targets : RowStartsOver(t)
  /\ \A j \in Jobs : SnapshotStartsOver(j)
  /\ \A s \in Sessions : ResumeUnderWay(s)

\* What the decision counts, and when it resolves.
LEMMA DecisionCounts ==
  ASSUME TypeInv, NEW j \in Jobs, job[j].result \in CheckResultStatus
  PROVE  /\ Decision(j).consecutiveSuccesses =
              IF job[j].result = "FAILURE" THEN 0 ELSE job[j].row.consecutiveSuccesses + 1
         /\ Decision(j).shouldResolveIncident =>
              /\ job[j].result # "FAILURE"
              /\ job[j].row.consecutiveSuccesses + 1 >= recoveryThreshold
  <1>1. job[j].row.consecutiveSuccesses \in Nat
    BY ThresholdsPositive DEF TypeInv, TypeOK, RunnerTypeOK, JobRecord, TargetRow
  <1>2. CASE job[j].result = "SUCCESS"
    BY <1>1, <1>2, DecisionOnSuccess, ThresholdsPositive DEF RecoveryPending
  <1>3. CASE job[j].result # "SUCCESS"
    BY <1>3, DecisionOnFailure DEF CheckResultStatus
  <1> QED
    BY <1>2, <1>3

\* What the history notes of a check that is stored, and what it leaves in the
\* row.
LEMMA StoreNoted ==
  ASSUME MonitorInv, HistoryTyped, HistoryNext, NEW j \in Jobs, Persist(j),
         NEW u, u = job[j].target
  PROVE  /\ u \in Targets
         /\ regained'[u] = IF job[j].result = "FAILURE" THEN 0 ELSE Capped(regained[u] + 1)
         /\ targets'[u].consecutiveSuccesses =
              IF job[j].result = "FAILURE" THEN 0
              ELSE Capped(job[j].row.consecutiveSuccesses + 1)
         /\ u \in restored' <=> job[j].result # "FAILURE" /\ (j \in overtaken \/ u \in restored)
         /\ \A t \in Targets :
              t # u =>
                /\ regained'[t] = regained[t] /\ targets'[t] = targets[t]
                /\ t \in restored' <=> t \in restored
         /\ \A k \in Jobs :
              k # j /\ HoldsRow(k) =>
                (k \in overtaken' <=>
                   k \in overtaken \/ (job[k].target = u /\ job[j].result = "FAILURE"))
  <1>0. /\ TypeInv /\ MonitorNext
        /\ u \in Targets /\ job[j].result \in CheckResultStatus
        /\ targets[u] \in TargetRow
    BY PersistIncidents DEF HistoryNext, MonitorInv, MonitorTypeOK, TypeInv, TypeOK, StoreTypeOK,
                            CallInv, Persist
  <1>1. /\ \A k \in Jobs : k # j => job'[k] = job[k] /\ ~Persist(k)
        /\ \A s \in Sessions : ~UpdateRow(s)
    BY <1>0, StoresAlone
  <1>2. ASSUME NEW t
        PROVE  /\ \A k \in Jobs : Stores(k, t) <=> k = j /\ t = u
               /\ \A s \in Sessions : ~Saves(s, t) /\ ~SaveRestores(s, t)
               /\ StartsOver(t) <=> t = u /\ job[j].result = "FAILURE"
    BY <1>1 DEF Stores, Saves, SaveRestores, StartsOver, SavesResume, StoresFailure
  <1>3. ASSUME NEW t \in Targets
        PROVE  /\ regained'[t] = IF t = u
                                 THEN IF job[j].result = "FAILURE" THEN 0 ELSE Capped(regained[t] + 1)
                                 ELSE regained[t]
               /\ t \in restored' <=>
                    \/ t = u /\ j \in overtaken /\ job[j].result # "FAILURE"
                    \/ t \in restored /\ ~(t = u /\ job[j].result = "FAILURE")
    <2>1. Regained(t) = IF t = u
                        THEN IF job[j].result = "FAILURE" THEN 0 ELSE Capped(regained[t] + 1)
                        ELSE regained[t]
      BY <1>2 DEF Regained
    <2>2. (\E k \in overtaken : Stores(k, t) /\ job[k].result # "FAILURE")
            <=> t = u /\ j \in overtaken /\ job[j].result # "FAILURE"
      BY <1>2 DEF HistoryTyped
    <2>3. Restored(t) <=>
            \/ t = u /\ j \in overtaken /\ job[j].result # "FAILURE"
            \/ t \in restored /\ ~(t = u /\ job[j].result = "FAILURE")
      BY <1>2, <2>2 DEF Restored
    <2> QED
      BY <2>1, <2>3 DEF HistoryNext
  <1>4. ASSUME NEW k \in Jobs, k # j, HoldsRow(k)
        PROVE  k \in overtaken' <=>
                 k \in overtaken \/ (job[k].target = u /\ job[j].result = "FAILURE")
    <2>1. HoldsRow(k)'
      BY <1>1, <1>4 DEF HoldsRow
    <2> QED
      BY <1>2, <1>4, <2>1 DEF HistoryNext, Overtaken
  <1>5. \A t \in Targets : t # u => targets'[t] = targets[t]
    BY <1>0, PersistElsewhere
  <1>6. targets'[u].consecutiveSuccesses = Capped(Decision(j).consecutiveSuccesses)
    BY <1>0, PersistHere
  <1>7. Capped(0) = 0
    BY ThresholdsPositive DEF Capped
  <1> QED
    BY <1>0, <1>3, <1>4, <1>5, <1>6, <1>7, DecisionCounts

\* A check that is stored counts one success more than its row did, and so
\* does the history, unless the check was overtaken; a failure that is stored
\* overtakes the others that hold the row.
LEMMA StoreKeeps ==
  ASSUME MonitorInv, ResumeInv, HistoryNext, NEW j \in Jobs, Persist(j)
  PROVE  /\ \A t \in Targets : RowStartsOver(t)'
         /\ \A k \in Jobs : SnapshotStartsOver(k)'
         /\ \A s \in Sessions : ResumeUnderWay(s)'
  <1> DEFINE u == job[j].target
  <1>0. /\ HistoryTyped /\ MonitorNext
        /\ job \in [Jobs -> JobRecord]
        /\ \A k \in Jobs : HoldsRow(k) => job[k].target \in Targets
    BY DEF ResumeInv, HistoryNext, MonitorInv, MonitorTypeOK, TypeOK, RunnerTypeOK, CallInv,
           InCall, HoldsRow
  <1>1. /\ u \in Targets
        /\ regained'[u] = IF job[j].result = "FAILURE" THEN 0 ELSE Capped(regained[u] + 1)
        /\ targets'[u].consecutiveSuccesses =
              IF job[j].result = "FAILURE" THEN 0
              ELSE Capped(job[j].row.consecutiveSuccesses + 1)
        /\ u \in restored' <=> job[j].result # "FAILURE" /\ (j \in overtaken \/ u \in restored)
        /\ \A t \in Targets :
              t # u =>
                /\ regained'[t] = regained[t] /\ targets'[t] = targets[t]
                /\ t \in restored' <=> t \in restored
        /\ \A k \in Jobs :
              k # j /\ HoldsRow(k) =>
                (k \in overtaken' <=>
                   k \in overtaken \/ (job[k].target = u /\ job[j].result = "FAILURE"))
    BY <1>0, StoreNoted
  <1>2. /\ UNCHANGED session
        /\ job'[j].pc = "releasing"
        /\ \A k \in Jobs : k # j => job'[k] = job[k]
    BY <1>0, StoresAlone
  <1>3. regained[u] \in Nat /\ regained[u] <= CounterCap
    BY <1>0, <1>1, ThresholdsPositive DEF HistoryTyped
  <1>4. ASSUME NEW t \in Targets PROVE RowStartsOver(t)'
    <2>1. CASE t # u
      BY <1>1, <2>1 DEF RowStartsOver, Successes, ResumeInv
    <2>2. CASE t = u /\ u \notin restored' /\ job[j].result # "FAILURE"
      <3>1. job[j].row.consecutiveSuccesses <= regained[u]
        BY <1>0, <1>1, <2>2 DEF ResumeInv, SnapshotStartsOver, HoldsRow, Persist
      <3>2. job[j].row.consecutiveSuccesses \in Nat
        BY <1>0, ThresholdsPositive DEF JobRecord, TargetRow
      <3>3. targets'[u].consecutiveSuccesses <= regained'[u]
        BY <1>1, <1>3, <2>2, <3>1, <3>2, ThresholdsPositive DEF Capped
      <3> QED
        BY <2>2, <3>3 DEF RowStartsOver, Successes
    <2>3. CASE t = u /\ job[j].result = "FAILURE"
      BY <1>1, <2>3 DEF RowStartsOver, Successes
    <2> QED
      BY <2>1, <2>2, <2>3 DEF RowStartsOver
  <1>5. ASSUME NEW k \in Jobs PROVE SnapshotStartsOver(k)'
    <2> SUFFICES ASSUME HoldsRow(k)', k \notin overtaken', job'[k].target \notin restored'
                 PROVE  job'[k].row.consecutiveSuccesses <= regained'[job'[k].target]
      BY DEF SnapshotStartsOver
    <2>1. k # j /\ job'[k] = job[k] /\ HoldsRow(k)
      BY <1>2 DEF HoldsRow
    <2>2. /\ k \notin overtaken
          /\ job[k].target = u => job[j].result # "FAILURE" /\ u \notin restored
      BY <1>1, <2>1
    <2>3. /\ SnapshotStartsOver(k) /\ job[k].target \in Targets
          /\ job[k].row.consecutiveSuccesses \in Nat
      BY <1>0, <2>1, ThresholdsPositive DEF ResumeInv, JobRecord, TargetRow
    <2>4. CASE job[k].target = u
      <3>1. job[k].row.consecutiveSuccesses <= regained[u]
        BY <2>1, <2>2, <2>3, <2>4 DEF SnapshotStartsOver
      <3>2. regained[u] <= regained'[u]
        BY <1>1, <1>3, <2>2, <2>4, ThresholdsPositive DEF Capped
      <3>3. regained'[u] \in Nat
        BY <1>1, <1>3, ThresholdsPositive DEF Capped
      <3> QED
        BY <1>3, <2>1, <2>3, <2>4, <3>1, <3>2, <3>3
    <2>5. CASE job[k].target # u
      BY <1>1, <2>1, <2>2, <2>3, <2>5 DEF SnapshotStartsOver
    <2> QED
      BY <2>4, <2>5
  <1>6. \A s \in Sessions : ResumeUnderWay(s)'
    BY <1>2 DEF ResumeInv, ResumeUnderWay, HoldsCopy
  <1> QED
    BY <1>4, <1>5, <1>6

\* What the history notes of a save.
LEMMA SaveNoted ==
  ASSUME MonitorInv, HistoryTyped, HistoryNext, NEW s \in Sessions, UpdateRow(s),
         NEW u, u = session[s].target
  PROVE  /\ UNCHANGED job
         /\ \A t \in Targets :
              /\ regained'[t] = IF t = u /\ session[s].op = "resume" THEN 0 ELSE regained[t]
              /\ t \in restored' <=>
                   \/ SaveRestores(s, t)
                   \/ t \in restored /\ ~(t = u /\ session[s].op = "resume")
         /\ \A k \in Jobs :
              HoldsRow(k) =>
                (k \in overtaken' <=>
                   k \in overtaken \/ (job[k].target = u /\ session[s].op = "resume"))
  <1>1. UNCHANGED job
    BY SavesAlone DEF HistoryNext
  <1>2. \A k \in Jobs : ~Persist(k)
    BY <1>1 DEF MonitorInv, MonitorTypeOK, TypeOK, RunnerTypeOK, Persist, Finish, JobRecord
  <1>3. ASSUME NEW t
        PROVE  /\ \A k \in Jobs : ~Stores(k, t)
               /\ \A v \in Sessions : Saves(v, t) <=> v = s /\ t = u
               /\ StartsOver(t) <=> t = u /\ session[s].op = "resume"
    <2>1. \A v \in Sessions : Saves(v, t) <=> v = s /\ t = u
      BY SaveWrites DEF Saves
    <2> QED
      BY <1>2, <2>1 DEF Stores, StartsOver, SavesResume, StoresFailure
  <1>4. ASSUME NEW t \in Targets
        PROVE  /\ Regained(t) = IF t = u /\ session[s].op = "resume" THEN 0 ELSE regained[t]
               /\ Restored(t) <=>
                    \/ SaveRestores(s, t)
                    \/ t \in restored /\ ~(t = u /\ session[s].op = "resume")
    <2>1. \A k \in overtaken : ~Stores(k, t)
      BY <1>3 DEF HistoryTyped
    <2>2. (\E v \in Sessions : SaveRestores(v, t)) <=> SaveRestores(s, t)
      BY <1>3 DEF SaveRestores
    <2> QED
      BY <1>3, <2>1, <2>2 DEF Regained, Restored
  <1>5. ASSUME NEW k \in Jobs, HoldsRow(k)
        PROVE  k \in overtaken' <=>
                 k \in overtaken \/ (job[k].target = u /\ session[s].op = "resume")
    <2>1. HoldsRow(k)'
      BY <1>1, <1>5 DEF HoldsRow
    <2> QED
      BY <1>3, <1>5, <2>1 DEF HistoryNext, Overtaken
  <1> QED
    BY <1>1, <1>4, <1>5 DEF HistoryNext

\* A resume sets the row's counter to zero with the history's, or leaves it
\* zero, and overtakes the checks that hold the row; any other save that adds
\* successes is noted.
LEMMA SaveKeeps ==
  ASSUME MonitorInv, ResumeInv, HistoryNext, NEW s \in Sessions, UpdateRow(s)
  PROVE  /\ \A t \in Targets : RowStartsOver(t)'
         /\ \A j \in Jobs : SnapshotStartsOver(j)'
         /\ \A v \in Sessions : ResumeUnderWay(v)'
  <1> DEFINE u == session[s].target
             copy == session[s].entity
             loaded == session[s].loaded
  <1>0. /\ HistoryTyped /\ u \in Targets
        /\ targets[u].consecutiveSuccesses \in Nat /\ targets'[u].consecutiveSuccesses \in Nat
        /\ loaded.consecutiveSuccesses \in Nat /\ copy.consecutiveSuccesses \in Nat
        /\ regained[u] \in Nat
        /\ \A j \in Jobs : HoldsRow(j) => job[j].target \in Targets
    <2>1. /\ HistoryTyped /\ u \in Targets
          /\ targets[u] \in TargetRow /\ loaded \in TargetRow /\ copy \in TargetRow
          /\ \A j \in Jobs : HoldsRow(j) => job[j].target \in Targets
      BY SaveWrites
         DEF ResumeInv, MonitorInv, MonitorTypeOK, TypeOK, StoreTypeOK, SessionsTypeOK,
             SessionRecord, CallInv, InCall, HoldsRow
    <2>2. targets'[u] \in TargetRow
      BY <2>1, MonitorInvStep DEF HistoryNext, MonitorInv, MonitorTypeOK, TypeOK, StoreTypeOK
    <2> HIDE DEF u, copy, loaded
    <2> QED
      BY <2>1, <2>2, ThresholdsPositive DEF HistoryTyped, TargetRow
  <1>1. /\ UNCHANGED job
        /\ \A t \in Targets :
              /\ regained'[t] = IF t = u /\ session[s].op = "resume" THEN 0 ELSE regained[t]
              /\ t \in restored' <=>
                   \/ SaveRestores(s, t)
                   \/ t \in restored /\ ~(t = u /\ session[s].op = "resume")
        /\ \A k \in Jobs :
              HoldsRow(k) =>
                (k \in overtaken' <=>
                   k \in overtaken \/ (job[k].target = u /\ session[s].op = "resume"))
    BY <1>0, SaveNoted
  <1>2. /\ session'[s].pc = "saved"
        /\ \A v \in Sessions : v # s => session'[v] = session[v]
        /\ \A t \in Targets : t # u => targets'[t] = targets[t]
        /\ targets'[u].consecutiveSuccesses =
             IF copy.consecutiveSuccesses # loaded.consecutiveSuccesses
             THEN copy.consecutiveSuccesses ELSE targets[u].consecutiveSuccesses
    BY SaveWrites
  <1>3. SaveRestores(s, u) <=>
          IF session[s].op = "resume"
          THEN loaded.consecutiveSuccesses < targets[u].consecutiveSuccesses
          ELSE targets[u].consecutiveSuccesses < targets'[u].consecutiveSuccesses
    BY DEF SaveRestores, Saves
  <1>4. session[s].op = "resume" => copy.consecutiveSuccesses = 0
    BY DEF ResumeInv, ResumeUnderWay, HoldsCopy, UpdateRow
  <1> HIDE DEF u, copy, loaded
  <1>5. ASSUME NEW t \in Targets PROVE RowStartsOver(t)'
    <2>1. RowStartsOver(t)
      BY DEF ResumeInv
    <2>2. CASE t # u
      <3>1. t \in restored => t \in restored'
        BY <1>1, <2>2
      <3> QED
        BY <1>1, <1>2, <2>1, <2>2, <3>1 DEF RowStartsOver, Successes
    <2>3. CASE t = u /\ session[s].op = "resume"
      <3>1. u \notin restored' => targets'[u].consecutiveSuccesses = 0
        BY <1>0, <1>1, <1>2, <1>3, <1>4, <2>3
      <3> QED
        BY <1>1, <2>3, <3>1 DEF RowStartsOver, Successes
    <2>4. CASE t = u /\ session[s].op # "resume"
      <3>1. u \notin restored' =>
              /\ u \notin restored
              /\ targets'[u].consecutiveSuccesses <= targets[u].consecutiveSuccesses
        BY <1>0, <1>1, <1>3, <2>4
      <3>2. regained'[u] = regained[u]
        BY <1>0, <1>1, <2>4
      <3> QED
        BY <1>0, <2>1, <2>4, <3>1, <3>2 DEF RowStartsOver, Successes
    <2> QED
      BY <2>2, <2>3, <2>4
  <1>6. ASSUME NEW j \in Jobs PROVE SnapshotStartsOver(j)'
    <2>1. SnapshotStartsOver(j)
      BY DEF ResumeInv
    <2>2. HoldsRow(j)' => HoldsRow(j) /\ job'[j] = job[j] /\ job[j].target \in Targets
      BY <1>0, <1>1 DEF HoldsRow
    <2> QED
      BY <1>1, <2>1, <2>2 DEF SnapshotStartsOver
  <1>7. ASSUME NEW v \in Sessions PROVE ResumeUnderWay(v)'
    BY <1>2 DEF ResumeInv, ResumeUnderWay, HoldsCopy
  <1> QED
    BY <1>5, <1>6, <1>7

\* A call that holds a row held it before, or has just read it.
LEMMA HoldersMove ==
  ASSUME MonitorInv, MonitorNext, NEW k \in Jobs, job'[k].pc \in {"checking", "checked", "decided"}
  PROVE  /\ job'[k].target = job[k].target /\ job[k].target \in Targets
         /\ \/ HoldsRow(k) /\ job'[k].row = job[k].row
            \/ job'[k].row = targets[job[k].target]
  <1>0. job \in [Jobs -> JobRecord] /\ CallMoves(k)
    BY CallsMove DEF MonitorInv, MonitorTypeOK, TypeOK, RunnerTypeOK
  <1>1. job[k].pc # "idle" => job[k].target \in Targets
    BY DEF MonitorInv, CallInv, InCall
  <1>2. CASE job'[k] = job[k]
    BY <1>1, <1>2 DEF HoldsRow
  <1>3. CASE ReadTarget(k)
    <2>1. job'[k] = IF Checkable(targets[job[k].target])
                    THEN [job[k] EXCEPT !.pc = "checking", !.row = targets[job[k].target]]
                    ELSE [job[k] EXCEPT !.pc = "releasing", !.outcome = "paused"]
      BY <1>0, <1>3 DEF ReadTarget
    <2>2. Checkable(targets[job[k].target])
      BY <1>0, <2>1 DEF JobRecord
    <2> QED
      BY <1>0, <1>1, <1>3, <2>1, <2>2 DEF JobRecord, ReadTarget
  <1>4. CASE CheckTarget(k)
    BY <1>0, <1>1, <1>4 DEF CheckTarget, JobRecord, HoldsRow
  <1>5. CASE FindActiveIncident(k)
    <2>1. PICK i : job' = [job EXCEPT ![k].pc = "decided", ![k].incident = i]
      BY <1>5 DEF FindActiveIncident
    <2>2. job[k].pc = "checked"
      BY <1>5 DEF FindActiveIncident
    <2> QED
      BY <1>0, <1>1, <2>1, <2>2 DEF JobRecord, HoldsRow
  <1> QED
    BY <1>0, <1>2, <1>3, <1>4, <1>5 DEF CallMoves

\* In all other steps no row changes, nothing is counted or marked, and a check
\* reads a row as it is.
LEMMA OthersKeep ==
  ASSUME MonitorInv, ResumeInv, HistoryNext,
         \A k \in Jobs : ~Persist(k), \A v \in Sessions : ~UpdateRow(v)
  PROVE  /\ \A t \in Targets : RowStartsOver(t)'
         /\ \A j \in Jobs : SnapshotStartsOver(j)'
         /\ \A s \in Sessions : ResumeUnderWay(s)'
  <1>0. HistoryTyped /\ MonitorNext
    BY DEF ResumeInv, HistoryNext
  <1>1. targets' = targets
    BY <1>0, OthersLeaveRows
  <1>2. ASSUME NEW t
        PROVE  /\ \A k \in Jobs : ~Stores(k, t)
               /\ \A v \in Sessions : ~Saves(v, t) /\ ~SaveRestores(v, t)
               /\ ~StartsOver(t)
    BY DEF Stores, Saves, SaveRestores, StartsOver, SavesResume, StoresFailure
  <1>3. ASSUME NEW t \in Targets
        PROVE  regained'[t] = regained[t] /\ (t \in restored' <=> t \in restored)
    <2>1. \A k \in overtaken : ~Stores(k, t)
      BY <1>0, <1>2 DEF HistoryTyped
    <2>2. Regained(t) = regained[t] /\ (Restored(t) <=> t \in restored)
      BY <1>2, <2>1 DEF Regained, Restored
    <2> QED
      BY <2>2 DEF HistoryNext
  <1>4. ASSUME NEW j \in Jobs, HoldsRow(j)' PROVE j \in overtaken => j \in overtaken'
    BY <1>4 DEF HistoryNext, Overtaken
  <1>5. ASSUME NEW t \in Targets PROVE RowStartsOver(t)'
    BY <1>1, <1>3 DEF RowStartsOver, Successes, ResumeInv
  <1>6. ASSUME NEW j \in Jobs PROVE SnapshotStartsOver(j)'
    <2> SUFFICES ASSUME HoldsRow(j)', j \notin overtaken', job'[j].target \notin restored'
                 PROVE  job'[j].row.consecutiveSuccesses <= regained'[job'[j].target]
      BY DEF SnapshotStartsOver
    <2>1. /\ job'[j].target = job[j].target /\ job[j].target \in Targets
          /\ \/ HoldsRow(j) /\ job'[j].row = job[j].row
             \/ job'[j].row = targets[job[j].target]
      BY <1>0, HoldersMove DEF HoldsRow
    <2>2. j \notin overtaken /\ job[j].target \notin restored
      BY <1>3, <1>4, <2>1
    <2>3. SnapshotStartsOver(j) /\ RowStartsOver(job[j].target)
      BY <2>1 DEF ResumeInv
    <2> QED
      BY <1>3, <2>1, <2>2, <2>3 DEF SnapshotStartsOver, RowStartsOver, Successes
  <1>7. ASSUME NEW s \in Sessions PROVE ResumeUnderWay(s)'
    <2> SUFFICES ASSUME HoldsCopy(s)', session'[s].op = "resume"
                 PROVE  session'[s].entity.consecutiveSuccesses = 0
      BY DEF ResumeUnderWay
    <2>1. ResumeUnderWay(s)
      BY DEF ResumeInv
    <2>2. CASE session'[s] = session[s]
      BY <2>1, <2>2 DEF ResumeUnderWay, HoldsCopy
    <2>3. ASSUME NEW op \in Operations, NEW t \in Targets, FindOne(s, op, t), op # "check-now"
          PROVE  session'[s].entity.consecutiveSuccesses = 0
      <3>1. /\ targets[t] \in TargetRow /\ Accepts(op, targets[t])
            /\ session'[s].op = op /\ session'[s].entity = Mutated(op, targets[t])
        BY <2>3, Found
      <3> QED
        BY <2>3, <3>1, MutatedUpToDate
    <2>4. CASE LoadRow(s)
      <3>1. /\ HoldsCopy(s) /\ session'[s].op = session[s].op
            /\ session'[s].entity = session[s].entity
        BY <2>4 DEF LoadRow, HoldsCopy, MonitorInv, MonitorTypeOK, SessionsTypeOK, SessionRecord
      <3> QED
        BY <2>1, <3>1 DEF ResumeUnderWay
    <2> QED
      BY <1>0, <2>2, <2>3, <2>4, CopyMoves
  <1> QED
    BY <1>5, <1>6, <1>7

-----------------------------------------------------------------------------
(* The invariant, and the end of an incident.                              *)

\* The history's own variables stay in range.
LEMMA HistoryTypes == ASSUME HistoryTyped, HistoryNext PROVE HistoryTyped'
  <1>1. ASSUME NEW t \in Targets PROVE Regained(t) \in 0..CounterCap
    <2>1. regained[t] \in 0..CounterCap /\ regained[t] + 1 \in Nat /\ 0 \in 0..CounterCap
      BY ThresholdsPositive DEF HistoryTyped
    <2> QED
      BY <2>1, CappedInRange DEF Regained
  <1> QED
    BY <1>1 DEF HistoryTyped, HistoryNext

\* The steps are a check that is stored, a save, and the rest.
LEMMA ResumeStep ==
  ASSUME MonitorInv, ResumeInv, [HistoryNext]_historyVars
  PROVE  ResumeInv'
  <1>1. CASE UNCHANGED historyVars
    BY <1>1 DEF historyVars, countVars, allVars, vars, storeVars, runnerVars, sessionVars,
         ResumeInv, HistoryTyped, RowStartsOver, SnapshotStartsOver, ResumeUnderWay, Successes,
         HoldsRow, HoldsCopy
  <1>2. CASE HistoryNext
    <2>1. HistoryTyped'
      BY <1>2, HistoryTypes DEF ResumeInv
    <2>2. CASE \E j \in Jobs : Persist(j)
      BY <1>2, <2>1, <2>2, StoreKeeps DEF ResumeInv
    <2>3. CASE \E s \in Sessions : UpdateRow(s)
      BY <1>2, <2>1, <2>3, SaveKeeps DEF ResumeInv
    <2> QED
      BY <1>2, <2>1, <2>2, <2>3, OthersKeep DEF ResumeInv
  <1> QED
    BY <1>1, <1>2

\* No row counts a success at the start, and nothing is under way.
LEMMA ResumeStarts == HistoryInit => ResumeInv
  <1> SUFFICES ASSUME HistoryInit PROVE ResumeInv
    OBVIOUS
  <1>1. HistoryTyped
    BY ThresholdsPositive DEF HistoryInit, HistoryTyped
  <1>2. \A t \in Targets : targets[t].consecutiveSuccesses = 0 /\ regained[t] = 0
    <2>1. MonitorInit
      BY DEF HistoryInit
    <2> QED
      BY <2>1, TablesStart, StartRowTyped DEF HistoryInit
  <1>3. \A j \in Jobs : ~HoldsRow(j)
    BY DEF HistoryInit, MonitorInit, RunnerInit, NoJob, HoldsRow
  <1>4. \A s \in Sessions : ~HoldsCopy(s)
    BY DEF HistoryInit, MonitorInit, SessionsInit, NoSession, HoldsCopy
  <1> QED
    BY <1>1, <1>2, <1>3, <1>4
       DEF ResumeInv, RowStartsOver, SnapshotStartsOver, ResumeUnderWay, Successes

\* Only a check that is stored ends an incident, and only when it counts enough
\* successes: an acknowledgement leaves an active incident active.
LEMMA CheckEndsIncident ==
  ASSUME MonitorInv, AckInv, MonitorNext, NEW t \in Targets,
         ActiveIncidents(t) # {}, ActiveIncidents(t)' = {}
  PROVE  \E j \in Jobs :
           Persist(j) /\ job[j].target = t /\ Decision(j).shouldResolveIncident
  <1>0. TypeInv /\ StepKind
    BY KindsOfSteps DEF MonitorInv, MonitorTypeOK, TypeInv
  <1>1. PICK i \in IncidentIds : Active(incidents[t][i]) /\ ~Active(incidents'[t][i])
    BY DEF ActiveIncidents, Active
  <1>2. ASSUME UNCHANGED incidents PROVE FALSE
    BY <1>1, <1>2
  <1>3. ASSUME NEW a \in Acknowledgers, UpdateIncident(a) PROVE FALSE
    <2>1. CASE t = ack[a].target /\ i = ack[a].id
      <3>1. incidents'[t][i].status \in {ack[a].entity.status, incidents[t][i].status}
        BY <1>3, <2>1, AckSaves
      <3>2. ack[a].entity.status = "ACKNOWLEDGED"
        BY <1>3 DEF AckInv, UpdateIncident
      <3> QED
        BY <1>1, <3>1, <3>2 DEF Active
    <2>2. CASE t # ack[a].target \/ i # ack[a].id
      <3>1. incidents'[t][i] = incidents[t][i]
        BY <1>3, <2>2, AckSaves
      <3> QED
        BY <1>1, <3>1
    <2> QED
      BY <2>1, <2>2
  <1>4. ASSUME NEW j \in Jobs, Persist(j)
        PROVE  job[j].target = t /\ Decision(j).shouldResolveIncident
    <2>1. job[j].target = t
      BY <1>0, <1>4, PersistElsewhere
    <2>2. CASE Decision(j).shouldOpenIncident
      <3> DEFINE k == CHOOSE k \in NewIds(t) : TRUE
      <3>1. NewIds(t) # {} /\ OpenIncidentRow(t, k)
        BY <1>4, <2>1, <2>2 DEF Persist, WriteAll
      <3>2. k \in IncidentIds
        BY <3>1, NewIdIsNew
      <3> HIDE DEF k
      <3>3. incidents'[t][k] = OpenIncident
        BY <1>0, <3>1, <3>2, OpenWritesOneRow
      <3>4. OpenIncident.status = "OPEN"
        BY DEF OpenIncident
      <3>5. k \in ActiveIncidents(t)'
        BY <3>2, <3>3, <3>4 DEF ActiveIncidents, Active
      <3> QED
        BY <3>5
    <2>3. CASE ~Decision(j).shouldOpenIncident /\ ~Decision(j).shouldResolveIncident
      BY <1>2, <1>4, <2>3 DEF Persist, WriteAll
    <2> QED
      BY <2>1, <2>2, <2>3
  <1>5. CASE [Next]_vars
    <2>1. PICK j \in Jobs : Persist(j)
      BY <1>2, <1>5, OthersLeaveTables DEF storeVars
    <2> QED
      BY <1>4, <2>1
  <1>6. ASSUME NEW p \in Procs, NextBatch(p) PROVE FALSE
    BY <1>2, <1>6 DEF NextBatch, storeVars
  <1>7. ASSUME NEW s \in Sessions, UpdateRow(s) PROVE FALSE
    BY <1>2, <1>7 DEF UpdateRow
  <1> QED
    BY <1>0, <1>2, <1>3, <1>5, <1>6, <1>7
       DEF StepKind, FaultOnly, BatchStarts, RowSaved, IncidentSaved, EventRecorded, storeVars

\* What the row of that check counted was regained, or the history says why not.
LEMMA EndingStep ==
  ASSUME MonitorInv, AckInv, ResumeInv, HistoryNext, NEW t \in Targets,
         ActiveIncidents(t) # {}, ActiveIncidents(t)' = {}
  PROVE  regained'[t] >= recoveryThreshold \/ t \in restored'
  <1>0. HistoryTyped /\ MonitorNext
    BY DEF ResumeInv, HistoryNext
  <1>1. PICK j \in Jobs : Persist(j) /\ job[j].target = t /\ Decision(j).shouldResolveIncident
    BY <1>0, CheckEndsIncident
  <1>2. /\ regained'[t] = IF job[j].result = "FAILURE" THEN 0 ELSE Capped(regained[t] + 1)
        /\ t \in restored' <=> job[j].result # "FAILURE" /\ (j \in overtaken \/ t \in restored)
    BY <1>0, <1>1, StoreNoted
  <1>3. TypeInv /\ job[j].result \in CheckResultStatus
    BY <1>1 DEF MonitorInv, MonitorTypeOK, TypeInv, CallInv, Persist
  <1>4. /\ job[j].result # "FAILURE"
        /\ job[j].row.consecutiveSuccesses + 1 >= recoveryThreshold
    BY <1>1, <1>3, DecisionCounts
  <1>5. CASE t \notin restored'
    <2>1. job[j].row.consecutiveSuccesses <= regained[t]
      BY <1>1, <1>2, <1>4, <1>5 DEF ResumeInv, SnapshotStartsOver, HoldsRow, Persist
    <2>2. job[j].row.consecutiveSuccesses \in Nat /\ regained[t] \in Nat
      BY <1>0, <1>3, ThresholdsPositive
         DEF HistoryTyped, TypeInv, TypeOK, RunnerTypeOK, JobRecord, TargetRow
    <2>3. Capped(regained[t] + 1) >= recoveryThreshold
      BY <1>4, <2>1, <2>2, ThresholdsPositive, StoreAssumption DEF Capped
    <2> QED
      BY <1>2, <1>4, <2>3
  <1> QED
    BY <1>5

\* An incident ends only with enough successes stored since the last failure
\* of its target or the last resume, unless a check that had read the row
\* before is stored after, or a save puts older successes back.
THEOREM ResumeCountsAnew == HistorySpec => ResumeStartsOver
  <1> DEFINE Inv == MonitorInv /\ MonitorTrailInv /\ ResumeInv
  <1>1. HistoryInit => Inv
    BY MonitorStarts, MonitorTrailStarts, ResumeStarts DEF HistoryInit
  <1>2. Inv /\ [HistoryNext]_historyVars => Inv'
    BY HistorySteps, MonitorInvStep, MonitorTrailStep, ResumeStep
  <1>3. ASSUME Inv, [HistoryNext]_historyVars
        PROVE  [\A t \in Targets :
                  HasActiveIncident(t) /\ ~HasActiveIncident(t)'
                    => regained'[t] >= recoveryThreshold \/ t \in restored']_historyVars
    BY <1>3, EndingStep DEF HasActiveIncident, MonitorTrailInv
  <1> QED
    BY <1>1, <1>2, <1>3, PTL DEF HistorySpec, ResumeStartsOver
=============================================================================
