--------------------------- MODULE TargetsService ---------------------------
(***************************************************************************)
(* TargetsService: the operator's requests pause, resume, archive, update  *)
(* and check-now, as they touch the columns of Store.                      *)
(*                                                                         *)
(* The first four read the row, decide on that copy, change the copy and   *)
(* call TypeORM's save, which reads the row again and writes the columns   *)
(* that differ.  Nothing locks the row in between, so each request is four *)
(* steps:                                                                  *)
(*                                                                         *)
(*   idle -> mutated -> loaded -> saved -> idle                            *)
(*                                                                         *)
(* check-now reads, records its audit event and calls runForTarget; the    *)
(* call itself is added where this module meets CheckRunner (Monitor).     *)
(***************************************************************************)
EXTENDS Store

CONSTANTS
  Sessions,      \* slots for concurrent requests
  Operations,    \* the requests considered
  MaxRequests    \* bound: how many requests are made

AllOperations == {"pause", "resume", "archive", "update", "check-now"}

ASSUME SessionsAssumption ==
  /\ Operations \subseteq AllOperations
  /\ MaxRequests \in Nat

VARIABLES session, requests

sessionVars == <<session, requests>>

SessionState ==
  {"idle", "mutated", "loaded", "saved", "requested", "calling", "running"}

NoSession ==
  [pc |-> "idle", op |-> "none", target |-> NoTarget, entity |-> FreshRow, loaded |-> FreshRow]

SessionRecord ==
  [ pc     : SessionState,
    op     : Operations \cup {"none"},
    target : Targets \cup {NoTarget},
    entity : TargetRow,      \* the copy in memory, already changed
    loaded : TargetRow ]     \* the row as save read it again

\* Types of the target requests under way.
SessionsTypeOK ==
  /\ session \in [Sessions -> SessionRecord]
  /\ requests \in 0..MaxRequests

SessionsInit ==
  /\ session = [s \in Sessions |-> NoSession]
  /\ requests = 0

\* The checks a request makes on the row it found; a request that fails them
\* is answered with 409 and changes nothing.
Accepts(op, row) ==
  CASE op = "pause"     -> row.enabled
    [] op = "resume"    -> ~row.archived /\ ~row.enabled
    [] op = "archive"   -> TRUE
    [] op = "update"    -> ~row.archived
    [] op = "check-now" -> ~row.archived /\ row.enabled

\* Faulty variant: resume leaves the status as it is.
ResumeKeepsStatus(op, row) ==
  CASE op = "pause"   -> [row EXCEPT !.enabled = FALSE, !.status = "PAUSED"]
    [] op = "resume"  -> [row EXCEPT !.enabled = TRUE]
    [] op = "archive" -> [row EXCEPT !.archived = TRUE, !.enabled = FALSE,
                                     !.status = "PAUSED"]
    [] OTHER          -> row

\* What the request does to its copy.  An update changes columns that are
\* not modelled (name, url, limits), and saves the whole copy all the same.
Mutated(op, row) ==
  CASE op = "pause"   -> [row EXCEPT !.enabled = FALSE, !.status = "PAUSED"]
    [] op = "resume"  -> [row EXCEPT !.enabled = TRUE, !.status = "UNKNOWN",
                                     !.consecutiveFailures = 0,
                                     !.consecutiveSuccesses = 0]
    [] op = "archive" -> [row EXCEPT !.archived = TRUE, !.enabled = FALSE,
                                     !.status = "PAUSED"]
    [] OTHER          -> row

AuditActionOf(op) ==
  CASE op = "pause"     -> "TARGET_PAUSED"
    [] op = "resume"    -> "TARGET_RESUMED"
    [] op = "archive"   -> "TARGET_ARCHIVED"
    [] op = "update"    -> "TARGET_UPDATED"
    [] op = "check-now" -> "MANUAL_CHECK_REQUESTED"

Goto(s, pc) == session' = [session EXCEPT ![s].pc = pc]

\* findOne, the guards, and the changes to the copy.
FindOne(s, op, t) ==
  /\ session[s].pc = "idle"
  /\ requests < MaxRequests
  /\ Accepts(op, targets[t])
  /\ requests' = requests + 1
  /\ session' = [session EXCEPT ![s] =
       [ pc     |-> IF op = "check-now" THEN "requested" ELSE "mutated",
         op     |-> op,
         target |-> t,
         entity |-> Mutated(op, targets[t]),
         loaded |-> FreshRow ]]
  /\ UNCHANGED storeVars

\* update's 400, after the lookup of a new url: nothing is saved.
RefuseUpdate(s) ==
  /\ session[s].pc = "mutated" /\ session[s].op = "update"
  /\ session' = [session EXCEPT ![s] = NoSession]
  /\ UNCHANGED <<storeVars, requests>>

\* save reads the row again.
LoadRow(s) ==
  /\ session[s].pc = "mutated"
  /\ session' = [session EXCEPT ![s].pc = "loaded",
                                ![s].loaded = targets[session[s].target]]
  /\ UNCHANGED <<storeVars, requests>>

\* Faulty variant: the UPDATE asks for an unchanged row, and nobody retries.
UpdateIfUnchanged(s) ==
  /\ session[s].pc = "loaded"
  /\ targets[session[s].target] = session[s].loaded
  /\ targets' = [targets EXCEPT ![session[s].target] = session[s].entity]
  /\ session' = [session EXCEPT ![s].pc = "saved",
                                ![s].entity = FreshRow, ![s].loaded = FreshRow]
  /\ UNCHANGED <<incidents, results, audit, requests>>

\* save's UPDATE.
UpdateRow(s) ==
  /\ session[s].pc = "loaded"
  /\ targets' = [targets EXCEPT ![session[s].target] =
                   SaveRow(session[s].entity, session[s].loaded, @)]
  /\ session' = [session EXCEPT ![s].pc = "saved",
                                ![s].entity = FreshRow, ![s].loaded = FreshRow]
  /\ UNCHANGED <<incidents, results, audit, requests>>

\* audit.record, outside any transaction: after a save it ends the request,
\* in check-now it comes before the call.
RecordAudit(s) ==
  /\ session[s].pc \in {"saved", "requested"}
  /\ audit' = audit \cup {<<AuditActionOf(session[s].op), session[s].target>>}
  /\ session' = [session EXCEPT ![s] =
                   IF @.op = "check-now" THEN [@ EXCEPT !.pc = "calling"] ELSE NoSession]
  /\ UNCHANGED <<targets, incidents, results, requests>>

SessionStep(s) == RefuseUpdate(s) \/ LoadRow(s) \/ UpdateRow(s) \/ RecordAudit(s)

SessionsNext ==
  \E s \in Sessions :
    \/ \E op \in Operations, t \in Targets : FindOne(s, op, t)
    \/ SessionStep(s)
=============================================================================
