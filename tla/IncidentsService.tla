-------------------------- MODULE IncidentsService --------------------------
(***************************************************************************)
(* IncidentsService.acknowledge: an operator takes note of an incident.    *)
(* Like the target requests it reads the row, changes the copy and calls   *)
(* save, which reads again and writes the columns that differ:             *)
(*                                                                         *)
(*   idle -> mutated -> loaded -> saved -> idle                            *)
(***************************************************************************)
EXTENDS Store

CONSTANTS
  Acknowledgers,   \* slots for concurrent acknowledgements
  MaxAcks          \* bound: how many acknowledgements are made

ASSUME AcksAssumption == MaxAcks \in Nat

VARIABLES ack, acks

ackVars == <<ack, acks>>

NoAck ==
  [pc |-> "idle", target |-> NoTarget, id |-> NoIncident,
   entity |-> AbsentIncident, loaded |-> AbsentIncident]

AckRecord ==
  [ pc     : {"idle", "mutated", "loaded", "saved"},
    target : Targets \cup {NoTarget},
    id     : IncidentIds \cup {NoIncident},
    entity : IncidentRow,
    loaded : IncidentRow ]

\* Types of the acknowledgements under way.
AcksTypeOK ==
  /\ ack \in [Acknowledgers -> AckRecord]
  /\ acks \in 0..MaxAcks

AcksInit ==
  /\ ack = [a \in Acknowledgers |-> NoAck]
  /\ acks = 0

\* findOne, the guards (RESOLVED and ACKNOWLEDGED get 409), the changes.
FindIncident(a, t, i) ==
  /\ ack[a].pc = "idle"
  /\ acks < MaxAcks
  /\ incidents[t][i].status = "OPEN"
  /\ acks' = acks + 1
  /\ ack' = [ack EXCEPT ![a] =
       [ NoAck EXCEPT !.pc = "mutated", !.target = t, !.id = i,
           !.entity = [incidents[t][i] EXCEPT !.status = "ACKNOWLEDGED",
                                              !.acknowledgedAt = TRUE] ]]
  /\ UNCHANGED storeVars

LoadIncident(a) ==
  /\ ack[a].pc = "mutated"
  /\ ack' = [ack EXCEPT ![a].pc = "loaded",
                        ![a].loaded = incidents[ack[a].target][ack[a].id]]
  /\ UNCHANGED <<storeVars, acks>>

\* The row save's UPDATE asks for.
SavedIncident(a) ==
  SaveRow(ack[a].entity, ack[a].loaded, incidents[ack[a].target][ack[a].id])

\* Faulty variant: the index guards inserts only.
IndexNeverRefuses(a) == FALSE

IndexRefuses(a) ==
  Active(SavedIncident(a)) /\ ~IndexAllows(ack[a].target, ack[a].id)

UpdateIncident(a) ==
  /\ ack[a].pc = "loaded"
  /\ ~IndexRefuses(a)
  /\ incidents' = [incidents EXCEPT ![ack[a].target][ack[a].id] = SavedIncident(a)]
  /\ ack' = [ack EXCEPT ![a].pc = "saved",
               ![a].entity = AbsentIncident, ![a].loaded = AbsentIncident]
  /\ UNCHANGED <<targets, results, audit, acks>>

\* The save would make a second incident of the target active: it is
\* answered with 500 and changes nothing.
UpdateRefused(a) ==
  /\ ack[a].pc = "loaded"
  /\ IndexRefuses(a)
  /\ ack' = [ack EXCEPT ![a] = NoAck]
  /\ UNCHANGED <<storeVars, acks>>

RecordAck(a) ==
  /\ ack[a].pc = "saved"
  /\ audit' = audit \cup {<<"INCIDENT_ACKNOWLEDGED", ack[a].target, ack[a].id>>}
  /\ ack' = [ack EXCEPT ![a] = NoAck]
  /\ UNCHANGED <<targets, incidents, results, acks>>

AckStep(a) ==
  LoadIncident(a) \/ UpdateIncident(a) \/ UpdateRefused(a) \/ RecordAck(a)

AcksNext ==
  \E a \in Acknowledgers :
    \/ \E t \in Targets, i \in IncidentIds : FindIncident(a, t, i)
    \/ AckStep(a)
=============================================================================
