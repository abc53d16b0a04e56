--------------------------- MODULE RequestHistory ---------------------------
(***************************************************************************)
(* Monitor with a history of the saves.  Nothing in the code serialises    *)
(* the operators' requests, with one another or with the checks, so each   *)
(* may save a copy that is out of date.  The history records whose copy    *)
(* is, and which rows bear its mark:                                       *)
(*                                                                         *)
(*  - outdated, overwritten: a request saves its copy of a row that        *)
(*    another request has changed since (a lost update);                   *)
(*  - overtaken, restored: a check or a save brings back successes from    *)
(*    before the last failure or resume, which regained does not count.    *)
(*                                                                         *)
(* It adds no behaviour: the steps are those of Monitor.                   *)
(***************************************************************************)
EXTENDS Monitor

VARIABLES
  outdated,      \* requests whose row another request changed meanwhile
  overwritten,   \* targets that such a request has saved
  regained,      \* successes stored since the last failure or resume
  overtaken,     \* checks that read the row before that failure or resume
  restored       \* targets whose counter has older successes in it

lostVars == <<outdated, overwritten>>
countVars == <<regained, overtaken, restored>>
historyVars == <<allVars, lostVars, countVars>>

\* Steps as the history sees them.
Stores(j, t) == job[j].target = t /\ Persist(j)
Saves(s, t) == session[s].target = t /\ UpdateRow(s)
Changes(s, t) == Saves(s, t) /\ targets'[t] # targets[t]

SavesResume(t) == \E s \in Sessions : Saves(s, t) /\ session[s].op = "resume"
StoresFailure(t) == \E j \in Jobs : Stores(j, t) /\ job[j].result = "FAILURE"
StartsOver(t) == SavesResume(t) \/ StoresFailure(t)

HoldsCopy(s) == session[s].pc \in {"mutated", "loaded"}
HoldsRow(j) == job[j].pc \in {"checking", "checked", "decided"}

Outdated(s) ==
  /\ HoldsCopy(s)'
  /\ s \in outdated \/ \E u \in Sessions \ {s} : Changes(u, session[s].target)

\* A pause, resume or archive that is up to date sets the row right again.
Overwritten(t) ==
  \/ \E s \in outdated : Changes(s, t)
  \/ /\ t \in overwritten
     /\ ~\E s \in Sessions \ outdated : Changes(s, t) /\ session[s].op # "update"

Regained(t) ==
  IF StartsOver(t) THEN 0
  ELSE IF \E j \in Jobs : Stores(j, t) THEN Capped(regained[t] + 1) ELSE regained[t]

Overtaken(j) ==
  /\ HoldsRow(j)'
  /\ j \in overtaken \/ (HoldsRow(j) /\ StartsOver(job[j].target))

\* A save restores when it writes more successes than the row had; a resume's
\* save when a check stored one after the SELECT that found none.
SaveRestores(s, t) ==
  /\ Saves(s, t)
  /\ IF session[s].op = "resume"
     THEN session[s].loaded.consecutiveSuccesses < targets[t].consecutiveSuccesses
     ELSE targets[t].consecutiveSuccesses < targets'[t].consecutiveSuccesses

Restored(t) ==
  \/ \E j \in overtaken : Stores(j, t) /\ job[j].result # "FAILURE"
  \/ \E s \in Sessions : SaveRestores(s, t)
  \/ t \in restored /\ ~StartsOver(t)

HistoryInit ==
  /\ MonitorInit
  /\ outdated = {} /\ overwritten = {}
  /\ regained = [t \in Targets |-> 0]
  /\ overtaken = {} /\ restored = {}

HistoryNext ==
  /\ MonitorNext
  /\ outdated' = {s \in Sessions : Outdated(s)}
  /\ overwritten' = {t \in Targets : Overwritten(t)}
  /\ regained' = [t \in Targets |-> Regained(t)]
  /\ overtaken' = {j \in Jobs : Overtaken(j)}
  /\ restored' = {t \in Targets : Restored(t)}

HistorySpec == HistoryInit /\ [][HistoryNext]_historyVars /\ MonitorFairness

-----------------------------------------------------------------------------
(* Properties.                                                             *)

\* A target that shows PAUSED is not enabled: otherwise the due query of
\* scheduler.service.ts would leave out, for good, a target the operators
\* believe is running.  The only way there is a request that saves a copy
\* another request has outdated; no check in flight leads there, however the
\* checks and the requests of a target interleave.
PausedMeansDisabled ==
  \A t \in Targets :
    targets[t].status = "PAUSED" /\ targets[t].enabled => t \in overwritten

\* An archived target stays archived and disabled ("Archived targets cannot
\* be resumed", targets.service.ts).  Again the only way around the guards of
\* update and resume is an outdated copy; a check that was in flight when the
\* target was archived does not bring it back.
ArchivedIsFinal ==
  [][\A t \in Targets :
       targets[t].archived
         => (targets'[t].archived /\ ~targets'[t].enabled) \/ t \in overwritten']_historyVars

\* An incident ends only with RECOVERY_THRESHOLD successes stored since the
\* last failure or resume (docs/TROUBLESHOOTING.md: "after resume the counters
\* start from zero and two real successes are still required"), whatever the
\* counters were before.  There are two ways around it, and no third: a check
\* that had read the row before and is stored after, and a save that puts
\* older counters back, or that leaves out resume's zero because the row still
\* had it when save read it.
ResumeStartsOver ==
  [][\A t \in Targets :
       HasActiveIncident(t) /\ ~HasActiveIncident(t)'
         => regained'[t] >= recoveryThreshold \/ t \in restored']_historyVars

\* A target that may be checked gets the verdict its service deserves, whatever
\* requests overlap before, unless the due query leaves it out because one of
\* them has overwritten another's change of the row.
ConvergesUnlessOverwritten ==
  \A t \in Targets :
    LET Fit == /\ Checkable(targets[t])
               /\ targets[t].status = "PAUSED" => t \notin overwritten
    IN  /\ <>[](Fit /\ healthy[t]) => <>[](targets[t].status = "UP" /\ ~HasActiveIncident(t))
        /\ <>[](Fit /\ ~healthy[t]) => <>[](targets[t].status = "DOWN" /\ HasActiveIncident(t))
=============================================================================
