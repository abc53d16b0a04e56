------------------------------ MODULE DueQueue ------------------------------
(***************************************************************************)
(* SchedulerService.findDueTargets in full: the due targets in the order   *)
(* of lastCheckedAt, those never checked first, and only the first         *)
(* DueLimit of them.  Scheduler leaves the list open: every behaviour here  *)
(* is one of it (each action below is one of Scheduler's, constrained).    *)
(*                                                                         *)
(* Only the order of times matters.  timeline is that order, as a set of   *)
(* pairs <<x, y>>: the time of x is not after that of y.  A target stands   *)
(* there for its lastCheckedAt, and a check under way for the checkedAt it  *)
(* will store.  No two checks begin in the same millisecond.  Whether a     *)
(* target's interval has elapsed is left open, except that a target never  *)
(* checked is due.                                                         *)
(***************************************************************************)
EXTENDS Scheduler

CONSTANT DueLimit   \* LIMIT of the query

ASSUME DueLimitAssumption == DueLimit \in Nat \ {0}

\* A time belongs to a row or to a call.
ASSUME MomentsAssumption == Targets \cap Jobs = {}

VARIABLE timeline

dueVars == <<schedulerVars, timeline>>

Dated(x) == <<x, x>> \in timeline

NeverChecked(t) == ~Dated(t)

\* NULLS FIRST, then the oldest.
Before(t, u) ==
  \/ NeverChecked(t) /\ ~NeverChecked(u)
  \/ t # u /\ <<t, u>> \in timeline

\* Faulty variant: ordered the other way.
NewestFirst(elapsed, found) ==
  LET candidates == {t \in elapsed : Schedulable(targets[t])}
  IN  /\ found \subseteq candidates
      /\ Cardinality(found) <= DueLimit
      /\ Cardinality(found) < DueLimit => found = candidates
      /\ \A t \in found, u \in candidates \ found : ~Before(t, u)

\* Can the query return these targets, if the intervals of those have elapsed?
FindDueTargets(elapsed, found) ==
  LET candidates == {t \in elapsed : Schedulable(targets[t])}
  IN  /\ found \subseteq candidates
      /\ Cardinality(found) <= DueLimit
      /\ Cardinality(found) < DueLimit => found = candidates
      /\ \A t \in found, u \in candidates \ found : ~Before(u, t)

QueryOldest(p, elapsed) ==
  /\ \A t \in Targets : NeverChecked(t) => t \in elapsed
  /\ \E found \in SUBSET elapsed : FindDueTargets(elapsed, found) /\ QueryDue(p, found)
  /\ UNCHANGED timeline

-----------------------------------------------------------------------------
(* What the steps of a check do to the times.                              *)

Without(gone) == {pair \in timeline : pair[1] \notin gone /\ pair[2] \notin gone}

Latest(j) ==
  timeline \cup {<<x, j>> : x \in {y \in Targets \cup Jobs : Dated(y)} \cup {j}}

\* checkTarget notes when it began.
StartCheck(j) ==
  /\ ReadTarget(j)
  /\ timeline' = IF job'[j].pc = "checking" THEN Latest(j) ELSE timeline

Stored(x, j) == IF x = j THEN job[j].target ELSE x

\* The committed check leaves its checkedAt in the row.
StoreCheck(j) ==
  /\ Persist(j)
  /\ timeline' = {<<Stored(pair[1], j), Stored(pair[2], j)>> :
                    pair \in Without({job[j].target})}

\* A check that is not stored leaves no time.
LoseCheck(j) ==
  /\ UniqueViolation(j) \/ StatementFails(j) \/ AuditInsertFails(j)
  /\ timeline' = Without({j})

TimedStep(j) ==
  \/ StartCheck(j)
  \/ (CheckTarget(j) \/ FindActiveIncident(j) \/ Release(j)) /\ UNCHANGED timeline
  \/ StoreCheck(j)

-----------------------------------------------------------------------------
DueInit == SchedulerOnlyInit /\ timeline = {}

DueTick(p) ==
  \/ \E elapsed \in SUBSET Targets : QueryOldest(p, elapsed)
  \/ (NextBatch(p) \/ EndTick(p)) /\ UNCHANGED timeline

DueNext ==
  \/ \E p \in Procs :
       \/ (BeginTick(p) \/ QueryFails(p)) /\ UNCHANGED timeline
       \/ DueTick(p)
       \/ /\ RunnerCrash(p) /\ SchedulerCrash(p)
          /\ timeline' = Without({j \in Jobs : ProcOf[j] = p})
  \/ /\ \E j \in Jobs : TimedStep(j) \/ LoseCheck(j)
     /\ UNCHANGED tickVars
  \/ /\ ManualCheck \/ \E t \in Targets : Flip(t)
     /\ UNCHANGED <<tickVars, timeline>>

\* The interval keeps firing, calls and ticks go on, and the interval of a
\* target elapses again and again: nothing says that the list has room for it.
DueFairness ==
  /\ \A j \in Jobs : WF_dueVars((TimedStep(j) \/ (UniqueViolation(j) /\ LoseCheck(j)))
                                  /\ UNCHANGED tickVars)
  /\ \A p \in Procs :
       WF_dueVars(BeginTick(p) /\ UNCHANGED timeline) /\ WF_dueVars(DueTick(p))
  /\ \A t \in Targets :
       SF_dueVars(\E p \in Procs, elapsed \in SUBSET Targets :
                    t \in elapsed /\ Schedulable(targets[t]) /\ QueryOldest(p, elapsed))

DueSpec == DueInit /\ [][DueNext]_dueVars /\ DueFairness

\* The times are in one order, a call has one while it may still store it, and
\* the row's is before that of a check of it under way: lastCheckedAt only moves
\* forward, so the oldest of the list is the one longest unchecked.
TimelineOK ==
  /\ \A x, y \in Targets \cup Jobs : Dated(x) /\ Dated(y) /\ x # y =>
       (Before(x, y) <=> ~Before(y, x))
  /\ \A x, y, z \in Targets \cup Jobs : Dated(x) /\ Dated(y) /\ Dated(z) =>
       (Before(x, y) /\ Before(y, z) => Before(x, z))
  /\ \A j \in Jobs :
       /\ Dated(j) <=> job[j].pc \in {"checking", "checked", "decided"}
       /\ Dated(j) => ~Before(j, job[j].target)

\* However many targets are due and however few the list holds, a target that
\* stays schedulable is checked again and again.
ServesEveryTarget ==
  \A t \in Targets :
    <>[]Schedulable(targets[t]) =>
      []<>(\E j \in Jobs : job[j].target = t /\ job[j].pc = "checked")
=============================================================================
