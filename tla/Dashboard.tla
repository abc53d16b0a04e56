----------------------------- MODULE Dashboard -----------------------------
(***************************************************************************)
(* DashboardService, and the lists of TargetsService: what their queries   *)
(* over monitor_targets, incidents and check_results return.  A fleet maps *)
(* each target to its status and archived flag; incidents are numbered in  *)
(* the order in which they started.                                        *)
(***************************************************************************)
EXTENDS Metrics, HealthState

CONSTANTS
  Targets,
  ListOrder,       \* the place of each target in the list, by name
  ActiveTake,      \* how many active incidents the panel takes
  RecoveryTake,    \* how many recent recoveries it takes
  RecoveryHours    \* how recent

ASSUME ListAssumption ==
  /\ IsFiniteSet(Targets)
  /\ ListOrder \in [Targets -> Int]
  /\ \A t, u \in Targets : ListOrder[t] = ListOrder[u] => t = u

ASSUME PanelAssumption == ActiveTake \in Nat /\ RecoveryTake \in Nat

\* Faulty variant: archived targets are counted too.
DistributionOfAll(fleet) ==
  [s \in TargetStatus |-> Cardinality({t \in Targets : fleet[t].status = s})]

GetStatusDistribution(fleet) ==
  [s \in TargetStatus |->
     Cardinality({t \in Targets : ~fleet[t].archived /\ fleet[t].status = s})]

CountTargets(fleet) == Cardinality({t \in Targets : ~fleet[t].archived})

Unresolved(incidents) == {i \in DOMAIN incidents : incidents[i].status \in {"OPEN", "ACKNOWLEDGED"}}

\* The first n of a set, as ORDER BY with LIMIT takes them: ahead[x] are those
\* that come before x.
Take(n, S, ahead) == {x \in S : Cardinality(ahead[x]) < n}

ActivePanel(incidents) ==
  LET active == Unresolved(incidents)
  IN  Take(ActiveTake, active, [i \in active |-> {k \in active : k > i}])

\* Ties of resolvedAt are broken by the number here.
RecoveryPanel(incidents, now) ==
  LET recent == {i \in DOMAIN incidents : /\ incidents[i].status = "RESOLVED"
                                          /\ incidents[i].resolvedAt >= now - RecoveryHours}
      resolvedAt(i) == incidents[i].resolvedAt
      Later(k, i) == \/ resolvedAt(k) > resolvedAt(i)
                     \/ resolvedAt(k) = resolvedAt(i) /\ k > i
  IN  Take(RecoveryTake, recent, [i \in recent |-> {k \in recent : Later(k, i)}])

\* findAll: the targets of the list, which leaves archived ones out (its other
\* filters narrow it in the same way), and those of one page of it.
Listed(fleet) == {t \in Targets : ~fleet[t].archived}

ListItems(fleet, page, limit) ==
  LET ahead == [t \in Listed(fleet) |-> {u \in Listed(fleet) : ListOrder[u] < ListOrder[t]}]
  IN  Take(page * limit, Listed(fleet), ahead) \ Take((page - 1) * limit, Listed(fleet), ahead)

\* listChecks: the latest checks of a target.
ListChecks(rows, scope, limit) ==
  LET found == {r \in rows : r.target \in scope}
  IN  Take(limit, found, [r \in found |-> {q \in found : q.at > r.at}])

CountChecks(rows, scope) == Cardinality({r \in rows : r.target \in scope})
=============================================================================
