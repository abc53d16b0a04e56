----------------------------- MODULE Telemetry -----------------------------
(***************************************************************************)
(* What the pages of the product read while monitoring writes: checks      *)
(* begin and are stored later under the time they began, the retention     *)
(* job deletes old ones, targets and incidents change, and a page is       *)
(* answered by several queries, each of which sees the tables of its own   *)
(* moment.                                                                 *)
(***************************************************************************)
EXTENDS Dashboard

CONSTANTS
  RetentionDays,   \* the setting checks.retentionDays
  DayTicks,        \* ticks of a day
  DayWindow,       \* the window "24h"
  LatencyValues,
  ListLimit,       \* the limit of the list's pages
  Histories,       \* contents of check_results when the clock starts
  StartTime,       \* where it starts
  MaxTime,         \* bound: ticks of the clock
  MaxEvents        \* bound: checks begun, and changes of targets and incidents

MaxOf(a, b) == IF a > b THEN a ELSE b

\* The retention is as long as the longest window, as the defaults are (30
\* days, 30d).
ASSUME RetentionAssumption ==
  /\ RetentionDays \in Int /\ DayTicks \in Nat
  /\ \A w \in Windows : WindowHours[w] <= MaxOf(1, RetentionDays) * DayTicks

CheckRow ==
  [target : Targets, at : Nat, status : CheckResultStatus, latencyMs : Nat]

Id(r) == <<r.target, r.at>>

\* Check results are told apart by target and time: a target has one check at a time.
DistinctIds(rows) == \A r, q \in rows : Id(r) = Id(q) => r = q

ASSUME TelemetryAssumption ==
  /\ DayWindow \in Windows
  /\ LatencyValues \subseteq Nat
  /\ ListLimit \in Nat \ {0}
  /\ StartTime \in Nat /\ MaxTime \in Int /\ MaxEvents \in Int
  /\ \A rows \in Histories : rows \subseteq CheckRow /\ IsFiniteSet(rows) /\ DistinctIds(rows)

VARIABLES
  now,
  checks,      \* check_results
  running,     \* when the check of each target under way began, or NULL
  fleet,       \* status and archived of monitor_targets
  incidents,   \* in the order they started
  page,        \* the page being answered
  events       \* history: how many checks and changes there were

vars == <<now, checks, running, fleet, incidents, page, events>>
tables == <<checks, running, fleet, incidents>>

\* The queries of a page, those of one Promise.all in any order.
Queries(kind) ==
  CASE kind = "metrics" -> {"uptime", "latency", "uptimeSeries", "latencySeries"}
    [] kind = "latency" -> {"latency", "latencySeries"}
    [] kind = "summary" -> {"distribution", "openIncidents", "uptime", "totalTargets"}
    [] kind = "panels"  -> {"active", "recoveries"}
    [] kind = "list"    -> {"items", "total", "rollup"}
    [] kind = "checks"  -> {"checks", "checkCount"}

\* Those of the lists wait for each other.
After(query) ==
  CASE query = "total"      -> {"items"}
    [] query = "rollup"     -> {"items", "total"}
    [] query = "checkCount" -> {"checks"}
    [] OTHER                -> {}

NoPage ==
  [kind |-> "none", window |-> "none", scope |-> {}, at |-> 0, answers |-> <<>>,
   unsettled |-> {}, changed |-> {}]

Init ==
  /\ now = StartTime
  /\ checks \in Histories
  /\ running = [t \in Targets |-> NULL]
  /\ fleet = [t \in Targets |-> [status |-> "UNKNOWN", archived |-> FALSE]]
  /\ incidents = <<>>
  /\ page = NoPage
  /\ events = 0

-----------------------------------------------------------------------------
(* What monitoring does to the tables.                                     *)

Open == page.kind # "none"

\* The page's history: checks its queries may see differently (the list of
\* checks has no upper bound of time), and targets and incidents that changed
\* since it began.
Unsettle(ids) == page' = IF Open THEN [page EXCEPT !.unsettled = @ \cup ids] ELSE page
Disturb(x) == page' = IF Open THEN [page EXCEPT !.changed = @ \cup {x}] ELSE page

Tick ==
  /\ now < MaxTime
  /\ now' = now + 1
  /\ UNCHANGED <<tables, page, events>>

\* A check begins (of a target, the interval keeps them apart).
StartCheck(t) ==
  /\ events < MaxEvents
  /\ running[t] = NULL
  /\ <<t, now>> \notin {Id(r) : r \in checks}
  /\ running' = [running EXCEPT ![t] = now]
  /\ events' = events + 1
  /\ Unsettle(IF now = page.at \/ page.kind = "checks" THEN {<<t, now>>} ELSE {})
  /\ UNCHANGED <<now, checks, fleet, incidents>>

\* Its result is stored, under the time it began, or it is lost.
EndCheck(t) ==
  /\ running[t] # NULL
  /\ running' = [running EXCEPT ![t] = NULL]
  /\ \/ UNCHANGED checks
     \/ \E status \in CheckResultStatus, latency \in LatencyValues :
          checks' = checks \cup
            {[target |-> t, at |-> running[t], status |-> status, latencyMs |-> latency]}
  /\ UNCHANGED <<now, fleet, incidents, page, events>>

\* Faulty variant: the check that is as old as the cutoff goes too.
PrunedWithCutoff(cutoff) == {r \in checks : r.at <= cutoff}

Pruned(cutoff) == {r \in checks : r.at < cutoff}

\* pruneOldChecks, by the daily job or by hand.
PruneOldChecks ==
  LET gone == Pruned(now - MaxOf(1, RetentionDays) * DayTicks)
  IN  /\ gone # {}
      /\ checks' = checks \ gone
      /\ Unsettle({Id(r) : r \in gone})
      /\ UNCHANGED <<now, running, fleet, incidents, events>>

Change ==
  /\ events < MaxEvents
  /\ events' = events + 1
  /\ UNCHANGED <<now, checks, running>>

\* (No query reads the status of an archived target: it is PAUSED here, though a
\* check under way may have left another.)
TargetChanges(t) ==
  /\ Change
  /\ \E status \in TargetStatus, archived \in BOOLEAN :
       /\ archived => status = "PAUSED"
       /\ fleet' = [fleet EXCEPT ![t] = [status |-> status, archived |-> archived]]
  /\ Disturb(t)
  /\ UNCHANGED incidents

IncidentOpens ==
  /\ Change
  /\ incidents' = Append(incidents, [status |-> "OPEN", resolvedAt |-> NULL])
  /\ Disturb(Len(incidents'))
  /\ UNCHANGED fleet

IncidentChanges(i) ==
  /\ Change
  /\ incidents[i].status # "RESOLVED"
  /\ \E status \in {"ACKNOWLEDGED", "RESOLVED"} :
       incidents' = [incidents EXCEPT
         ![i] = [status |-> status, resolvedAt |-> IF status = "RESOLVED" THEN now ELSE NULL]]
  /\ Disturb(i)
  /\ UNCHANGED fleet

-----------------------------------------------------------------------------
(* A page.                                                                 *)

Begin(kind, w, scope) ==
  /\ ~Open
  /\ page' = [NoPage EXCEPT
       !.kind = kind, !.window = w, !.scope = scope, !.at = now,
       !.unsettled = {<<t, running[t]>> : t \in {u \in Targets : running[u] # NULL}}]
  /\ UNCHANGED <<now, tables, events>>

\* The requests: metrics of a target, the dashboard's latency, its summary and
\* incident panels, and the lists of targets and of a target's checks.
BeginPage ==
  \/ \E w \in Windows : \/ \E t \in Targets : Begin("metrics", w, {t})
                        \/ Begin("latency", w, Targets)
  \/ \E t \in Targets : Begin("checks", DayWindow, {t})
  \/ \E kind \in {"summary", "panels", "list"} : Begin(kind, DayWindow, Targets)

Answer(query) ==
  LET w == page.window scope == page.scope at == page.at
  IN  CASE query = "uptime"        -> GetUptime(checks, scope, w, at)
        [] query = "latency"       -> GetLatency(checks, scope, w, at)
        [] query = "uptimeSeries"  -> GetUptimeSeries(checks, scope, w, at)
        [] query = "latencySeries" -> GetLatencySeries(checks, scope, w, at)
        [] query = "distribution"  -> GetStatusDistribution(fleet)
        [] query = "openIncidents" -> Cardinality(Unresolved(incidents))
        [] query = "totalTargets"  -> CountTargets(fleet)
        [] query = "active"        -> ActivePanel(incidents)
        [] query = "recoveries"    -> RecoveryPanel(incidents, at)
        [] query = "items"         -> ListItems(fleet, 1, ListLimit)
        [] query = "total"         -> Cardinality(Listed(fleet))
        [] query = "rollup"        -> GetUptimeByTarget(checks, page.answers["items"], w, now)
        [] query = "checks"        -> ListChecks(checks, scope, ListLimit)
        [] query = "checkCount"    -> CountChecks(checks, scope)

\* The next query of the page returns.
RunQuery ==
  /\ Open
  /\ \E query \in Queries(page.kind) \ DOMAIN page.answers :
       /\ After(query) \subseteq DOMAIN page.answers
       /\ page' = [page EXCEPT !.answers =
                    [q \in DOMAIN @ \cup {query} |-> IF q = query THEN Answer(q) ELSE @[q]]]
  /\ UNCHANGED <<now, tables, events>>

Complete == Open /\ DOMAIN page.answers = Queries(page.kind)

EndPage ==
  /\ Complete
  /\ page' = NoPage
  /\ UNCHANGED <<now, tables, events>>

Next ==
  \/ Tick
  \/ \E t \in Targets : StartCheck(t) \/ EndCheck(t) \/ TargetChanges(t)
  \/ PruneOldChecks
  \/ IncidentOpens
  \/ \E i \in DOMAIN incidents : IncidentChanges(i)
  \/ BeginPage
  \/ RunQuery
  \/ EndPage

Spec == Init /\ [][Next]_vars

-----------------------------------------------------------------------------
(* Properties.                                                             *)

Near(a, b, slack) == a - b <= slack /\ b - a <= slack

SumOver(series, field) == SumFunction([b \in DOMAIN series |-> series[b][field]])

\* The parts of a page count the same checks, though each is a query of its
\* own and checks are stored and deleted between them: they may differ only
\* by checks that were under way, or were deleted, while the page was answered.
PagePiecesAgree ==
  LET slack == Cardinality(page.unsettled)
      answers == page.answers
  IN  /\ Complete /\ page.kind \in {"metrics", "latency"} =>
           Near(SumOver(answers["latencySeries"], "sampleCount"),
                answers["latency"].sampleCount, slack)
      /\ Complete /\ page.kind = "checks" =>
           Near(Cardinality(answers["checks"]), Min({ListLimit, answers["checkCount"]}), slack)
      /\ Complete /\ page.kind = "metrics" =>
           /\ Near(SumOver(answers["uptimeSeries"], "totalChecks"),
                   answers["uptime"].totalChecks, slack)
           /\ Near(answers["latency"].sampleCount, answers["uptime"].successfulChecks, slack)

\* A chart has no more points than its window has buckets, and one, its first
\* being cut by the window ("a chart never exceeds ~30 points",
\* metrics.service.ts), in order of time and inside the window.
SeriesFitsChart ==
  \A w \in Windows :
    LET series == GetUptimeSeries(checks, Targets, w, now)
    IN  /\ Cardinality(DOMAIN series) <= CeilDiv(WindowHours[w], BucketHours[w]) + 1
        /\ \A b \in DOMAIN series : b + BucketHours[w] > WindowStart(w, now) /\ b <= now

\* "The SQL path uses percentile_disc, which implements the same definition"
\* (uptime.ts): nearest rank over the latencies of a window is what the query
\* answers, and a rollup without failures has the p95 of the target's page.
PercentilesAgree ==
  \A w \in Windows, t \in Targets :
    LET found   == InWindow(checks, {t}, w, now)
        sample  == Successful(found)
        listed  == SetToSeq(sample)
        values  == [i \in DOMAIN listed |-> listed[i].latencyMs]
        rollups == GetUptimeByTarget(checks, Targets, w, now)
    IN  /\ \A p \in {-1, 0, 50, 95, 101} :
             NearestRankPercentile(values, p) = PercentileDisc(sample, Min({100, p}))
        /\ found # {} /\ sample = found =>
             rollups[t].p95Ms = GetLatency(checks, {t}, w, now).p95Ms

\* The retention job never deletes a check that a window asked for now, or
\* later, still holds.
WindowsKept ==
  [][\A r \in checks \ checks' : \A w \in Windows : r.at < WindowStart(w, now)]_vars

\* The numbers of the dashboard and of the list belong together: they differ
\* only by targets and incidents that changed while their queries ran.
DashboardAddsUp ==
  LET slack == Cardinality(page.changed)
      answers == page.answers
  IN  /\ Complete /\ page.kind = "summary" =>
           Near(SumFunction(answers["distribution"]), answers["totalTargets"], slack)
      /\ Complete /\ page.kind = "panels" =>
           \A i \in DOMAIN incidents \ page.changed :
             \/ i \in answers["active"] <=> incidents[i].status # "RESOLVED"
             \/ Cardinality(answers["active"]) = ActiveTake
      /\ Complete /\ page.kind = "list" =>
           /\ Near(Cardinality(answers["items"]), Min({ListLimit, answers["total"]}), slack)
           /\ DOMAIN answers["rollup"] \subseteq answers["items"]
=============================================================================
