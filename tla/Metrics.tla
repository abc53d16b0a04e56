------------------------------ MODULE Metrics ------------------------------
(***************************************************************************)
(* MetricsService and uptime.ts: what the queries over check_results       *)
(* return, as operators on a set of rows.  Percentages and averages are    *)
(* in hundredths, as the code rounds them; NULL stands for null.           *)
(***************************************************************************)
EXTENDS Integers, SequencesExt

CONSTANTS
  Windows,       \* MetricsWindow
  WindowHours,   \* the length of each, in ticks
  BucketHours    \* the width of its chart's buckets

ASSUME WindowAssumption ==
  \A w \in Windows : /\ WindowHours[w] \in Nat \ {0}
                     /\ BucketHours[w] \in 1..WindowHours[w]

NULL == -1

\* Math.round of a ratio of naturals.
RoundedRatio(a, b) == (2 * a + b) \div (2 * b)

CalculateUptimePercent(successfulChecks, totalChecks) ==
  IF totalChecks <= 0 THEN NULL ELSE RoundedRatio(successfulChecks * 10000, totalChecks)

Average(total, n) == IF n = 0 THEN NULL ELSE RoundedRatio(total * 100, n)

CeilDiv(a, b) == (a + b - 1) \div b

\* The values in ascending order: each stands at the places that those below
\* it leave to it.
Sorted(values) ==
  LET below(v) == Cardinality({i \in DOMAIN values : values[i] < v})
      upTo(v)  == Cardinality({i \in DOMAIN values : values[i] <= v})
  IN  [k \in DOMAIN values |-> CHOOSE v \in Range(values) : below(v) < k /\ k <= upTo(v)]

\* Faulty variant: the rank is rounded down.
LowerRankPercentile(values, percentile) ==
  IF values = <<>> THEN NULL
  ELSE LET sorted  == Sorted(values)
           clamped == Min({100, Max({0, percentile})})
           rank    == (clamped * Len(values)) \div 100
       IN  sorted[Max({1, rank})]

NearestRankPercentile(values, percentile) ==
  IF values = <<>> THEN NULL
  ELSE LET sorted  == Sorted(values)
           clamped == Min({100, Max({0, percentile})})
           rank    == CeilDiv(clamped * Len(values), 100)
       IN  sorted[Max({1, rank})]

Latencies(rows) == {r.latencyMs : r \in rows}

\* PERCENTILE_DISC of PostgreSQL: the first value, in order, whose share of
\* the rows up to it reaches the fraction.
PercentileDisc(rows, percentile) ==
  IF rows = {} THEN NULL
  ELSE Min({v \in Latencies(rows) :
              100 * Cardinality({r \in rows : r.latencyMs <= v})
                >= percentile * Cardinality(rows)})

TotalLatency(rows) == MapThenSumSet(LAMBDA r : r.latencyMs, rows)

-----------------------------------------------------------------------------
WindowStart(w, now) == now - WindowHours[w]

\* Faulty variant: the upper bound of the window is left out.
SinceWindowStart(rows, scope, w, now) ==
  {r \in rows : r.target \in scope /\ r.at >= WindowStart(w, now)}

\* The WHERE clause of every query; scope is one target, or all for null.
InWindow(rows, scope, w, now) ==
  {r \in rows : r.target \in scope /\ r.at >= WindowStart(w, now) /\ r.at <= now}

Successful(rows) == {r \in rows : r.status = "SUCCESS"}

\* Faulty variant: one bucket width for all windows.
NarrowBucket(w, r) == r.at

BucketExpression(w, r) == (r.at \div BucketHours[w]) * BucketHours[w]

GetUptime(rows, scope, w, now) ==
  LET found == InWindow(rows, scope, w, now)
      total == Cardinality(found)
      successful == Cardinality(Successful(found))
  IN  [ totalChecks |-> total, successfulChecks |-> successful,
        failedChecks |-> total - successful,
        uptimePercent |-> CalculateUptimePercent(successful, total) ]

GetLatency(rows, scope, w, now) ==
  LET found == Successful(InWindow(rows, scope, w, now))
  IN  [ sampleCount |-> Cardinality(found),
        averageMs   |-> Average(TotalLatency(found), Cardinality(found)),
        p50Ms       |-> PercentileDisc(found, 50),
        p95Ms       |-> PercentileDisc(found, 95),
        minMs       |-> IF found = {} THEN NULL ELSE Min(Latencies(found)),
        maxMs       |-> IF found = {} THEN NULL ELSE Max(Latencies(found)) ]

\* The rows of each bucket that has any, as GROUP BY groups them.
Buckets(rows, w) ==
  [b \in {BucketExpression(w, r) : r \in rows} |-> {r \in rows : BucketExpression(w, r) = b}]

GetUptimeSeries(rows, scope, w, now) ==
  LET buckets == Buckets(InWindow(rows, scope, w, now), w)
  IN  [b \in DOMAIN buckets |->
         LET total == Cardinality(buckets[b])
             successful == Cardinality(Successful(buckets[b]))
         IN  [ totalChecks |-> total, successfulChecks |-> successful,
               uptimePercent |-> CalculateUptimePercent(successful, total) ]]

GetLatencySeries(rows, scope, w, now) ==
  LET buckets == Buckets(Successful(InWindow(rows, scope, w, now)), w)
  IN  [b \in DOMAIN buckets |->
         [ sampleCount |-> Cardinality(buckets[b]),
           averageMs   |-> Average(TotalLatency(buckets[b]), Cardinality(buckets[b])),
           p95Ms       |-> PercentileDisc(buckets[b], 95) ]]

\* A rollup for each of the targets that has a check in the window.
GetUptimeByTarget(rows, ids, w, now) ==
  LET found == InWindow(rows, ids, w, now)
  IN  [t \in {r.target : r \in found} |->
         LET of == {r \in found : r.target = t}
         IN  [ totalChecks   |-> Cardinality(of),
               uptimePercent |-> CalculateUptimePercent(Cardinality(Successful(of)),
                                                        Cardinality(of)),
               p95Ms         |-> PercentileDisc(of, 95) ]]
=============================================================================
