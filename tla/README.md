# Formal model of PulseWatch

PulseWatch checks HTTP targets on a schedule, decides their health with a
failure/recovery state machine, opens and resolves incidents, and shows all of
it to operators in a web client. These modules model the API
(`src/apps/api/src`): how a check is made, decided, stored and scheduled, what
operators' requests do to the same tables, what the pages read from them, who
may do what; and the session and cache of a tab of the web client
(`src/apps/web`). TLC model-checks small instances; TLAPS proves, for every value of the
constants, every safety property those runs check, in eight modules.

    tlc -workers 2 -config check_runner.cfg MCCheckRunner
    tlapm CheckRunnerProofs.tla

## 1. The system

### Components

Paths are under `src/apps/api/src`, but for the last.

| component | state it keeps | operations | must be true of it |
|---|---|---|---|
| health state machine (`checks/health-state.ts`) | none | `computeHealthTransition` | thresholds exact; opens only without, resolves only with an incident |
| check runner (`checks/check-runner.service.ts`) | a snapshot of the row and a result, in local variables of a call | `runForTarget`, `persist` | a target's checks are serial; row, results and incident agree; failures leave nothing half done |
| target lock (`checks/target-lock.service.ts`) | `inFlight`, a set in memory | `tryAcquire`, `release` | held exactly during a call; always given back |
| check engine (`checks/check-engine.service.ts`) | none between checks | `checkTarget`: redirects, one time budget, error classes | bounded hops; success only in time; the status line decides; always ends |
| URL policy (`checks/ssrf/`) | none | syntax, preflight lookup, guarded lookup at connect time | no forbidden address is ever dialled |
| scheduler (`scheduler/scheduler.service.ts`) | `ticking`, the due list of a tick | `tick`, `findDueTargets` | ticks never overlap, always end, and reach every schedulable target |
| targets service (`targets/targets.service.ts`) | none | `create`, `update`, `pause`, `resume`, `archive`, `checkNow`, lists | archive final; paused rows not enabled; health columns left to the checks |
| incidents service (`incidents/incidents.service.ts`) | none | `acknowledge`, `addNote`, `updateNote`, reads | lifecycle OPEN, ACKNOWLEDGED, RESOLVED without a way back; notes edited by their author or an administrator |
| audit service (`audit/audit.service.ts`) | none | `record`, inside or outside a transaction | the trail agrees with the tables; never breaks what it describes |
| tables (`entities/`, `database/migrations/`) | `monitor_targets`, `check_results`, `incidents`, `audit_events`, notes, users | statements, constraints | one active incident per target, one account per email (unique indexes) |
| metrics (`metrics/`), dashboard (`dashboard/`) | none | windowed queries; pages of several queries each | the parts of a page agree; charts fit; percentiles agree with their definition |
| retention (`retention/`) | none | `pruneOldChecks`, daily and by hand | never cuts a window |
| users, authentication, roles (`users/`, `auth/`, `common/guards/`) | users; tokens are held by clients | `login`, `validate`, guards, `create`, `updateRole` | unique emails; what takes effect was authorized by a role the account held |
| web client (`src/apps/web`) | token, user, React Query's cache | login, pages, polling, retries, mutations | shows what was picked; a user's change is not undone on the screen; catches up with the API |

### How they interact

The interval calls `tick`; the tick asks the database for due targets and calls
`runForTarget` for them in batches, waiting for each batch. `POST
/targets/:id/check-now` calls the same function from a request. A call takes the
lock, reads the row, lets the engine perform the HTTP check (seconds: lookups,
connections, redirects, a body), and then runs one transaction that reads the
active incident, inserts the result, updates the row, and opens or resolves an
incident with its audit event. Operators' requests read a row, change the copy in
memory and `save` it, with no lock and no transaction around the two. Pages are
answered by several queries each, with no transaction around them. Every
request passes two guards that read the account anew. Everything is one Node
process per replica: only `await`s interleave, but there is one at every query.
Replicas share the database and nothing else. A tab of the web client polls, and
asks again after its own mutations; its answers come back in any order.

### What is hard

- The row a check decides from is read before the HTTP request and used after
  it; only the in-process lock makes that safe, and operators and other
  replicas do not take it.
- `save` writes the columns that differ from the row it re-reads, so a stale
  copy puts back what someone else changed in between.
- A transaction that fails in the middle, a swallowed error inside one, a
  process that dies between any two awaits.
- Everything that must happen again: locks given back, the tick's flag cleared,
  a target never left out of the due list for good, a failed query polled again.
- Flapping services at the thresholds, with an incident open or not.
- One time budget over hops, lookups and a body, each with a timer or without
  one; a name answered differently before the request and at the connection.
- Pages put together from queries that see different tables; a check stored
  after a page's time bound under a time before it.
- A role that changes between a request's guards and its write; a token older
  than the account's role; two creations with one email.
- Answers of a tab that cross: a poll begun before a mutation and answered after
  it, an answer for a window that is no longer picked.

`PROJECT.json` lists each such hazard at its line, with the properties that
watch it.

## 2. The modules

| module | models | source |
|---|---|---|
| `HealthState` | the transition function | `health-state.ts` |
| `HealthModel` | the abstract specification: serial checks, a verdict and an incident | `docs/HEALTH_MODEL.md`, as `health-state.ts` computes it |
| `Store` | the shared tables and what the statements do to them | entities, migration |
| `CheckRunner` | `runForTarget` and `persist`, the lock, faults, crashes | `check-runner.service.ts`, `target-lock.service.ts` |
| `UrlPolicy` | which URLs and addresses may be requested | `checks/ssrf/` |
| `CheckEngine` | `checkTarget` against servers and a DNS that answer anything | `check-engine.service.ts`, `error-classifier.ts` |
| `Scheduler` | the tick, on top of `CheckRunner`, its due list left open | `scheduler.service.ts` |
| `DueQueue` | the tick with the order and the limit of its due query | `findDueTargets` |
| `TargetsService` | pause, resume, archive, update, check-now | `targets.service.ts` |
| `IncidentsService` | acknowledge | `incidents.service.ts` |
| `Monitor` | runner, scheduler and both services over one database, in one or more processes | the running API |
| `RequestHistory` | `Monitor` with a history of the saves: lost updates, overtaken checks | |
| `Metrics` | every query over `check_results`, as operators | `metrics.service.ts`, `uptime.ts` |
| `Dashboard` | the queries of the dashboard and the lists | `dashboard.service.ts`, `targets.service.ts` |
| `Telemetry` | pages of several queries, while checks, targets and incidents change and retention deletes | the same, `retention.service.ts` |
| `Access` | guards, login, users, notes | `auth/`, `users/`, `common/guards/`, `incidents.service.ts` |
| `WebClient` | a tab talking to `Access` | `src/apps/web` |
| `CheckRunnerProofs`, `CheckEngineProofs`, `SchedulerProofs`, `DueQueueProofs`, `MonitorProofs`, `RequestProofs`, `TelemetryProofs`, `WebClientProofs` | theorems | |
| `MCCheckRunner`, `MCCheckEngine`, `MCScheduler`, `MCMonitor`, `MCRequestHistory`, `MCTelemetry`, `MCConsole` | values for TLC | |

The order of EXTENDS, from left to right:

    HealthState - Store -+- CheckRunner - Scheduler -+- DueQueue
                         +- TargetsService ----------+- Monitor - RequestHistory
                         +- IncidentsService --------+
    UrlPolicy - CheckEngine
    Metrics, HealthState - Dashboard - Telemetry
    Access - WebClient

and of the proofs, each module also extending the one it is about:

    CheckRunnerProofs - SchedulerProofs -+- DueQueueProofs
                                         +- MonitorProofs - RequestProofs
    CheckEngineProofs    TelemetryProofs    WebClientProofs

The four lines of the model meet at what each needs of the others: in `CheckRunner` the result of
the engine is the health of the service, `CheckEngine` being the proof that a
result comes; in `Telemetry` checks are rows that are stored some time after they
began; in `Access` every other handler is a change of what the pages show.

### State and actions

**Store.** `targets[t]` has the columns health and scheduling use (`enabled`,
`archived`, `status`, the two counters). `incidents[t][i]` is a row of the
incident table, `ABSENT` until it is inserted; of the timestamps only "is it
set" is kept. `check_results` is kept as the newest run of equal outcomes per
target, which is all that the counters can be compared with. `audit` is the set
of recorded events. `IndexAllows` is the partial unique index of the migration;
`SaveRow` is TypeORM's `save` (external: a `SELECT` by id, then an `UPDATE` of
the columns in which the entity differs from it).

**CheckRunner.** One record `job[j]` per call; `pc` is the await it stands at.

| step | code |
|---|---|
| `TryAcquire` | `tryAcquire`, synchronous; a refused call changes nothing and is no step |
| `ReadTarget` | `findOne`, and the `enabled`/`archived` test that returns `paused` |
| `CheckTarget` | `engine.checkTarget` returns; the engine turns every error into `FAILURE` |
| `FindActiveIncident` | `BEGIN` and the `SELECT` of the active incident |
| `Persist` | the rest of the transaction and `COMMIT` |
| `UniqueViolation` | the index refuses the new incident, `ROLLBACK`, the call rejects |
| `Release` | `finally` |

The writes of the transaction are one step because its `UPDATE monitor_targets`
takes the row lock and every later write of it touches rows of that target only;
another transaction that wants the row waits for the `COMMIT`, and readers see
committed rows. What is *not* one step is the `SELECT` before those writes: it
locks nothing, and two replicas may both find no incident.

Faults: `StatementFails` (any query of the call, the transaction rolls back),
`AuditInsertFails` (the swallowed error: PostgreSQL has aborted the
transaction, `COMMIT` rolls it back, and the call still returns `ran: true`),
`RunnerCrash` (locks and calls of a process vanish, an open transaction is
rolled back). `Flip` is the monitored service breaking or coming back.

**UrlPolicy, CheckEngine.** A URL is its defect (what `parseAndValidateSyntax`
would object to, or `"none"`) and its host, a name or an address; an address is its range, and
whether it is IPv4 mapped into IPv6. `pc` is the await of the hop:

| step | code |
|---|---|
| `Begin`, `Preflight` | syntax; `assertDestinationAllowed`, a lookup that may fail (and then refuses nothing) and that no timer ends |
| `Send` | the head of the loop: time left, or `TIMEOUT` without a request |
| `Connect` | the agent's guarded lookup, a new answer of DNS, and the connection |
| `NetworkFails`, `TimesOut` | errors, by `classifyNetworkError`; the signal or the connect timeout, whichever is first |
| `Answered`, `Drain` | status line and headers; the body, whose errors are swallowed |
| `Follow`, `Judge` | limit, resolution and syntax of a redirect; the expected range |

Every step takes a number of ticks, chosen by the environment within the timers.

**Scheduler.** `phase[p]` is the flag `ticking`, refined by where the tick
stands; `due[p]` is the part of the due list not started yet. `NextBatch` starts
the slice of at most `maxConcurrentChecks` calls (the slots `TickJobs`), all of
which try their lock before any of them awaits. Time is abstracted: `QueryDue`
may return any set of schedulable targets.

**DueQueue** narrows that set to what `ORDER BY last_checked_at NULLS FIRST
LIMIT` returns. Of the times only their order matters, so `timeline` is that
order, the set of pairs `<<x, y>>` where the time of `x` is not after that of `y`:
targets stand for their `last_checked_at`, calls for the `checkedAt`
they noted when they began (`Latest`) and will store when they commit (`Stored`). Two
checks never begin in the same millisecond. Which intervals have
elapsed is open, but a target never checked is due. Every action is one of
`Scheduler`'s, constrained (`DueQueueImplementsScheduler`).

**TargetsService, IncidentsService.** A request reads the row and makes its
guards and changes on the copy (`FindOne`, `FindIncident`), `save` re-reads it
(`LoadRow`, `LoadIncident`), its `UPDATE` writes (`UpdateRow`, `UpdateIncident`,
or `UpdateRefused` by the index), and the audit event is recorded (`RecordAudit`,
`RecordAck`). `update` also awaits a DNS lookup between the first two, after which it
may still answer 400 (`RefuseUpdate`). A request
refused by its guards changes nothing and is no step. `check-now` records its
event and then calls the runner (`Monitor`: `CallRunner`).

**Monitor.** The composition: each action of a part leaves the other parts'
variables alone, and a crash takes the calls, the tick and the requests of its
process with it. Outside a transaction, `AuditLost` is the swallowed audit insert of a
target request, `SaveFails` a failing statement of its `save` (500), and `AckFails` either of
an acknowledgement. `Starts` says what earlier runs may have left of a target: new,
DOWN with its incident open and on the trail, and either of them paused.

**RequestHistory** adds to every step of `Monitor` what its properties have to tell
apart, and nothing that a step reads. `outdated` are the requests that hold a copy
of a row which another request has changed since, and `overwritten` the rows such a
copy was saved to, until a pause, resume or archive that is up to date sets the row right.
`regained` counts the successes stored since the last failure or resume, `overtaken` are the checks
that had read the row before it, and `restored` the rows into which such a check, or a save, has
brought older successes back.

**Metrics, Dashboard, Telemetry.** A row of `check_results` is its target, the
time the check began, its outcome and its latency. Queries are operators from a set
of rows to what the query returns, rounded as the code rounds; an `ORDER BY` with `LIMIT` is
the set of the rows that have few enough ahead of them (`Take`), a page of the list (`ListItems`) what
its page number takes beyond the one before. In `Telemetry`
a check begins (`StartCheck`) and is stored later under the time it began
(`EndCheck`), `PruneOldChecks` deletes, targets and incidents change, and a page
(`BeginPage`) is answered query by query (`RunQuery`): those of one `Promise.all`
in any order, those of the lists one after the other, each on the tables of its
own moment. A history in `page` notes which checks, targets and incidents the
queries of the page may have seen differently; the properties allow exactly those.

**Access.** A request is a record in a slot: its operation, argument, the token
it carries, and where its handler stands. `Guards` is `JwtAuthGuard` with
`JwtStrategy.validate` (which reads the account by the token's email) and
`RolesGuard`, and `AccountUnread` its failed query, which it takes for no account; then `FindAccount`, `VerifyPassword` (login), `LookUpEmail`,
`InsertUser` (create, with the hash awaited in between), `FindUser`, `SaveRole`,
`AddNote`, `FindNote`, `SaveNote`, and `Act` for every handler modelled
elsewhere, which here only gives what the pages show a new version. `held` is a
history: the roles the request's account had while it was under way.

**WebClient.** The tab's token (`localStorage`), `AuthProvider`'s `user` and
`loading`, the page, what is picked on it, and React Query's cache by key, an
entry being the version it shows, for which choice, whether it is invalidated,
failed, or in its retry. Each key has one request slot of `Access`. `Show` is what
the library does when a page, a choice or a user changes: the queries newly mounted are
fetched if they have nothing, something invalidated or something aged. `Poll`,
`AnswerQuery` and `Retry` are the `refetchInterval`, the answer and the one
retry; `ClickAnswered` invalidates what the mutation's `onSuccess` names.
React Query, the router and the browser are external; what is taken of them is
what the pages rely on.

## 3. Properties

| property | says | where |
|---|---|---|
| `LockInv` | a process holds a target's lock exactly while one of its calls is under way, and only one | monitor; **proved** of the runner, of the scheduler and of the whole core |
| `SnapshotCurrent` | with one process, the row a call read before its HTTP check, and the incident it found, are still the current ones when it writes | check_runner; **proved** |
| `CountersFollowResults` | the counters of a row are those of the stored results | check_runner; **proved** |
| `StatusMatchesIncident` | DOWN has an active incident, UP and UNKNOWN have none | check_runner; **proved** |
| `ImplementsHealthModel` | each commit is one check of the serial model, all else a stutter | check_runner; **proved** |
| `LocksReleased` | every lock is given back | check_runner |
| `Converges` | a service that stays healthy (broken) ends UP without (DOWN with) an active incident | replicas, scheduler |
| `ConvergesUnlessOverwritten` | the same, through requests that overlap: only a row left PAUSED and enabled by a lost update keeps a target from its verdict | requests |
| `OneActiveIncident` | at most one active incident per target | replicas, monitor; **proved** of the runner and of the whole core, for any number of processes |
| `ResolvedIsFinal` | RESOLVED stays RESOLVED | replicas; **proved** for the runner; violated by acknowledge |
| `IncidentTrail` | opened exactly the incidents that exist, resolved on record | monitor; **proved** of the runner and of the whole core |
| `RedirectsBounded` | at most one request more than redirects allowed; REDIRECT_LIMIT only after exactly so many | check_engine; **proved** |
| `OnlyAllowedDialled` | a connection is only made to an address the policy allows, however DNS changes | check_engine; **proved** |
| `SuccessWithinBudget` | a SUCCESS is not slower than the target's timeout, over all hops and lookups | check_engine; **proved** |
| `StatusLineDecides` | once a final status line has arrived, no body, error or timer changes the result | check_engine; **proved** |
| `CheckEnds` | every check ends with a result | check_engine |
| `TickOwnsItsChecks` | no scheduled check outlives its tick | scheduler; **proved** |
| `TimelineOK` | a row's `last_checked_at` precedes the start of its check under way: it only moves forward, and the times stay ordered | scheduler; **proved** for one process |
| `TicksEnd` | the tick's flag is always cleared | scheduler |
| `ServesEveryTarget` | a target that stays schedulable is checked again and again, however short the due list | scheduler |
| `PausedMeansDisabled` | a row is PAUSED and enabled, and so skipped by the due query for good, only through a request that saved a copy another request had outdated | requests; **proved** |
| `ArchivedIsFinal` | an archived target stays archived and disabled, whatever checks are in flight, but for such a request | requests; **proved** |
| `ResumeStartsOver` | an incident ends only with as many successes as the threshold asks for, stored since the last failure or resume, but for a check that had read the row before or a save that puts older counters back | requests; **proved** |
| `RequestsEnd` | every request under way is answered or dies with its process | monitor |
| `PagePiecesAgree` | the parts of a page count the same checks, but for those under way or deleted meanwhile | telemetry; **proved** |
| `SeriesFitsChart` | a chart has at most one point more than its window has buckets, all inside the window | telemetry; **proved** |
| `PercentilesAgree` | nearest rank in TypeScript and `percentile_disc` in SQL are the same function, at the edges too | telemetry; **proved** |
| `DashboardAddsUp` | distribution and total, panels and count, list and total differ only by what changed meanwhile | telemetry; **proved** |
| `WindowsKept` | retention deletes nothing a window still holds | telemetry; **proved** |
| `OneAccountPerEmail` | an email belongs to one account, however creations overlap | console; **proved** |
| `EffectsAuthorized` | what takes effect was allowed by a role the account held since the request was sent; a note is edited by its author or an administrator | console; **proved** |
| `ShownMatchesPicked` | what is shown under a window, filter or page number was asked for with it | console; **proved** |
| `FreshAfterAction` | after the user's own change, no answer that was on its way brings the old state back | console; **proved** |
| `CatchesUp` | a polled query of a page left open with a valid session shows the present state in the end | console |

Beside these, `TypeOK`, `EngineTypeOK`, `SchedulerTypeOK` and `MonitorTypeOK` (all
proved) are the type invariants.

Each property has a faulty variant of a definition of the code (the operators
commented "Faulty variant"), under which its run fails.

## 4. Runs

| run | instance | distinct states | shows |
|---|---|---|---|
| check_runner | 1 process, 2 calls, 2 targets, thresholds 2/2, 3 flips, 1 fault | 247 616 | with its lock one process is serial: it implements `HealthModel` through crashes and failures |
| replicas | 2 processes with a call each, 1 target, 5 incident ids, 2 flips, 1 fault | 135 696 | overlapping checks from stale counters: index and lifecycle hold, the verdict still converges |
| scheduler | 1 process, 1 slot, 1 manual call, 2 targets, a due list of 1, thresholds 1/1 | 49 796 | ticks that cannot hold all that is due, refused targets, a failing query: the oldest-first order starves nobody |
| check_engine | limits -1 to 2, timeouts 1 and 3, connect timeout 2, one name and two literals | 21 016 | one check against everything servers and DNS may answer |
| telemetry | 2 targets, 2 windows, 4 old rows, 2 ticks, 2 events | 1 046 397 | every page, assembled while the tables change under it |
| console | 2 accounts and 2 more ids, 1 tab, 2 other slots, 8 ways to use the product | 251 664 | role changes under way, crossing answers, losses, expiry, mutations against polls |
| monitor | 1 process, 1 target in each of the four starts, tick, 1 request of any kind, 1 acknowledgement, 1 flip, 1 fault | 318 752 | safety of the composition, and that every request ends |
| requests | 1 process, 1 target left DOWN, healthy or not, tick, 2 operators with 3 requests between them | 754 392 | archive, pause and resume against each other and against every point of a check |
| pause_overwritten | 1 pause, 1 flip | | finding 1 |
| stale_update | 1 update, 1 flip | | finding 2 |
| late_acknowledge | 1 acknowledgement, 1 flip | | finding 3 |
| audit_failure | 1 fault, 1 flip | | finding 4 |

**Bounds of the monitoring core.** Thresholds of 2 are the least with a state between "first" and
"reached" on both sides; `CounterCap` = 2 saturates the counters at the
thresholds, above which the code never tells values apart (both tests are
`>=`/`<` against a threshold). Two targets are enough to see a lock or a batch
confuse them; one target suffices where every property and every interaction is
per target. Two flips give an outage with its
end; three (in check_runner) also give a failure in the middle of a recovery, the
one way to a target that is not DOWN while its incident is open; one fault hits each
step of a call and each state around it, and since a fault leaves only states
that a call's end also leaves, more would mostly repeat it. `IncidentIds` is as
large as the run can open; where it is exhausted the opening would be disabled,
so it is chosen above what the flips can produce (five ids for two replicas:
each stale decision in flight may open one more). `DueLimit` = 1 with two targets is the
least list that leaves someone out.

In `monitor` a target may start DOWN, so one flip is an outage's end and a late acknowledgement has its
resolved incident; the run has every kind of request but one at a time. `requests` has them
two at a time: three requests are a pause, a resume and one more that holds a copy over either of them,
or an archive with an update across it. It starts with a target that is DOWN, because
resumes and pauses matter most while an incident is open; the service does not change and nothing
fails in it (`monitor` has both, with one request; the theorems have everything). The properties of this run exempt what the history marks, and the exemptions are needed:
without them TLC violates each of the four in this very run.

**Bounds of the check engine.** `Limits` has a negative value, zero, and two
positive ones; `Timeouts` one shorter and one longer than `ConnectTimeout`, so
that either timer is first; `MaxLookup` = 1 is as long as the shorter timeout,
so a lookup may use it up. Every address class of the policy is there, a name that
may answer any set of them, and literals on both sides of the policy. With a limit
of 2 there are three hops, and each server answers anything.

**Bounds of telemetry.** The clock runs from `StartTime` to `MaxTime`, two ticks,
with rows of every earlier tick of the long window, so that rows leave windows and reach the
cutoff during the run; the long window is cut by its buckets, the short one is one
bucket. `MaxEvents` = 2 changes (checks begun, targets, incidents) is the least with which two queries of a
page disagree in both directions, and take a panel past its limit of one. Checks under way are also
stored, in any outcome. `RetentionDays` equals the longest window, as the defaults do.

**Bounds of the console.** Each `use` is one way to use the product: the queries
followed of the pages (what is not followed is not fetched), the user's `moves`
(two, so that a mutation meets a navigation or a pick), `losses` (a fetch, or a fetch and
its retry; an account that cannot be read, `ValidateFails`, counts as one), `changes` by monitoring, and the operations, callers and number of calls of other
people (two at once: two creations with one email; a demotion during an edit).
One mutation is under way at a time in the tab, no reload happens while a login or a
mutation is, and accounts are created with one role; a request the throttler refuses
is one that is lost. An answer to a fetch given up for a newer one is dropped as the library
drops its data; that such an answer, if it is a 401, also clears the token is not in the
model (see 5).

**Fairness.** Weak fairness of each call's next step: every await in it is
bounded, the HTTP check by the target's timeout, the statements by the database
(the lookup before the check only by the resolver, which gives up in time). In
`CheckEngine`, weak fairness of what the engine does by itself, its timers
included, and of lookups before a request; none of servers, of the connection or of the body: they
may stay silent for ever. Weak
fairness of the tick's steps and of `BeginTick`: the interval keeps firing. Strong
fairness, per target, of the step that starts its check (`TryAcquire` in
`CheckRunner`, `QueryDue` with the target in `Scheduler`): the target's interval
elapses again and again, and it is then in the due list of a tick. `DueQueue`
weakens that assumption to the interval alone: the query runs again and again while the
target's interval has elapsed, and nothing is assumed of room in the list. In the
console the API answers the tab's queries, timers fire and callbacks run. Nothing is
assumed of operators, faults and services: nobody has to make a request.
Crashed processes are restarted (by the orchestrator); a process that never
comes back is outside the liveness properties. Deadlock is checked in all
runs but console, where a user with no moves left, on a page that polls nothing, ends the run.

## 5. Findings

1. `pause_overwritten` violates `DisabledMeansPaused`. `persist` writes the
   status it decided from the row read before the check, so a target paused (or
   archived) meanwhile shows UP, DEGRADED or DOWN. `docs/HEALTH_MODEL.md:103`:
   "Pausing sets `enabled = false` and `status = PAUSED`".
2. `stale_update` violates `DownHasIncident`. `update` saves the whole row it
   read before a DNS lookup; a recovery that committed meanwhile is undone in the
   row but not in the incident table. `docs/CHECK_ENGINE.md:120`: "the database
   can never hold a target marked `DOWN` with no incident".
3. `late_acknowledge` violates `ResolvedIsFinal`. `acknowledge` tests the copy it
   read; an incident resolved in between becomes ACKNOWLEDGED again.
   `incidents.service.ts:93`: "Resolved incidents cannot be acknowledged".
4. `audit_failure` violates `AuditNeverBreaks`. The swallowed error of an audit
   insert inside `persist` has aborted the transaction: result, status and
   incident are lost and the call reports that it ran. `audit.service.ts:36`:
   "Auditing must never break the operation it describes."

Seen while modelling and not among the runs:

- Monitoring. Requests of two operators that overlap lose updates. An update that read a
  paused row, whose `save` then read it with the status a check in flight has written,
  and which is stored after a resume, puts PAUSED back and leaves the row enabled, so the due query
  skips it until someone pauses and resumes it; an update that read the row before an archive brings the
  target back. The properties of `requests` say that such a copy is the only
  way to either. A check that read the row before a pause and is stored after the resume writes its
  old counters over those the resume has reset, and may resolve the incident with one
  success, where `docs/TROUBLESHOOTING.md:161` says "after resume the counters start from zero
  and two real successes are still required"; `ResumeStartsOver` exempts that check, which the code
  does not refuse, and shows that besides it only a save of older counters does so. A
  failure during recovery shows the target as DEGRADED while its incident is
  open. Two replicas may open more incidents than the service had outages. The
  incident of a target archived while DOWN is never resolved.
- Engine. The lookups before a request are outside every timer, so a check may last
  longer than `timeoutMs` (`docs/CHECK_ENGINE.md:68-71` has the whole operation fit
  it); it is then a TIMEOUT at the next hop, never a SUCCESS. The latency includes the drained body, which
  `docs/UPTIME_CALCULATION.md:91-93` does not say.
- Telemetry. The p95 of the list's rollup includes failures
  (`metrics.service.ts:199-202`); that of a target's page does not, and
  `docs/UPTIME_CALCULATION.md:114` says failures are excluded. A retention set
  below 30 days cuts the window of 30 days. One failure in more than 20 000
  checks is an uptime of 100.00. The orders of the lists have no tie-breaker.
- Access and client. A creation that loses the race for an email is answered
  with 500, not 409. `updateRole` can demote the last administrator. A 401 that
  answers an older request removes a token obtained since (`api.ts:45-47`), and
  the user stays on the page until something reloads it. A first load in flight when a mutation is answered is not
  given up, so it may show the state before it (until it is polled): this is why
  `FreshAfterAction` speaks of what was loaded.
  A list on a page that no longer exists hides its pager. Text typed while a request is under way is
  cleared with the form.

## 6. Proofs

Assumptions: the thresholds are integers, the counter bound is at least the
(raised) thresholds, ids are distinct from their null values, and each call runs
in some process; limits are integers and timeouts positive; the slots of a tab
are those of its keys and three more, the first accounts have different emails,
and the ways to use the product are made of what the pages have; windows are positive and
a bucket is no wider than its window, the list has finitely many targets in an order without
ties, no target has two stored checks of one time, and the retention is not shorter than the longest window. They are
the named ASSUMEs of `HealthState`, `Store`, `CheckRunner`, `UrlPolicy`, `CheckEngine`,
`Scheduler`, `DueQueue`, `TargetsService`, `IncidentsService`, `Monitor`, `Metrics`,
`Dashboard`, `Telemetry`, `Access` and `WebClient`. One more is an assumption of single
theorems: `OneProcessOnly`, the deployment the lock in memory is made for. Where a theorem
has it, its statement is false without it: two replicas check a target at once and
store in either order. Nothing is assumed of the requests: any number of them may overlap.

`CheckRunnerProofs`, for any number of targets, calls and processes:

- `TypeCorrect`. `TypeOK` is not inductive: a write needs the call to have a
  target and a result. `TypeInv` adds `CallInv`, which says that by `pc`.
  `DecisionShape` gives the range of a decision, and that it opens only without
  and resolves only with an incident found.
- `LockExact`. `LockInv` is inductive given `TypeInv`; only `TryAcquire`,
  `Release` and `RunnerCrash` touch it, and `LockUntouched` covers the rest.
- `OneActive`, `ResolvedForGood`. Only `Persist` writes incidents
  (`OthersLeaveTables`), and it opens an absent row when no other is active, or
  resolves one (`PersistIncidents`).
- `TrailComplete`. `IncidentTrail` needs that the incident a call has found is a
  row that exists (`FoundExists`); `RowAndEvents` says what a step does to one row
  and its events.

and, for any number of targets and calls in one process (`OneProcessOnly`; with two, each
process has a lock of its own):

- `SnapshotStaysCurrent`. While a call is between its read and its writes it holds
  the lock (`LockInv`), so any call that writes in between is for another target,
  and leaves this one's row and incidents alone (`PersistElsewhere`).
  `OneActiveIncident` makes the incident found the only one.
- `CountersExact`, `StatusExact`. With the snapshot current, a write extends the
  run of results and the counters alike, and `IncidentAfter` says whether the
  target then has an active incident. The conjunction of all of these is the
  inductive invariant `SerialInv`.
- `Implements`. Under the mapping of `CheckRunner!Model`, the commit of a call is a
  `Fail` or `Succeed` of `HealthModel` (`PersistIsCheck`) and every other step a
  stutter. It needs one more invariant, `CheckedTargetsShown`: only enabled rows
  are checked, and none of those shows PAUSED.

`CheckEngineProofs`, for any URLs, addresses, policy, limits and timeouts. The
inductive invariant `IInv` has a part for each reason a property holds:

- `CountInv` ties `requests` to `redirectCount` by `pc` and keeps the latter at
  `MaxHops` (`RedirectLimitHolds`; negative limits count as 0).
- `TimeInv`: all requests of a check have one deadline, its timeout, and while one is
  under way it has not passed (`SuccessIsInTime`).
- `LiteralInv`: a literal about to be dialled was judged before the request (the
  connection does not look it up again); names are judged at the connection
  (`NoForbiddenAddressDialled`).
- `AnswerInv`, `ResultInv`: what is known of `response` and `result` by `pc`
  (`ResultIsTheStatusLines`).

`SchedulerProofs`, for any number of processes, slots and targets:

- `TickTypes`, `NoCheckOutlivesItsTick`: `TickInv` is inductive given the runner's
  `TypeInv`; only `NextBatch` starts scheduled calls, `EndTick` waits for them, and a crash ends
  both.
- `SchedulerLockExact`: a batch locks targets not in flight, each by one call that was idle
  (`BatchLocks`, `BatchLockExact`); every other step is one of the runner's, or touches no lock.

`DueQueueProofs`, the scheduler with its query:

- `DueQueueImplementsScheduler`: each step of `DueQueue` is a step of `Scheduler`
  or a stutter, so its safety theorems hold of the scheduler with its query.
- `TimesMoveForward` (in one process): `TimeInv` says that the times are of rows that were checked and calls
  that may still be stored, in one order, and that a row's is before that of the check of it under
  way. A new time is the latest (`AddLatest`), a lost one leaves an order (`DropTimes`), and a stored
  one replaces its row's: the lock leaves no other check of that target whose
  time it could overtake (`StoreTime`).

`MonitorProofs`, for any number of processes, calls, ticks, target requests and
acknowledgements. `KindsOfSteps` sorts the steps of `Monitor`: a step of `CheckRunner`, of
which its proofs speak already; a batch that starts; a save of a target's or an
incident's row; an event; a fault that touches no table.

- `MonitorTyped`: `MonitorInv` adds `CallInv` and `RequestInv` (a request under way has an
  operation and a target). A save leaves of each column what the copy or the row has
  (`SavedTargetTyped`, `SavedIncidentTyped`).
- `MonitorLockExact`: a batch as in the scheduler; all else is `LockStep`.
- `MonitorOneActive`: what an acknowledgement would make a second active incident the index
  refuses (`OneActiveKeeps`).
- `MonitorTrailComplete` needs that the incident an acknowledgement works on is a row that exists, and
  that a copy that says "resolved" has its event (`AckInv`); rows and events only grow
  (`TrailGrows`).

`RequestProofs`, for any number of processes, calls, ticks, requests and acknowledgements at once:

- `PausedDisabled`, `ArchivedForGood`. Checks leave the operators' columns alone and never show
  PAUSED (`CheckedRow`), so of the row a request has read, those columns can only be changed by
  another request; while none has (`UpToDate`), what `save` writes is what the guards saw, changed
  (`CopyInv`), and the row stays right (`RowsInv`). Once one has, the request is outdated, and the row it
  saves is marked; a pause, resume or archive that is up to date takes the mark away and is right again.
- `ResumeCountsAnew`. Only a check that is stored ends an incident, and it does so from the counters of
  the row it holds. `ResumeInv` bounds those by the history: neither a row (`RowStartsOver`) nor the
  copy that a check holds (`SnapshotStartsOver`) counts more successes than were stored
  since the last failure or resume, unless the history marks the row or the check. A resume
  under way holds a copy without successes (`ResumeUnderWay`), so its save writes the zero unless `save`
  found one there, and then a success stored since is marked.

`TelemetryProofs`, for any targets, windows, buckets, latencies and histories of checks:

- The library's induction needs an operator as a parameter; `SubsetInduction` and
  `ElementInduction` get the same for the subsets of a finite set from well-foundedness, the
  predicate being a *set* of subsets. With it, sums exist and split (`SumExists`, `SumTakeOut`), the
  groups of a `GROUP BY` add up to what was grouped (`GroupsAddUp`), and `LIMIT n` returns
  `n` rows or all (`FirstRows`).
- `TelemetryInv`: every answer of a page is what its query returns on *some* tables that
  differ from the present ones only by what the page's history lists (`SeenChecks`, `SeenFleet`,
  `SeenIncidents`); each change of a table is noted by every page that is open when it happens
  (`MovedKeeps`).
- `PagesAddUp`, `DashboardsAddUp`: so any two answers count sets that differ by at most what is listed
  (`SeenAlike`, `CloseCounts`), whatever they were grouped or cut into. The panels and the first
  page of the list are `FirstRows` of such sets.
- `ChartsFit`: a bucket that holds a check is one of the window's buckets or the one it begins in
  (`BucketPlace`), and there is one point per bucket.
- `PercentilesMatch`: both definitions pick the least value of the sample that enough of it does
  not exceed (`NearestRank` for the sorted list and the code's rounded index,
  `DiscIsNearestRank` for `percentile_disc`).
- `RetentionKeepsWindows`: the cutoff is at least as far back as the longest window.

`WebClientProofs`, for any accounts, sessions, ways to use the product, other
callers and overlapping requests:

- `AccessHolds`, the invariant the others rest on. `AccessInv` has the forms of
  requests and tokens, that every token names an account there is, that
  a handler at work has a role the account held and the handler asks for
  (`WorkInv`), and that emails are unique, without which `validate` could find
  somebody else's account; `CacheInv` has the form of the cache. Steps of the tab
  are summed up by what they do to requests and keys (`TabShape`, `KeyStep`), those of the API
  by `ServeShape`, so that the invariants see few cases.
- `EmailsAreUnique`, `EffectsAreAuthorized` follow from `AccessInv` and the one
  step that takes effect.
- `ShownIsWhatWasPicked`: a request of a key carries the key's own choice
  (`AskedInv`), so its answer does, whenever it comes.
- `ActionsAreSeen`: `VersionInv` says that no version shown or answered is newer than the API's,
  and `DataInv` that what arrives for a key, and what is kept while nothing is being fetched,
  is of the choice asked for and not older than the last change that invalidated it.

Every invariant and every action property of the passing runs is proved. Only model-checked are the
liveness properties (`LocksReleased`, `Converges`, `ConvergesUnlessOverwritten`, `TicksEnd`, `ServesEveryTarget`, `CheckEnds`,
`CatchesUp`, `RequestsEnd`), which like ENABLED are outside the proof system's reach; the four
findings are counterexamples, which TLC gives.

## 7. Not modelled, and the plan

Left out for good: start-up, configuration and seeding (run once before anything
modelled; their values are constants here), health endpoints (reads without
state), the table of address ranges (data of ipaddr.js), the signing of tokens
and the throttler, rendering, charts and the fields of forms, logging and wording.

Left out of modelled parts: `targets.create` (a created target is a fresh row, the
initial state of `Store`); filters of lists other than the archived one, which
narrow the same query; columns that no decision reads.

Below the grain of the model: a timer of the engine fires exactly on its tick, where a signal may be
some milliseconds late; the parts of a target's page share one time bound, where latency and
its series read the clock one after the other (`dashboard.service.ts:80-83`); events of one
millisecond are ordered.

Next, in this order:

1. The facts the liveness properties rest on, as theorems: that a step of each call under way
   lowers a measure, and that the due list, in the order of the times, brings each target forward.
2. Ticks of two batches with a fault in the first, and targets whose checks fail to be stored
   again and again: both need more slots and faults than the present instances afford.
