# FieldTrack 2.0 in TLA+

Models, model-checking runs and machine-checked proofs about the back end in
`src/`: a Fastify API, BullMQ workers over Redis, and Postgres behind Supabase.
The interest of that system lies in what happens *between* its awaits.  Every
request handler, worker slot, timer and fire-and-forget promise interleaves with
all the others, the process may die anywhere, and the database, Redis and a
receiver of webhooks fail independently of each other.  Those steps are what the
modules describe; rows and payloads are reduced to what the properties tell apart.

## 1. Inventory

| Component | State it keeps | Operations | What is hard about it | What makes it correct |
|---|---|---|---|---|
| Event bus (`utils/event-bus.ts`) | nothing persistent: envelopes in flight in the process | `emitEvent` | the hand-over by `setImmediate` dies with the process | an emitted event is fanned out once |
| Webhook fan-out and delivery (`workers/webhook*.ts`, `modules/webhooks`) | `webhooks`, `webhook_events`, `webhook_deliveries`, BullMQ `webhook-delivery` | registration, PATCH, DELETE, fan-out, attempt, retry chain, manual retry, test delivery | a row and its job are written one after the other; the next attempt is queued while the present one runs; stalled jobs run again; url and secret change meanwhile | a pending row has a carrier, one chain per row, a bounded number of attempts, nothing given up without a dead letter, each attempt signed with the secret it should have |
| Webhook dead-letter queue (`workers/webhook.queue.ts`) | BullMQ `webhook-dlq`, `webhook_dlq_archive` | `enqueueToDlq`, `purgeDlqJobs` | slots and purge act on lists read several awaits ago | no dead letter is lost; the cap holds |
| Circuit breaker (`workers/circuit-breaker.ts`) | `webhooks.is_active`, `circuit_open_until`, `failure_streak`, Redis keys | success, failure, recovery scan, start-up sync, PATCH | three copies of one fact, some written without waiting | a disabled webhook comes back; one an administrator disabled does not |
| Distance engine (`modules/session_summary`, `workers/distance*.ts`) | `attendance_sessions`, `session_summaries`, BullMQ `distance-engine`, `distance-failed` | check-out, calculation, recalculation, start-up recovery, dead-letter replay | several writers of one session's result, late effects of the failed handler, a crash between close and enqueue, points stored while the pages are read | a closed session gets its distance or is on record as failed; a stream that ends has missed no point |
| Check-in, check-out, locations (`modules/attendance`, `modules/locations`) | `attendance_sessions`, `employee_latest_sessions`, `gps_locations` | check-in, check-out, forced check-out, deactivation, one point or a batch | check-then-insert and check-then-close; a trigger and late upserts write the same row | the sessions are those of one person who is in or out; the latest row is the newest session |
| Snapshot worker and reconciliation (`workers/snapshot.*.ts`, `reconciliation.job.ts`) | `employee_last_state`, `active_users`, `pending_expenses`, `employee_metrics_snapshot`, BullMQ `snapshot-engine` | one handler per job type, `reconcile_snapshot_tables()` | jobs of one employee in any order, or twice | a quiet system's mirrors agree with its sessions and expenses; nothing is counted twice |
| Analytics worker (`workers/analytics.*.ts`) | `employee_daily_metrics`, `org_daily_metrics`, `org_dashboard_snapshot`, BullMQ `analytics` | recompute of a day, dashboard, dead letter | five slots read and then upsert; three attempts to wait for the distance | a closed session is counted or on record; the day's sums are exact |
| Retry intents (`workers/retry-intents.ts`) | `queue_retry_intents` | upsert, replay at start, cleanup | an upsert over a row of any former status; replay only at start | what the queue refused is not forgotten |
| Dashboards and analytics API (`modules/analytics`, `modules/dashboard`) | none | ranges, leaderboard, top performers, summaries | the same number from three sources | the sources agree once the jobs are done |
| Expenses (`modules/expenses`) | `expenses` | submission, review, lists, summaries | the review checks in one round trip and writes in another; its jobs overtake each other | one decision per claim; the mirrors follow |
| Cache (`utils/cache.ts`) | a map per process and Redis | read-through, invalidate | a read that began before an invalidation ends after it; Redis refills the map | staleness is bounded; an invalidation is seen by its own process |
| Employees (`modules/employees`) | `employees.is_active`, the auth user's ban | switch, lists by segment | the ban is sent without waiting; three queries of two kinds split one list | a ban follows the switch; the segments partition the list |
| Authentication and API keys (`middleware/auth.ts`, `modules/api-keys`) | `api_keys` with two counters | request with a token or a key, create, update, delete | a key is read once and used to the end of the request; updates of single fields overlap | a key serves as the administrators ordered; its counters are exact |
| Rate limiting (`plugins/security/ratelimit.plugin.ts`) | sorted sets in Redis, a map in memory | two tiers and a retry | stamps are taken before the script runs; a failed call may have counted | no window lets more through; nobody is refused for being counted twice |
| Server-sent events (`routes/events.routes.ts`) | a counter and listeners per organisation | connect, disconnect | the handler runs after an await the client may not have lived through | the counter is the listeners |
| Monitoring sessions (`modules/admin/monitoring.*`) | `admin_sessions` | start, stop | a unique index as the arbiter of check-then-insert | overlapping starts agree |
| Login routes, admin reads, configuration, telemetry, health, tenant scoping, helpers, schema, deployment | none of their own, or read-only | – | – | – |

How they interact: a request passes authentication and the rate limits, writes its
row, then calls the event bus (webhooks), the three enqueue functions (snapshot,
distance, analytics) and the SSE bus, most without waiting.  The distance worker's
result is what the analytics worker waits for, and both write back into rows that
the dashboards read through the cache.  The webhook worker calls the breaker after
each attempt and the dead-letter queue after the last; the breaker decides through
`is_active` which webhooks later fan-outs select.  At start the server runs,
unawaited and side by side, the recovery scan, the replay of intents and the
breaker's sync.

`PROJECT.json` lists all components, modelled or not, and every hazard at its line.

## 2. Modules

```
JobQueue -------+--> Attendance --refines--> AttendancePromise
 (INSTANCE)     +--> Expenses
                +--> Analytics ----> AnalyticsReaders
WebhookDelivery --refines--> WebhookPromise
WebhookSecrets   WebhookDlq   CircuitBreaker
Sums -----------+--> DistanceStream
                +--> AnalyticsReaders
DistancePipeline
OrgCache  SseConnections  MonitoringSessions  Admission  Employees  Authentication
```

The `MC*` modules give TLC small instances; `*Proofs` hold the theorems.

### WebhookDelivery and WebhookPromise

From `emitEvent` to the settled row.

* **State.**  `bus`, `fan`: where an event and each of its deliveries are in the
  fan-out.  `status`, `attempts`: the row of `webhook_deliveries`.  `queue`: the
  BullMQ state of the job `delivery:{id}:{n}`, for every attempt number `n`.
  `wpc`, `wjob`, `wlock`: a worker slot.  `apc`, `ajob`: an administrator's
  request.  `contested` records the deliveries that two requests had in hand at once
  (`InHand`), which nothing in the code prevents.  `oversize`: the events whose
  payload exceeds the limit, any subset, fixed in the initial state.
* **Actions.**  Fan-out: `Emit`, `PersistEvent`, `SelectWebhooks`, `FanInsert`,
  `FanDepth`, `FanAdd`, `FanReject`.  Worker: `Take`, `CheckStatus`, `FetchEvent`,
  `MarkNoEvent`, `MarkOversize`, `Post`, `MarkSuccess`, `ScheduleRetryOrFail`,
  `RetryDepth`, `RetryAdd`, `RetryReject`, `MoveToDlq`, `FinishJob`.
  Administrator: `RetryRead`, `RetryReset`, `TestCreateEvent`,
  `TestCreateDelivery`, `AdminDepth`, `AdminAdd`, `SetActive`, `DeleteWebhook`.
  Environment: `Stall` (a lock runs out while the slot lives on), `Crash`.
* **Abstractions.**  A delayed job may start at any moment; a POST answers 2xx or
  fails, by choice; payload, signature and URL checks are data.

WebhookPromise is the abstract life of a delivery row, as a reader of the table sees
it: it is created pending; an attempt counts past every attempt before it and leaves
a verdict, or leaves the row pending while automatic attempts remain; giving up
counts nothing; a verdict stands until somebody asks for another try; rows go with
their webhook.  WebhookDelivery implements it with `verdict <- status`,
`tried <- attempts` and `disturbed <-` a crash, a stall, or two requests that have one
delivery in hand: the property `KeepsRowPromise`.

### WebhookSecrets

Which pair of url and secret an attempt carries.  `edition` counts the pairs the row
of the webhook has had; `sealed` is what the job of a delivery and attempt carries.
The fan-out reads the pair with the webhook (`SelectPair`), inserts the delivery and
adds the job; a retry hands on what its own job carries (`FailAndRetry`); a manual
retry reads the row anew (`ReadDelivery`, `FetchPair`, `ResetDelivery`,
`EnqueueRetry`, each a round trip), a test reads it first (`ReadForTest`).  An attempt
is one step here, and the depth of the queue a choice: WebhookDelivery has both in
full.

### WebhookDlq

`dlq` is the waiting list, oldest first, of `<<delivery, attempt>>`; its BullMQ id
names the delivery alone, so adding is ignored while the id exists, and removal
looks the id up again.  `Exhaust` to `Add` are the awaits of `enqueueToDlq`,
`StartPurge` to `Recount` those of `purgeDlqJobs`; `Age` lets an entry pass its
retention, `Crash` and `Redo` kill slots and run their jobs again.

### CircuitBreaker

The three columns, the two Redis keys, the slots between `INCR` and the updates
that follow, the fire-and-forget streak writes (`writes`), the recovery scan row by
row (`Scan`, `CloseRow`, `CloseStreak`, `CloseCooldown`, `ScanOn`), the start-up
sync (`SyncRead`, `SyncWrite`), the PATCH, restarts, and the loss of Redis keys.
A queued delivery is a number here: its job and its row are WebhookDelivery's.

### DistancePipeline and DistanceStream

* **State.**  `edition` names what a calculation is based on: 1 while the session
  is open, one more for each write of `checkout_at`; `summary` and `duration` hold
  the edition their stored values come from.  `status` is
  `distance_recalculation_status`.  `job`, `made`: the BullMQ job.  `lateDlq`,
  `lateMark`: effects of "failed" handlers that nobody awaits.  `call`: each
  `enqueueDistanceJob` under way, whoever called it.
* **Actions.**  `FindOpenSession`, `CloseSession`, `Enqueued`,
  `PersistRetryIntent` (check-out; force-checkout does not persist an intent);
  `ReadDepth`, `AddJob`; `Take`, `Recalculate`, `ReadSession`, `SaveSummary`,
  `SaveRow`, `FinishJob`; `DeadLetter`, `MarkFailed`; `RecoveryScan`,
  `RecoveryReturn`; `LoadIntents`, `NextIntent`, `IntentReplayed`, `CleanupIntent`;
  `StartReplay`, `NextEntry`, `EntryReplayed`; `Crash`.
* **Abstractions.**  That a session is too long or holds too many points (`broken`)
  is decided when it is closed.  The replay's limit, order and cool-down are left
  out, and one replay runs at a time.  A job stalls only when the process dies.  The
  recovery scan is one query.

What happens inside one calculation is DistanceStream's: `ReadChunk` reads a page of
points in the order of `recorded_at` and by OFFSET, `AddChunk` adds its legs to the
metres and bridges from the last point of the page before, while `StorePoint` still
inserts.  A point is its time; its place lies on one meridian, where the haversine
distance is a difference.  The length of a path is a sum; Sums defines one as the
number of its units, without recursion, so that it can be reasoned about.

### JobQueue

A BullMQ queue and its slots, parameterised by ids, slots and `MaxAttempts`: `Add`
under an id (ignored while the id exists), `Take`, `Continue` to the handler's next
statement, `Done`, `Throw` (back in the queue with backoff, or kept as failed),
`Stall` (slots die, jobs run again).  The "failed" listener is nobody's await: after
the last attempt the job is in `filing`, and then `File` puts it among the
`deadLetters`, or the add fails and is logged (`FileFails`), or the process dies first
(`Stall`); `unfiled` remembers the last two.  The record of an exhausted job is
therefore the job BullMQ keeps (`KnownAsFailed`), never the dead letter.  The listener
of "analytics" files an entry for each earlier attempt as well; nobody reads these,
and they are left out.  Attendance, Expenses and Analytics instantiate the module and
supply the handlers; `FinishJob` lets the process die between the handler's last write
and BullMQ's taking note of it, so that the job runs again.

### Attendance and AttendancePromise

One employee: every table is keyed by employee.  `opened`, `closed` and `dist` are
the rows of `attendance_sessions`, numbered in the order of their check-in.  A request
(`req`) is a check-in, a check-out, a forced one, a deactivation, or a point; each of
its awaits is a step (`BeginCheckIn`, `CreateSession`; `BeginCheckOut`,
`CloseSession`, `AnnounceCheckOut`; `BeginDeactivation`, `AutoCloseSession`;
`BeginFix`, `ReadStart`, `StoreFix`).  The trigger of the database (`Trigger`) is part
of the step that writes the row; the upserts nobody waits for are `late`, and `Land`
in any order.  The handlers of the snapshot worker run statement by statement
(`WriteState`, `WriteActiveUser`, `ReadTotals`, `WriteTotals`, `FinishJob`); `Reconcile` is the
five-minute job with the schema it meets; `Crash` and `IoError` as above.  What the
screens show is stated as operators of its own (`OwnSessions`, `OrgSessions`,
`MapMarkers`, `RouteOf`, `AdminProfile`, `ProfileSessions`), so that the properties
are about answers and not about columns.

AttendancePromise is the abstract specification: a person who is in or out, a
check-in that opens the next session, a check-out that closes it.  Attendance
implements it with `sessions <- opened`, `checkedIn <- Open`: the property
`KeepsPromise`.

### Analytics and AnalyticsReaders

One organisation, one day.  A row is the set of what it sums up, pairs of a session
and the edition of its distance, so that counting twice, or an old distance, shows.
A session is closed in one of three `Ways`: by the employee's own check-out, by an
administrator's, or by the deactivation of the employee, which does nothing but write
`checkout_at` (`AutoClosed`; a check-out that found the session open before may still
follow).  `Close`, `ReadDepth`, `AddJob`, `PersistRetryIntent`: what a check-out feeds the queue;
`ReplayNext`, `ReplayAdd`, `ReplayMark`, `CleanupIntent`: the intents at start;
`ReadSession`, `ReadEmployee`, `SaveEmployee`, `ReadOrganisation`, `SaveOrganisation`,
`ReadToday`, `SaveBoard`, `FinishJob`: the awaits of one job; `ComputeDistance`:
DistancePipeline's result, from outside.  AnalyticsReaders states the answers of the endpoints.

### The components behind one request

| Module | State | Actions |
|---|---|---|
| Expenses | rows, reviews under way, jobs on their way, mirror tables | `CreateExpense`, `BeginReview`, `WriteReview`, `AnnounceReview`, `LandAdd`; handlers `InsertPending`, `DeletePending`, `ReadApproved`, `WriteSum`, `FinishJob` |
| OrgCache | what the database would answer, an entry per process and one in Redis, a read and a sweep per process | `WriteRow`, `Miss`, `RedisHit`, `ReadSource`, `Evict`, `Tick` |
| SseConnections | clients, counter, listeners | `Connect`, `LeaveEarly`, `RefuseToken`, `Stream`, `Disconnect`, `RestartApi` |
| MonitoringSessions | the open session, calls | `GetActive`, `StartSession`, `GetActiveAgain`, `StopSession` |
| Admission | the sorted sets of two tiers, requests in their hook | `Stamp`, `RunScript`, `RedisError`, `Retry`, `SkipOrg`, `CheckInMemory`, `TimePasses` |
| Employees | `is_active`, bans and those on their way, rows of `employee_last_state` with ages in ticks | `FindEmployee`, `SetActiveStatus`, `UpdateUserById`, `SnapshotChanges`, `HoursPass`; the lists as operators of a page, its size and the order the rows come in |
| Authentication | the key's row, updates and requests under way, increments on their way | `CreateKey`, `BeginUpdate`, `Update`, `BeginDelete`, `Remove`, `PresentKey`, `FindActive`, `ResolveKey`, `PresentToken`, `Respond`, `CountUse`, `CountError` |

They share no state with each other.

### What is assumed of the outside

* **BullMQ.**  `add` with an id that exists in any state is ignored; a stalled job
  is requeued once and failed the second time (JobQueue lets it run again each time
  the process dies); an option of the job overrides the one of the worker, so that
  `removeOnComplete: true` removes and `removeOnFail: false` keeps.  Ids with a colon
  are accepted: `package.json:38` asks for bullmq ^5.70.4, which is not part of the
  repository, and releases differ in what they accept (some refuse a colon but in ids
  of three parts, which `delivery:{id}:{n}` has and `checkin:{id}` or `analytics:{id}`
  have not).  Were ids refused, every such add would throw, which is the failed call of
  the enqueue actions.  The counting of prioritised jobs is not modelled.
* **supabase-js** returns errors, it does not throw them: a result nobody looks at
  is an error nobody sees.  `IoError` makes any one call fail without effect.
* **Postgres.**  One statement is atomic; unique indexes, triggers and cascades hold.
* **Redis** runs a script atomically; a call that fails may have run (Admission).
* **Fastify** runs a handler although its client left while a hook was awaited, and a
  listener for "close" that is added after the fact is not called.
* **Time.**  In OrgCache no tick passes while a value is on its way into a cache: a
  call takes milliseconds, a TTL thirty seconds or more.

### Dead code left out

`replayWebhookDlqJob` and `isCircuitReadyToRecover` have no callers; the breaker's
cool-down key in Redis is written and never read.


## 3. Runs

Every bound of a run is a constant of its cfg with the prefix `Max` (and `TTL`,
`Window`, `Recent`, `Places`, `Times`).  Deadlock is not checked: with bounded
counters every instance stops.

| Run | Instance | What it shows |
|---|---|---|
| `webhook_pipeline` | 1 event, 2 webhooks, 2 slots, 3 attempts, room for 1 waiting job, fairness | `PendingIsCarried`: no pending row without somebody who will write its outcome. `EventuallySettled`: every row leaves pending. |
| `webhook_faults` | 1 delivery, 2 slots, 2 attempts, 2 administrators; any 3 of 2 requests, 1 crash, 1 stall, 1 failed call | `AttemptCeiling`, `OneChainPerDelivery`, `ExhaustedIsDeadLettered`, `KeepsRowPromise` (refinement of WebhookPromise) |
| `breaker` | 1 webhook, 1 slot, threshold 2, 3 deliveries, 1 PATCH, 1 restart, 1 flush, 1 failed call, fairness | `StrandedOnlyByAdmin`: a webhook the breaker disabled has a deadline the scanner finds. `ScannerEnablesOpenOnly`: it enables no other. `BreakerReenables` |
| `dlq_safety` | 3 deliveries of which each may be dead-lettered twice, 2 slots, cap 2, purge, crash, 1 failed call | `NothingLost`, `DlqWithinMax` |
| `distance_pipeline` | 2 sessions, 2 concurrent check-outs, 1 slot, room for 1 waiting job, 1 crash | `ClosedIsCovered`: a closed session is up to date, on its way or on record as failed. |
| `distance_faults` | 1 session, 2 attempts, a recalculation, a replay, a crash, a failed call, fairness | `PermanentFailureIsMarked`, `ClosedIsSettled` |
| `attendance_mirrors` | 2 requests of any kind, 2 sessions, 2 check-outs, an early point, 1 snapshot slot | `KeepsPromise` (refinement of AttendancePromise), `LatestRowExact`, `MirrorsFollow`, `EarlyPointsNeedCheckOut` |
| `attendance_faults` | 1 session, 2 attempts, 2 faults (failed calls or crashes), dead letters filed or not, distance, reconciliation, fairness | `TotalsNotInflated`, `JobsSettle`: a job is done or kept as failed, and then its dead letter was filed or is known to be missing |
| `analytics` | 2 sessions of one employee or of two, each closed in any of three ways, 2 slots, 2 attempts, room for 1 job, 1 fault, fairness | `ClosedIsAccounted`, `DayIsExact`, `ReadersAgree`, `ClosedSettles` |
| `api` | the nine components of "behind one request", DistanceStream and WebhookSecrets among them, 1 to 3 callers each | one to three properties of each, `TypeOK` of all |
| `webhook_retry_overload` | violation | a manual retry meets a full queue: the row was reset first, stays pending without a job, and a further retry is refused because it is pending |
| `attendance_repair` | violation | `reconcile_snapshot_tables()` names columns the table does not have: every reconciliation is undone |

**One run for nine components.**  MCApi starts in any of nine parts and steps that
one only, so its states are the sum of the nine state spaces, not their product.

**Why the bounds are enough for the question asked.**  Interference needs two actors
on one object, so two slots, two fan-outs, two check-outs, two reviewers, two
managers of a key are there wherever an object has two writers; a third request is
there where two share a limit and one waits.  A queue with room for one waiting job
is full with one and overfull with two.  Three attempts give a first, a middle and a
last one; two suffice where the middle adds nothing.  One crash, one stall and one
failed call suffice for a step that is done twice or not at all; combinations of
several are left to the theorems, which bound nothing, and to `webhook_faults`, whose
`MaxTrouble` admits any three of its five requests and faults, two overlapping retries
and a fault among them.  A TTL or a window of two
ticks has a first, a last and an expired moment.  Four points in pages of two give a
page that is full, one that is short, and a stream that ends with a full page.
Properties that do not hold under a fault say so in their antecedent (`Calm`,
`NoFaults`, `ioErrors = 0`, `~crossed`, `~overlapped`, `~reordered`, `~contested`,
and so on), and the runs without that fault reach it in all their states.

**Symmetry** is used in safety runs only, over sets of interchangeable model values.
In `api`, `Requests`, `Clients` and `Calls` are one set of model values and
`Reviewers`, `Processes`, `Admins`, `Managers` and `Retriers` another: a permutation
moves the names in every part at once, and only one part moves at all.

**Fairness.**  Weak fairness of each slot, fan-out, request under way, pending
promise, replay step and interval timer: Node's event loop runs every callback that
is ready, `setInterval` fires again, BullMQ hands waiting jobs to free slots, and a
call returns or fails.  Nothing is assumed of new requests, crashes, faults, the
answers of receivers, or the choice among jobs.  `BreakerReenables` assumes in
addition that time passes (`Elapse`).  `api` and `attendance_mirrors` assume none.

## 4. Proofs

All theorems hold for every value of the constants under the assumptions named in
the modules (`ConstantsOK`, `BreakerConstants`, `DistanceConstants`,
`AttendanceConstants`, `ExpensesConstants`, `CacheConstants`, ...): any number of
events, webhooks, sessions, slots and requests, any number of attempts, crashes,
stalls, replays and failed calls.

| Theorem | Module | Statement |
|---|---|---|
| `TypeCorrect` | WebhookDeliveryProofs | `SafetySpec => []TypeOK` |
| `AttemptsBounded` | WebhookDeliveryProofs | `SafetySpec => []AttemptCeiling` |
| `ChainIsSingle` | WebhookDeliveryProofs | `SafetySpec => []SingleChain` |
| `PendingAlwaysCarried` | WebhookDeliveryProofs | `SafetySpec => []PendingIsCarried` |
| `ChainNeverForks` | WebhookDeliveryProofs | `SafetySpec => []OneChainPerDelivery` |
| `ExhaustedReachDlq` | WebhookDeliveryProofs | `SafetySpec => []ExhaustedIsDeadLettered` |
| `RowsKeepPromise` | WebhookDeliveryProofs | `SafetySpec => KeepsRowPromise`, the refinement |
| `SuccessStays` | WebhookDeliveryProofs | `SafetySpec => SuccessIsKept` |
| `DeadLettersAreKept` | WebhookDlqProofs | `SafetySpec => []NothingLost` |
| `QueueKeepsItsCap` | WebhookDlqProofs | `SafetySpec => []DlqWithinMax` |
| `TypeCorrect` | CircuitBreakerProofs | `SafetySpec => []TypeOK` |
| `NeverStranded` | CircuitBreakerProofs | `SafetySpec => []StrandedOnlyByAdmin` |
| `ScannerIsSafe` | CircuitBreakerProofs | `SafetySpec => ScannerEnablesOpenOnly` |
| `TypeCorrect` | DistancePipelineProofs | `SafetySpec => []TypeOK` |
| `FailureIsMarked` | DistancePipelineProofs | `SafetySpec => []PermanentFailureIsMarked` |
| `ClosedAlwaysCovered` | DistancePipelineProofs | `SafetySpec => []ClosedIsCovered` |
| `LatestSessionRowExact` | AttendanceProofs | `SafetySpec => []LatestRowExact` |
| `AttendanceKeepsPromise` | AttendanceProofs | `SafetySpec => KeepsPromise`, the refinement |
| `EarlyPointsAreOfClosed` | AttendanceProofs | `SafetySpec => []EarlyPointsNeedCheckOut` |
| `TotalsAreSet` | AttendanceProofs | `SafetySpec => []TotalsNotInflated` |
| `MirrorsFollowSessions` | AttendanceProofs | `SafetySpec => []MirrorsFollow` |
| `ClosedSessionsAreAccounted` | AnalyticsProofs | `SafetySpec => []ClosedIsAccounted` |
| `SettledDayIsExact` | AnalyticsProofs | `SafetySpec => []DayIsExact` |
| `ReadersTellTheSame` | AnalyticsProofs | `SafetySpec => []ReadersAgree` |
| `UncontestedDecidedOnce` | ExpensesProofs | `ExpensesSpec => []DecidedOnce` |
| `SnapshotFollowsTable` | ExpensesProofs | `ExpensesSpec => []PendingFollows` |
| `TotalFollowsApprovals` | ExpensesProofs | `ExpensesSpec => []SumFollows` |
| `StalenessBounded` | ApiProofs | `CacheSpec => []StaleAtMostTwoTTL` |
| `SweepsAreEffective` | ApiProofs | `CacheSpec => []SweptIsFresh` |
| `SlotsAreCounted` | ApiProofs | `SseSpec => []SlotsAreListeners` |
| `StartsAreIdempotent` | ApiProofs | `MonitoringSpec => []StartsAgree` |
| `BansFollowSwitches` | ApiProofs | `EmployeesSpec => []BanFollows` |
| `SegmentsShareOut` | ApiProofs | `EmployeesSpec => []SegmentsPartition` |
| `WindowsAreRespected` | ApiProofs | `AdmissionSpec => []WithinWindow` |
| `RefusalsAreJust` | ApiProofs | `AdmissionSpec => []RefusedJustly` |
| `SecretsAreAsDocumented` | ApiProofs | `SecretsSpec => []SecretAsDocumented` |
| `KeysAreServedAsOrdered` | ApiProofs | `AuthSpec => []ServedAsOrdered` |
| `CountersAreExact` | ApiProofs | `AuthSpec => []CountersFollow` |
| `StreamsAreExact` | ApiProofs | `StreamSpec => []StreamIsExact` |
| `PartsStayTyped` | ApiProofs | `MCSpec => []TypeOK` |

*Why a pending row always has a carrier.*  `PendingIsCarried` is not inductive:
when the worker adds the next attempt's job and a job of that id already exists,
BullMQ drops it, and the chain ends with a pending row.  `SingleChain` excludes
that.  Its parts say, while nothing fails: a slot owns the lock of its job and no
other slot has it; before the fan-out has added the first job there is none; a
queued job is the newest of its delivery and no slot still works for that
delivery; the job of a slot that works is the newest.  Each part is preserved only
with the help of the others, and the antecedent `Calm` needs the lemma that the
counters of faults and interventions never decrease (`CalmBefore`).

*Why the chain does not fork, and success stays.*  With retries by administrators
in play the carrier of a delivery is, at any moment, the fan-out, a queued job, a
slot, or a request: `OneCarrier` orders the four and says that the earlier
exclude the later.  `Unstarted` is needed for the fan-out, which reaches a delivery
when nothing has begun, and `Unattended` for the request, which resets a row that
is settled and may not meet a slot still at work for it.  Together they are
`ThreadInv`; it holds until something crashes or stalls, for then a job runs twice.
There may be any number of administrators and retries.  What the code does not exclude
is that two of them read one delivery as failed before either resets it: the chain then
forks, and the slower branch may overwrite the success of the faster one (section 5;
without the record of it TLC finds the fork).  The history variable `contested` names
the deliveries this happened to.  `ThreadInv` speaks of each delivery on its own, and
the four theorems that rest on it leave out the contested ones, no others; a delivery
once contested stays so (`ContestedGrows`).  The refinement lets the promise be
`disturbed` from then on, as after a crash.  `ExhaustedReachDlq` adds
`CountInv`, while no call fails either: whoever may give a delivery up has the count
of its row in hand, so that a row with all attempts spent was failed by the worker
that goes on to dead-letter it.

*Why a row keeps its promise.*  A retry, a late attempt or a manual reset could each
write to a row that is settled, or set its count back.  `AheadInv` follows the
numbers: whoever has a delivery in hand (a queued job, a slot, the administrator,
the fan-out) has a number past the count of its row, or, once the attempt is
counted, none below it.  Where a slot raises the count, `OneCarrier` says that nobody
else has the delivery, so that nobody is left behind.  With it each action maps to a
step of the promise or to a stutter; what a crash or a stall does afterwards is
`Disturb`.

*Why no dead letter is lost, and the queue keeps its cap.*  `ArchivedFirst`: what a
slot or the purge is about to remove is in the archive by then; removal looks an entry
up by delivery alone, and `LostInv` therefore speaks of deliveries, not of entries.
`RoomInv` follows the one slot in `enqueueToDlq` from its count to its add: an entry
it means to evict is there to evict, or the purge has made the room.

*Why no webhook is stranded.*  The streak writes carry no deadline and the sync
never writes the row, so the row's `is_active` and `circuit_open_until` change in
four places.  The invariant `ListIsOpen` covers the scanner: from its query to its
update nobody else takes a deadline away, so that what it closes is open.

*Why a closed session is covered.*  `TypeInv` adds to the types that a slot owns
the one active job of its session and that a replay of dead letters removes no more
entries than there are.  `CoverInv` then says four more things.  Whatever works for
a session began after its close, so that it reads the final edition
(`StartsAfterClose`).  A call under way is that of the session its caller means
(`CallsMatch`).  A result of an earlier edition marks the session as recalculated
midway (`BasisIsRead`).  And "done" is true, the summary included, while a call that
returned without an error left a job or a result (`DoneIsFresh`).  This is what lets
the recovery scan rely on the status column alone, lets an intent be resolved and a
refused session be handed over without a moment in which nobody has it.  Each step
of a calculation is reduced to one lemma, `CalculationCover`, about what it may
disturb and has to respect.

*Why the latest row is exact, and check-ins alternate.*  `AttendanceInv` is
`Shape` (at most the newest session is open), `RequestsShape` (a request between two
awaits is about a session that exists, and about one that is closed once it
announces that), `LateShape` (so is an upsert on its way, and the distance's is of a
session that has one) and `LatestExact`.  The trigger restores `LatestExact` in the
very statement that changes a session; only an upsert that lands can break it, and
then `staleWrite` says so.  The refinement needs `Shape` alone: `CreateSession`
either meets the unique index or maps to the abstract check-in, a close of a closed
session to a stutter.  `EarlyInv` follows a point through its three reads.  In
`TotalsInv` a job about to write the totals holds a prefix of the sessions.

*Why the mirrors follow.*  Jobs are ranked by the change they announce: the check-in
of session s has rank 2s - 1, its check-out 2s.  `MirrorInv` compares two numbers:
`taken`, the rank of the job the worker took last, and `Due`, the rank of the last
change of the sessions.  `Covered` says that a change whose job is neither on its way
nor kept has been taken; `Mirrored` that the two rows are those of the sessions as
soon as `taken = Due` and that job has written them.  A check-out deletes the row of
active_users only if it still is its session's, so what it leaves behind depends on
what was there: `Floor` says that active_users never falls behind the job taken
last.  All of it holds only as long as no job was overtaken, and an overtaken job is
never lost from sight: it stays outstanding, or it runs and clears `ordered`.  Hence
the invariant may assume `~Overtaken`, and a quiet system satisfies it.

*Why an uncontested expense is decided once.*  `ReviewInv`: unless two reviews of it
overlapped, one reviewer at a time holds an expense (`Alone`), and until the write it
has no decision (`Undecided`).

*Why the snapshot and the total follow.*  `FollowsOf` is the life of a claim's row in
pending_expenses_snapshot: wanted while the claim is pending, and there or on its way;
unwanted after the verdict, and gone or with somebody on the way who takes it out.
As a job is still kept when its handler has returned, the invariant also says what a
slot that is about to finish left behind: the row past the insert, none `PastDelete`.
`late` holds the claims whose two jobs ran in the other order, for which the row comes
back (section 5).  `TotalGrows` says that the one recomputation that runs holds a set
between the total as it is and what is approved, so that a write never takes
anything out of the total.

*Why a closed session is counted.*  `Landed`: its job is kept, or every row has it;
of a session closed by a deactivation nothing is said, for nobody need ever have it.
Whoever lets go of a session (a check-out, a replay that marks its intent, a job that
is done) has seen it land, and what has landed is never taken back (`Keeps`): a
recomputation starts from rows that are still in its hand when it writes them
(`Carried`), which is true of one slot at a time and false of two.  `RowsReal` bounds
the rows from above, and `Abreast` says that between jobs the rows of the organisation
and the dashboard are those of the employees, so that a settled day is exact but for
what a deactivation closed and no later job of that employee picked up.

*Why the readers tell the same.*  When the day is settled `DayInv` gives each row its
contents (`ExactRows`): an employee's row is that employee's sessions but for the
`Missed` ones, the organisation's is all of them but for these, and a deactivation
closed every one of them.  What is left is about the readers alone
(`ReadersOfExactRows`): who reads the sessions tells more than who reads the rows by
exactly what is missed.  The two rankings break ties differently, so they need not
list the same people; `RankedTotals` proves that the total at a place does not depend
on how ties are broken.  `SumOfParts`, a bijection of units, says that the sum over
sessions is the sum over employees of their sums.

*Why a stream is exact.*  A point's rank is the number of points before it.  Ranks
only grow while points are stored, so a point that was there at the beginning may be
read twice but never slips below the offset unread; this half of `StreamInv` holds
whatever is stored meanwhile.  If nothing is, the points read are those of the ranks
below the offset (`Undisturbed`): ranks are a bijection with `0..n-1` (`RankTaken`,
`RankedCount`), a page is an interval of them with as many points as its limits say,
and the legs of two adjoining intervals are the legs of each and the joint between
them: what `AddChunk` adds, and what would be lost if the last point of a page were
forgotten.

*Why the counters stay in their types.*  A type that bounds a counter is a property
of the protocol.  In CircuitBreaker a failure costs a delivery, or a slot's share of a
restart (`Spent`); every streak on record, whether in Redis, in a slot, in an unwaited
write or in the row, is therefore affordable, and the streak has a bound
(`BreakerTypeInv`).  In the parts of `api`, increments that have landed are at most
the requests that sent one, a job has attempts left while it is queued, and a review
writes one decision.

*Why staleness has a bound.*  The invariant is the set an entry is drawn from: age
plus time left is at most one TTL in Redis and two in a process, because what
Redis serves is renewed for another TTL once.  `Swept` adds what is on its way into a
cache: after an invalidation that met no read, a value in the hands of any reader is
as new as the write it followed.

*Why a key is served as ordered.*  `GrantedInv` follows a request from the lookup to
the handler: wherever it stands, a key whose row allows the route, or whose row as it
was read has the scope, was allowed at some moment since the request began.
`CountInv` adds up a counter, its increments on their way and the requests that will
send one.

*The smaller ones.*  `SseInv` adds that a connection that was leaked has left, so
that its client can still be counted.  `SinceStop` of `MonitoringInv` says what a call
that saw no stop since it began has read.  `OneAtATime` says that an employee whose
switches never crossed has one switch or one ban under way, and that the ban is the
row's.  `StillHeld` says that of what was let through, everything younger than the
window is in the sorted set when scripts run in the order of their stamps: the
script's count is then a bound on the window (`Respected`).  `HeldOnce`: what a
request sends again is the member it sent before, so that a set that is full holds
that many requests.  `PagesCover` is arithmetic of pages, shared by the three lists
and the whole one.  In `SecretsInv`,
`OneCarrier` says that a delivery whose retries never overlapped and whose jobs were
not redelivered has one job or one retry that will enqueue one; `Copied` and `ByHand`
say which pair that carries.

**Model-checked only.**  Liveness: `EventuallySettled`, `BreakerReenables`,
`ClosedIsSettled`, `JobsSettle` and `ClosedSettles` need fairness and ENABLED, which
are out of the prover's reach.  Every other property of the passing runs is stated by
a theorem above.

**Type invariants.**  Theorems for WebhookDelivery, DistancePipeline, CircuitBreaker
and the nine parts of `api`; Attendance's is part of `AttendanceInv`, and what the
proofs of Analytics need is `DayShape`.  WebhookDlq's depends on `SelectSeq`, about
which the prover knows nothing; it and the whole of Analytics' describe their
variables and hold in the instances of `dlq_safety` and `analytics`, whose property
lists leave them out.

## 5. Where the code does not do what it says

The two violation runs above.  Five more promises of comments and documents are
stated at the end of their modules; TLC refutes each of them on an instance like the one
of its component's run, with the formula named in the cfg:

* `UnpersistedEventIsPosted` (WebhookDelivery): the insert of an event fails, the
  fan-out goes on, the worker finds no payload and gives up without a POST.
* `CooldownIsServed` (CircuitBreaker): a failure re-opens the circuit between the
  scan's read and its update by id, which cancels the new cool-down.
* `RemovedIsArchived` (WebhookDlq): the archive insert fails, nobody looks at its
  error, the entry is removed.
* `RecoveryFindsOrphans` (DistancePipeline): a recalculation of an open session
  writes "done"; the final calculation is lost in a crash; the scan passes it over.
* `RecomputeIsSafe` (Analytics): two jobs of one day overlap, and the older reads are
  written last (`analytics.worker.ts:60-61`); `DayIsExact` is what is left of it.

Seen while modelling, and left without a formula:

*Webhooks*
* The worker's guard stops a job only when its row says success; a redelivered job
  of a failed row is posted again (`webhook.worker.ts:331` says "still in `pending`
  state").
* A crash between the insert of a delivery row and `queue.add` leaves it pending
  for ever; no code reads pending rows.
* Two administrators who retry one delivery both pass the check of the status (or one
  does who clicks twice): the models record it as `contested`.  The
  second reset finds the first one's job under way, and with a number of its own starts
  a second chain, whose failure may overwrite what the first delivered.  A job
  whose event row is missing leaves `attempt_count`, so that a manual retry may meet
  the id of the job that is still active.
* The depth of a queue is read in one round trip and the job added in another, so
  concurrent callers exceed `MAX_QUEUE_DEPTH`; likewise two slots and the cap of the
  dead-letter queue, which is why `DlqWithinMax` excludes overlapping slots.
* Nothing in the worker looks at the circuit: jobs queued before it opened are posted
  while it is open.  Closing it clears the streak, so one failed probe does not
  re-open it.
* Two slots that evict the same entry, dead-lettered again in between, remove the
  newer one: it was looked up by an id that names the delivery only.
* A delivery whose webhook was selected before a rotation is inserted after it with
  the old secret (`docs/WEBHOOK_SIGNATURES.md:196`: "all new deliveries"); manual
  retries use the current one; jobs of a deleted webhook are still posted.

*Distance and analytics*
* The "failed" event of BullMQ fires after every attempt, not, as
  `distance.worker.ts:127` has it, after the last: a dead letter per attempt, and a
  "failed" that may land after a later attempt's "done".  The listeners of the
  analytics worker do the same.
* The dead letter of a snapshot or analytics job is added by a listener nobody waits
  for, its error is logged (`snapshot.worker.ts:398-405`,
  `analytics.worker.ts:443-449`), and a process that dies in between leaves none.  The
  job kept as failed is the only record one can rely on; nothing reads either of them
  by itself.
* A deactivation closes the session and queues no analytics job, and leaves no intent
  (`employees.controller.ts:146-157`).  If the session has a distance by then (a
  recalculation, or the start-up recovery) and another job of that employee's day runs,
  the row counts it; if not, it never does, while the top performers, who read the
  sessions, do: those two screens then disagree for good.
* A job kept as failed blocks its id: a dead letter is removed by a replay
  whose `add` was ignored.  The cool-down of the replay is set when it has finished.
* Retry intents are replayed at start only, although the log says "retry scheduled";
  force-checkout "mirrors check-out logic" but persists none.
* A second check-out that found the session open before the first closed it writes
  `checkout_at` again; when the job is active by then, the duration stays the first's.
* `increment_employee_expense_metrics` is called with `p_organization_id`
  (`analytics.metrics.repository.ts:92-97`) and declared with `p_org_id`
  (`baseline_schema.sql:799-804`): it always fails, the expense columns of
  `employee_daily_metrics` stay 0, and the cache invalidation chained to it
  (`expenses.service.ts:69`) never runs, although `cache.ts:147-149` names expense
  submission among its callers.
* `attendance.service.ts:258` says the cache is cleared on every check-out; it is
  cleared by the job, after the distance.  Reviews clear it never.
* The leaderboard has rows of employees with expenses alone; top performers do not.

*Attendance, employees, expenses*
* A deactivation closes the session and queues neither snapshot nor distance job:
  `employee_last_state` and `active_users` keep the employee checked in.  So does a
  CHECK_IN that is retried with backoff past its CHECK_OUT.
* The pages of the segments "active" and "recent" are ordered by `last_check_in_at`
  alone (`employees.repository.ts:307`).  It may be the same in two rows, and is NULL in
  one that a CHECK_OUT or LOCATION_UPDATE job created (`snapshot.worker.ts:192-203`,
  `238-252`).  Postgres may order such rows anew for each page: one is then shown twice
  and another not at all.
* The order "ACTIVE, RECENT, INACTIVE" of `attendance.repository.ts:310` is that of a
  page.  The totals of the segment lists ignore search and the active filter
  (`employees.repository.ts:255-257`); when the snapshot query fails, two of them
  answer an empty list, where the comment (319) says the plain one.  The boundary of
  24 hours is `>=` in SQL and `<` in TypeScript.
* `getEmployeeProfile` reads columns that do not exist and counts a `head: true`
  query by its data: the totals are 0.
* Two reviewers of one expense who overlap both decide it.  A retried job of a
  submission that runs after the review's inserts the pending row again.

*Requests*
* `events.routes.ts:8-11` says the slot is freed on disconnect; a client that left
  while the handler's hooks were awaited keeps it.
* A Redis error in the tier of the key skips the tier of the organisation.
* `error_count` counts refusals for want of a scope, `request_count` does not.
* Some routes have a scope for keys and answer every key with an empty list
  (`GET /attendance/my-sessions`, `GET /expenses/my`).
* `/ready` does not know that the workers failed to start, which the comment in
  `server.ts` says it will reflect; `idempotency_key` is no column of the schema.

## 6. Not modelled, and what no property covers

Components listed as `not_modelled` in `PROJECT.json`, each with its reason: abuse
logging (an `onResponse` hook that decides nothing), the login routes (forwarding),
admin reads (single queries), boot and health (straight-line registration; what a
restart does is in the pipelines' `Crash` and `Restart`), configuration and telemetry,
tenant scoping (a WHERE clause; every module stands for one organisation), the rest of
the schema, helpers over strings and floating-point numbers, deployment scripts,
types.  `partly`: the user's own rate limit is the plugin's; of employees, create and
update are single statements; of a profile, only where its numbers come from; of the
dashboards, ranges of dates and expense columns are left out.

Further abstractions: one replay of distance dead letters at a time, although nothing
prevents two until the first has finished; in WebhookSecrets an attempt is one step,
and a stall or a crash shows as a redelivery only; in OrgCache one key.

Things that can go wrong and that no property covers: an envelope on the bus dies
with its process; two requests retry one delivery at once; the dead-letter queue refuses
an entry, or two slots exceed its cap; the event row is missing; the entry evicted from
the dead-letter queue is not the one read; an open session is recalculated; a session is
checked out twice at once, or calculated twice at once; a job kept as failed swallows
later adds; two analytics jobs of a day run at once; snapshot jobs of one employee or
one expense overtake each other; two switches of one employee cross; scripts of the rate
limit run in another order than their stamps; rows with equal keys change places between
two pages.  But for the last, the models contain each of these behaviours; the code does
not prevent them, so that no property that is true can.  The properties exclude them by
an antecedent that names exactly that (`contested`, `overlapped`, `ordered`, `late`,
`crossed`, `reordered`, `NoFaults`), the notes of the hazards in `PROJECT.json` say so,
and section 5 what happens then.

## 7. Plan

1. **DistancePromise**: the abstract life of a checked-out session (open, owed,
   calculated or known as failed) that DistancePipeline implements; the proofs of
   DistancePipelineProofs are most of what the refinement needs.
2. **Proofs**: the types of Analytics.
3. **Analytics**: a finer `overlapped`, by employee, so that `DayIsExact` speaks of the
   rows of those whose own jobs did not overlap.
3. **Analytics composed with DistancePipeline** through the session row, in place of
   `ComputeDistance`.
4. The live map and the ranges of the analytics endpoints.
