------------------------------ MODULE Attendance ------------------------------
(***************************************************************************)
(* The attendance of one employee: check-in, check-out (by the employee or *)
(* forced by an administrator), deactivation, GPS points, and everything   *)
(* that mirrors the sessions:                                              *)
(*                                                                         *)
(*   attendance_sessions --trigger--> employee_latest_sessions             *)
(*        |                             ^  upserts nobody waits for        *)
(*        +--> queue "snapshot-engine" --> employee_last_state,            *)
(*                        active_users, employee_metrics_snapshot          *)
(*                                                                         *)
(* and the reconciliation that runs every five minutes.  Every row of the  *)
(* mirrors is keyed by employee, so one employee is enough; sessions are   *)
(* numbered in the order of their check-in.  last_activity_at, the events  *)
(* emitted and the other queues a check-out feeds are not read here.       *)
(***************************************************************************)
EXTENDS Naturals, FiniteSets

CONSTANTS
  Requests,          \* concurrent requests, of any kind
  Points,            \* what recorded_at of a GPS point says: "early" or "inside"
  Slots, MaxAttempts,
  DailyColumns,      \* columns of employee_daily_metrics
  MaxSessions,       \* bound: sessions
  MaxCheckOuts,      \* bound: check-out requests
  MaxFixes,          \* bound: location requests
  MaxDistances,      \* bound: sessions whose distance is computed
  MaxReconciliations,
  MaxFaults          \* bound: failed calls and crashes, of these at most one

ASSUME AttendanceConstants ==
  /\ MaxSessions \in Nat /\ MaxCheckOuts \in Nat /\ MaxFixes \in Nat /\ MaxDistances \in Nat
  /\ MaxAttempts \in Nat \ {0}
  /\ MaxFaults \in Nat /\ MaxReconciliations \in Nat
  /\ Points \subseteq {"early", "inside"}
  /\ "distance" \notin Requests

Sessions == 1..MaxSessions

VARIABLES
  opened,            \* rows of attendance_sessions: the sessions 1..opened
  closed,            \* those with a checkout_at
  dist,              \* those with a total_distance_km
  points,            \* gps_locations
  latest,            \* the row of employee_latest_sessions
  late,              \* writes to it nobody waits for, on their way
  lastState,         \* the row of employee_last_state
  activeUser,        \* session of the row of active_users, 0 without
  daily,             \* sessions in employee_daily_metrics
  totals,            \* total_sessions of employee_metrics_snapshot
  req,               \* request -> Idle, or its step
  job, made, slot, filing, deadLetters, unfiled,
  reconciled,        \* runs of the reconciliation
  staleWrite,        \* history: a late write carried an old state of the sessions
  taken, ordered,    \* history: attendance jobs ran one at a time, in their order
  lost,              \* history: an add or a delete was not made, or failed and was only logged
  checkOuts, fixes, crashes, ioErrors

INSTANCE JobQueue WITH
  Jobs <- ({"in", "out"} \X Sessions \X {"none"}) \cup ({"loc"} \X Sessions \X Points)

queue   == <<job, made, slot, filing, deadLetters, unfiled>>
rows    == <<opened, closed, dist>>
mirrors == <<lastState, activeUser, totals>>
history == <<staleWrite, taken, ordered, lost>>
bounds  == <<checkOuts, fixes, crashes>>
vars == <<rows, points, latest, late, mirrors, daily, req, queue, reconciled,
          history, bounds, ioErrors>>

AttendanceJobs == {"in", "out"} \X Sessions \X {"none"}

Idle   == [step |-> "idle"]
Row(s) == [session |-> s, closed |-> s \in closed, dist |-> s \in dist]
NoRow  == [session |-> 0, closed |-> FALSE, dist |-> FALSE]
Rows   == [session : Sessions, closed : BOOLEAN, dist : BOOLEAN]
Open   == opened > 0 /\ opened \notin closed

TypeOK ==
  /\ opened \in 0..MaxSessions
  /\ closed \subseteq 1..opened
  /\ dist \subseteq closed
  /\ points \subseteq (1..opened) \X Points
  /\ latest \in Rows \cup {NoRow}
  /\ \A w \in late : w.by \in Requests \cup {"distance"} /\ w.row \in Rows
  /\ lastState \in [session : 0..opened, in : BOOLEAN]
  /\ activeUser \in 0..opened
  /\ daily \in 0..opened /\ totals \in Nat
  /\ \A r \in Requests : req[r] # Idle =>
       req[r].session \in 0..opened /\ req[r].point \in Points \cup {"none"}
  /\ QueueTypeOK
  /\ reconciled \in 0..MaxReconciliations
  /\ staleWrite \in BOOLEAN /\ ordered \in BOOLEAN /\ lost \in BOOLEAN
  /\ taken \in 0..(2 * MaxSessions)

Init ==
  /\ opened = 0 /\ closed = {} /\ dist = {} /\ points = {}
  /\ latest = NoRow /\ late = {}
  /\ lastState = [session |-> 0, in |-> FALSE]
  /\ activeUser = 0 /\ daily = 0 /\ totals = 0
  /\ req = [r \in Requests |-> Idle]
  /\ QueueInit
  /\ reconciled = 0
  /\ staleWrite = FALSE /\ taken = 0 /\ ordered = TRUE /\ lost = FALSE
  /\ checkOuts = 0 /\ fixes = 0 /\ crashes = 0 /\ ioErrors = 0

IoError ==
  /\ ioErrors + crashes < MaxFaults
  /\ ioErrors' = ioErrors + 1

NoIoError == UNCHANGED ioErrors

Goto(r, step, s, p) ==
  req' = [req EXCEPT ![r] = [step |-> step, session |-> s, point |-> p]]

Leave(r) == req' = [req EXCEPT ![r] = Idle]

At(r, step) == req[r] # Idle /\ req[r].step = step

-----------------------------------------------------------------------------
(* The trigger on attendance_sessions, and the writes that follow it.      *)

\* Mutant: the guard of the trigger the wrong way round.
TriggerKeepsOlder(row) ==
  latest' = IF latest.session # 0 /\ latest.session < row.session THEN latest ELSE row

\* fn_update_employee_latest_session, part of the statement that fires it: no
\* older session replaces a newer one.
Trigger(row) == latest' = IF latest.session > row.session THEN latest ELSE row

\* upsertLatestSession with the row a request got back, and
\* updateLatestSessionDistance: their errors are logged.
Land(w) ==
  /\ w \in late
  /\ late' = late \ {w}
  /\ \/ /\ NoIoError
        /\ latest' = CASE w.by # "distance" -> w.row
                       [] w.by = "distance" /\ latest.session = w.row.session ->
                            [latest EXCEPT !.dist = TRUE]
                       [] OTHER -> latest
        /\ staleWrite' = (staleWrite \/ (w.by # "distance" /\ w.row # Row(opened)))
     \/ IoError /\ UNCHANGED <<latest, staleWrite>>
  /\ UNCHANGED <<rows, points, mirrors, daily, req, queue, reconciled, taken, ordered,
                 lost, bounds>>

-----------------------------------------------------------------------------
(* Check-in and check-out.                                                 *)

\* findOpenSession for a check-in: an open session refuses it.
BeginCheckIn(r) ==
  /\ req[r] = Idle
  /\ opened < MaxSessions
  /\ ~Open
  /\ Goto(r, "insert", 0, "none")
  /\ UNCHANGED <<rows, points, latest, late, mirrors, daily, queue, reconciled, history,
                 bounds, ioErrors>>

\* Mutant: without the unique index.
CreateSessionUnguarded(r) ==
  /\ At(r, "insert")
  /\ opened < MaxSessions
  /\ opened' = opened + 1
  /\ Trigger([session |-> opened + 1, closed |-> FALSE, dist |-> FALSE])
  /\ Goto(r, "announceIn", opened + 1, "none")
  /\ NoIoError
  /\ UNCHANGED <<closed, dist, points, late, mirrors, daily, queue, reconciled, history,
                 bounds>>

\* createSession: uniq_active_session refuses a second open session.
CreateSession(r) ==
  /\ At(r, "insert")
  /\ \/ /\ ~Open /\ opened < MaxSessions
        /\ opened' = opened + 1
        /\ Trigger([session |-> opened + 1, closed |-> FALSE, dist |-> FALSE])
        /\ Goto(r, "announceIn", opened + 1, "none")
        /\ NoIoError
     \/ /\ \/ (Open \/ opened = MaxSessions) /\ NoIoError
           \/ IoError
        /\ Leave(r)
        /\ UNCHANGED <<opened, latest>>
  /\ UNCHANGED <<closed, dist, points, late, mirrors, daily, queue, reconciled, history,
                 bounds>>

\* findOpenSession for a check-out, or for a forced one.
BeginCheckOut(r) ==
  /\ req[r] = Idle
  /\ checkOuts < MaxCheckOuts
  /\ checkOuts' = checkOuts + 1
  /\ Open
  /\ Goto(r, "close", opened, "none")
  /\ UNCHANGED <<rows, points, latest, late, mirrors, daily, queue, reconciled, history,
                 fixes, crashes, ioErrors>>

\* findOpenSession for setStatus, once the employee is deactivated.
BeginDeactivation(r) ==
  /\ req[r] = Idle
  /\ checkOuts < MaxCheckOuts
  /\ checkOuts' = checkOuts + 1
  /\ Open
  /\ Goto(r, "autoClose", opened, "none")
  /\ UNCHANGED <<rows, points, latest, late, mirrors, daily, queue, reconciled, history,
                 fixes, crashes, ioErrors>>

\* Its closeSession: nothing is announced, and an error is logged.
AutoCloseSession(r) ==
  /\ At(r, "autoClose")
  /\ LET s == req[r].session IN
     \/ /\ closed' = closed \cup {s}
        /\ Trigger([session |-> s, closed |-> TRUE, dist |-> s \in dist])
        /\ lost' = TRUE
        /\ NoIoError
     \/ IoError /\ UNCHANGED <<closed, latest, lost>>
  /\ Leave(r)
  /\ UNCHANGED <<opened, dist, points, late, mirrors, daily, queue, reconciled, staleWrite,
                 taken, ordered, bounds>>

\* closeSession, by id: also one that is closed by now.
CloseSession(r) ==
  /\ At(r, "close")
  /\ LET s == req[r].session IN
     \/ /\ closed' = closed \cup {s}
        /\ Trigger([session |-> s, closed |-> TRUE, dist |-> s \in dist])
        /\ Goto(r, "announceOut", s, "none")
        /\ NoIoError
     \/ IoError /\ Leave(r) /\ UNCHANGED <<closed, latest>>
  /\ UNCHANGED <<opened, dist, points, late, mirrors, daily, queue, reconciled, history,
                 bounds>>

\* The request goes on with the row it got back: the upsert and the job, neither
\* awaited.  The row of a check-out carries the distance it had then.
Announce(r, kind, step, isClosed) ==
  /\ At(r, step)
  /\ LET s == req[r].session IN
     /\ late' = late \cup {[by |-> r, row |-> [session |-> s, closed |-> isClosed,
                                               dist |-> isClosed /\ s \in dist]]}
     /\ \/ Add(<<kind, s, "none">>) /\ NoIoError /\ UNCHANGED lost
        \/ IoError /\ lost' = TRUE /\ UNCHANGED queue
  /\ Leave(r)
  /\ UNCHANGED <<rows, points, latest, mirrors, daily, reconciled, staleWrite, taken,
                 ordered, bounds>>

AnnounceCheckIn(r)  == Announce(r, "in", "announceIn", FALSE)
AnnounceCheckOut(r) == Announce(r, "out", "announceOut", TRUE)

-----------------------------------------------------------------------------
(* recordLocation and recordLocationBatch.                                 *)

\* validateSessionActive.
BeginFix(r, s, p) ==
  /\ req[r] = Idle
  /\ fixes < MaxFixes
  /\ fixes' = fixes + 1
  /\ s = opened /\ Open
  /\ Goto(r, "start", s, p)
  /\ UNCHANGED <<rows, points, latest, late, mirrors, daily, queue, reconciled, history,
                 checkOuts, crashes, ioErrors>>

\* Mutant: without the comparison of recorded_at.
ReadStartUnchecked(r) ==
  /\ At(r, "start")
  /\ Goto(r, "store", req[r].session, req[r].point)
  /\ NoIoError
  /\ UNCHANGED <<rows, points, latest, late, mirrors, daily, queue, reconciled, history,
                 bounds>>

\* getSessionCheckinAt asks for the session once more, with checkout_at null.
\* Without an answer recorded_at is not compared.
ReadStart(r) ==
  /\ At(r, "start")
  /\ LET known == req[r].session \notin closed IN
     \/ /\ known => req[r].point # "early"
        /\ Goto(r, "store", req[r].session, req[r].point)
        /\ NoIoError
     \/ /\ \/ known /\ req[r].point = "early" /\ NoIoError
           \/ IoError
        /\ Leave(r)
  /\ UNCHANGED <<rows, points, latest, late, mirrors, daily, queue, reconciled, history,
                 bounds>>

\* Not awaited; the record stays although the job is not queued.
EnqueueLocationUpdate(s, p) ==
  \/ Add(<<"loc", s, p>>) /\ NoIoError
  \/ IoError /\ UNCHANGED queue

\* createLocation: a point there already is skipped, so that no row comes back,
\* which is an error.
RecordLocation(s, p) ==
  \/ /\ <<s, p>> \notin points
     /\ points' = points \cup {<<s, p>>}
     /\ EnqueueLocationUpdate(s, p)
  \/ /\ (<<s, p>> \in points /\ NoIoError) \/ IoError
     /\ UNCHANGED <<points, queue>>

\* createLocationBatch: points there already are skipped, and the batch goes on.
RecordLocationBatch(s, p) ==
  \/ points' = points \cup {<<s, p>>} /\ EnqueueLocationUpdate(s, p)
  \/ IoError /\ UNCHANGED <<points, queue>>

StoreFix(r) ==
  /\ At(r, "store")
  /\ LET s == req[r].session
         p == req[r].point
     IN RecordLocation(s, p) \/ RecordLocationBatch(s, p)
  /\ Leave(r)
  /\ UNCHANGED <<rows, latest, late, mirrors, daily, reconciled, history, bounds>>

RequestStep(r) ==
  \/ CreateSession(r) \/ CloseSession(r) \/ AutoCloseSession(r) \/ AnnounceCheckIn(r)
  \/ AnnounceCheckOut(r) \/ ReadStart(r) \/ StoreFix(r)

-----------------------------------------------------------------------------
(* The snapshot worker.                                                    *)

Rank(j) == IF j[1] = "in" THEN 2 * j[2] - 1 ELSE 2 * j[2]

Busy(J) == \E k \in Slots : slot[k] # Free /\ slot[k].job \in J

RunJob(k, j) ==
  /\ Take(k, j, "state")
  /\ IF j \in AttendanceJobs
     THEN /\ taken' = Rank(j)
          /\ ordered' = (ordered /\ Rank(j) >= taken /\ ~Busy(AttendanceJobs))
     ELSE UNCHANGED <<taken, ordered>>
  /\ UNCHANGED <<rows, points, latest, late, mirrors, daily, req, reconciled, staleWrite, lost,
                 bounds, ioErrors>>

\* A statement of a handler: done, or an error it throws.
Statement(k, next) ==
  \/ Continue(k, next, {}) /\ NoIoError
  \/ Throw(k) /\ IoError

\* Mutant: a location update writes the check-in state too.
WriteStateAlways(k) ==
  /\ Runs(k, "state")
  /\ LET j == slot[k].job IN
     /\ Statement(k, "active")
     /\ lastState' = IF ioErrors' # ioErrors THEN lastState
                     ELSE [session |-> j[2], in |-> j[1] # "out"]
  /\ UNCHANGED <<rows, points, latest, late, activeUser, daily, totals, req, reconciled,
                 history, bounds>>

\* The upsert of employee_last_state: by id of the employee, whatever it holds;
\* a location update leaves the session and is_checked_in alone.
WriteState(k) ==
  /\ Runs(k, "state")
  /\ LET j == slot[k].job IN
     /\ Statement(k, "active")
     /\ lastState' = IF ioErrors' # ioErrors \/ j[1] = "loc" THEN lastState
                     ELSE [session |-> j[2], in |-> j[1] = "in"]
  /\ UNCHANGED <<rows, points, latest, late, activeUser, daily, totals, req, reconciled,
                 history, bounds>>

\* active_users: a check-in upserts the row, an error is thrown; a check-out
\* deletes that of its session, a location update touches last_seen_at, and
\* their errors are logged.
WriteActiveUser(k) ==
  /\ Runs(k, "active")
  /\ LET j == slot[k].job IN
     \/ /\ j[1] = "in"
        /\ Statement(k, "read")
        /\ activeUser' = IF ioErrors' # ioErrors THEN activeUser ELSE j[2]
        /\ UNCHANGED lost
     \/ /\ j[1] = "out"
        /\ Continue(k, "read", {})
        /\ \/ /\ activeUser' = IF activeUser = j[2] THEN 0 ELSE activeUser
              /\ NoIoError /\ UNCHANGED lost
           \/ IoError /\ lost' = TRUE /\ UNCHANGED activeUser
     \/ /\ j[1] = "loc"
        /\ Continue(k, "done", {})
        /\ NoIoError \/ IoError
        /\ UNCHANGED <<activeUser, lost>>
  /\ UNCHANGED <<rows, points, latest, late, lastState, daily, totals, req, reconciled,
                 staleWrite, taken, ordered, bounds>>

\* recomputeMetricsSnapshot: the totals are read, an error counts as no rows ...
ReadTotals(k) ==
  /\ Runs(k, "read")
  /\ \/ Continue(k, "write", 1..daily) /\ NoIoError
     \/ Continue(k, "write", {}) /\ IoError
  /\ UNCHANGED <<rows, points, latest, late, mirrors, daily, req, reconciled, history, bounds>>

\* Mutant: incremented, not set.
WriteTotalsIncrement(k) ==
  /\ Runs(k, "write")
  /\ Continue(k, "done", {}) /\ NoIoError /\ totals' = totals + Cardinality(slot[k].read)
  /\ UNCHANGED <<rows, points, latest, late, lastState, activeUser, daily, req, reconciled,
                 history, bounds>>

\* ... and set.
WriteTotals(k) ==
  /\ Runs(k, "write")
  /\ \/ Continue(k, "done", {}) /\ NoIoError /\ totals' = Cardinality(slot[k].read)
     \/ Throw(k) /\ IoError /\ UNCHANGED totals
  /\ UNCHANGED <<rows, points, latest, late, lastState, activeUser, daily, req, reconciled,
                 history, bounds>>

\* The handler has returned: until BullMQ knows, the process may die, and the job
\* runs once more.
FinishJob(k) ==
  /\ Runs(k, "done")
  /\ Done(k)
  /\ UNCHANGED <<rows, points, latest, late, mirrors, daily, req, reconciled, history, bounds,
                 ioErrors>>

SlotStep(k) ==
  WriteState(k) \/ WriteActiveUser(k) \/ ReadTotals(k) \/ WriteTotals(k) \/ FinishJob(k)

\* The "failed" listener, whose own failure needs no bound.
FileDeadLetter(j) ==
  /\ File(j) \/ FileFails(j)
  /\ UNCHANGED <<rows, points, latest, late, mirrors, daily, req, reconciled, history, bounds,
                 ioErrors>>

-----------------------------------------------------------------------------
(* What others do to these tables.                                         *)

\* The distance worker writes the session's row, the trigger fires, and
\* updateLatestSessionDistance is on its way.
DistanceComputed(s) ==
  /\ s \in closed \ dist
  /\ Cardinality(dist) < MaxDistances
  /\ dist' = dist \cup {s}
  /\ Trigger([session |-> s, closed |-> TRUE, dist |-> TRUE])
  /\ late' = late \cup {[by |-> "distance", row |-> [session |-> s, closed |-> TRUE, dist |-> TRUE]]}
  /\ UNCHANGED <<opened, closed, points, mirrors, daily, req, queue, reconciled, history,
                 bounds, ioErrors>>

\* The analytics worker counts a session more.
DailyMetricsWritten ==
  /\ daily < Cardinality(dist)
  /\ daily' = daily + 1
  /\ UNCHANGED <<rows, points, latest, late, mirrors, req, queue, reconciled, history,
                 bounds, ioErrors>>

\* The columns reconcile_snapshot_tables() sums up in its fourth part.
ReconcileReads == {"sessions_count", "total_hours", "total_distance_km", "metric_date"}

\* startReconciliationJob, at start and every five minutes:
\* reconcile_snapshot_tables(), one transaction: every mirror from the sessions.
\* A column that does not exist makes it raise, and what it did before is undone.
Reconcile ==
  /\ reconciled < MaxReconciliations
  /\ reconciled' = reconciled + 1
  /\ IF ReconcileReads \subseteq DailyColumns
     THEN /\ lastState' = IF opened = 0 THEN lastState ELSE [session |-> opened, in |-> Open]
          /\ activeUser' = IF Open THEN opened ELSE 0
          /\ latest' = IF opened = 0 THEN latest ELSE Row(opened)
          /\ totals' = daily
     ELSE UNCHANGED <<mirrors, latest>>
  /\ UNCHANGED <<rows, points, late, daily, req, queue, history, bounds, ioErrors>>

\* The process dies and starts again.
Crash ==
  /\ crashes = 0                \* a second one would find a job stalled twice
  /\ ioErrors < MaxFaults
  /\ crashes' = 1
  /\ lost' = (lost \/ \E r \in Requests : req[r] # Idle)
  /\ req' = [r \in Requests |-> Idle]
  /\ late' = {}
  /\ Stall
  /\ UNCHANGED <<rows, points, latest, mirrors, daily, reconciled, staleWrite, taken, ordered,
                 checkOuts, fixes, ioErrors>>

Next ==
  \/ \E w \in late : Land(w)
  \/ \E r \in Requests : BeginCheckIn(r) \/ BeginCheckOut(r) \/ BeginDeactivation(r)
  \/ \E r \in Requests : \E s \in Sessions : \E p \in Points : BeginFix(r, s, p)
  \/ \E r \in Requests : RequestStep(r)
  \/ \E k \in Slots : \E j \in DOMAIN job : RunJob(k, j)
  \/ \E k \in Slots : SlotStep(k)
  \/ \E j \in filing : FileDeadLetter(j)
  \/ \E s \in Sessions : DistanceComputed(s)
  \/ DailyMetricsWritten
  \/ Reconcile \/ Crash

\* BullMQ serves its slots, and the event loop what is pending.
Fairness ==
  /\ \A k \in Slots : WF_vars(SlotStep(k))
  /\ \A k \in Slots : WF_vars(\E j \in DOMAIN job : RunJob(k, j))
  /\ WF_vars(\E j \in filing : FileDeadLetter(j))
  /\ \A r \in Requests : WF_vars(RequestStep(r))

SafetySpec == Init /\ [][Next]_vars
Spec == SafetySpec /\ Fairness

-----------------------------------------------------------------------------
(* What the screens answer.                                                *)

\* findSessionsByUser: the employee's own, the newest first.
OwnSessions == [i \in 1..opened |-> Row(opened + 1 - i)]

\* findLatestSessionPerEmployee: the administrators' list.
LatestPerEmployee == IF latest = NoRow THEN {} ELSE {latest}

\* getOrgSessions: of one employee, or the newest of each; kept for 30 s (OrgCache).
OrgSessions == [ofOne |-> OwnSessions, ofEach |-> LatestPerEmployee]

\* GET /admin/monitoring/map: a marker of whoever has a point, with the session of
\* employee_latest_sessions; active or recent, as every session is here.
MapMarkers == IF points = {} THEN {} ELSE {row.session : row \in LatestPerEmployee}

\* GET /admin/sessions/:id/locations.
RouteOf(s) == {p \in Points : <<s, p>> \in points}

\* getEmployeeProfile of the administrators: the flag is employee_last_state's, the
\* sessions are read from their own table.
AdminProfile == [is_checked_in |-> lastState.in, recentSessions |-> OwnSessions]

\* getMetricsSnapshot and, without a row or an answer, getEmployeeStats.
SnapshotSessions == totals
DailySessions    == daily

\* getEmployeeProfile of the profile service: either of them.
ProfileSessions == {SnapshotSessions, DailySessions}

-----------------------------------------------------------------------------
(* Properties.                                                             *)

Promise == INSTANCE AttendancePromise WITH sessions <- opened, checkedIn <- Open

\* Whatever check-ins and check-outs run at once, forced ones too, the sessions
\* are those of somebody who is in or out (uniq_active_session).
KeepsPromise == Promise!Promise

\* The administrators see the session that is first on the employee's own list:
\* the trigger alone keeps employee_latest_sessions exact, at every moment; only
\* an upsert of the API that arrives with an old state of the sessions
\* ("belt-and-suspenders", attendance.repository.ts) can spoil it.
LatestRowExact == opened > 0 /\ ~staleWrite => OrgSessions.ofEach = {OrgSessions.ofOne[1]}

Quiet ==
  /\ \A r \in Requests : req[r] = Idle
  /\ \A j \in AttendanceJobs : job[j] = "none"

\* Once nothing is left to do, is_checked_in and active_users are those of the
\* sessions, and the screens that mix them agree: the profile's flag with the
\* sessions it lists, the map with the state.  Provided the jobs of the employee
\* ran one at a time and in their order, none was lost or failed for good, the
\* delete did not fail, and no deactivation closed a session, for it adds no job;
\* for the map, that no upsert of the API came late.
MirrorsFollow ==
  Quiet /\ ordered /\ ~lost /\ opened > 0 =>
    /\ lastState.session = opened
    /\ AdminProfile.is_checked_in = ~AdminProfile.recentSessions[1].closed
    /\ activeUser = IF Open THEN opened ELSE 0
    /\ ~staleWrite => MapMarkers \subseteq {lastState.session}

\* "SET, not increment": retries and stalled jobs that run twice never make a
\* profile count a session more than the daily metrics do.
TotalsNotInflated == \A n \in ProfileSessions : n <= daily

\* A point recorded before its session began is stored only when the session
\* was closed while the request ran (the check is skipped, see ReadStart).
EarlyPointsNeedCheckOut ==
  \A s \in Sessions : "early" \in RouteOf(s) => s \in closed

\* A job of the queue is done, or kept as failed, and then its dead letter was added
\* unless that failed or the process died first: the kept job is the record.
JobsSettle ==
  \A j \in AttendanceJobs :
    job[j] = "queued" ~> job[j] = "none" \/ (KnownAsFailed(j) /\ Reported(j))

-----------------------------------------------------------------------------
(* What the documents of the code say of it, and it does not do.           *)

\* "the snapshot tables recover automatically within <=5 minutes"
\* (reconciliation.job.ts): after a run, the mirrors are those of the sessions.
ReconciliationRepairs ==
  [][reconciled' # reconciled /\ opened > 0 =>
       lastState' = [session |-> opened, in |-> Open]]_vars

=============================================================================
