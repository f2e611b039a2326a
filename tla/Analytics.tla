------------------------------- MODULE Analytics -------------------------------
(***************************************************************************)
(* The daily metrics of one organisation on one day.                       *)
(*                                                                         *)
(*   check-out --> queue "analytics" --> employee_daily_metrics            *)
(*        \--> queue_retry_intents        --> org_daily_metrics            *)
(*                                            --> org_dashboard_snapshot   *)
(*                                                                         *)
(* A job waits for the distance of its session, then recomputes the row of *)
(* its employee from the sessions and that of the organisation from the    *)
(* rows of the employees, one Supabase call after the other, up to Slots   *)
(* jobs at once.  A row is modelled as the set of what it sums up: pairs   *)
(* of a session and the edition of its distance.                           *)
(*                                                                         *)
(* A session closed by a deactivation has no job of its own: a row counts  *)
(* it when the job of another session of its employee runs, or never.      *)
(***************************************************************************)
EXTENDS Naturals, FiniteSets

CONSTANTS
  Sessions,          \* sessions of the day
  Employees,
  Owners,            \* the ways the sessions may belong to employees
  Slots, MaxAttempts,
  MaxDepth,          \* MAX_QUEUE_DEPTH
  MaxTries,          \* RETRY_MAX_ATTEMPTS of an intent
  MaxEditions,       \* bound: computations of a session's distance
  MaxFaults          \* bound: failed calls and crashes, of these at most one

ASSUME AnalyticsConstants ==
  /\ IsFiniteSet(Sessions)
  /\ Owners \subseteq [Sessions -> Employees]
  /\ MaxAttempts \in Nat \ {0} /\ MaxTries \in Nat \ {0} /\ MaxDepth \in Nat
  /\ MaxEditions \in Nat /\ MaxFaults \in Nat

VARIABLES
  owner,             \* session -> employee_id
  closer,            \* session -> "open", then the step of its check-out
  how,               \* session -> how it was closed, "none" before
  edition,           \* session -> computations of its total_distance_km, 0: null
  empDay,            \* employee -> row of employee_daily_metrics, {}: none
  orgDay,            \* employee -> what the row of org_daily_metrics sums up of it
  board,             \* the same of org_dashboard_snapshot
  intent, tries,     \* session -> status and retry_count of its queue_retry_intents row
  replay,            \* session -> its place in the replay at start
  job, made, slot, filing, deadLetters, unfiled,
  lost,              \* history: sessions whose job was given up with a log line only
  overlapped,        \* history: two jobs ran at once
  boardFailed,       \* history: a call of updateDashboardSnapshot failed
  crashes, ioErrors

INSTANCE JobQueue WITH Jobs <- Sessions

queue    == <<job, made, slot, filing, deadLetters, unfiled>>
checkout == <<owner, closer, how>>
metrics  == <<empDay, orgDay, board>>
intents  == <<intent, tries, replay>>
history  == <<lost, overlapped, boardFailed>>
faults   == <<crashes, ioErrors>>
vars == <<checkout, edition, metrics, intents, queue, history, faults>>

\* The employee's own check-out, a forced one, or setStatus.
Ways     == {"own", "admin", "deactivation"}
Closed   == {s \in Sessions : closer[s] # "open"}
AutoClosed == {s \in Sessions : how[s] = "deactivation"}
Final    == {s \in Closed : edition[s] > 0}
Counted(rows) == UNION {rows[e] : e \in Employees}
Measured == Sessions \X (1..MaxEditions)

TypeOK ==
  /\ owner \in [Sessions -> Employees]
  /\ closer \in [Sessions -> {"open", "depth", "add", "intent", "out"}]
  /\ how \in [Sessions -> Ways \cup {"none"}]
  /\ edition \in [Sessions -> 0..MaxEditions]
  /\ {empDay, orgDay, board} \subseteq [Employees -> SUBSET Measured]
  /\ \A e \in Employees : \A x \in empDay[e] \cup orgDay[e] \cup board[e] : owner[x[1]] = e
  /\ intent \in [Sessions -> {"none", "pending", "resolved", "dead"}]
  /\ tries \in [Sessions -> 0..MaxTries]
  /\ replay \in [Sessions -> {"no", "depth", "add", "mark"}]
  /\ QueueTypeOK
  /\ lost \subseteq Closed /\ overlapped \in BOOLEAN /\ boardFailed \in BOOLEAN
  /\ crashes \in 0..1 /\ ioErrors \in 0..MaxFaults

Nothing == [e \in Employees |-> {}]

Init ==
  /\ owner \in Owners
  /\ closer = [s \in Sessions |-> "open"] /\ how = [s \in Sessions |-> "none"]
  /\ edition = [s \in Sessions |-> 0]
  /\ empDay = Nothing /\ orgDay = Nothing /\ board = Nothing
  /\ intent = [s \in Sessions |-> "none"] /\ tries = [s \in Sessions |-> 0]
  /\ replay = [s \in Sessions |-> "no"]
  /\ QueueInit
  /\ lost = {} /\ overlapped = FALSE /\ boardFailed = FALSE
  /\ crashes = 0 /\ ioErrors = 0

IoError ==
  /\ ioErrors + crashes < MaxFaults
  /\ ioErrors' = ioErrors + 1

NoIoError == UNCHANGED ioErrors

-----------------------------------------------------------------------------
(* Check-out, from the closed session on.                                  *)

\* closeSession.  That of a deactivation is all it does.  A check-out that found
\* the session open before it closes it once more, by id, and goes on.
Close(s, by) ==
  /\ closer[s] = "open" \/ (s \in AutoClosed /\ by # "deactivation")
  /\ closer' = [closer EXCEPT ![s] = IF by = "deactivation" THEN "out" ELSE "depth"]
  /\ how' = [how EXCEPT ![s] = by]
  /\ UNCHANGED <<owner, edition, metrics, intents, queue, history, faults>>

Depth == Cardinality({s \in Sessions : job[s] = "queued"})

\* Mutant: every failed enqueue is only logged.
GiveUpSilently(s) ==
  /\ closer' = [closer EXCEPT ![s] = "out"]
  /\ lost' = IF how[s] = "admin" THEN lost \cup {s} ELSE lost

\* Where a check-out goes when its enqueue failed: a forced one logs it and is
\* done, the employee's own leaves a retry intent.
GiveUp(s) ==
  /\ closer' = [closer EXCEPT ![s] = IF how[s] = "admin" THEN "out" ELSE "intent"]
  /\ lost' = IF how[s] = "admin" THEN lost \cup {s} ELSE lost

\* enqueueAnalyticsJob: the depth ...
ReadDepth(s) ==
  /\ closer[s] = "depth"
  /\ \/ /\ Depth < MaxDepth
        /\ closer' = [closer EXCEPT ![s] = "add"]
        /\ NoIoError /\ UNCHANGED lost
     \/ /\ (Depth >= MaxDepth /\ NoIoError) \/ IoError
        /\ GiveUp(s)
  /\ UNCHANGED <<owner, how, edition, metrics, intents, queue, overlapped, boardFailed, crashes>>

\* ... and the job.
AddJob(s) ==
  /\ closer[s] = "add"
  /\ \/ /\ Add(s)
        /\ closer' = [closer EXCEPT ![s] = "out"]
        /\ NoIoError /\ UNCHANGED lost
     \/ IoError /\ GiveUp(s) /\ UNCHANGED queue
  /\ UNCHANGED <<owner, how, edition, metrics, intents, overlapped, boardFailed, crashes>>

\* Mutant: an intent is only made once.
PersistRetryIntentKeepsStatus(s) ==
  /\ closer[s] = "intent"
  /\ closer' = [closer EXCEPT ![s] = "out"]
  /\ UNCHANGED intent /\ NoIoError
  /\ UNCHANGED <<owner, how, edition, metrics, tries, replay, queue, history, crashes>>

\* persistRetryIntent: an upsert; its failure is logged.
PersistRetryIntent(s) ==
  /\ closer[s] = "intent"
  /\ closer' = [closer EXCEPT ![s] = "out"]
  /\ \/ intent' = [intent EXCEPT ![s] = "pending"] /\ NoIoError /\ UNCHANGED lost
     \/ IoError /\ lost' = lost \cup {s} /\ UNCHANGED intent
  /\ UNCHANGED <<owner, how, edition, metrics, tries, replay, queue, overlapped, boardFailed,
                 crashes>>

CheckOutStep(s) == ReadDepth(s) \/ AddJob(s) \/ PersistRetryIntent(s)

\* The distance worker, or a recalculation that was asked for: this one also
\* while the session is open.
ComputeDistance(s) ==
  /\ edition[s] < MaxEditions
  /\ edition' = [edition EXCEPT ![s] = @ + 1]
  /\ UNCHANGED <<checkout, metrics, intents, queue, history, faults>>

-----------------------------------------------------------------------------
(* replayPendingRetryIntents: once after a start, one intent at a time.    *)

Replaying == {s \in Sessions : replay[s] \in {"add", "mark"}}

\* markIntentRetry.
ReplayFails(s) ==
  /\ replay' = [replay EXCEPT ![s] = "no"]
  /\ tries' = [tries EXCEPT ![s] = @ + 1]
  /\ intent' = [intent EXCEPT ![s] = IF tries[s] + 1 >= MaxTries THEN "dead" ELSE @]

ReplayNext(s) ==
  /\ replay[s] = "depth"
  /\ Replaying = {}
  /\ \/ /\ Depth < MaxDepth
        /\ replay' = [replay EXCEPT ![s] = "add"]
        /\ NoIoError /\ UNCHANGED <<intent, tries>>
     \/ Depth >= MaxDepth /\ NoIoError /\ ReplayFails(s)
     \/ IoError /\ ReplayFails(s)
     \/ /\ Depth >= MaxDepth /\ IoError       \* and its own update fails
        /\ replay' = [replay EXCEPT ![s] = "no"] /\ UNCHANGED <<intent, tries>>
  /\ UNCHANGED <<checkout, edition, metrics, queue, history, crashes>>

ReplayAdd(s) ==
  /\ replay[s] = "add"
  /\ \/ /\ Add(s)
        /\ replay' = [replay EXCEPT ![s] = "mark"]
        /\ NoIoError /\ UNCHANGED <<intent, tries>>
     \/ IoError /\ ReplayFails(s) /\ UNCHANGED queue
  /\ UNCHANGED <<checkout, edition, metrics, history, crashes>>

\* markIntentResolved does not look at the error: the intent may stay pending.
ReplayMark(s) ==
  /\ replay[s] = "mark"
  /\ replay' = [replay EXCEPT ![s] = "no"]
  /\ \/ intent' = [intent EXCEPT ![s] = "resolved"] /\ NoIoError
     \/ IoError /\ UNCHANGED intent
  /\ UNCHANGED <<checkout, edition, metrics, tries, queue, history, crashes>>

\* cleanupResolvedRetryIntents, after three days.
CleanupIntent(s) ==
  /\ intent[s] \in {"resolved", "dead"}
  /\ intent' = [intent EXCEPT ![s] = "none"]
  /\ tries' = [tries EXCEPT ![s] = 0]
  /\ lost' = IF intent[s] = "dead" THEN lost \cup {s} ELSE lost
  /\ UNCHANGED <<checkout, edition, metrics, replay, queue, overlapped, boardFailed, faults>>

-----------------------------------------------------------------------------
(* The worker.                                                             *)

RunJob(k, s) ==
  /\ Take(k, s, "session")
  /\ overlapped' = (overlapped \/ \E l \in Slots : slot[l] # Free)
  /\ UNCHANGED <<checkout, edition, metrics, intents, lost, boardFailed, faults>>

\* A read: its answer, or an error the handler throws.
Reads(k, step, next, read) ==
  /\ Runs(k, step)
  /\ (Continue(k, next, read) /\ NoIoError) \/ (Throw(k) /\ IoError)

\* Mutant: the distance is not waited for.
ReadSessionUnchecked(k) ==
  /\ Reads(k, "session", "employee", {})
  /\ UNCHANGED <<checkout, edition, metrics, intents, history, crashes>>

\* The session: open, or without a distance, it is an error like any other.
ReadSession(k) ==
  /\ Runs(k, "session")
  /\ IF slot[k].job \in Final
     THEN Reads(k, "session", "employee", {})
     ELSE Throw(k) /\ NoIoError
  /\ UNCHANGED <<checkout, edition, metrics, intents, history, crashes>>

Day(e) == {<<s, edition[s]>> : s \in {t \in Final : owner[t] = e}}

\* Mutant: the job's own session only.
ReadEmployeeOne(k) ==
  /\ Reads(k, "employee", "saveEmployee", {<<slot[k].job, edition[slot[k].job]>>})
  /\ UNCHANGED <<checkout, edition, metrics, intents, history, crashes>>

\* Every closed session of the employee that has a distance ...
ReadEmployee(k) ==
  /\ Reads(k, "employee", "saveEmployee", Day(owner[slot[k].job]))
  /\ UNCHANGED <<checkout, edition, metrics, intents, history, crashes>>

\* ... makes the employee's row.
SaveEmployee(k) ==
  /\ Runs(k, "saveEmployee")
  /\ \/ /\ Continue(k, "organisation", {}) /\ NoIoError
        /\ empDay' = [empDay EXCEPT ![owner[slot[k].job]] = slot[k].read]
     \/ Throw(k) /\ IoError /\ UNCHANGED empDay
  /\ UNCHANGED <<checkout, edition, orgDay, board, intents, history, crashes>>

\* The employees' rows ...
ReadOrganisation(k) ==
  /\ Reads(k, "organisation", "saveOrganisation", Counted(empDay))
  /\ UNCHANGED <<checkout, edition, metrics, intents, history, crashes>>

ByOwner(S) == [e \in Employees |-> {x \in S : owner[x[1]] = e}]

\* ... make that of the organisation.
SaveOrganisation(k) ==
  /\ Runs(k, "saveOrganisation")
  /\ \/ /\ Continue(k, "today", {}) /\ NoIoError
        /\ orgDay' = ByOwner(slot[k].read)
     \/ Throw(k) /\ IoError /\ UNCHANGED orgDay
  /\ UNCHANGED <<checkout, edition, empDay, board, intents, history, crashes>>

\* updateDashboardSnapshot: the row of the day; an error counts as no row, for
\* it is not looked at, and an error of the reads beside it ends the update.
ReadToday(k) ==
  /\ Runs(k, "today")
  /\ \/ Continue(k, "board", Counted(orgDay)) /\ NoIoError /\ UNCHANGED boardFailed
     \/ IoError /\ boardFailed' = TRUE /\ (Continue(k, "board", {}) \/ Continue(k, "done", {}))
  /\ UNCHANGED <<checkout, edition, metrics, intents, lost, overlapped, crashes>>

\* Its upsert, whose error is logged.
SaveBoard(k) ==
  /\ Runs(k, "board")
  /\ Continue(k, "done", {})
  /\ \/ board' = ByOwner(slot[k].read) /\ NoIoError /\ UNCHANGED boardFailed
     \/ IoError /\ boardFailed' = TRUE /\ UNCHANGED board
  /\ UNCHANGED <<checkout, edition, empDay, orgDay, intents, lost, overlapped, crashes>>

\* The handler has returned: until BullMQ knows, the process may die.
FinishJob(k) ==
  /\ Runs(k, "done")
  /\ Done(k)
  /\ UNCHANGED <<checkout, edition, metrics, intents, history, faults>>

SlotStep(k) ==
  \/ ReadSession(k) \/ ReadEmployee(k) \/ SaveEmployee(k) \/ ReadOrganisation(k)
  \/ SaveOrganisation(k) \/ ReadToday(k) \/ SaveBoard(k) \/ FinishJob(k)

\* The "failed" listener, whose own failure needs no bound.
FileDeadLetter(j) ==
  /\ File(j) \/ FileFails(j)
  /\ UNCHANGED <<checkout, edition, metrics, intents, history, faults>>

\* The process dies and starts again: the intents are loaded, or that fails.
Crash ==
  /\ crashes = 0 /\ ioErrors < MaxFaults
  /\ crashes' = 1
  /\ lost' = lost \cup {s \in Sessions : closer[s] \in {"depth", "add", "intent"}}
  /\ closer' = [s \in Sessions |-> IF closer[s] = "open" THEN "open" ELSE "out"]
  /\ \/ replay' = [s \in Sessions |-> IF intent[s] = "pending" THEN "depth" ELSE "no"]
        /\ NoIoError
     \/ replay' = [s \in Sessions |-> "no"] /\ ioErrors + 1 < MaxFaults /\ ioErrors' = ioErrors + 1
  /\ Stall
  /\ UNCHANGED <<owner, how, edition, metrics, intent, tries, overlapped, boardFailed>>

Next ==
  \/ \E s \in Sessions : \E by \in Ways : Close(s, by)
  \/ \E s \in Sessions : CheckOutStep(s) \/ ComputeDistance(s)
  \/ \E s \in Sessions : ReplayNext(s) \/ ReplayAdd(s) \/ ReplayMark(s) \/ CleanupIntent(s)
  \/ \E k \in Slots : \E s \in Sessions : RunJob(k, s)
  \/ \E k \in Slots : SlotStep(k)
  \/ \E j \in filing : FileDeadLetter(j)
  \/ Crash

\* The event loop serves a request and the replay, BullMQ its slots.
Fairness ==
  /\ \A s \in Sessions : WF_vars(CheckOutStep(s))
  /\ \A s \in Sessions : WF_vars(ReplayNext(s) \/ ReplayAdd(s) \/ ReplayMark(s))
  /\ \A k \in Slots : WF_vars(SlotStep(k) \/ \E s \in Sessions : RunJob(k, s))

SafetySpec == Init /\ [][Next]_vars
Spec == SafetySpec /\ Fairness

-----------------------------------------------------------------------------
(* Properties.                                                             *)

\* The sessions a row sums up.
InRow(row) == {x[1] : x \in row}

\* A row sums up s, by some edition of its distance.
In(s, row) == \E x \in row : x[1] = s

\* s is in the rows of its employee and of the organisation.
IsCounted(s) == In(s, empDay[owner[s]]) /\ In(s, orgDay[owner[s]])

OnRecord(s) == KnownAsFailed(s) \/ intent[s] \in {"pending", "dead"}

\* A closed session is counted, on its way, or on record as failed, through
\* retries, refused and failed enqueues, replays and a crash: but for the job of
\* a forced check-out that could not be queued, or one a crash came before; for
\* jobs that overlap; and for a session closed by a deactivation, which nothing
\* sends to the queue.
ClosedIsAccounted ==
  ~overlapped =>
    \A s \in Closed \ (lost \cup AutoClosed) :
      \/ closer[s] # "out" \/ s \in Pending
      \/ OnRecord(s)
      \/ IsCounted(s)

Settled ==
  /\ \A s \in Sessions : closer[s] \in {"open", "out"} /\ job[s] = "none"
  /\ \A s \in Sessions : ~OnRecord(s) /\ replay[s] = "no" /\ edition[s] <= 1
  /\ lost = {}

\* A row of an employee lacks no session but those closed by a deactivation, and
\* what it has the organisation's row and the dashboard have.
Exact ==
  /\ \A e \in Employees : empDay[e] \subseteq Day(e) /\ InRow(Day(e) \ empDay[e]) \subseteq AutoClosed
  /\ orgDay = empDay
  /\ boardFailed \/ board = orgDay

\* Once every job is done the rows are those of the sessions, and the dashboard
\* shows them, whatever was retried: provided no distance was computed twice
\* (nobody asks for the metrics again) and no two jobs ran at once.
DayIsExact == Settled /\ ~overlapped => Exact

\* Every closed session comes to be counted or is on record, but for one that a
\* deactivation closed.
ClosedSettles ==
  \A s \in Sessions :
    closer[s] # "open" ~>
      s \in lost \cup AutoClosed \/ OnRecord(s) \/ IsCounted(s) \/ overlapped

-----------------------------------------------------------------------------
(* What the documents of the code say of it, and it does not do.           *)

\* "retries, duplicate enqueues, and manual replays are all safe", for every
\* run recomputes the rows (analytics.worker.ts): so they end up exact, with
\* ANALYTICS_WORKER_CONCURRENCY jobs at once too.
RecomputeIsSafe == Settled => Exact

=============================================================================
