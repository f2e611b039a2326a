--------------------------- MODULE DistancePipeline ---------------------------
(***************************************************************************)
(* From the check-out of a session to its distance and duration:           *)
(*                                                                         *)
(*   checkOut / force-checkout -> BullMQ queue "distance-engine"           *)
(*     -> worker: read the session, summary, row -> status "done"          *)
(*                                                                         *)
(* with what is meant to make it reliable: retry intents written when the  *)
(* queue refuses a job and replayed at the next start, the recovery scan   *)
(* at start-up, BullMQ's attempts, the dead-letter queue and its replay,   *)
(* and the recalculation a user asks for.                                  *)
(*                                                                         *)
(* Every await another actor can interleave with is a step of its own.     *)
(* What a calculation is based on is named by the session's edition: 1     *)
(* while it is open, one more for each time checkout_at is written.  A     *)
(* delayed job may start at any moment.                                    *)
(***************************************************************************)
EXTENDS Naturals, FiniteSets

CONSTANTS
  Sessions,          \* attendance sessions, all checked in
  Slots,             \* WORKER_CONCURRENCY slots of the distance worker
  Closers,           \* concurrent check-out and force-checkout requests
  Recalcs,           \* concurrent recalculation requests
  MaxAttempts,       \* attempts of a BullMQ job
  MaxQueueDepth,     \* MAX_QUEUE_DEPTH
  MaxIntentRetries,  \* RETRY_MAX_ATTEMPTS
  MaxCloses,         \* bound: check-out requests in a behaviour
  MaxRecalcs,        \* bound: recalculation requests
  MaxReplays,        \* bound: replays of the dead-letter queue
  MaxCrashes,        \* bound: process crashes
  MaxIoErrors        \* bound: failed database or Redis call

ASSUME DistanceConstants ==
  /\ Slots \cap Recalcs = {}
  /\ MaxAttempts \in Nat \ {0}
  /\ MaxQueueDepth \in Nat \ {0}
  /\ MaxIntentRetries \in Nat \ {0}
  /\ MaxCloses \in Nat
  /\ MaxRecalcs \in Nat
  /\ MaxReplays \in Nat
  /\ MaxCrashes \in Nat
  /\ MaxIoErrors \in Nat

VARIABLES
  edition,           \* session -> 1 while open, n + 1 after n writes of checkout_at
  status,            \* session -> distance_recalculation_status
  summary,           \* session -> edition its session_summaries row is based on, 0 without
  duration,          \* session -> edition its total_* columns are based on, 0 without
  broken,            \* closed sessions every calculation rejects (too long, too many points)
  job, made,         \* session -> its job in BullMQ, attempts made
  stalledOnce,       \* jobs requeued once after a crash
  dlq,               \* session -> its entries in the dead-letter queue
  lateDlq, lateMark, \* session -> effects of "failed" handlers not done yet
  intent, retries,   \* session -> its row in queue_retry_intents, retry_count
  call,              \* caller -> its enqueueDistanceJob: step, session
  calc,              \* calculator -> step, session, edition it read
  closer,            \* closer -> step, session, who asks
  boot,              \* the recovery scan is due
  ipc, itodo,        \* replayPendingRetryIntents: step, sessions left
  rpc, rtodo,        \* replayDistanceDeadLetter: step, entries left
  dropped,           \* history: sessions an enqueue was given up for with only a log line
  midway,            \* history: sessions a calculation read while they were open
  closes, recalcs, replays, crashes, ioErrors    \* what is used up of each bound

rows      == <<edition, status, summary, duration>>
queueVars == <<job, made, stalledOnce>>
failures  == <<dlq, lateDlq, lateMark>>
intents   == <<intent, retries>>
calcVars  == <<calc, midway>>
iVars     == <<ipc, itodo>>
rVars     == <<rpc, rtodo>>
bounds    == <<closes, recalcs, replays, crashes>>
vars == <<rows, broken, queueVars, failures, intents, call, calcVars, closer,
          boot, iVars, rVars, dropped, bounds, ioErrors>>

Calculators == Slots \cup Recalcs
Edition     == Nat \ {0}

\* enqueueDistanceJob is called by a check-out, by the recovery scan (one
\* promise per session), by the replay of intents and by that of dead letters.
OfCloser(r)   == <<"closer", r>>
OfRecovery(s) == <<"recovery", s>>
OfIntents     == <<"intents">>
OfReplay      == <<"replay">>
Callers == {OfCloser(r) : r \in Closers} \cup {OfRecovery(s) : s \in Sessions}
             \cup {OfIntents, OfReplay}

Idle == [step |-> "idle"]
Calls   == [step : {"depth", "add", "ok", "error"}, session : Sessions]
Calcs   == [step : {"read", "summary", "row", "finish"}, session : Sessions, basis : Edition]
Closing == [step : {"close", "enqueue", "intent"}, session : Sessions,
            by : {"employee", "admin"}]

TypeOK ==
  /\ edition \in [Sessions -> Edition]
  /\ status \in [Sessions -> {"pending", "done", "failed"}]
  /\ summary \in [Sessions -> Edition \cup {0}]
  /\ duration \in [Sessions -> Edition \cup {0}]
  /\ broken \subseteq Sessions
  /\ job \in [Sessions -> {"none", "queued", "active", "failed"}]
  /\ made \in [Sessions -> 0..MaxAttempts]
  /\ stalledOnce \subseteq Sessions
  /\ dlq \in [Sessions -> Nat]
  /\ lateDlq \in [Sessions -> Nat]
  /\ lateMark \in [Sessions -> Nat]
  /\ intent \in [Sessions -> {"none", "pending", "resolved", "dead"}]
  /\ retries \in [Sessions -> Nat]
  /\ call \in [Callers -> Calls \cup {Idle}]
  /\ calc \in [Calculators -> Calcs \cup {Idle}]
  /\ closer \in [Closers -> Closing \cup {Idle}]
  /\ boot \in BOOLEAN
  /\ ipc \in {"idle", "load", "next", "wait"}
  /\ itodo \subseteq Sessions
  /\ rpc \in {"idle", "next", "wait"}
  /\ rtodo \in [Sessions -> Nat]
  /\ dropped \subseteq Sessions
  /\ midway \subseteq Sessions
  /\ closes \in 0..MaxCloses
  /\ recalcs \in 0..MaxRecalcs
  /\ replays \in 0..MaxReplays
  /\ crashes \in 0..MaxCrashes
  /\ ioErrors \in 0..MaxIoErrors

Zero == [s \in Sessions |-> 0]

Init ==
  /\ edition = [s \in Sessions |-> 1]
  /\ status = [s \in Sessions |-> "pending"]
  /\ summary = Zero /\ duration = Zero
  /\ broken = {}
  /\ job = [s \in Sessions |-> "none"]
  /\ made = Zero
  /\ stalledOnce = {}
  /\ dlq = Zero /\ lateDlq = Zero /\ lateMark = Zero
  /\ intent = [s \in Sessions |-> "none"]
  /\ retries = Zero
  /\ call = [c \in Callers |-> Idle]
  /\ calc = [c \in Calculators |-> Idle]
  /\ closer = [r \in Closers |-> Idle]
  /\ boot = FALSE
  /\ ipc = "idle" /\ itodo = {}
  /\ rpc = "idle" /\ rtodo = Zero
  /\ dropped = {} /\ midway = {}
  /\ closes = 0 /\ recalcs = 0 /\ replays = 0 /\ crashes = 0 /\ ioErrors = 0

IoError ==
  /\ ioErrors < MaxIoErrors
  /\ ioErrors' = ioErrors + 1

NoIoError == UNCHANGED ioErrors

-----------------------------------------------------------------------------
(* enqueueDistanceJob, whoever calls it.                                  *)

\* waiting + delayed.
Depth == Cardinality({s \in Sessions : job[s] = "queued"})

Enqueue(c, s) == call' = [call EXCEPT ![c] = [step |-> "depth", session |-> s]]

Proceed(c, step) == call' = [call EXCEPT ![c].step = step]

Return(c) == call' = [call EXCEPT ![c] = Idle]

\* The counts are read first; a full queue throws QueueOverloadedError.
ReadDepth(c) ==
  /\ call[c].step = "depth"
  /\ \/ Proceed(c, IF Depth < MaxQueueDepth THEN "add" ELSE "error") /\ NoIoError
     \/ IoError /\ Proceed(c, "error")
  /\ UNCHANGED <<rows, broken, queueVars, failures, intents, calcVars, closer, boot,
                 iVars, rVars, dropped, bounds>>

\* queue.add with jobId = sessionId: ignored while a job of that id exists, be
\* it waiting, running, or kept as failed (removeOnFail: false).
AddJob(c) ==
  /\ call[c].step = "add"
  /\ LET s == call[c].session IN
     \/ /\ Proceed(c, "ok")
        /\ IF job[s] = "none"
           THEN /\ job' = [job EXCEPT ![s] = "queued"]
                /\ made' = [made EXCEPT ![s] = 0]
           ELSE UNCHANGED <<job, made>>
        /\ NoIoError
     \/ IoError /\ Proceed(c, "error") /\ UNCHANGED <<job, made>>
  /\ UNCHANGED <<rows, broken, stalledOnce, failures, intents, calcVars, closer, boot,
                 iVars, rVars, dropped, bounds>>

-----------------------------------------------------------------------------
(* Check-out by the employee, force-checkout by an administrator.          *)

\* findOpenSession; without an open session the request ends.
FindOpenSession(r, s, by) ==
  /\ closer[r] = Idle
  /\ closes < MaxCloses
  /\ edition[s] = 1
  /\ closes' = closes + 1
  /\ closer' = [closer EXCEPT ![r] = [step |-> "close", session |-> s, by |-> by]]
  /\ UNCHANGED <<rows, broken, queueVars, failures, intents, call, calcVars, boot,
                 iVars, rVars, dropped, recalcs, replays, crashes, ioErrors>>

\* closeSession: checkout_at is written by id, also when it is set by now; the
\* status is left as it is.  The session may have become too long, or hold too
\* many points.  Then enqueueDistanceJob.
CloseSession(r) ==
  /\ closer[r].step = "close"
  /\ \/ /\ edition' = [edition EXCEPT ![closer[r].session] = @ + 1]
        /\ broken' \in {broken, broken \cup {closer[r].session}}
        /\ closer' = [closer EXCEPT ![r].step = "enqueue"]
        /\ Enqueue(OfCloser(r), closer[r].session)
        /\ NoIoError
     \/ /\ IoError
        /\ closer' = [closer EXCEPT ![r] = Idle]
        /\ UNCHANGED <<edition, broken, call>>
  /\ UNCHANGED <<status, summary, duration, queueVars, failures, intents,
                 calcVars, boot, iVars, rVars, dropped, bounds>>

\* Back from enqueueDistanceJob: an error makes checkOut persist an intent;
\* force-checkout only logs it.
Enqueued(r) ==
  /\ closer[r].step = "enqueue"
  /\ call[OfCloser(r)].step \in {"ok", "error"}
  /\ Return(OfCloser(r))
  /\ LET lost == call[OfCloser(r)].step = "error"
     IN /\ closer' = [closer EXCEPT ![r] =
                       IF lost /\ @.by = "employee" THEN [@ EXCEPT !.step = "intent"] ELSE Idle]
        /\ dropped' = IF lost /\ closer[r].by = "admin"
                      THEN dropped \cup {closer[r].session} ELSE dropped
  /\ UNCHANGED <<rows, broken, queueVars, failures, intents, calcVars, boot, iVars, rVars,
                 bounds, ioErrors>>

\* Mutant: the intent is upserted with its former status.
PersistRetryIntentKeepsStatus(r) ==
  /\ closer[r].step = "intent"
  /\ closer' = [closer EXCEPT ![r] = Idle]
  /\ NoIoError
  /\ UNCHANGED <<rows, broken, queueVars, failures, intents, call, calcVars, boot,
                  iVars, rVars, dropped, bounds>>

\* persistRetryIntent: an upsert that keeps retry_count; its error is logged.
PersistRetryIntent(r) ==
  /\ closer[r].step = "intent"
  /\ closer' = [closer EXCEPT ![r] = Idle]
  /\ \/ /\ intent' = [intent EXCEPT ![closer[r].session] = "pending"]
        /\ NoIoError
        /\ UNCHANGED dropped
     \/ IoError /\ dropped' = dropped \cup {closer[r].session} /\ UNCHANGED intent
  /\ UNCHANGED <<rows, broken, queueVars, failures, retries, call, calcVars, boot,
                  iVars, rVars, bounds>>

CloserStep(r) == CloseSession(r) \/ Enqueued(r) \/ PersistRetryIntent(r)

-----------------------------------------------------------------------------
(* The calculation, in a worker slot or for a recalculation request.       *)

Goto(c, step) == calc' = [calc EXCEPT ![c].step = step]

Leave(c) == calc' = [calc EXCEPT ![c] = Idle]

Start(c, s) ==
  calc' = [calc EXCEPT ![c] = [step |-> "read", session |-> s, basis |-> edition[s]]]

\* BullMQ hands a job to a free slot.
Take(k, s) ==
  /\ calc[k] = Idle
  /\ job[s] = "queued"
  /\ job' = [job EXCEPT ![s] = "active"]
  /\ Start(k, s)
  /\ UNCHANGED <<rows, broken, made, stalledOnce, failures, intents, call, midway,
                 closer, boot, iVars, rVars, dropped, bounds, ioErrors>>

\* POST /attendance/:sessionId/recalculate, for any session, open or closed.
Recalculate(c, s) ==
  /\ calc[c] = Idle
  /\ recalcs < MaxRecalcs
  /\ recalcs' = recalcs + 1
  /\ Start(c, s)
  /\ UNCHANGED <<rows, broken, queueVars, failures, intents, call, midway, closer,
                 boot, iVars, rVars, dropped, closes, replays, crashes, ioErrors>>

\* Mutant: the handler of "failed" leaves the row alone.
FailUnmarked(c) ==
  /\ Leave(c)
  /\ UNCHANGED lateMark
  /\ IF c \in Recalcs
     THEN UNCHANGED <<job, made, lateDlq>>
     ELSE LET s == calc[c].session IN
          /\ made' = [made EXCEPT ![s] = @ + 1]
          /\ job' = [job EXCEPT ![s] = IF made'[s] < MaxAttempts THEN "queued" ELSE "failed"]
          /\ lateDlq' = [lateDlq EXCEPT ![s] = @ + 1]

\* The calculation throws.  The job is delayed for its next attempt or, after
\* the last one, kept as failed; the handler of "failed" runs after each.
Fail(c) ==
  /\ Leave(c)
  /\ IF c \in Recalcs
     THEN UNCHANGED <<job, made, lateDlq, lateMark>>
     ELSE LET s == calc[c].session IN
          /\ made' = [made EXCEPT ![s] = @ + 1]
          /\ job' = [job EXCEPT ![s] = IF made'[s] < MaxAttempts THEN "queued" ELSE "failed"]
          /\ lateDlq' = [lateDlq EXCEPT ![s] = @ + 1]
          /\ lateMark' = [lateMark EXCEPT ![s] = @ + 1]

\* The session is read, its duration checked, its points streamed.  An open
\* session counts as ending now.
ReadSession(c) ==
  /\ calc[c].step = "read"
  /\ \/ /\ calc[c].session \notin broken
        /\ midway' = midway \cup (IF edition[calc[c].session] = 1 THEN {calc[c].session} ELSE {})
        /\ calc' = [calc EXCEPT ![c] = [step |-> "summary", session |-> @.session,
                                        basis |-> edition[@.session]]]
        /\ NoIoError
        /\ UNCHANGED <<job, made, lateDlq, lateMark>>
     \/ /\ \/ calc[c].session \in broken /\ NoIoError
           \/ IoError
        /\ Fail(c)
        /\ UNCHANGED midway
  /\ UNCHANGED <<rows, broken, stalledOnce, dlq, intents, call, closer, boot,
                 iVars, rVars, dropped, bounds>>

\* upsertSummary, whose error is thrown.
SaveSummary(c) ==
  /\ calc[c].step = "summary"
  /\ \/ /\ summary' = [summary EXCEPT ![calc[c].session] = calc[c].basis]
        /\ Goto(c, "row")
        /\ NoIoError
        /\ UNCHANGED <<job, made, lateDlq, lateMark>>
     \/ IoError /\ Fail(c) /\ UNCHANGED summary
  /\ UNCHANGED <<edition, status, duration, broken, stalledOnce, dlq, intents, call, midway,
                 closer, boot, iVars, rVars, dropped, bounds>>

\* The session's row; its error is not looked at.
SaveRow(c) ==
  /\ calc[c].step = "row"
  /\ IF c \in Slots THEN Goto(c, "finish") ELSE Leave(c)
  /\ \/ /\ duration' = [duration EXCEPT ![calc[c].session] = calc[c].basis]
        /\ status' = [status EXCEPT ![calc[c].session] = "done"]
        /\ NoIoError
     \/ IoError /\ UNCHANGED <<duration, status>>
  /\ UNCHANGED <<edition, summary, broken, queueVars, failures, intents, call, midway,
                 closer, boot, iVars, rVars, dropped, bounds>>

\* The job is done and removed (removeOnComplete).
FinishJob(k) ==
  /\ calc[k].step = "finish"
  /\ Leave(k)
  /\ job' = [job EXCEPT ![calc[k].session] = "none"]
  /\ stalledOnce' = stalledOnce \ {calc[k].session}
  /\ UNCHANGED <<rows, broken, made, failures, intents, call, midway,
                 closer, boot, iVars, rVars, dropped, bounds, ioErrors>>

CalculatorStep(c) == ReadSession(c) \/ SaveSummary(c) \/ SaveRow(c) \/ FinishJob(c)

\* worker.on("failed"): two calls nobody waits for.
DeadLetter(s) ==
  /\ lateDlq[s] > 0
  /\ lateDlq' = [lateDlq EXCEPT ![s] = @ - 1]
  /\ \/ dlq' = [dlq EXCEPT ![s] = @ + 1] /\ NoIoError
     \/ IoError /\ UNCHANGED dlq
  /\ UNCHANGED <<rows, broken, queueVars, lateMark, intents, call, calcVars, closer, boot,
                 iVars, rVars, dropped, bounds>>

MarkFailed(s) ==
  /\ lateMark[s] > 0
  /\ lateMark' = [lateMark EXCEPT ![s] = @ - 1]
  /\ \/ status' = [status EXCEPT ![s] = "failed"] /\ NoIoError
     \/ IoError /\ UNCHANGED status
  /\ UNCHANGED <<edition, summary, duration, broken, queueVars, dlq, lateDlq, intents, call,
                 calcVars, closer, boot, iVars, rVars, dropped, bounds>>

-----------------------------------------------------------------------------
(* Start-up recovery, the replay of intents and of dead letters.           *)

Closed(s) == edition[s] > 1

\* Mutant: a session that failed is looked for, one still pending is not.
NeedsRecalculationFailedOnly(s) == Closed(s) /\ status[s] = "failed"

\* findSessionsNeedingRecalculation.
NeedsRecalculation(s) == Closed(s) /\ status[s] \in {"pending", "failed"}

\* performStartupRecovery: one enqueueDistanceJob for every session found; none
\* when the scan fails.
RecoveryScan ==
  /\ boot
  /\ boot' = FALSE
  /\ \/ LET found == {OfRecovery(s) : s \in {x \in Sessions : NeedsRecalculation(x)}}
        IN /\ call' = [c \in Callers |->
                         IF c \in found THEN [step |-> "depth", session |-> c[2]] ELSE call[c]]
           /\ NoIoError
     \/ IoError /\ UNCHANGED call
  /\ UNCHANGED <<rows, broken, queueVars, failures, intents, calcVars, closer, iVars,
                 rVars, dropped, bounds>>

\* A refused session is only logged.
RecoveryReturn(s) ==
  /\ call[OfRecovery(s)].step \in {"ok", "error"}
  /\ Return(OfRecovery(s))
  /\ dropped' = dropped \cup (IF call[OfRecovery(s)].step = "error" THEN {s} ELSE {})
  /\ UNCHANGED <<rows, broken, queueVars, failures, intents, calcVars, closer, boot, iVars,
                 rVars, bounds, ioErrors>>

\* replayPendingRetryIntents, at start only: the pending intents that are due;
\* one that was retried before may not be.
LoadIntents ==
  /\ ipc = "load"
  /\ \/ /\ \E later \in SUBSET {s \in Sessions : intent[s] = "pending" /\ retries[s] > 0} :
             itodo' = {s \in Sessions : intent[s] = "pending"} \ later
        /\ ipc' = IF itodo' = {} THEN "idle" ELSE "next"
        /\ NoIoError
     \/ IoError /\ ipc' = "idle" /\ UNCHANGED itodo
  /\ UNCHANGED <<rows, broken, queueVars, failures, intents, call, calcVars, closer, boot,
                 rVars, dropped, bounds>>

NextIntent(s) ==
  /\ ipc = "next"
  /\ s \in itodo
  /\ ipc' = "wait"
  /\ Enqueue(OfIntents, s)
  /\ UNCHANGED <<rows, broken, queueVars, failures, intents, calcVars, closer, boot, itodo,
                 rVars, dropped, bounds, ioErrors>>

\* markIntentResolved or markIntentRetry; an error of the update is not looked at.
IntentReplayed ==
  /\ ipc = "wait"
  /\ call[OfIntents].step \in {"ok", "error"}
  /\ Return(OfIntents)
  /\ LET s == call[OfIntents].session
         n == retries[s] + 1
     IN /\ itodo' = itodo \ {s}
        /\ ipc' = IF itodo' = {} THEN "idle" ELSE "next"
        /\ \/ /\ call[OfIntents].step = "ok"
              /\ intent' = [intent EXCEPT ![s] = "resolved"]
              /\ NoIoError
              /\ UNCHANGED retries
           \/ /\ call[OfIntents].step = "error"
              /\ intent' = [intent EXCEPT ![s] = IF n >= MaxIntentRetries THEN "dead" ELSE @]
              /\ retries' = [retries EXCEPT ![s] = n]
              /\ NoIoError
           \/ IoError /\ UNCHANGED intents
  /\ UNCHANGED <<rows, broken, queueVars, failures, calcVars, closer, boot, rVars, dropped,
                 bounds>>

\* cleanupResolvedRetryIntents, every 15 minutes, for rows of a certain age.
CleanupIntent(s) ==
  /\ intent[s] \in {"resolved", "dead"}
  /\ intent' = [intent EXCEPT ![s] = "none"]
  /\ retries' = [retries EXCEPT ![s] = 0]
  /\ dropped' = dropped \cup (IF intent[s] = "dead" THEN {s} ELSE {})
  /\ UNCHANGED <<rows, broken, queueVars, failures, call, calcVars, closer, boot, iVars,
                 rVars, bounds, ioErrors>>

\* replayDistanceDeadLetter: the entries are read, and each is enqueued ...
StartReplay ==
  /\ rpc = "idle"
  /\ replays < MaxReplays
  /\ dlq # Zero
  /\ replays' = replays + 1
  /\ rpc' = "next"
  /\ rtodo' = dlq
  /\ UNCHANGED <<rows, broken, queueVars, failures, intents, call, calcVars, closer, boot,
                 iVars, dropped, closes, recalcs, crashes, ioErrors>>

NextEntry(s) ==
  /\ rpc = "next"
  /\ rtodo[s] > 0
  /\ rpc' = "wait"
  /\ Enqueue(OfReplay, s)
  /\ UNCHANGED <<rows, broken, queueVars, failures, intents, calcVars, closer, boot, iVars,
                 rtodo, dropped, bounds, ioErrors>>

\* ... and removed; an error ends the request.
EntryReplayed ==
  /\ rpc = "wait"
  /\ call[OfReplay].step \in {"ok", "error"}
  /\ Return(OfReplay)
  /\ LET s == call[OfReplay].session IN
     \/ /\ call[OfReplay].step = "ok"
        /\ dlq' = [dlq EXCEPT ![s] = @ - 1]
        /\ rtodo' = [rtodo EXCEPT ![s] = @ - 1]
        /\ rpc' = IF rtodo' = Zero THEN "idle" ELSE "next"
        /\ NoIoError
     \/ /\ \/ call[OfReplay].step = "error" /\ NoIoError
           \/ IoError
        /\ rpc' = "idle"
        /\ UNCHANGED <<dlq, rtodo>>
  /\ UNCHANGED <<rows, broken, queueVars, lateDlq, lateMark, intents, calcVars, closer, boot,
                 iVars, dropped, bounds>>

-----------------------------------------------------------------------------
\* The process dies and starts again: whatever it was about to do is gone,
\* active jobs are requeued once and failed the second time.
Crash ==
  /\ crashes < MaxCrashes
  /\ crashes' = crashes + 1
  /\ LET active == {s \in Sessions : job[s] = "active"}
         over   == active \cap stalledOnce
     IN /\ job' = [s \in Sessions |-> CASE s \in over -> "failed"
                                        [] s \in active \ over -> "queued"
                                        [] OTHER -> job[s]]
        /\ stalledOnce' = stalledOnce \cup active
        /\ lateDlq' = [s \in Sessions |-> IF s \in over THEN 1 ELSE 0]
        /\ lateMark' = lateDlq'
  /\ call' = [c \in Callers |-> Idle]
  /\ calc' = [c \in Calculators |-> Idle]
  /\ closer' = [r \in Closers |-> Idle]
  /\ boot' = TRUE
  /\ ipc' = "load" /\ itodo' = {}
  /\ rpc' = "idle" /\ rtodo' = Zero
  /\ UNCHANGED <<rows, broken, made, dlq, intents, midway, dropped, closes, recalcs, replays,
                 ioErrors>>

Next ==
  \/ \E c \in Callers : ReadDepth(c) \/ AddJob(c)
  \/ \E r \in Closers : \E s \in Sessions : \E by \in {"employee", "admin"} :
       FindOpenSession(r, s, by)
  \/ \E r \in Closers : CloserStep(r)
  \/ \E k \in Slots : \E s \in Sessions : Take(k, s)
  \/ \E c \in Recalcs : \E s \in Sessions : Recalculate(c, s)
  \/ \E c \in Calculators : CalculatorStep(c)
  \/ \E s \in Sessions : DeadLetter(s) \/ MarkFailed(s)
  \/ RecoveryScan
  \/ \E s \in Sessions : RecoveryReturn(s)
  \/ LoadIntents \/ IntentReplayed
  \/ \E s \in Sessions : NextIntent(s) \/ CleanupIntent(s)
  \/ StartReplay \/ EntryReplayed
  \/ \E s \in Sessions : NextEntry(s)
  \/ Crash

\* The event loop runs what is pending and BullMQ serves a free slot.
Fairness ==
  /\ \A c \in Callers : WF_vars(ReadDepth(c) \/ AddJob(c))
  /\ \A r \in Closers : WF_vars(CloserStep(r))
  /\ \A k \in Slots : WF_vars(\E s \in Sessions : Take(k, s))
  /\ \A c \in Calculators : WF_vars(CalculatorStep(c))
  /\ \A s \in Sessions : WF_vars(DeadLetter(s)) /\ WF_vars(MarkFailed(s))
  /\ WF_vars(RecoveryScan)
  /\ \A s \in Sessions : WF_vars(RecoveryReturn(s))
  /\ WF_vars(LoadIntents \/ IntentReplayed \/ \E s \in Sessions : NextIntent(s))

SafetySpec == Init /\ [][Next]_vars

Spec == SafetySpec /\ Fairness

-----------------------------------------------------------------------------
(* Properties.                                                             *)

ClosedOnce(s) == edition[s] = 2

Fresh(s) == status[s] = "done" /\ summary[s] = edition[s] /\ duration[s] = edition[s]

\* Somebody in the running process, or its queue, still has session s to do.
Underway(s) ==
  \/ job[s] \in {"queued", "active"}
  \/ \E r \in Closers : closer[r].step \in {"enqueue", "intent"} /\ closer[r].session = s
  \/ boot
  \/ call[OfRecovery(s)].step \in {"depth", "add", "error"}

\* It did not work out and something says so: the status, the kept job, an
\* intent, or (history) a log line.
KnownAsFailed(s) ==
  \/ status[s] = "failed"
  \/ lateMark[s] > 0
  \/ job[s] = "failed"
  \/ intent[s] \in {"pending", "dead"}
  \/ s \in dropped

\* A session that is checked out gets its distance: wherever the process dies
\* and whatever the queue refuses, it is up to date, on its way, or on record as
\* failed.  Excepted are failed calls, a second check-out of the session and a
\* recalculation that read it while it was open (see RecoveryFindsOrphans).
ClosedIsCovered ==
  ioErrors = 0 =>
    \A s \in Sessions :
      ClosedOnce(s) /\ s \notin midway => Fresh(s) \/ Underway(s) \/ KnownAsFailed(s)

\* "we permanently mark the session status as 'failed' so operators and crash
\* recovery can identify it" (distance.worker.ts): a job kept as failed has its
\* mark, unless a crash or a failed call came between, or a recalculation.
PermanentFailureIsMarked ==
  crashes = 0 /\ ioErrors = 0 /\ recalcs = 0 =>
    \A s \in Sessions : job[s] = "failed" => status[s] = "failed" \/ lateMark[s] > 0

\* A session checked out reaches a verdict, done or failed, unless the queue
\* refused it; through crashes, but not through failed calls.
ClosedIsSettled ==
  \A s \in Sessions :
    Closed(s) ~> status[s] \in {"done", "failed"} \/ KnownAsFailed(s) \/ ioErrors > 0

-----------------------------------------------------------------------------
(* What the documents of the code say of it, and it does not do.           *)

\* "It isolates any session that is definitively closed, but either lacks a
\* summary, or has [one] older than the check_out_at boundary (meaning a generic
\* mid-session recalculation fired, but the final Check-Out generation dropped)"
\* (docs/walkthrough.md, crash recovery): the scan finds every closed session
\* whose summary is not based on its check-out.
RecoveryFindsOrphans ==
  [][boot /\ ~boot' /\ ioErrors' = ioErrors =>
       \A s \in Sessions :
         Closed(s) /\ summary[s] < edition[s] => call'[OfRecovery(s)].step = "depth"]_vars

=============================================================================
