---------------------------- MODULE CircuitBreaker ----------------------------
(***************************************************************************)
(* The per-webhook circuit breaker: a failure streak in Redis, the open    *)
(* state in the webhooks row, a scanner that closes expired circuits, the  *)
(* start-up sync from the row to Redis, and the administrator's PATCH of   *)
(* is_active.  A queued delivery is a number; its job and its row are      *)
(* module WebhookDelivery's.                                               *)
(*                                                                         *)
(* Time is abstract: an open circuit's deadline is in the future until     *)
(* Elapse moves it to the past.                                            *)
(***************************************************************************)
EXTENDS Naturals, FiniteSets

CONSTANTS
  Webhooks,
  Slots,          \* webhook worker slots
  Threshold,      \* CIRCUIT_OPEN_THRESHOLD
  MaxDeliveries,  \* bound: deliveries in a behaviour
  MaxAdminOps,    \* bound: PATCH requests
  MaxRestarts,    \* bound: process restarts
  MaxFlushes,     \* bound: times the streak keys expire or Redis is flushed
  MaxIoErrors     \* bound: failed database or Redis calls

ASSUME BreakerConstants ==
  /\ Webhooks # {}
  /\ IsFiniteSet(Slots)
  /\ Threshold \in Nat \ {0}
  /\ MaxDeliveries \in Nat
  /\ MaxAdminOps \in Nat
  /\ MaxRestarts \in Nat
  /\ MaxFlushes \in Nat
  /\ MaxIoErrors \in Nat

VARIABLES
  active, openUntil, dbStreak,   \* webhooks.is_active, circuit_open_until, failure_streak
  streak, cooldown,              \* the Redis keys; an absent streak is 0
  jobs,                          \* webhook -> deliveries waiting in the queue
  pc, hook, seen,                \* slot -> step, webhook it delivers to, streak INCR returned
  writes,                        \* fire-and-forget updates of failure_streak under way
  scan, todo, closing,           \* recoverExpiredCircuits: step, rows left, row being closed
  sync, snapshot,                \* syncCircuitBreakerState: step, rows it read
  adminSet,                      \* history: the last write of is_active was a PATCH
  deliveries, adminOps, restarts, flushes, ioErrors    \* what is used up of each bound

row      == <<active, openUntil, dbStreak>>
redis    == <<streak, cooldown>>
slots    == <<pc, hook, seen>>
scanner  == <<scan, todo, closing>>
syncer   == <<sync, snapshot>>
bounds   == <<deliveries, adminOps, restarts, flushes>>
vars == <<row, redis, jobs, slots, writes, scanner, syncer, adminSet, bounds, ioErrors>>

\* A restart may repeat a failure that was counted already.
Streak == 0..(MaxDeliveries + MaxRestarts * Cardinality(Slots))

TypeOK ==
  /\ active \in [Webhooks -> BOOLEAN]
  /\ openUntil \in [Webhooks -> {"none", "future", "past"}]
  /\ dbStreak \in [Webhooks -> Streak]
  /\ streak \in [Webhooks -> Streak]
  /\ cooldown \in [Webhooks -> BOOLEAN]
  /\ jobs \in [Webhooks -> 0..MaxDeliveries]
  /\ pc \in [Slots -> {"idle", "post", "success", "failure", "open", "cooldown"}]
  /\ hook \in [Slots -> Webhooks]
  /\ seen \in [Slots -> Streak]
  /\ writes \in [Webhooks \X Streak -> Nat]
  /\ scan \in {"idle", "row", "streak", "cooldown"}
  /\ todo \subseteq Webhooks
  /\ closing \in Webhooks
  /\ sync \in {"idle", "read", "write"}
  /\ snapshot \subseteq Webhooks \X Streak
  /\ adminSet \subseteq Webhooks
  /\ ioErrors \in 0..MaxIoErrors

Init ==
  /\ active = [w \in Webhooks |-> TRUE]
  /\ openUntil = [w \in Webhooks |-> "none"]
  /\ dbStreak = [w \in Webhooks |-> 0]
  /\ streak = [w \in Webhooks |-> 0]
  /\ cooldown = [w \in Webhooks |-> FALSE]
  /\ jobs = [w \in Webhooks |-> 0]
  /\ pc = [k \in Slots |-> "idle"]
  /\ hook = [k \in Slots |-> CHOOSE w \in Webhooks : TRUE]
  /\ seen = [k \in Slots |-> 0]
  /\ writes = [x \in Webhooks \X Streak |-> 0]
  /\ scan = "idle"
  /\ todo = {}
  /\ closing = CHOOSE w \in Webhooks : TRUE
  /\ sync = "idle"
  /\ snapshot = {}
  /\ adminSet = {}
  /\ deliveries = 0
  /\ adminOps = 0
  /\ restarts = 0
  /\ flushes = 0
  /\ ioErrors = 0

IoError ==
  /\ ioErrors < MaxIoErrors
  /\ ioErrors' = ioErrors + 1

NoIoError == UNCHANGED ioErrors

-----------------------------------------------------------------------------
(* Deliveries.                                                             *)

\* processEventForWebhooks selects active webhooks only; a retry of an older
\* delivery is queued whatever is_active says.
Enqueue(w, isRetry) ==
  /\ deliveries < MaxDeliveries
  /\ active[w] \/ isRetry
  /\ deliveries' = deliveries + 1
  /\ jobs' = [jobs EXCEPT ![w] = @ + 1]
  /\ UNCHANGED <<row, redis, slots, writes, scanner, syncer, adminSet, adminOps,
                 restarts, flushes, ioErrors>>

\* The worker takes a job; neither is_active nor the circuit is looked at.
Deliver(k, w) ==
  /\ pc[k] = "idle"
  /\ jobs[w] > 0
  /\ jobs' = [jobs EXCEPT ![w] = @ - 1]
  /\ pc' = [pc EXCEPT ![k] = "post"]
  /\ hook' = [hook EXCEPT ![k] = w]
  /\ UNCHANGED <<row, redis, seen, writes, scanner, syncer, adminSet, bounds, ioErrors>>

\* The receiver answers, or the POST times out.
Answer(k) ==
  /\ pc[k] = "post"
  /\ \E outcome \in {"success", "failure"} : pc' = [pc EXCEPT ![k] = outcome]
  /\ UNCHANGED <<row, redis, jobs, hook, seen, writes, scanner, syncer, adminSet,
                 bounds, ioErrors>>

\* update({ failure_streak }) without an await.
Send(w, n) == writes' = [writes EXCEPT ![<<w, n>>] = @ + 1]

\* recordDeliverySuccess: GETDEL, then a write of 0 nobody waits for.
RecordSuccess(k) ==
  /\ pc[k] = "success"
  /\ pc' = [pc EXCEPT ![k] = "idle"]
  /\ LET w == hook[k] IN
     \/ /\ streak' = [streak EXCEPT ![w] = 0]
        /\ IF streak[w] > 0 THEN Send(w, 0) ELSE UNCHANGED writes
        /\ NoIoError
     \/ IoError /\ UNCHANGED <<streak, writes>>
  /\ UNCHANGED <<row, cooldown, jobs, hook, seen, scanner, syncer, adminSet, bounds>>

\* recordDeliveryFailure: INCR, the write of the new streak, and openCircuit
\* when it reached the threshold.  An error of INCR, or of the EXPIRE after it,
\* is swallowed.
RecordFailure(k) ==
  /\ pc[k] = "failure"
  /\ LET w == hook[k]
         n == streak[w] + 1
     IN
     \/ /\ streak' = [streak EXCEPT ![w] = n]
        /\ seen' = [seen EXCEPT ![k] = n]
        /\ Send(w, n)
        /\ pc' = [pc EXCEPT ![k] = IF n >= Threshold THEN "open" ELSE "idle"]
        /\ NoIoError
     \/ /\ IoError
        /\ streak' \in {streak, [streak EXCEPT ![w] = n]}
        /\ pc' = [pc EXCEPT ![k] = "idle"]
        /\ UNCHANGED <<seen, writes>>
  /\ UNCHANGED <<row, cooldown, jobs, hook, scanner, syncer, adminSet, bounds>>

\* Mutant: the deadline is left for later.
OpenRowNoDeadline(k) ==
  /\ pc[k] = "open"
  /\ pc' = [pc EXCEPT ![k] = "cooldown"]
  /\ active' = [active EXCEPT ![hook[k]] = FALSE]
  /\ dbStreak' = [dbStreak EXCEPT ![hook[k]] = seen[k]]
  /\ adminSet' = adminSet \ {hook[k]}
  /\ NoIoError
  /\ UNCHANGED <<openUntil, redis, jobs, hook, seen, writes, scanner, syncer,
                 bounds>>

\* openCircuit: one update of the row; an error is logged and the key set all
\* the same.
OpenRow(k) ==
  /\ pc[k] = "open"
  /\ pc' = [pc EXCEPT ![k] = "cooldown"]
  /\ LET w == hook[k] IN
     \/ /\ active' = [active EXCEPT ![w] = FALSE]
        /\ openUntil' = [openUntil EXCEPT ![w] = "future"]
        /\ dbStreak' = [dbStreak EXCEPT ![w] = seen[k]]
        /\ adminSet' = adminSet \ {w}
        /\ NoIoError
     \/ IoError /\ UNCHANGED <<row, adminSet>>
  /\ UNCHANGED <<redis, jobs, hook, seen, writes, scanner, syncer,
                 bounds>>

SetCooldown(k) ==
  /\ pc[k] = "cooldown"
  /\ pc' = [pc EXCEPT ![k] = "idle"]
  /\ \/ cooldown' = [cooldown EXCEPT ![hook[k]] = TRUE] /\ NoIoError
     \/ IoError /\ UNCHANGED cooldown
  /\ UNCHANGED <<row, streak, jobs, hook, seen, writes, scanner, syncer, adminSet,
                 bounds>>

\* A write of failure_streak reaches the database, in any order, or fails.
ApplyWrite(w, n) ==
  /\ writes[<<w, n>>] > 0
  /\ writes' = [writes EXCEPT ![<<w, n>>] = @ - 1]
  /\ \/ dbStreak' = [dbStreak EXCEPT ![w] = n] /\ NoIoError
     \/ IoError /\ UNCHANGED dbStreak
  /\ UNCHANGED <<active, openUntil, redis, jobs, slots, scanner, syncer, adminSet,
                 bounds>>

SlotStep(k) ==
  Answer(k) \/ RecordSuccess(k) \/ RecordFailure(k) \/ OpenRow(k) \/ SetCooldown(k)

-----------------------------------------------------------------------------
(* The recovery scanner and the start-up sync.                             *)

\* CIRCUIT_RECOVERY_COOLDOWN_MS pass.  The Redis key has a TTL of its own and
\* may outlive the deadline; nothing reads it.
Elapse(w) ==
  /\ openUntil[w] = "future"
  /\ openUntil' = [openUntil EXCEPT ![w] = "past"]
  /\ cooldown' \in {cooldown, [cooldown EXCEPT ![w] = FALSE]}
  /\ UNCHANGED <<active, dbStreak, streak, jobs, slots, writes, scanner, syncer,
                 adminSet, bounds, ioErrors>>

\* Mutants: the filter on circuit_open_until is dropped, or turned around.
ExpiredAnyInactive(w) == ~active[w]
ExpiredTooEarly(w) == ~active[w] /\ openUntil[w] = "future"

Expired(w) == ~active[w] /\ openUntil[w] = "past"

\* recoverExpiredCircuits reads the rows first ...
Scan ==
  /\ scan = "idle"
  /\ \E w \in Webhooks : Expired(w)
  /\ \/ /\ todo' = {w \in Webhooks : Expired(w)}
        /\ \E w \in todo' : closing' = w
        /\ scan' = "row"
        /\ NoIoError
     \/ IoError /\ UNCHANGED scanner
  /\ UNCHANGED <<row, redis, jobs, slots, writes, syncer, adminSet, bounds>>

\* The next row of the list, or the end of the scan.
ScanOn ==
  /\ todo' = todo \ {closing}
  /\ IF todo' = {}
     THEN scan' = "idle" /\ UNCHANGED closing
     ELSE scan' = "row" /\ closing' \in todo'

\* ... and closeCircuit updates each of them by id alone.
CloseRow ==
  /\ scan = "row"
  /\ scan' = "streak"
  /\ \/ /\ active' = [active EXCEPT ![closing] = TRUE]
        /\ openUntil' = [openUntil EXCEPT ![closing] = "none"]
        /\ dbStreak' = [dbStreak EXCEPT ![closing] = 0]
        /\ adminSet' = adminSet \ {closing}
        /\ NoIoError
     \/ IoError /\ UNCHANGED <<row, adminSet>>
  /\ UNCHANGED <<redis, jobs, slots, writes, todo, closing, syncer, bounds>>

\* A Redis error throws out of closeCircuit to the loop.
CloseStreak ==
  /\ scan = "streak"
  /\ \/ /\ streak' = [streak EXCEPT ![closing] = 0]
        /\ scan' = "cooldown"
        /\ UNCHANGED <<todo, closing>>
        /\ NoIoError
     \/ IoError /\ ScanOn /\ UNCHANGED streak
  /\ UNCHANGED <<row, cooldown, jobs, slots, writes, syncer, adminSet, bounds>>

CloseCooldown ==
  /\ scan = "cooldown"
  /\ ScanOn
  /\ \/ cooldown' = [cooldown EXCEPT ![closing] = FALSE] /\ NoIoError
     \/ IoError /\ UNCHANGED cooldown
  /\ UNCHANGED <<row, streak, jobs, slots, writes, syncer, adminSet, bounds>>

ScannerStep == Scan \/ CloseRow \/ CloseStreak \/ CloseCooldown

\* syncCircuitBreakerState: the open rows are read ...
SyncRead ==
  /\ sync = "read"
  /\ \/ /\ snapshot' = {<<w, dbStreak[w]>> : w \in {x \in Webhooks : openUntil[x] = "future"}}
        /\ sync' = "write"
        /\ NoIoError
     \/ IoError /\ sync' = "idle" /\ UNCHANGED snapshot
  /\ UNCHANGED <<row, redis, jobs, slots, writes, scanner, adminSet, bounds>>

\* ... and their keys set in one pipeline; the worker is running meanwhile.
SyncWrite ==
  /\ sync = "write"
  /\ sync' = "idle"
  /\ snapshot' = {}
  /\ \/ /\ cooldown' = [w \in Webhooks |-> cooldown[w] \/ \E n \in Streak : <<w, n>> \in snapshot]
        /\ streak' = [w \in Webhooks |->
                        LET saved == {n \in Streak \ {0} : <<w, n>> \in snapshot}
                        IN  IF saved = {} THEN streak[w] ELSE CHOOSE n \in saved : TRUE]
        /\ NoIoError
     \/ IoError /\ UNCHANGED redis
  /\ UNCHANGED <<row, jobs, slots, writes, scanner, adminSet, bounds>>

-----------------------------------------------------------------------------
(* Administrator and faults.                                               *)

\* PATCH { is_active }: the circuit's columns and keys are left alone.
PatchActive(w, b) ==
  /\ adminOps < MaxAdminOps
  /\ adminOps' = adminOps + 1
  /\ active' = [active EXCEPT ![w] = b]
  /\ adminSet' = adminSet \cup {w}
  /\ UNCHANGED <<openUntil, dbStreak, redis, jobs, slots, writes, scanner, syncer,
                 deliveries, restarts, flushes, ioErrors>>

\* The process dies and starts again: its writes under way are lost, jobs in
\* its slots go back to the queue, the sync runs.
Restart ==
  /\ restarts < MaxRestarts
  /\ restarts' = restarts + 1
  /\ jobs' = [w \in Webhooks |->
                jobs[w] + Cardinality({k \in Slots : pc[k] # "idle" /\ hook[k] = w})]
  /\ pc' = [k \in Slots |-> "idle"]
  /\ writes' = [x \in Webhooks \X Streak |-> 0]
  /\ scan' = "idle"
  /\ todo' = {}
  /\ sync' = "read"
  /\ UNCHANGED <<row, redis, hook, seen, closing, snapshot, adminSet, deliveries,
                 adminOps, flushes, ioErrors>>

\* The 24-hour TTL of a streak, or a flush of Redis.
LoseKeys(w) ==
  /\ flushes < MaxFlushes
  /\ flushes' = flushes + 1
  /\ streak' = [streak EXCEPT ![w] = 0]
  /\ cooldown' \in {cooldown, [cooldown EXCEPT ![w] = FALSE]}
  /\ UNCHANGED <<row, jobs, slots, writes, scanner, syncer, adminSet, deliveries,
                 adminOps, restarts, ioErrors>>

-----------------------------------------------------------------------------
Next ==
  \/ \E w \in Webhooks : \E isRetry \in BOOLEAN : Enqueue(w, isRetry)
  \/ \E k \in Slots : \E w \in Webhooks : Deliver(k, w)
  \/ \E k \in Slots : SlotStep(k)
  \/ \E w \in Webhooks : \E n \in Streak : ApplyWrite(w, n)
  \/ \E w \in Webhooks : Elapse(w)
  \/ ScannerStep
  \/ SyncRead \/ SyncWrite
  \/ \E w \in Webhooks : \E b \in BOOLEAN : PatchActive(w, b)
  \/ Restart
  \/ \E w \in Webhooks : LoseKeys(w)

\* Time passes, the interval timer fires and the event loop goes on.
Fairness ==
  /\ \A w \in Webhooks : WF_vars(Elapse(w))
  /\ WF_vars(ScannerStep)
  /\ \A k \in Slots : WF_vars(SlotStep(k))

SafetySpec == Init /\ [][Next]_vars

Spec == SafetySpec /\ Fairness

-----------------------------------------------------------------------------
(* Properties.                                                             *)

\* A webhook the breaker disabled is one the scanner can find: without a
\* deadline in the row, only an administrator can have disabled it.
StrandedOnlyByAdmin ==
  \A w \in Webhooks : ~active[w] /\ openUntil[w] = "none" => w \in adminSet

\* The scanner never enables a webhook whose circuit is not open, such as one
\* an administrator disabled, also when its row changed after the scan read it.
ScannerEnablesOpenOnly ==
  [][\A w \in Webhooks :
       ~active[w] /\ active'[w] /\ adminOps' = adminOps => openUntil[w] # "none"]_vars

\* A disabled webhook with an open circuit is enabled again in the end, however
\* often failures of deliveries already queued re-open the circuit meanwhile.
BreakerReenables ==
  \A w \in Webhooks : ~active[w] /\ openUntil[w] # "none" ~> active[w]

-----------------------------------------------------------------------------
(* What the comments of the code say of it, and it does not do.            *)

\* "OPEN - webhook disabled; deliveries are skipped until circuit_open_until has
\* elapsed" (circuit-breaker.ts): no deadline is taken back while it is in the
\* future.
CooldownIsServed ==
  [][\A w \in Webhooks : openUntil[w] = "future" => openUntil'[w] # "none"]_vars

=============================================================================
