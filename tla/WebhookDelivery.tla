--------------------------- MODULE WebhookDelivery ---------------------------
(***************************************************************************)
(* Fan-out and delivery of domain events to an organisation's webhooks:    *)
(*                                                                         *)
(*   emitEvent -> processEventForWebhooks -> webhook_deliveries row        *)
(*     -> BullMQ queue "webhook-delivery" -> worker -> POST -> row update  *)
(*     -> next attempt, or dead-letter queue                               *)
(*                                                                         *)
(* together with the administrator's manual retry and test delivery, the   *)
(* deletion of a webhook, process crashes and stalled BullMQ jobs.         *)
(*                                                                         *)
(* Every "await" of the code that another actor can interleave with is a   *)
(* step of its own.  A delivery row is named by its (event, webhook) pair, *)
(* which the table keeps unique; a job by its BullMQ id                    *)
(* `delivery:{delivery_id}:{attempt_number}`.  Time is abstract: a delayed *)
(* job may start at any moment, and counts in the queue's depth until then.*)
(***************************************************************************)
EXTENDS Naturals, FiniteSets

CONSTANTS
  Events,          \* event envelopes
  Webhooks,        \* registered webhooks
  Subscriptions,   \* (event, webhook) pairs: same organisation, event type subscribed
  Workers,         \* WEBHOOK_WORKER_CONCURRENCY job slots
  Admins,          \* concurrent administrator requests
  MaxAttempts,     \* WEBHOOK_MAX_ATTEMPTS
  MaxQueueDepth,   \* MAX_QUEUE_DEPTH
  MaxAdminOps,     \* bound: administrator requests in a behaviour
  MaxCrashes,      \* bound: process crashes
  MaxStalls,       \* bound: jobs whose lock expires while the worker lives on
  MaxIoErrors,     \* bound: failed database or Redis calls
  MaxTrouble       \* bound: requests and faults of all three kinds together

ASSUME ConstantsOK ==
  /\ Subscriptions \subseteq Events \X Webhooks
  /\ MaxAttempts \in Nat \ {0}
  /\ MaxQueueDepth \in Nat \ {0}
  /\ MaxAdminOps \in Nat
  /\ MaxCrashes \in Nat
  /\ MaxStalls \in Nat
  /\ MaxIoErrors \in Nat
  /\ MaxTrouble \in Nat

VARIABLES
  bus,           \* event -> where its envelope is in the process
  eventRow,      \* events with a row in webhook_events
  oversize,      \* events whose payload exceeds WEBHOOK_MAX_PAYLOAD_BYTES (never changes)
  hook,          \* webhook -> its row in webhooks: active, inactive or deleted
  status,        \* delivery -> webhook_deliveries.status, "absent" without a row
  attempts,      \* delivery -> webhook_deliveries.attempt_count
  fan,           \* delivery -> program counter of createAndEnqueueDelivery
  queue,         \* job -> its state in BullMQ
  stalledOnce,   \* jobs BullMQ has already requeued once after a stall
  wpc, wjob,     \* worker -> program counter, job it holds
  wlock,         \* worker -> it still owns the lock of its job
  apc, ajob,     \* administrator -> program counter, job it will add
  contested,     \* history: deliveries two requests had in hand at once
  deadLettered,  \* deliveries with a job in the dead-letter queue or its archive
  sent,          \* history: job -> number of POSTs made for it
  acked,         \* history: deliveries the receiver answered with 2xx
  adminOps, crashes, stalls, ioErrors    \* what is used up of each bound

fanVars    == <<bus, eventRow, fan>>
rowVars    == <<status, attempts>>
queueVars  == <<queue, stalledOnce>>
workerVars == <<wpc, wjob, wlock>>
adminVars  == <<apc, ajob, adminOps, contested>>
history    == <<deadLettered, sent, acked>>
environment == <<crashes, stalls, oversize>>
vars == <<fanVars, rowVars, queueVars, workerVars, adminVars, history,
          environment, hook, ioErrors>>

Delivery == Subscriptions
Attempt  == 1..(MaxAttempts + MaxAdminOps)
Job      == Delivery \X Attempt

NoJob    == <<>>

FanPC    == {"idle", "insert", "depth", "add", "reject"}
AdminPC  == {"idle", "reset", "create", "depth", "add"}
WorkerPC == {"idle", "check", "fetch", "noevent", "oversize", "post", "succeed",
             "retry", "depth", "add", "reject", "dlq", "finish"}

TypeOK ==
  /\ bus \in [Events -> {"new", "emitted", "persisted", "done"}]
  /\ eventRow \subseteq Events
  /\ oversize \subseteq Events
  /\ hook \in [Webhooks -> {"active", "inactive", "deleted"}]
  /\ status \in [Delivery -> {"absent", "pending", "success", "failed"}]
  /\ attempts \in [Delivery -> Nat]
  /\ fan \in [Delivery -> FanPC]
  /\ queue \in [Job -> {"none", "queued", "active", "failed"}]
  /\ stalledOnce \subseteq Job
  /\ wpc \in [Workers -> WorkerPC]
  /\ wjob \in [Workers -> Job \cup {NoJob}]
  /\ \A k \in Workers : wpc[k] # "idle" => wjob[k] \in Job
  /\ wlock \in [Workers -> BOOLEAN]
  /\ apc \in [Admins -> AdminPC]
  /\ ajob \in [Admins -> Job \cup {NoJob}]
  /\ \A a \in Admins : apc[a] # "idle" => ajob[a] \in Job
  /\ contested \subseteq Delivery
  /\ deadLettered \subseteq Delivery
  /\ sent \in [Job -> Nat]
  /\ acked \subseteq Delivery
  /\ adminOps \in 0..MaxAdminOps
  /\ crashes \in 0..MaxCrashes
  /\ stalls \in 0..MaxStalls
  /\ ioErrors \in 0..MaxIoErrors

Init ==
  /\ bus = [e \in Events |-> "new"]
  /\ eventRow = {}
  /\ oversize \in SUBSET Events
  /\ hook = [w \in Webhooks |-> "active"]
  /\ status = [d \in Delivery |-> "absent"]
  /\ attempts = [d \in Delivery |-> 0]
  /\ fan = [d \in Delivery |-> "idle"]
  /\ queue = [j \in Job |-> "none"]
  /\ stalledOnce = {}
  /\ wpc = [k \in Workers |-> "idle"]
  /\ wjob = [k \in Workers |-> NoJob]
  /\ wlock = [k \in Workers |-> FALSE]
  /\ apc = [a \in Admins |-> "idle"]
  /\ ajob = [a \in Admins |-> NoJob]
  /\ contested = {}
  /\ deadLettered = {}
  /\ sent = [j \in Job |-> 0]
  /\ acked = {}
  /\ adminOps = 0
  /\ crashes = 0
  /\ stalls = 0
  /\ ioErrors = 0

-----------------------------------------------------------------------------
(* Database and queue primitives.                                          *)

WithinBounds == adminOps + crashes + stalls + ioErrors < MaxTrouble

\* A database or Redis call fails; the code logs it or does not look.
IoError ==
  /\ WithinBounds
  /\ ioErrors < MaxIoErrors
  /\ ioErrors' = ioErrors + 1

\* UPDATE webhook_deliveries ... WHERE id = d: no effect without a row, and
\* none of the callers looks at the error of a failed update.
UpdateRow(d, s, n) ==
  \/ /\ IF status[d] = "absent"
          THEN UNCHANGED rowVars
          ELSE /\ status' = [status EXCEPT ![d] = s]
               /\ attempts' = [attempts EXCEPT ![d] = n]
     /\ UNCHANGED ioErrors
  \/ IoError /\ UNCHANGED rowVars

\* INSERT INTO webhook_deliveries: the webhook must exist (foreign key) and
\* the (event, webhook) pair be new (unique constraint).  The live table has no
\* foreign key to webhook_events: the event's row may be missing.
CanInsert(d) == hook[d[2]] # "deleted" /\ status[d] = "absent"

InsertRow(d) ==
  /\ status' = [status EXCEPT ![d] = "pending"]
  /\ attempts' = [attempts EXCEPT ![d] = 0]

\* waiting + delayed, as enqueueWebhookDelivery counts them.
Depth == Cardinality({j \in Job : queue[j] = "queued"})

HasRoom == Depth < MaxQueueDepth

\* queue.add with a jobId: BullMQ ignores it while a job of that id exists.
AddJob(j) ==
  /\ queue' = IF queue[j] = "none" THEN [queue EXCEPT ![j] = "queued"] ELSE queue
  /\ UNCHANGED stalledOnce

\* A job whose lock expired goes back to the queue once; the second time
\* BullMQ fails it (maxStalledCount = 1) and keeps it under its id.
AfterStall(j) == IF j \in stalledOnce THEN "failed" ELSE "queued"

-----------------------------------------------------------------------------
(* Event bus and fan-out.                                                  *)

\* emitEvent: the envelope is handed to setImmediate, the caller goes on.
Emit(e) ==
  /\ bus[e] = "new"
  /\ bus' = [bus EXCEPT ![e] = "emitted"]
  /\ UNCHANGED <<eventRow, fan, rowVars, queueVars, workerVars, adminVars,
                 history, environment, hook, ioErrors>>

\* processEventForWebhooks, first await: INSERT INTO webhook_events.  An error
\* is logged and the fan-out goes on.
PersistEvent(e) ==
  /\ bus[e] = "emitted"
  /\ bus' = [bus EXCEPT ![e] = "persisted"]
  /\ \/ eventRow' = eventRow \cup {e} /\ UNCHANGED ioErrors
     \/ IoError /\ UNCHANGED eventRow
  /\ UNCHANGED <<fan, rowVars, queueVars, workerVars, adminVars, history,
                 environment, hook>>

\* Second await: SELECT the matching active webhooks; one
\* createAndEnqueueDelivery starts for each.  After an error there is none.
SelectWebhooks(e) ==
  /\ bus[e] = "persisted"
  /\ bus' = [bus EXCEPT ![e] = "done"]
  /\ \/ /\ fan' = [d \in Delivery |->
                     IF d[1] = e /\ hook[d[2]] = "active" THEN "insert" ELSE fan[d]]
        /\ UNCHANGED ioErrors
     \/ IoError /\ UNCHANGED fan
  /\ UNCHANGED <<eventRow, rowVars, queueVars, workerVars, adminVars, history,
                 environment, hook>>

\* createAndEnqueueDelivery: INSERT the row.  A duplicate, a deleted webhook
\* or any other error ends it.
FanInsert(d) ==
  /\ fan[d] = "insert"
  /\ \/ /\ CanInsert(d)
        /\ InsertRow(d)
        /\ fan' = [fan EXCEPT ![d] = "depth"]
        /\ UNCHANGED ioErrors
     \/ /\ \/ ~CanInsert(d) /\ UNCHANGED ioErrors
           \/ IoError
        /\ fan' = [fan EXCEPT ![d] = "idle"]
        /\ UNCHANGED rowVars
  /\ UNCHANGED <<bus, eventRow, queueVars, workerVars, adminVars, history,
                 environment, hook>>

\* enqueueWebhookDelivery for attempt 1: the counts are read first ...
FanDepth(d) ==
  /\ fan[d] = "depth"
  /\ \/ /\ fan' = [fan EXCEPT ![d] = IF HasRoom THEN "add" ELSE "reject"]
        /\ UNCHANGED ioErrors
     \/ IoError /\ fan' = [fan EXCEPT ![d] = "reject"]
  /\ UNCHANGED <<bus, eventRow, rowVars, queueVars, workerVars, adminVars,
                 history, environment, hook>>

\* ... and the job is added later.
FanAdd(d) ==
  /\ fan[d] = "add"
  /\ \/ /\ AddJob(<<d, 1>>)
        /\ fan' = [fan EXCEPT ![d] = "idle"]
        /\ UNCHANGED ioErrors
     \/ /\ IoError
        /\ fan' = [fan EXCEPT ![d] = "reject"]
        /\ UNCHANGED queueVars
  /\ UNCHANGED <<bus, eventRow, rowVars, workerVars, adminVars, history,
                 environment, hook>>

\* Mutant: the catch block only logs.
FanRejectLogsOnly(d) ==
  /\ fan[d] = "reject"
  /\ fan' = [fan EXCEPT ![d] = "idle"]
  /\ UNCHANGED <<bus, eventRow, rowVars, queueVars, workerVars, adminVars,
                 history, environment, hook, ioErrors>>

\* catch: the delivery is marked failed.
FanReject(d) ==
  /\ fan[d] = "reject"
  /\ fan' = [fan EXCEPT ![d] = "idle"]
  /\ UpdateRow(d, "failed", attempts[d])
  /\ UNCHANGED <<bus, eventRow, queueVars, workerVars, adminVars, history,
                 environment, hook>>

FanStep(d) == FanInsert(d) \/ FanDepth(d) \/ FanAdd(d) \/ FanReject(d)

-----------------------------------------------------------------------------
(* The delivery worker.                                                    *)

\* BullMQ hands a queued job to a free slot.
Take(k, j) ==
  /\ wpc[k] = "idle"
  /\ queue[j] = "queued"
  /\ queue' = [queue EXCEPT ![j] = "active"]
  /\ wpc' = [wpc EXCEPT ![k] = "check"]
  /\ wjob' = [wjob EXCEPT ![k] = j]
  /\ wlock' = [wlock EXCEPT ![k] = TRUE]
  /\ UNCHANGED <<fanVars, rowVars, stalledOnce, adminVars, history, environment,
                 hook, ioErrors>>

Goto(k, pc) == wpc' = [wpc EXCEPT ![k] = pc]

\* Idempotency guard: only a row already in success stops the job.  A read
\* that fails, or finds no row, lets it go on.
CheckStatus(k) ==
  /\ wpc[k] = "check"
  /\ \/ /\ Goto(k, IF status[wjob[k][1]] = "success" THEN "finish" ELSE "fetch")
        /\ UNCHANGED ioErrors
     \/ IoError /\ Goto(k, "fetch")
  /\ UNCHANGED <<fanVars, rowVars, queueVars, wjob, wlock, adminVars, history,
                 environment, hook>>

\* Fetch the event's payload; a read error counts as a missing payload.
FetchEvent(k) ==
  /\ wpc[k] = "fetch"
  /\ LET e == wjob[k][1][1]
     IN \/ /\ Goto(k, CASE e \notin eventRow -> "noevent"
                        [] e \in eventRow \cap oversize -> "oversize"
                        [] OTHER -> "post")
           /\ UNCHANGED ioErrors
        \/ IoError /\ Goto(k, "noevent")
  /\ UNCHANGED <<fanVars, rowVars, queueVars, wjob, wlock, adminVars, history,
                 environment, hook>>

\* No payload: failed, attempt_count untouched, no retry and no dead letter.
MarkNoEvent(k) ==
  /\ wpc[k] = "noevent"
  /\ UpdateRow(wjob[k][1], "failed", attempts[wjob[k][1]])
  /\ Goto(k, "finish")
  /\ UNCHANGED <<fanVars, queueVars, wjob, wlock, adminVars, history, environment,
                 hook>>

\* Payload over the cap: failed without a retry, to the dead-letter queue.
MarkOversize(k) ==
  /\ wpc[k] = "oversize"
  /\ UpdateRow(wjob[k][1], "failed", wjob[k][2])
  /\ Goto(k, "dlq")
  /\ UNCHANGED <<fanVars, queueVars, wjob, wlock, adminVars, history, environment,
                 hook>>

\* deliverWebhook.  Afterwards recordDeliveryFailure may open the circuit of
\* the webhook (module CircuitBreaker), which deactivates it.
Post(k) ==
  /\ wpc[k] = "post"
  /\ sent' = [sent EXCEPT ![wjob[k]] = @ + 1]
  /\ \/ /\ acked' = acked \cup {wjob[k][1]}
        /\ Goto(k, "succeed")
        /\ UNCHANGED hook
     \/ /\ Goto(k, "retry")
        /\ hook' \in {hook} \cup
             (IF hook[wjob[k][1][2]] = "active"
              THEN {[hook EXCEPT ![wjob[k][1][2]] = "inactive"]} ELSE {})
        /\ UNCHANGED acked
  /\ UNCHANGED <<fanVars, rowVars, queueVars, wjob, wlock, adminVars,
                 deadLettered, environment, ioErrors>>

\* markSuccess.
MarkSuccess(k) ==
  /\ wpc[k] = "succeed"
  /\ UpdateRow(wjob[k][1], "success", wjob[k][2])
  /\ Goto(k, "finish")
  /\ UNCHANGED <<fanVars, queueVars, wjob, wlock, adminVars, history, environment,
                 hook>>

\* Mutant: one retry too many.
CanRetryOnceMore(n) == n <= MaxAttempts

CanRetry(n) == n + 1 <= MaxAttempts

\* Mutant: the last attempt's failure forgets the dead-letter queue.
ScheduleRetryOrFailNoDlq(k) ==
  /\ wpc[k] = "retry"
  /\ LET n == wjob[k][2] IN
     /\ UpdateRow(wjob[k][1], IF CanRetry(n) THEN "pending" ELSE "failed", n)
     /\ Goto(k, IF CanRetry(n) THEN "depth" ELSE "finish")
  /\ UNCHANGED <<fanVars, queueVars, wjob, wlock, adminVars, history, environment,
                 hook>>

\* scheduleRetryOrFail: the row is updated whatever it says by now.
ScheduleRetryOrFail(k) ==
  /\ wpc[k] = "retry"
  /\ LET n == wjob[k][2] IN
     /\ UpdateRow(wjob[k][1], IF CanRetry(n) THEN "pending" ELSE "failed", n)
     /\ Goto(k, IF CanRetry(n) THEN "depth" ELSE "dlq")
  /\ UNCHANGED <<fanVars, queueVars, wjob, wlock, adminVars, history, environment,
                 hook>>

\* enqueueWebhookDelivery for the next attempt, as in FanDepth and FanAdd.
RetryDepth(k) ==
  /\ wpc[k] = "depth"
  /\ \/ Goto(k, IF HasRoom THEN "add" ELSE "reject") /\ UNCHANGED ioErrors
     \/ IoError /\ Goto(k, "reject")
  /\ UNCHANGED <<fanVars, rowVars, queueVars, wjob, wlock, adminVars, history,
                 environment, hook>>

RetryAdd(k) ==
  /\ wpc[k] = "add"
  /\ \/ /\ AddJob(<<wjob[k][1], wjob[k][2] + 1>>)
        /\ Goto(k, "finish")
        /\ UNCHANGED ioErrors
     \/ IoError /\ Goto(k, "reject") /\ UNCHANGED queueVars
  /\ UNCHANGED <<fanVars, rowVars, wjob, wlock, adminVars, history, environment,
                 hook>>

\* "Cannot retry: mark as failed to avoid phantom pending records."
RetryReject(k) ==
  /\ wpc[k] = "reject"
  /\ UpdateRow(wjob[k][1], "failed", attempts[wjob[k][1]])
  /\ Goto(k, "finish")
  /\ UNCHANGED <<fanVars, queueVars, wjob, wlock, adminVars, history, environment,
                 hook>>

\* enqueueToDlq (module WebhookDlq has its steps); an error is swallowed.
MoveToDlq(k) ==
  /\ wpc[k] = "dlq"
  /\ \/ deadLettered' = deadLettered \cup {wjob[k][1]} /\ UNCHANGED ioErrors
     \/ IoError /\ UNCHANGED deadLettered
  /\ Goto(k, "finish")
  /\ UNCHANGED <<fanVars, rowVars, queueVars, wjob, wlock, adminVars, sent,
                 acked, environment, hook>>

\* The processor returns and BullMQ removes the job (removeOnComplete), unless
\* this slot has lost its lock.
FinishJob(k) ==
  /\ wpc[k] = "finish"
  /\ Goto(k, "idle")
  /\ IF wlock[k]
     THEN /\ queue' = [queue EXCEPT ![wjob[k]] = "none"]
          /\ stalledOnce' = stalledOnce \ {wjob[k]}
     ELSE UNCHANGED queueVars
  /\ wlock' = [wlock EXCEPT ![k] = FALSE]
  /\ UNCHANGED <<fanVars, rowVars, wjob, adminVars, history, environment, hook,
                 ioErrors>>

WorkerStep(k) ==
  \/ CheckStatus(k) \/ FetchEvent(k) \/ MarkNoEvent(k) \/ MarkOversize(k)
  \/ Post(k) \/ MarkSuccess(k) \/ ScheduleRetryOrFail(k)
  \/ RetryDepth(k) \/ RetryAdd(k) \/ RetryReject(k) \/ MoveToDlq(k)
  \/ FinishJob(k)

-----------------------------------------------------------------------------
(* Administrator: manual retry and test delivery, webhook changes.         *)

\* Another request is between its first read of delivery d and its last step.
InHand(d) == \E a \in Admins : apc[a] # "idle" /\ ajob[a][1] = d

\* Mutant: the "already pending" check is dropped.
RetryReadUnguarded(a, d) ==
  /\ apc[a] = "idle"
  /\ WithinBounds
  /\ adminOps < MaxAdminOps
  /\ status[d] # "absent"
  /\ apc' = [apc EXCEPT ![a] = "reset"]
  /\ ajob' = [ajob EXCEPT ![a] = <<d, attempts[d] + 1>>]
  /\ adminOps' = adminOps + 1
  /\ contested' = IF InHand(d) THEN contested \cup {d} ELSE contested
  /\ UNCHANGED <<fanVars, rowVars, queueVars, workerVars, history, environment,
                 hook, ioErrors>>

\* retryDelivery reads the delivery: refused while pending, otherwise the next
\* attempt number is fixed here, past MaxAttempts if need be.  Nothing holds off
\* a second request that reads the row before the first has reset it.
RetryRead(a, d) ==
  /\ apc[a] = "idle"
  /\ WithinBounds
  /\ adminOps < MaxAdminOps
  /\ status[d] \notin {"absent", "pending"}
  /\ apc' = [apc EXCEPT ![a] = "reset"]
  /\ ajob' = [ajob EXCEPT ![a] = <<d, attempts[d] + 1>>]
  /\ adminOps' = adminOps + 1
  /\ contested' = IF InHand(d) THEN contested \cup {d} ELSE contested
  /\ UNCHANGED <<fanVars, rowVars, queueVars, workerVars, history, environment,
                 hook, ioErrors>>

\* resetDeliveryForRetry: status := pending whatever it is by now; throws when
\* the row is gone, or the call fails.
RetryReset(a) ==
  /\ apc[a] = "reset"
  /\ LET d == ajob[a][1] IN
     \/ /\ status[d] # "absent"
        /\ status' = [status EXCEPT ![d] = "pending"]
        /\ apc' = [apc EXCEPT ![a] = "depth"]
        /\ UNCHANGED ioErrors
     \/ /\ \/ status[d] = "absent" /\ UNCHANGED ioErrors
           \/ IoError
        /\ apc' = [apc EXCEPT ![a] = "idle"]
        /\ UNCHANGED status
  /\ UNCHANGED <<fanVars, attempts, queueVars, workerVars, ajob, adminOps,
                 contested, history, environment, hook>>

\* testWebhook: a fresh event for this webhook only ...
TestCreateEvent(a, d) ==
  /\ apc[a] = "idle"
  /\ WithinBounds
  /\ adminOps < MaxAdminOps
  /\ bus[d[1]] = "new"
  /\ d[1] \notin oversize
  /\ hook[d[2]] # "deleted"
  /\ bus' = [bus EXCEPT ![d[1]] = "done"]
  /\ eventRow' = eventRow \cup {d[1]}
  /\ apc' = [apc EXCEPT ![a] = "create"]
  /\ ajob' = [ajob EXCEPT ![a] = <<d, 1>>]
  /\ adminOps' = adminOps + 1
  /\ UNCHANGED <<fan, rowVars, queueVars, workerVars, contested, history,
                 environment, hook, ioErrors>>

\* ... and its delivery row; both calls throw on an error.
TestCreateDelivery(a) ==
  /\ apc[a] = "create"
  /\ \/ /\ CanInsert(ajob[a][1])
        /\ InsertRow(ajob[a][1])
        /\ apc' = [apc EXCEPT ![a] = "depth"]
        /\ UNCHANGED ioErrors
     \/ /\ \/ ~CanInsert(ajob[a][1]) /\ UNCHANGED ioErrors
           \/ IoError
        /\ apc' = [apc EXCEPT ![a] = "idle"]
        /\ UNCHANGED rowVars
  /\ UNCHANGED <<fanVars, queueVars, workerVars, ajob, adminOps, contested,
                 history, environment, hook>>

\* enqueueWebhookDelivery: an overloaded queue or an error reaches the caller
\* as 503 or 500, and nobody takes back the pending status.
AdminDepth(a) ==
  /\ apc[a] = "depth"
  /\ \/ apc' = [apc EXCEPT ![a] = IF HasRoom THEN "add" ELSE "idle"] /\ UNCHANGED ioErrors
     \/ IoError /\ apc' = [apc EXCEPT ![a] = "idle"]
  /\ UNCHANGED <<fanVars, rowVars, queueVars, workerVars, ajob, adminOps,
                 contested, history, environment, hook>>

AdminAdd(a) ==
  /\ apc[a] = "add"
  /\ apc' = [apc EXCEPT ![a] = "idle"]
  /\ \/ AddJob(ajob[a]) /\ UNCHANGED ioErrors
     \/ IoError /\ UNCHANGED queueVars
  /\ UNCHANGED <<fanVars, rowVars, workerVars, ajob, adminOps, contested,
                 history, environment, hook>>

AdminStep(a) ==
  RetryReset(a) \/ TestCreateDelivery(a) \/ AdminDepth(a) \/ AdminAdd(a)

\* PATCH is_active, or closeCircuit after the cool-down (module CircuitBreaker).
SetActive(w) ==
  /\ hook[w] # "deleted"
  /\ hook' = [hook EXCEPT ![w] = IF @ = "active" THEN "inactive" ELSE "active"]
  /\ UNCHANGED <<fanVars, rowVars, queueVars, workerVars, adminVars, history,
                 environment, ioErrors>>

\* DELETE: the webhook's deliveries go with it (ON DELETE CASCADE), its jobs
\* stay in the queue.
DeleteWebhook(w) ==
  /\ hook[w] # "deleted"
  /\ hook' = [hook EXCEPT ![w] = "deleted"]
  /\ status' = [d \in Delivery |-> IF d[2] = w THEN "absent" ELSE status[d]]
  /\ UNCHANGED <<fanVars, attempts, queueVars, workerVars, adminVars, history,
                 environment, ioErrors>>

-----------------------------------------------------------------------------
(* Faults.                                                                 *)

\* The lock of a running job expires (lockDuration 30 s): BullMQ hands the job
\* out again while the first slot is still busy with it.
Stall(k) ==
  /\ WithinBounds
  /\ stalls < MaxStalls
  /\ wpc[k] # "idle"
  /\ wlock[k]
  /\ stalls' = stalls + 1
  /\ wlock' = [wlock EXCEPT ![k] = FALSE]
  /\ queue' = [queue EXCEPT ![wjob[k]] = AfterStall(wjob[k])]
  /\ stalledOnce' = stalledOnce \cup {wjob[k]}
  /\ UNCHANGED <<fanVars, rowVars, wpc, wjob, adminVars, history, crashes,
                 oversize, hook, ioErrors>>

\* The process dies and restarts: fan-outs, requests and worker slots are
\* gone, events still on the in-process bus are lost, active jobs are requeued.
Crash ==
  /\ WithinBounds
  /\ crashes < MaxCrashes
  /\ crashes' = crashes + 1
  /\ bus' = [e \in Events |-> IF bus[e] = "new" THEN "new" ELSE "done"]
  /\ fan' = [d \in Delivery |-> "idle"]
  /\ wpc' = [k \in Workers |-> "idle"]
  /\ wlock' = [k \in Workers |-> FALSE]
  /\ apc' = [a \in Admins |-> "idle"]
  /\ queue' = [j \in Job |-> IF queue[j] = "active" THEN AfterStall(j) ELSE queue[j]]
  /\ stalledOnce' = stalledOnce \cup {j \in Job : queue[j] = "active"}
  /\ UNCHANGED <<eventRow, rowVars, wjob, ajob, adminOps, contested, history, stalls,
                 oversize, hook, ioErrors>>

-----------------------------------------------------------------------------
Next ==
  \/ \E e \in Events : Emit(e) \/ PersistEvent(e) \/ SelectWebhooks(e)
  \/ \E d \in Delivery : FanStep(d)
  \/ \E k \in Workers : \E j \in Job : Take(k, j)
  \/ \E k \in Workers : WorkerStep(k)
  \/ \E a \in Admins : \E d \in Delivery : RetryRead(a, d) \/ TestCreateEvent(a, d)
  \/ \E a \in Admins : AdminStep(a)
  \/ \E w \in Webhooks : SetActive(w) \/ DeleteWebhook(w)
  \/ \E k \in Workers : Stall(k)
  \/ Crash

\* The event loop runs what is pending and BullMQ serves a free slot; nothing
\* obliges an event to be emitted, an administrator to act or a fault to occur.
Fairness ==
  /\ \A e \in Events : WF_vars(PersistEvent(e) \/ SelectWebhooks(e))
  /\ \A d \in Delivery : WF_vars(FanStep(d))
  /\ \A k \in Workers : WF_vars(WorkerStep(k)) /\ WF_vars(\E j \in Job : Take(k, j))
  /\ \A a \in Admins : WF_vars(AdminStep(a))

SafetySpec == Init /\ [][Next]_vars

Spec == SafetySpec /\ Fairness

-----------------------------------------------------------------------------
(* Properties.                                                             *)

LivePC == WorkerPC \ {"idle", "dlq", "finish"}

\* Somebody still has to write the outcome of delivery d.
Carried(d) ==
  \/ fan[d] \in {"depth", "add", "reject"}
  \/ \E j \in Job : j[1] = d /\ queue[j] = "queued"
  \/ \E k \in Workers : wpc[k] \in LivePC /\ wjob[k][1] = d
  \/ \E a \in Admins : apc[a] \in {"depth", "add"} /\ ajob[a][1] = d

NoFaults == crashes = 0 /\ stalls = 0 /\ ioErrors = 0

Calm == NoFaults /\ adminOps = 0

\* A delivery row that says pending is on its way: a job is queued or running
\* for it, or a fan-out is about to add one.  Nothing else ever looks at a
\* pending row again (there is no sweeper, and a manual retry is refused), so
\* one without a carrier is lost.  Holds as long as nothing failed and no
\* administrator intervened.
PendingIsCarried ==
  Calm => \A d \in Delivery : status[d] = "pending" => Carried(d)

\* What makes PendingIsCarried inductive: while all is calm a delivery has at
\* most one carrier, so that no queue.add of the chain can meet its own job id
\* and be dropped.
Quiet(d) == \A j \in Job : j[1] = d => queue[j] = "none"

Newest(j) ==
  \A i \in Job : i[1] = j[1] /\ i # j =>
    queue[i] # "queued" /\ (i[2] > j[2] => queue[i] = "none")

NoIntruder ==
  /\ \A a \in Admins : apc[a] = "idle"
  /\ \A j \in Job : queue[j] # "failed"

SlotsOwnTheirJobs ==
  /\ \A k \in Workers : wpc[k] # "idle" => wlock[k] /\ queue[wjob[k]] = "active"
  /\ \A k1, k2 \in Workers :
       wpc[k1] # "idle" /\ wpc[k2] # "idle" /\ wjob[k1] = wjob[k2] => k1 = k2

FanComesFirst ==
  \A d \in Delivery :
    /\ bus[d[1]] # "done" => fan[d] = "idle"
    /\ bus[d[1]] # "done" \/ fan[d] = "insert" => status[d] = "absent"
    /\ bus[d[1]] # "done" \/ fan[d] # "idle" => Quiet(d)

QueuedIsNewest ==
  \A j \in Job : queue[j] = "queued" =>
    Newest(j) /\ \A k \in Workers : wpc[k] \in LivePC => wjob[k][1] # j[1]

SlotIsNewest ==
  /\ \A k \in Workers : wpc[k] \in LivePC => Newest(wjob[k])
  /\ \A k1, k2 \in Workers :
       wpc[k1] \in LivePC /\ wpc[k2] \in LivePC /\ wjob[k1][1] = wjob[k2][1] => k1 = k2

SingleChain ==
  Calm => /\ NoIntruder /\ SlotsOwnTheirJobs /\ FanComesFirst
          /\ QueuedIsNewest /\ SlotIsNewest

\* No two worker slots deliver the same row at the same time: the retry chain
\* of a delivery is a single thread, also when administrators restart it, as long
\* as no two of their requests for it overlap (both read the row before either
\* resets it, and the slower adds its job to the running chain of the other).
OneChainPerDelivery ==
  crashes = 0 /\ stalls = 0 =>
    \A k1, k2 \in Workers :
      /\ wpc[k1] \in LivePC /\ wpc[k2] \in LivePC /\ wjob[k1][1] = wjob[k2][1]
      /\ wjob[k1][1] \notin contested
      => k1 = k2

\* The automatic chain never goes past MaxAttempts; each administrator request
\* adds one attempt at most, whatever crashes and repeats.
AttemptCeiling ==
  \A j \in Job :
    queue[j] # "none" \/ sent[j] > 0 => j[2] <= MaxAttempts + adminOps

\* A delivery that used up its attempts is in the dead-letter queue (or its
\* archive), or the worker that saw the last attempt fail is putting it there,
\* unless two requests had it in hand at once.
ExhaustedIsDeadLettered ==
  NoFaults =>
    \A d \in Delivery \ contested :
      status[d] = "failed" /\ attempts[d] >= MaxAttempts =>
        \/ d \in deadLettered
        \/ \E k \in Workers : wpc[k] = "dlq" /\ wjob[k][1] = d

\* A delivered row stays delivered: only an administrator's reset, or the
\* deletion of the webhook, takes a row out of success; unless two requests had it
\* in hand at once (the slower of their two chains then overwrites what the other
\* delivered).
SuccessIsKept ==
  [][\A d \in Delivery \ contested :
       status[d] = "success" /\ status'[d] # "success" =>
         \/ crashes > 0 \/ stalls > 0
         \/ hook'[d[2]] = "deleted"
         \/ \E a \in Admins : apc[a] = "reset" /\ apc'[a] = "depth" /\ ajob[a][1] = d]_vars

Promised == INSTANCE WebhookPromise WITH
  Rows <- Delivery, verdict <- status, tried <- attempts,
  disturbed <- ~(crashes = 0 /\ stalls = 0 /\ contested = {})

\* The rows live the life WebhookPromise describes, until the process dies, a job
\* stalls or two requests have one delivery in hand: whoever writes a verdict finds
\* the row pending, counts past every attempt counted before, and no late step of
\* a fan-out, a slot or a request reaches a row that is settled.
KeepsRowPromise == Promised!Promise

\* Every delivery row reaches success or failed (or goes with its webhook).
EventuallySettled ==
  \A d \in Delivery : status[d] = "pending" ~> status[d] # "pending"

-----------------------------------------------------------------------------
(* What the comments and documents of the code say of it, and it does not do. *)

\* "Resets the delivery to `pending` and enqueues a new BullMQ job"
\* (webhooks.service.ts, retryDelivery): a row pending after a manual retry has
\* its job, in a system where no call fails.
RetriedIsCarried ==
  NoFaults => \A d \in Delivery : status[d] = "pending" => Carried(d)

\* "We still attempt fan-out even if persistence failed, so active webhooks
\* receive the event" (webhook-event.service.ts): a delivery of an event that
\* could not be persisted, where nothing else failed, is POSTed at least once
\* before it is given up.
UnpersistedEventIsPosted ==
  crashes = 0 /\ stalls = 0 /\ ioErrors <= 1 =>
    \A d \in Delivery :
      bus[d[1]] = "done" /\ d[1] \notin eventRow \cup oversize /\ status[d] = "failed" =>
        \E n \in Attempt : sent[<<d, n>>] > 0

=============================================================================
