----------------------------- MODULE WebhookSecrets -----------------------------
(***************************************************************************)
(* Which url and secret a delivery is posted with, while the row of its    *)
(* webhook is registered, patched and deleted.  The pair is read in one    *)
(* SELECT, copied into the job, from there into the next attempt's job;    *)
(* only a manual retry reads it anew.  An attempt is one step here, from   *)
(* the worker's check to the job's removal: module WebhookDelivery has the *)
(* awaits, and the queue's depth, which is a choice here.                  *)
(***************************************************************************)
EXTENDS Naturals

CONSTANTS
  Messages,          \* deliveries of one webhook, each of an event of its own
  Retriers,          \* administrators who retry
  MaxTries,          \* WEBHOOK_MAX_ATTEMPTS
  MaxManual,         \* bound: manual retries
  MaxEdition,        \* bound: pairs of url and secret the row has had
  MaxRedeliveries    \* bound: attempts whose process died before the job's removal

ASSUME SecretsConstants ==
  /\ MaxTries \in Nat \ {0} /\ MaxManual \in Nat
  /\ MaxEdition \in Nat \ {0} /\ MaxRedeliveries \in Nat

VARIABLES
  hookRow,           \* "none", "listed" (the SELECT finds it), "unlisted", "deleted"
  edition,           \* counts the pairs the row has had
  fanOut,            \* message -> [at, pair]: createAndEnqueueDelivery, or a test
  outcome,           \* message -> its row's status, "absent" without one
  tries,             \* message -> attempt_count
  sealed,            \* <<message, attempt>> -> edition its job carries, 0 without a job
  retry,             \* administrator -> NoRetry, or [of, n, pair, at]
  manual,            \* manual retries so far
  redelivered,       \* redeliveries so far
  origin,            \* history: message -> edition it was first enqueued with
  first,             \* history: message -> lowest attempt retried by hand, 0 if none
  due,               \* history: message -> attempt -> the oldest edition it may carry
  tangled            \* history: messages redelivered, or retried by two at once

rowsOfHook == <<hookRow, edition>>
rowsOfMessage == <<outcome, tries>>
secretsHistory == <<origin, first, due, tangled>>
secretsVars == <<rowsOfHook, fanOut, rowsOfMessage, sealed, retry, manual, redelivered,
                 secretsHistory>>

Tries    == 1..(MaxTries + MaxManual)
Editions == 0..MaxEdition
NoRetry  == [at |-> "idle"]

SecretsTypeOK ==
  /\ hookRow \in {"none", "listed", "unlisted", "deleted"} /\ edition \in Editions
  /\ fanOut \in [Messages -> [at : {"new", "emitted", "insert", "enqueue", "testInsert",
                                    "testEnqueue", "over"}, pair : Editions]]
  /\ outcome \in [Messages -> {"absent", "pending", "success", "failed"}]
  /\ tries \in [Messages -> {0} \cup Tries]
  /\ sealed \in [Messages \X Tries -> Editions]
  /\ retry \in [Retriers -> {NoRetry} \cup
                  [of : Messages, n : Tries, pair : Editions, at : {"read", "reset", "enqueue"}]]
  /\ manual \in 0..MaxManual /\ redelivered \in 0..MaxRedeliveries
  /\ origin \in [Messages -> Editions] /\ first \in [Messages -> {0} \cup Tries]
  /\ due \in [Messages -> [Tries -> Editions]] /\ tangled \subseteq Messages

SecretsInit ==
  /\ hookRow = "none" /\ edition = 0
  /\ fanOut = [m \in Messages |-> [at |-> "new", pair |-> 0]]
  /\ outcome = [m \in Messages |-> "absent"] /\ tries = [m \in Messages |-> 0]
  /\ sealed = [j \in Messages \X Tries |-> 0]
  /\ retry = [a \in Retriers |-> NoRetry] /\ manual = 0 /\ redelivered = 0
  /\ origin = [m \in Messages |-> 0] /\ first = [m \in Messages |-> 0]
  /\ due = [m \in Messages |-> [n \in Tries |-> 0]] /\ tangled = {}

-----------------------------------------------------------------------------
(* The row of the webhook.                                                 *)

Registered == hookRow \in {"listed", "unlisted"}

\* The INSERT sets is_active; some type of event is subscribed.
Created == hookRow' = "listed" /\ edition' = 1

\* A url that does not validate is refused, here and in Patch, without effect.
Register ==
  /\ hookRow = "none" /\ Created
  /\ UNCHANGED <<fanOut, rowsOfMessage, sealed, retry, manual, redelivered, secretsHistory>>

\* The body gives any of url, secret, events and is_active.
Rewrite ==
  /\ hookRow' \in {"listed", "unlisted"}
  /\ edition' \in {edition, edition + 1} \cap Editions

Patch ==
  /\ Registered /\ Rewrite
  /\ UNCHANGED <<fanOut, rowsOfMessage, sealed, retry, manual, redelivered, secretsHistory>>

\* ON DELETE CASCADE takes the deliveries, the jobs stay.
Cascade == hookRow' = "deleted" /\ outcome' = [m \in Messages |-> "absent"]

DeleteHook ==
  /\ Registered /\ Cascade
  /\ UNCHANGED <<edition, fanOut, tries, sealed, retry, manual, redelivered, secretsHistory>>

-----------------------------------------------------------------------------
(* A delivery's first enqueue.                                             *)

From(n, e, m) == due' = [due EXCEPT ![m] = [i \in Tries |-> IF i >= n THEN e ELSE @[i]]]

Publish(m) ==
  /\ fanOut[m].at = "new"
  /\ fanOut' = [fanOut EXCEPT ![m].at = "emitted"] /\ From(1, edition, m)
  /\ UNCHANGED <<rowsOfHook, rowsOfMessage, sealed, retry, manual, redelivered, origin, first,
                 tangled>>

\* SELECT id, url, secret of the active webhooks that subscribe to the type.
SelectPair(m) ==
  /\ fanOut[m].at = "emitted"
  /\ IF hookRow = "listed"
     THEN /\ fanOut' = [fanOut EXCEPT ![m] = [at |-> "insert", pair |-> edition]]
          /\ origin' = [origin EXCEPT ![m] = edition]
     ELSE fanOut' = [fanOut EXCEPT ![m].at = "over"] /\ UNCHANGED origin
  /\ UNCHANGED <<rowsOfHook, rowsOfMessage, sealed, retry, manual, redelivered, first, due,
                 tangled>>

\* testWebhook reads the pair first, of an inactive webhook too.
ReadForTest(m) ==
  /\ fanOut[m].at = "new" /\ Registered
  /\ fanOut' = [fanOut EXCEPT ![m] = [at |-> "testInsert", pair |-> edition]]
  /\ origin' = [origin EXCEPT ![m] = edition] /\ From(1, edition, m)
  /\ UNCHANGED <<rowsOfHook, rowsOfMessage, sealed, retry, manual, redelivered, first, tangled>>

\* INSERT of the delivery: refused once the webhook is gone.
InsertDelivery(m) ==
  /\ fanOut[m].at \in {"insert", "testInsert"}
  /\ IF Registered
     THEN /\ outcome' = [outcome EXCEPT ![m] = "pending"]
          /\ fanOut' = [fanOut EXCEPT ![m].at = IF @ = "insert" THEN "enqueue" ELSE "testEnqueue"]
     ELSE fanOut' = [fanOut EXCEPT ![m].at = "over"] /\ UNCHANGED outcome
  /\ UNCHANGED <<rowsOfHook, tries, sealed, retry, manual, redelivered, secretsHistory>>

\* queue.add under the id of delivery and attempt: ignored while it exists.
Added(m, n, e) == [sealed EXCEPT ![<<m, n>>] = IF @ = 0 THEN e ELSE @]

SetOutcome(m, s) == outcome' = [outcome EXCEPT ![m] = IF @ = "absent" THEN @ ELSE s]

\* When the queue is full the fan-out marks the row, the test leaves it pending.
EnqueueFirst(m) ==
  /\ fanOut[m].at \in {"enqueue", "testEnqueue"}
  /\ fanOut' = [fanOut EXCEPT ![m].at = "over"]
  /\ \/ sealed' = Added(m, 1, fanOut[m].pair) /\ UNCHANGED outcome
     \/ fanOut[m].at = "enqueue" /\ SetOutcome(m, "failed") /\ UNCHANGED sealed
     \/ fanOut[m].at = "testEnqueue" /\ UNCHANGED <<outcome, sealed>>
  /\ UNCHANGED <<rowsOfHook, tries, retry, manual, redelivered, secretsHistory>>

-----------------------------------------------------------------------------
(* The worker.                                                             *)

\* The job is removed, unless the process died first.
Removed(m, n, jobs) ==
  \/ sealed' = [jobs EXCEPT ![<<m, n>>] = 0] /\ UNCHANGED <<redelivered, tangled>>
  \/ /\ redelivered < MaxRedeliveries
     /\ redelivered' = redelivered + 1 /\ tangled' = tangled \cup {m}
     /\ sealed' = jobs

CountTry(m, n) == tries' = [tries EXCEPT ![m] = IF outcome[m] = "absent" THEN @ ELSE n]

\* "Delivery already succeeded: skipping duplicate job."
SkipDuplicate(m, n) ==
  /\ sealed[<<m, n>>] # 0 /\ outcome[m] = "success"
  /\ Removed(m, n, sealed)
  /\ UNCHANGED <<rowsOfHook, fanOut, rowsOfMessage, retry, manual, origin, first, due>>

Succeed(m, n) ==
  /\ sealed[<<m, n>>] # 0 /\ outcome[m] # "success"
  /\ SetOutcome(m, "success") /\ CountTry(m, n) /\ Removed(m, n, sealed)
  /\ UNCHANGED <<rowsOfHook, fanOut, retry, manual, origin, first, due>>

\* scheduleRetryOrFail hands on the url and secret of its own job.
FailAndRetry(m, n) ==
  /\ sealed[<<m, n>>] # 0 /\ outcome[m] # "success" /\ n + 1 <= MaxTries
  /\ SetOutcome(m, "pending") /\ CountTry(m, n)
  /\ Removed(m, n, Added(m, n + 1, sealed[<<m, n>>]))
  /\ UNCHANGED <<rowsOfHook, fanOut, retry, manual, origin, first, due>>

\* The last attempt, or a queue that refuses the next.
FailForGood(m, n) ==
  /\ sealed[<<m, n>>] # 0 /\ outcome[m] # "success"
  /\ SetOutcome(m, "failed") /\ CountTry(m, n) /\ Removed(m, n, sealed)
  /\ UNCHANGED <<rowsOfHook, fanOut, retry, manual, origin, first, due>>

-----------------------------------------------------------------------------
(* retryDelivery.                                                          *)

\* The delivery is read: refused while it is pending.
ReadDelivery(a, m) ==
  /\ retry[a] = NoRetry /\ manual < MaxManual
  /\ outcome[m] \in {"success", "failed"}
  /\ LET n == tries[m] + 1 IN
     /\ retry' = [retry EXCEPT ![a] = [of |-> m, n |-> n, pair |-> 0, at |-> "read"]]
     /\ first' = [first EXCEPT ![m] = IF @ = 0 \/ n < @ THEN n ELSE @]
     /\ From(n, edition, m)
  /\ manual' = manual + 1
  /\ tangled' = tangled \cup {o \in {m} : \E b \in Retriers : retry[b] # NoRetry /\ retry[b].of = o}
  /\ UNCHANGED <<rowsOfHook, fanOut, rowsOfMessage, sealed, redelivered, origin>>

\* Mutant: the pair of the last job is used again.
FetchPairOfJob(a) ==
  /\ retry[a].at = "read"
  /\ retry' = [retry EXCEPT ![a] = IF Registered
                 THEN [@ EXCEPT !.pair = origin[retry[a].of], !.at = "reset"] ELSE NoRetry]
  /\ UNCHANGED <<rowsOfHook, fanOut, rowsOfMessage, sealed, manual, redelivered, secretsHistory>>

\* "Fetch the webhook to get current URL + secret (may have changed since creation)."
FetchPair(a) ==
  /\ retry[a].at = "read"
  /\ retry' = [retry EXCEPT ![a] = IF Registered
                 THEN [@ EXCEPT !.pair = edition, !.at = "reset"] ELSE NoRetry]
  /\ UNCHANGED <<rowsOfHook, fanOut, rowsOfMessage, sealed, manual, redelivered, secretsHistory>>

\* Reset whatever the status is by now; an error when the row is gone.
ResetDelivery(a) ==
  /\ retry[a].at = "reset"
  /\ LET m == retry[a].of IN
     /\ SetOutcome(m, "pending")
     /\ retry' = [retry EXCEPT ![a] = IF outcome[m] = "absent" THEN NoRetry
                                      ELSE [@ EXCEPT !.at = "enqueue"]]
  /\ UNCHANGED <<rowsOfHook, fanOut, tries, sealed, manual, redelivered, secretsHistory>>

EnqueueRetry(a) ==
  /\ retry[a].at = "enqueue" /\ retry' = [retry EXCEPT ![a] = NoRetry]
  /\ sealed' \in {sealed, Added(retry[a].of, retry[a].n, retry[a].pair)}
  /\ UNCHANGED <<rowsOfHook, fanOut, rowsOfMessage, manual, redelivered, secretsHistory>>

-----------------------------------------------------------------------------
SecretsNext ==
  \/ Register \/ Patch \/ DeleteHook
  \/ \E m \in Messages :
       \/ Publish(m) \/ SelectPair(m) \/ ReadForTest(m) \/ InsertDelivery(m) \/ EnqueueFirst(m)
       \/ \E n \in Tries :
            SkipDuplicate(m, n) \/ Succeed(m, n) \/ FailAndRetry(m, n) \/ FailForGood(m, n)
       \/ \E a \in Retriers : ReadDelivery(a, m)
  \/ \E a \in Retriers : FetchPair(a) \/ ResetDelivery(a) \/ EnqueueRetry(a)

SecretsSpec == SecretsInit /\ [][SecretsNext]_secretsVars

-----------------------------------------------------------------------------
\* "Re-signs all new deliveries with the new secret immediately upon rotation;
\* retries of existing deliveries use the secret active at the time of the
\* original enqueue" (docs/WEBHOOK_SIGNATURES.md), and a manual retry the current
\* one.  A job carries the pair its delivery began with until an administrator
\* retries it; from then on no pair older than that request; and none older than
\* its event.  The two lower bounds do not survive a redelivery or two retries at
\* once: the one whose add comes first decides what the attempt carries.
SecretAsDocumented ==
  \A m \in Messages, n \in Tries : sealed[<<m, n>>] # 0 =>
    /\ first[m] = 0 \/ n < first[m] => sealed[<<m, n>>] = origin[m]
    /\ m \notin tangled => sealed[<<m, n>>] >= due[m][n]

=============================================================================
