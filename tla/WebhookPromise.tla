----------------------------- MODULE WebhookPromise -----------------------------
(***************************************************************************)
(* What the row of a delivery promises whoever reads it: it is created     *)
(* pending, an attempt counts and leaves a verdict, giving up counts       *)
(* nothing, a verdict stands until somebody asks for another try, and a    *)
(* row goes with its webhook.  The promise is given as long as nothing     *)
(* disturbs the process.                                                   *)
(***************************************************************************)
EXTENDS Naturals

CONSTANTS Rows, MaxAttempts

VARIABLES
  verdict,           \* row -> "absent", "pending", "success" or "failed"
  tried,             \* row -> attempts its verdict rests on
  disturbed          \* the process died, a job was run twice or retried twice at once

promiseVars == <<verdict, tried, disturbed>>

PromiseInit ==
  /\ verdict = [d \in Rows |-> "absent"]
  /\ tried = [d \in Rows |-> 0]
  /\ ~disturbed

Becomes(d, v) == verdict' = [verdict EXCEPT ![d] = v]

Create(d) ==
  /\ verdict[d] = "absent"
  /\ Becomes(d, "pending")
  /\ tried' = [tried EXCEPT ![d] = 0]
  /\ UNCHANGED disturbed

\* A failed attempt leaves the row pending while the automatic ones last.
Attempt(d) ==
  /\ verdict[d] = "pending"
  /\ tried'[d] > tried[d]
  /\ tried' = [tried EXCEPT ![d] = tried'[d]]
  /\ \/ Becomes(d, "success") \/ Becomes(d, "failed")
     \/ tried'[d] < MaxAttempts /\ UNCHANGED verdict
  /\ UNCHANGED disturbed

GiveUp(d) ==
  /\ verdict[d] = "pending"
  /\ Becomes(d, "failed")
  /\ UNCHANGED <<tried, disturbed>>

TryAgain(d) ==
  /\ verdict[d] \in {"success", "failed"}
  /\ Becomes(d, "pending")
  /\ UNCHANGED <<tried, disturbed>>

Remove(D) ==
  /\ verdict' = [d \in Rows |-> IF d \in D THEN "absent" ELSE verdict[d]]
  /\ UNCHANGED <<tried, disturbed>>

Disturb == disturbed'

PromiseNext ==
  \/ \E d \in Rows : Create(d) \/ Attempt(d) \/ GiveUp(d) \/ TryAgain(d)
  \/ \E D \in SUBSET Rows : Remove(D)
  \/ Disturb

Promise == PromiseInit /\ [][PromiseNext]_promiseVars

=============================================================================
