------------------------------- MODULE JobQueue -------------------------------
(***************************************************************************)
(* A BullMQ queue and the slots of its worker, without what the jobs do: a *)
(* job is added under an id of its own, taken by a free slot, and either   *)
(* done and removed or put back for a later attempt.  After the last       *)
(* attempt it is kept as failed.  A "failed" listener copies it to a       *)
(* dead-letter queue; nobody waits for it, and it may fail.  A job put     *)
(* back waits for its backoff, so that any other may be taken before it.   *)
(* That of "analytics" adds an entry for every earlier attempt too; nobody *)
(* reads them, and they are left out.                                      *)
(*                                                                         *)
(* Attendance and Expenses instantiate it for "snapshot-engine", Analytics *)
(* for "analytics".                                                        *)
(***************************************************************************)
EXTENDS Naturals, FiniteSets

CONSTANTS
  Jobs,              \* the ids of the jobs that may be added
  Slots,             \* the worker's concurrency
  MaxAttempts

VARIABLES
  job,               \* id -> state of the job kept under it
  made,              \* id -> attempts made
  slot,              \* slot -> Free, or the job it runs, the handler's next step, what it read
  filing,            \* jobs a "failed" listener is about to add to the dead-letter queue
  deadLetters,       \* jobs in that queue
  unfiled            \* history: jobs whose dead letter was never added

Free == [step |-> "free"]

QueueInit ==
  /\ job = [j \in Jobs |-> "none"]
  /\ made = [j \in Jobs |-> 0]
  /\ slot = [k \in Slots |-> Free]
  /\ filing = {} /\ deadLetters = {} /\ unfiled = {}

\* Mutant: a kept job is queued again.
AddAgain(j) ==
  /\ job' = [job EXCEPT ![j] = "queued"]
  /\ UNCHANGED <<made, slot, filing, deadLetters, unfiled>>

\* queue.add: ignored while a job of that id is kept, as failed too.
Add(j) ==
  /\ job' = [job EXCEPT ![j] = IF @ = "none" THEN "queued" ELSE @]
  /\ made' = [made EXCEPT ![j] = IF job[j] = "none" THEN 0 ELSE @]
  /\ UNCHANGED <<slot, filing, deadLetters, unfiled>>

\* The worker's processor is called in slot k; its handler begins with "first".
Take(k, j, first) ==
  /\ slot[k] = Free
  /\ job[j] = "queued"
  /\ job' = [job EXCEPT ![j] = "active"]
  /\ slot' = [slot EXCEPT ![k] = [step |-> first, job |-> j, read |-> {}]]
  /\ UNCHANGED <<made, filing, deadLetters, unfiled>>

Runs(k, step) == slot[k] # Free /\ slot[k].step = step

\* What the handler read, if anything, is kept until it is written.
Continue(k, step, read) ==
  /\ slot' = [slot EXCEPT ![k] = [step |-> step, job |-> @.job, read |-> read]]
  /\ UNCHANGED <<job, made, filing, deadLetters, unfiled>>

\* removeOnComplete.
Done(k) ==
  /\ slot' = [slot EXCEPT ![k] = Free]
  /\ job' = [job EXCEPT ![slot[k].job] = "none"]
  /\ UNCHANGED <<made, filing, deadLetters, unfiled>>

\* Mutant: without the dead letter.
ThrowUnrecorded(k) ==
  LET j == slot[k].job
  IN /\ slot' = [slot EXCEPT ![k] = Free]
     /\ made' = [made EXCEPT ![j] = @ + 1]
     /\ job' = [job EXCEPT ![j] = IF made[j] + 1 >= MaxAttempts THEN "failed" ELSE "queued"]
     /\ UNCHANGED <<filing, deadLetters, unfiled>>

\* The handler throws.  Once exhausted the job stays (removeOnFail: false).  The
\* listener is called, and its add is on its way.
Throw(k) ==
  LET j == slot[k].job
      exhausted == made[j] + 1 >= MaxAttempts
  IN /\ slot' = [slot EXCEPT ![k] = Free]
     /\ made' = [made EXCEPT ![j] = @ + 1]
     /\ job' = [job EXCEPT ![j] = IF exhausted THEN "failed" ELSE "queued"]
     /\ filing' = IF exhausted THEN filing \cup {j} ELSE filing
     /\ UNCHANGED <<deadLetters, unfiled>>

\* moveToDeadLetter: the entry is in the other queue ...
File(j) ==
  /\ j \in filing
  /\ filing' = filing \ {j} /\ deadLetters' = deadLetters \cup {j}
  /\ UNCHANGED <<job, made, slot, unfiled>>

\* ... or the add fails, which is logged.
FileFails(j) ==
  /\ j \in filing
  /\ filing' = filing \ {j} /\ unfiled' = unfiled \cup {j}
  /\ UNCHANGED <<job, made, slot, deadLetters>>

\* The process dies: what it ran is found stalled and put back, what its listeners
\* were about to add is gone.
Stall ==
  /\ slot' = [k \in Slots |-> Free]
  /\ job' = [j \in Jobs |-> IF job[j] = "active" THEN "queued" ELSE job[j]]
  /\ filing' = {} /\ unfiled' = unfiled \cup filing
  /\ UNCHANGED <<made, deadLetters>>

QueueTypeOK ==
  /\ job \in [Jobs -> {"none", "queued", "active", "failed"}]
  /\ made \in [Jobs -> 0..MaxAttempts]
  /\ filing \cup deadLetters \cup unfiled \subseteq {j \in Jobs : job[j] = "failed"}
  /\ \A k \in Slots : slot[k] # Free => slot[k].job \in Jobs /\ job[slot[k].job] = "active"
  /\ \A k, l \in Slots : slot[k] # Free /\ slot[l] # Free /\ k # l => slot[k].job # slot[l].job

\* Waiting or running.
Pending == {j \in Jobs : job[j] \in {"queued", "active"}}

\* The record of an exhausted job is the job itself: it is kept, the dead letter
\* may never be written.
KnownAsFailed(j) == job[j] = "failed"

\* What the listener was to do about it is done: the dead letter, or a log line.
Reported(j) == j \in deadLetters \cup unfiled

=============================================================================
