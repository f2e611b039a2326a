------------------------------ MODULE WebhookDlq ------------------------------
(***************************************************************************)
(* The webhook dead-letter queue: worker slots move exhausted deliveries   *)
(* into it (enqueueToDlq), evicting the oldest entry when it is full, while *)
(* the hourly purge (purgeDlqJobs) archives and removes entries past their *)
(* retention or over the cap.  Both read the queue first and act on what   *)
(* they read across several awaits.                                        *)
(*                                                                         *)
(* An entry is <<delivery, attempt>>; its BullMQ id names the delivery     *)
(* alone.  The queue is in the order of the entries' timestamps.           *)
(***************************************************************************)
EXTENDS Naturals, SequencesExt

CONSTANTS
  Deliveries,
  Slots,          \* webhook worker slots
  MaxSize,        \* WEBHOOK_DLQ_MAX_SIZE
  MaxFailures,    \* bound: times a delivery is dead-lettered (manual retries)
  MaxAgings,      \* bound: entries that pass their retention
  MaxCrashes,     \* bound: process crashes
  MaxIoErrors     \* bound: failed calls

ASSUME DlqConstants ==
  /\ MaxSize \in Nat \ {0}
  /\ MaxFailures \in Nat
  /\ MaxAgings \in Nat
  /\ MaxCrashes \in Nat
  /\ MaxIoErrors \in Nat

VARIABLES
  dlq,              \* the waiting list, oldest first
  aged,             \* entries past WEBHOOK_DLQ_RETENTION_DAYS
  archive,          \* rows of webhook_dlq_archive
  failures,         \* delivery -> times it was dead-lettered so far
  redo,             \* entries of slots that died: BullMQ runs their jobs again
  pc, entry, victim,   \* slot -> step, entry it adds, entry it evicts
  purge, plan,      \* purgeDlqJobs: step, entries it will remove
  overlapped,       \* history: two slots were in enqueueToDlq at once
  agings, crashes, ioErrors    \* what is used up of each bound

slotVars  == <<pc, entry, victim>>
purgeVars == <<purge, plan>>
bounds    == <<agings, crashes>>
vars == <<dlq, aged, archive, failures, redo, slotVars, purgeVars, overlapped, bounds,
          ioErrors>>

Entry == Deliveries \X (1..MaxFailures)
NoEntry == <<>>

TypeOK ==
  /\ dlq \in Seq(Entry)
  /\ \A i, j \in DOMAIN dlq : dlq[i][1] = dlq[j][1] => i = j
  /\ aged \subseteq Entry
  /\ archive \subseteq Entry
  /\ failures \in [Deliveries -> 0..MaxFailures]
  /\ redo \subseteq Entry
  /\ pc \in [Slots -> {"idle", "depth", "oldest", "archive", "remove", "add"}]
  /\ entry \in [Slots -> Entry \cup {NoEntry}]
  /\ victim \in [Slots -> Entry \cup {NoEntry}]
  /\ purge \in {"idle", "expired", "expiredRemove", "recount", "overflow", "overflowRemove"}
  /\ plan \in Seq(Entry)
  /\ overlapped \in BOOLEAN

Init ==
  /\ dlq = <<>>
  /\ aged = {}
  /\ archive = {}
  /\ failures = [d \in Deliveries |-> 0]
  /\ redo = {}
  /\ pc = [k \in Slots |-> "idle"]
  /\ entry = [k \in Slots |-> NoEntry]
  /\ victim = [k \in Slots |-> NoEntry]
  /\ purge = "idle"
  /\ plan = <<>>
  /\ overlapped = FALSE
  /\ agings = 0
  /\ crashes = 0
  /\ ioErrors = 0

IoError ==
  /\ ioErrors < MaxIoErrors
  /\ ioErrors' = ioErrors + 1

NoIoError == UNCHANGED ioErrors

Holds(d) == \E i \in DOMAIN dlq : dlq[i][1] = d

\* dlq.add: ignored while an entry of that delivery exists.
AddEntry(x) == dlq' = IF Holds(x[1]) THEN dlq ELSE Append(dlq, x)

\* getJob(id), then remove: whatever entry has the id by now.
RemoveId(d) ==
  IF Holds(d) THEN \E i \in DOMAIN dlq : dlq[i][1] = d /\ dlq' = RemoveAt(dlq, i)
  ELSE UNCHANGED dlq

\* INSERT INTO webhook_dlq_archive; the error it may return is not looked at.
ArchiveRow(x) ==
  \/ archive' = archive \cup {x} /\ NoIoError
  \/ IoError /\ UNCHANGED archive

-----------------------------------------------------------------------------
(* enqueueToDlq.                                                           *)

\* Slot k enters enqueueToDlq.
Enter(k, x) ==
  /\ entry' = [entry EXCEPT ![k] = x]
  /\ pc' = [pc EXCEPT ![k] = "depth"]
  /\ overlapped' = (overlapped \/ \E c \in Slots : pc[c] # "idle")

\* A delivery has no attempt left; at most one slot works on it.
Exhaust(k, d) ==
  /\ pc[k] = "idle"
  /\ failures[d] < MaxFailures
  /\ \A x \in redo : x[1] # d
  /\ \A c \in Slots : pc[c] # "idle" => entry[c][1] # d
  /\ failures' = [failures EXCEPT ![d] = @ + 1]
  /\ Enter(k, <<d, failures[d] + 1>>)
  /\ UNCHANGED <<dlq, aged, archive, redo, victim, purgeVars, bounds, ioErrors>>

\* BullMQ runs the job of a dead process again, up to the same point.
Redo(k, x) ==
  /\ pc[k] = "idle"
  /\ x \in redo
  /\ redo' = redo \ {x}
  /\ Enter(k, x)
  /\ UNCHANGED <<dlq, aged, archive, failures, victim, purgeVars, bounds, ioErrors>>

Goto(k, step) == pc' = [pc EXCEPT ![k] = step]

\* The caller swallows an error of the queue; the entry is gone then.
GiveUp(k) == IoError /\ Goto(k, "idle")

\* Mutant: off by one.
IsOverfull == Len(dlq) > MaxSize

IsFull == Len(dlq) >= MaxSize

ReadDepth(k) ==
  /\ pc[k] = "depth"
  /\ \/ Goto(k, IF IsFull THEN "oldest" ELSE "add") /\ NoIoError
     \/ GiveUp(k)
  /\ UNCHANGED <<dlq, aged, archive, failures, redo, entry, victim, purgeVars, overlapped, bounds>>

ReadOldest(k) ==
  /\ pc[k] = "oldest"
  /\ \/ /\ IF dlq = <<>>
           THEN Goto(k, "add") /\ UNCHANGED victim
           ELSE Goto(k, "archive") /\ victim' = [victim EXCEPT ![k] = Head(dlq)]
        /\ NoIoError
     \/ GiveUp(k) /\ UNCHANGED victim
  /\ UNCHANGED <<dlq, aged, archive, failures, redo, entry, purgeVars, overlapped, bounds>>

\* Mutant: an entry evicted for size is not worth a row.
ArchiveVictimSkipped(k) ==
  /\ pc[k] = "archive"
  /\ Goto(k, "remove")
  /\ NoIoError
  /\ UNCHANGED <<dlq, aged, archive, failures, redo, entry, victim, purgeVars, overlapped, bounds>>

ArchiveVictim(k) ==
  /\ pc[k] = "archive"
  /\ Goto(k, "remove")
  /\ ArchiveRow(victim[k])
  /\ UNCHANGED <<dlq, aged, failures, redo, entry, victim, purgeVars, overlapped, bounds>>

RemoveVictim(k) ==
  /\ pc[k] = "remove"
  /\ \/ RemoveId(victim[k][1]) /\ Goto(k, "add") /\ NoIoError
     \/ GiveUp(k) /\ UNCHANGED dlq
  /\ UNCHANGED <<aged, archive, failures, redo, entry, victim, purgeVars, overlapped, bounds>>

Add(k) ==
  /\ pc[k] = "add"
  /\ Goto(k, "idle")
  /\ \/ AddEntry(entry[k]) /\ NoIoError
     \/ IoError /\ UNCHANGED dlq
  /\ UNCHANGED <<aged, archive, failures, redo, entry, victim, purgeVars, overlapped, bounds>>

SlotStep(k) ==
  ReadDepth(k) \/ ReadOldest(k) \/ ArchiveVictim(k) \/ RemoveVictim(k) \/ Add(k)

-----------------------------------------------------------------------------
(* purgeDlqJobs, on start and every hour.                                  *)

\* All entries are read, those past the retention are planned.
StartPurge ==
  /\ purge = "idle"
  /\ dlq # <<>>
  /\ plan' = SelectSeq(dlq, LAMBDA x : x \in aged)
  /\ purge' = IF plan' = <<>> THEN "recount" ELSE "expired"
  /\ UNCHANGED <<dlq, aged, archive, failures, redo, slotVars, overlapped, bounds, ioErrors>>

\* _archiveAndRemoveDlqJob for the next entry of the plan.
PurgeArchive ==
  /\ purge \in {"expired", "overflow"}
  /\ purge' = IF purge = "expired" THEN "expiredRemove" ELSE "overflowRemove"
  /\ ArchiveRow(Head(plan))
  /\ UNCHANGED <<dlq, aged, failures, redo, slotVars, plan, overlapped, bounds>>

PurgeRemove ==
  /\ purge \in {"expiredRemove", "overflowRemove"}
  /\ \/ RemoveId(Head(plan)[1]) /\ NoIoError
     \/ IoError /\ UNCHANGED dlq
  /\ plan' = Tail(plan)
  /\ purge' = CASE plan' # <<>> /\ purge = "expiredRemove" -> "expired"
                [] plan' # <<>> /\ purge = "overflowRemove" -> "overflow"
                [] plan' = <<>> /\ purge = "expiredRemove" -> "recount"
                [] OTHER -> "idle"
  /\ UNCHANGED <<aged, archive, failures, redo, slotVars, overlapped, bounds>>

Overflow == IF Len(dlq) > MaxSize THEN Len(dlq) - MaxSize ELSE 0

\* The queue is read again and the oldest entries over the cap are planned.
Recount ==
  /\ purge = "recount"
  /\ plan' = SubSeq(dlq, 1, Overflow)
  /\ purge' = IF plan' = <<>> THEN "idle" ELSE "overflow"
  /\ UNCHANGED <<dlq, aged, archive, failures, redo, slotVars, overlapped, bounds, ioErrors>>

PurgeStep == StartPurge \/ PurgeArchive \/ PurgeRemove \/ Recount

-----------------------------------------------------------------------------
\* The oldest entry that is not past its retention yet passes it.
Age(x) ==
  /\ agings < MaxAgings
  /\ \E i \in DOMAIN dlq :
       dlq[i] = x /\ x \notin aged /\ \A j \in 1..(i - 1) : dlq[j] \in aged
  /\ aged' = aged \cup {x}
  /\ agings' = agings + 1
  /\ UNCHANGED <<dlq, archive, failures, redo, slotVars, purgeVars, overlapped, crashes,
                 ioErrors>>

Crash ==
  /\ crashes < MaxCrashes
  /\ crashes' = crashes + 1
  /\ redo' = redo \cup {entry[k] : k \in {c \in Slots : pc[c] # "idle"}}
  /\ pc' = [k \in Slots |-> "idle"]
  /\ purge' = "idle"
  /\ plan' = <<>>
  /\ UNCHANGED <<dlq, aged, archive, failures, entry, victim, overlapped, agings, ioErrors>>

Next ==
  \/ \E k \in Slots : \E d \in Deliveries : Exhaust(k, d)
  \/ \E k \in Slots : \E x \in Entry : Redo(k, x)
  \/ \E k \in Slots : SlotStep(k)
  \/ PurgeStep
  \/ \E x \in Entry : Age(x)
  \/ Crash

SafetySpec == Init /\ [][Next]_vars

-----------------------------------------------------------------------------
(* Properties.                                                             *)

\* Unless a call fails, a delivery that was dead-lettered is in the queue or in
\* the archive, or a slot still carries it: neither the purge nor an eviction
\* nor a crash between archiving and removing loses it.
NothingLost ==
  ioErrors = 0 =>
    \A d \in Deliveries : failures[d] > 0 =>
      \/ Holds(d)
      \/ \E x \in archive \cup redo : x[1] = d
      \/ \E k \in Slots : pc[k] # "idle" /\ entry[k][1] = d

\* "Enforces DLQ_MAX_SIZE: if the DLQ is at capacity, the oldest job is
\* archived and evicted before the new job is added" (enqueueToDlq).  As long as
\* no two slots were in enqueueToDlq at once, the queue keeps its cap, whatever
\* the purge removes meanwhile and wherever the process dies; two that count
\* before either adds exceed it.
DlqWithinMax == ~overlapped => Len(dlq) <= MaxSize

-----------------------------------------------------------------------------
(* What the comments of the code say of it, and it does not do.            *)

\* "If the archive insert failed, Supabase-js throws so the job is NOT removed"
\* (_archiveAndRemoveDlqJob): what is removed has a row in the archive.
RemovedIsArchived ==
  [][\A x \in ToSet(dlq) \ ToSet(dlq') : \E y \in archive : y[1] = x[1]]_vars

=============================================================================
