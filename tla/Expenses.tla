------------------------------- MODULE Expenses -------------------------------
(***************************************************************************)
(* The expenses of one employee, from their submission to their review,    *)
(* and the tables that mirror them:                                        *)
(*                                                                         *)
(*   expenses --> queue "snapshot-engine" --> pending_expenses,            *)
(*                                            employee_metrics_snapshot    *)
(*                                                                         *)
(* Nobody waits for what a request adds to the queue.  A review reads the  *)
(* status in one round trip and writes it in another.  The daily metric    *)
(* and the caches a submission touches are in Analytics and OrgCache.      *)
(***************************************************************************)
EXTENDS Naturals, FiniteSets

CONSTANTS
  Claims,            \* the expenses
  Reviewers,         \* concurrent reviews
  Slots, MaxAttempts,
  MaxReviews,        \* bound: reviews begun
  MaxFaults          \* bound: failed calls

ASSUME ExpensesConstants ==
  MaxAttempts \in Nat \ {0} /\ MaxReviews \in Nat /\ MaxFaults \in Nat

VARIABLES
  status,            \* rows of expenses: claim -> status
  review,            \* reviewer -> NoReview, or its claim, verdict and step
  adds,              \* jobs on their way to the queue
  verdict,           \* claim -> the type of the "resolved" job kept under its id
  pendingRows,       \* rows of pending_expenses
  approvedSum,       \* claims in total_expenses of employee_metrics_snapshot
  job, made, slot, filing, deadLetters, unfiled,
  decisions,         \* history: claim -> reviews written
  contested,         \* history: claims two reviews of which overlapped
  late,              \* history: claims whose "resolved" job was taken before "created" was done
  serial,            \* history: no two "resolved" jobs ran at once
  lost,              \* history: an add, a delete or a read failed and was only logged
  reviewsBegun, faults

INSTANCE JobQueue WITH Jobs <- {"created", "resolved"} \X Claims

Verdicts == {"APPROVED", "REJECTED"}
Statuses == {"none", "PENDING"} \cup Verdicts
NoReview == [step |-> "none"]
Under(r) == review[r] # NoReview

jobQueue == <<job, made, slot, filing, deadLetters, unfiled>>
expensesVars == <<status, review, adds, verdict, pendingRows, approvedSum, jobQueue, decisions,
                  contested, late, serial, lost, reviewsBegun, faults>>

Approved == {e \in Claims : status[e] = "APPROVED"}

\* findExpensesByOrg, by its status filter.
Listed(filter) ==
  {e \in Claims : status[e] # "none" /\
     (filter \in {"all", status[e]} \/ (filter = "processed" /\ status[e] \in Verdicts))}

\* findPendingFromSnapshot.
PendingFromSnapshot == pendingRows

\* GET /admin/expenses?status=PENDING: the snapshot, and the full table should
\* that read fail.
PendingList(snapshotFails) == IF snapshotFails THEN Listed("PENDING") ELSE PendingFromSnapshot

\* findExpenseSummaryByEmployee, of the one employee.
SummaryByEmployee ==
  [pendingCount |-> Cardinality(Listed("PENDING")), totalCount |-> Cardinality(Listed("all"))]

\* The employee's own, findExpensesByUser, newest first or only counted.
OwnExpenses(filter) == Cardinality(Listed(filter))

ExpensesTypeOK ==
  /\ status \in [Claims -> Statuses]
  /\ \A r \in Reviewers : Under(r) =>
       /\ review[r].step \in {"write", "announce"}
       /\ review[r].claim \in Claims /\ review[r].verdict \in Verdicts
       /\ status[review[r].claim] # "none"
  /\ adds \subseteq {"created"} \X Claims \X {"none"} \cup {"resolved"} \X Claims \X Verdicts
  /\ verdict \in [Claims -> Verdicts \cup {"none"}]
  /\ pendingRows \subseteq Claims /\ approvedSum \subseteq Claims
  /\ QueueTypeOK
  /\ decisions \in [Claims -> 0..MaxReviews]
  /\ contested \subseteq Claims /\ late \subseteq Claims
  /\ serial \in BOOLEAN /\ lost \in BOOLEAN

ExpensesInit ==
  /\ status = [e \in Claims |-> "none"]
  /\ review = [r \in Reviewers |-> NoReview]
  /\ adds = {} /\ verdict = [e \in Claims |-> "none"]
  /\ pendingRows = {} /\ approvedSum = {}
  /\ QueueInit
  /\ decisions = [e \in Claims |-> 0]
  /\ contested = {} /\ late = {} /\ serial = TRUE /\ lost = FALSE
  /\ reviewsBegun = 0 /\ faults = 0

Fault == faults < MaxFaults /\ faults' = faults + 1
NoFault == UNCHANGED faults

-----------------------------------------------------------------------------
(* Requests.                                                               *)

\* createExpense: the row, then EXPENSE_CREATED without waiting.
CreateExpense(e) ==
  /\ status[e] = "none"
  /\ status' = [status EXCEPT ![e] = "PENDING"]
  /\ adds' = adds \cup {<<"created", e, "none">>}
  /\ UNCHANGED <<review, verdict, pendingRows, approvedSum, jobQueue, decisions, contested,
                 late, serial, lost, reviewsBegun, faults>>

\* Mutant: the status is not asked for.
BeginReviewOfAny(r, e, v) ==
  /\ ~Under(r) /\ status[e] # "none"
  /\ reviewsBegun < MaxReviews /\ reviewsBegun' = reviewsBegun + 1
  /\ review' = [review EXCEPT ![r] = [step |-> "write", claim |-> e, verdict |-> v]]
  /\ contested' = IF \E o \in Reviewers \ {r} : Under(o) /\ review[o].claim = e
                  THEN contested \cup {e} ELSE contested
  /\ UNCHANGED <<status, adds, verdict, pendingRows, approvedSum, jobQueue, decisions, late, serial,
                 lost, faults>>

\* updateExpenseStatus: "only PENDING expenses may be actioned", by a read ...
BeginReview(r, e, v) ==
  /\ ~Under(r) /\ status[e] = "PENDING"
  /\ reviewsBegun < MaxReviews /\ reviewsBegun' = reviewsBegun + 1
  /\ review' = [review EXCEPT ![r] = [step |-> "write", claim |-> e, verdict |-> v]]
  /\ contested' = IF \E o \in Reviewers \ {r} : Under(o) /\ review[o].claim = e
                  THEN contested \cup {e} ELSE contested
  /\ UNCHANGED <<status, adds, verdict, pendingRows, approvedSum, jobQueue, decisions, late, serial,
                 lost, faults>>

\* ... then the write, by id, whatever the status is now ...
WriteReview(r) ==
  /\ Under(r) /\ review[r].step = "write"
  /\ LET e == review[r].claim IN
     \/ /\ status' = [status EXCEPT ![e] = review[r].verdict]
        /\ decisions' = [decisions EXCEPT ![e] = @ + 1]
        /\ review' = [review EXCEPT ![r].step = "announce"]
        /\ NoFault
     \/ /\ Fault
        /\ review' = [review EXCEPT ![r] = NoReview]
        /\ UNCHANGED <<status, decisions>>
  /\ UNCHANGED <<adds, verdict, pendingRows, approvedSum, jobQueue, contested, late, serial, lost,
                 reviewsBegun>>

\* ... and EXPENSE_APPROVED or EXPENSE_REJECTED, without waiting.
AnnounceReview(r) ==
  /\ Under(r) /\ review[r].step = "announce"
  /\ adds' = adds \cup {<<"resolved", review[r].claim, review[r].verdict>>}
  /\ review' = [review EXCEPT ![r] = NoReview]
  /\ UNCHANGED <<status, verdict, pendingRows, approvedSum, jobQueue, decisions, contested,
                 late, serial, lost, reviewsBegun, faults>>

\* queue.add: both verdicts go under one id, the data are those of the job kept.
LandAdd(a) ==
  /\ a \in adds
  /\ adds' = adds \ {a}
  /\ LET j == <<a[1], a[2]>> IN
     \/ /\ Add(j)
        /\ verdict' = IF a[1] = "resolved" /\ job[j] = "none"
                      THEN [verdict EXCEPT ![a[2]] = a[3]] ELSE verdict
        /\ NoFault /\ UNCHANGED lost
     \/ Fault /\ lost' = TRUE /\ UNCHANGED <<jobQueue, verdict>>
  /\ UNCHANGED <<status, review, pendingRows, approvedSum, decisions, contested, late, serial,
                 reviewsBegun>>

-----------------------------------------------------------------------------
(* The snapshot worker.                                                    *)

CreatedDone(e) == job[<<"created", e>>] = "none" /\ <<"created", e, "none">> \notin adds

Resolves(k) == slot[k] # Free /\ slot[k].job[1] = "resolved"

\* Nothing keeps the two jobs of a claim apart.
RunJob(k, j) ==
  /\ Take(k, j, IF j[1] = "created" THEN "insert" ELSE "delete")
  /\ late' = IF j[1] = "resolved" /\ ~CreatedDone(j[2]) THEN late \cup {j[2]} ELSE late
  /\ serial' = (serial /\ (j[1] = "resolved" => \A l \in Slots : ~Resolves(l)))
  /\ UNCHANGED <<status, review, adds, verdict, pendingRows, approvedSum, decisions, contested,
                 lost, reviewsBegun, faults>>

\* handleExpenseCreated: ON CONFLICT DO NOTHING.
InsertPending(k) ==
  /\ Runs(k, "insert")
  /\ \/ Continue(k, "done", {}) /\ pendingRows' = pendingRows \cup {slot[k].job[2]} /\ NoFault
     \/ Throw(k) /\ Fault /\ UNCHANGED pendingRows
  /\ UNCHANGED <<status, review, adds, verdict, approvedSum, decisions, contested, late, serial,
                 lost, reviewsBegun>>

\* Mutant: a rejected expense stays.
DeletePendingIfApproved(k) ==
  /\ Runs(k, "delete")
  /\ LET e == slot[k].job[2] IN
     /\ IF verdict[e] = "APPROVED"
        THEN Continue(k, "read", {}) /\ pendingRows' = pendingRows \ {e}
        ELSE Continue(k, "done", {}) /\ UNCHANGED pendingRows
     /\ NoFault /\ UNCHANGED lost
  /\ UNCHANGED <<status, review, adds, verdict, approvedSum, decisions, contested, late, serial,
                 reviewsBegun>>

\* handleExpenseResolved: an error of the delete is logged; only an approval
\* goes on to the totals.
DeletePending(k) ==
  /\ Runs(k, "delete")
  /\ LET e == slot[k].job[2] IN
     /\ Continue(k, IF verdict[e] = "APPROVED" THEN "read" ELSE "done", {})
     /\ \/ pendingRows' = pendingRows \ {e} /\ NoFault /\ UNCHANGED lost
        \/ Fault /\ lost' = TRUE /\ UNCHANGED pendingRows
  /\ UNCHANGED <<status, review, adds, verdict, approvedSum, decisions, contested, late, serial,
                 reviewsBegun>>

\* Mutant: every expense counts.
ReadSubmitted(k) ==
  /\ Runs(k, "read")
  /\ Continue(k, "sum", Listed("all")) /\ NoFault /\ UNCHANGED lost
  /\ UNCHANGED <<status, review, adds, verdict, pendingRows, approvedSum, decisions, contested,
                 late, serial, reviewsBegun>>

\* recomputeMetricsSnapshot: an error of the read counts as no rows ...
ReadApproved(k) ==
  /\ Runs(k, "read")
  /\ \/ Continue(k, "sum", Approved) /\ NoFault /\ UNCHANGED lost
     \/ Continue(k, "sum", {}) /\ Fault /\ lost' = TRUE
  /\ UNCHANGED <<status, review, adds, verdict, pendingRows, approvedSum, decisions, contested,
                 late, serial, reviewsBegun>>

\* ... and the sum is set.
WriteSum(k) ==
  /\ Runs(k, "sum")
  /\ \/ Continue(k, "done", {}) /\ approvedSum' = slot[k].read /\ NoFault
     \/ Throw(k) /\ Fault /\ UNCHANGED approvedSum
  /\ UNCHANGED <<status, review, adds, verdict, pendingRows, decisions, contested, late, serial,
                 lost, reviewsBegun>>

\* The handler has returned.
FinishJob(k) ==
  /\ Runs(k, "done")
  /\ Done(k)
  /\ UNCHANGED <<status, review, adds, verdict, pendingRows, approvedSum, decisions, contested,
                 late, serial, lost, reviewsBegun, faults>>

SlotStep(k) ==
  InsertPending(k) \/ DeletePending(k) \/ ReadApproved(k) \/ WriteSum(k) \/ FinishJob(k)

\* The "failed" listener, whose own failure needs no bound.
FileDeadLetter(j) ==
  /\ File(j) \/ FileFails(j)
  /\ UNCHANGED <<status, review, adds, verdict, pendingRows, approvedSum, decisions, contested,
                 late, serial, lost, reviewsBegun, faults>>

ExpensesNext ==
  \/ \E e \in Claims : CreateExpense(e)
  \/ \E r \in Reviewers : \E e \in Claims : \E v \in Verdicts : BeginReview(r, e, v)
  \/ \E r \in Reviewers : WriteReview(r) \/ AnnounceReview(r)
  \/ \E a \in adds : LandAdd(a)
  \/ \E k \in Slots : \E j \in DOMAIN job : RunJob(k, j)
  \/ \E k \in Slots : SlotStep(k)
  \/ \E j \in filing : FileDeadLetter(j)

ExpensesSpec == ExpensesInit /\ [][ExpensesNext]_expensesVars

-----------------------------------------------------------------------------
(* Properties.                                                             *)

\* "guards against double-processing" (expenses.service.ts): a claim is decided
\* at most once, unless two reviews of it overlapped.
DecidedOnce == \A e \in Claims \ contested : decisions[e] <= 1

Settled(e) ==
  /\ \A r \in Reviewers : Under(r) => review[r].claim # e
  /\ \A a \in adds : a[2] # e
  /\ \A t \in {"created", "resolved"} : job[<<t, e>>] = "none"

\* Once nothing is left to do for a claim, the list of pending expenses says the
\* same of it from the snapshot as from the full table it falls back to, and so
\* does the summary's count of all: if the jobs ran in their order and no error
\* was swallowed.
PendingFollows ==
  ~lost =>
    /\ \A e \in Claims \ late :
         Settled(e) => (e \in PendingList(FALSE) <=> e \in PendingList(TRUE))
    /\ late = {} /\ (\A e \in Claims : Settled(e)) =>
         SummaryByEmployee.pendingCount = Cardinality(PendingList(FALSE))

\* And total_expenses is the sum of what is approved, as the employee's dashboard
\* counts it, if the recomputations did not overlap and no claim was contested:
\* of two verdicts only the job of the first is kept.
SumFollows ==
  (\A e \in Claims : Settled(e)) /\ serial /\ ~lost /\ contested = {} =>
    approvedSum = Approved /\ Cardinality(approvedSum) = OwnExpenses("APPROVED")

=============================================================================
