---------------------------- MODULE ExpensesProofs ----------------------------
(***************************************************************************)
(* What Expenses promises, for any number of claims, reviews, retries and  *)
(* slots of the worker:                                                    *)
(*   - two reviews decide one claim only if they overlapped: a review      *)
(*     about to write an uncontested claim is alone with it, so that the   *)
(*     PENDING it read before is still true when it writes;                *)
(*   - pending_expenses follows the table: a claim on its way in or out is *)
(*     visible somewhere between its request and its last job;             *)
(*   - total_expenses follows what is approved: a recomputation that is    *)
(*     alone read no less than the total it replaces.                      *)
(***************************************************************************)
EXTENDS Expenses, FiniteSetTheorems, TLAPS

Reviews == {NoReview} \cup [step : {"write", "announce"}, claim : Claims, verdict : Verdicts]

ReviewShape ==
  /\ status \in [Claims -> Statuses]
  /\ review \in [Reviewers -> Reviews]
  /\ decisions \in [Claims -> Nat]

\* Review r is of claim e.
Reviewing(r, e) == Under(r) /\ review[r].claim = e

Alone ==
  \A e \in Claims \ contested : \A r, o \in Reviewers :
    Reviewing(r, e) /\ Reviewing(o, e) => r = o

Undecided ==
  \A e \in Claims \ contested :
    /\ status[e] \in {"none", "PENDING"} => decisions[e] = 0
    /\ \A r \in Reviewers : Reviewing(r, e) /\ review[r].step = "write" => decisions[e] = 0
    /\ decisions[e] <= 1

ReviewInv == ReviewShape /\ Alone /\ Undecided

LEMMA ReviewInitInv == ExpensesInit => ReviewInv
<1> SUFFICES ASSUME ExpensesInit PROVE ReviewInv
  OBVIOUS
<1>1. ReviewShape
  BY DEF ExpensesInit, ReviewShape, Reviews, Statuses
<1>2. Alone /\ Undecided
  BY DEF ExpensesInit, Alone, Undecided, Reviewing, Under
<1> QED
  BY <1>1, <1>2 DEF ReviewInv

LEMMA ReviewShapes ==
  ASSUME ReviewShape, NEW r \in Reviewers, Under(r)
  PROVE  /\ review[r].step \in {"write", "announce"}
         /\ review[r].claim \in Claims /\ review[r].verdict \in Verdicts
BY DEF ReviewShape, Reviews, Under

LEMMA NoReviewIsNone == NoReview \in Reviews /\ NoReview.step = "none"
BY DEF NoReview, Reviews

LEMMA CreateStep ==
  ASSUME ReviewInv, NEW e \in Claims, CreateExpense(e) PROVE ReviewInv'
<1>1. /\ status[e] = "none" /\ status' = [status EXCEPT ![e] = "PENDING"]
      /\ UNCHANGED <<review, decisions, contested>>
  BY DEF CreateExpense
<1>2. ReviewShape'
  BY <1>1 DEF ReviewInv, ReviewShape, Statuses
<1>3. Alone' /\ Undecided'
  BY <1>1 DEF ReviewInv, ReviewShape, Alone, Undecided, Reviewing, Under
<1> QED
  BY <1>2, <1>3 DEF ReviewInv

LEMMA BeginStep ==
  ASSUME ReviewInv, NEW r \in Reviewers, NEW e \in Claims, NEW v \in Verdicts, BeginReview(r, e, v)
  PROVE  ReviewInv'
<1> DEFINE new == [step |-> "write", claim |-> e, verdict |-> v]
<1>1. new \in Reviews /\ new.step = "write" /\ new.claim = e
  BY DEF Reviews
<1>2. /\ ~Under(r) /\ status[e] = "PENDING" /\ review' = [review EXCEPT ![r] = new]
      /\ contested' = IF \E o \in Reviewers \ {r} : Reviewing(o, e) THEN contested \cup {e} ELSE contested
      /\ UNCHANGED <<status, decisions>>
  BY DEF BeginReview, Reviewing
<1> HIDE DEF new
<1>3. ReviewShape'
  BY <1>1, <1>2 DEF ReviewInv, ReviewShape
<1>4. \A o \in Reviewers : review'[o] = IF o = r THEN new ELSE review[o]
  BY <1>2 DEF ReviewInv, ReviewShape
<1>5. \A o \in Reviewers \ {r}, f \in Claims : Reviewing(o, f)' <=> Reviewing(o, f)
  BY <1>4 DEF Reviewing, Under
<1>6. \A f \in Claims : Reviewing(r, f)' => f = e
  BY <1>1, <1>4 DEF Reviewing
<1>7. Alone'
  BY <1>2, <1>5, <1>6 DEF ReviewInv, Alone
<1>8. Undecided'
  <2> SUFFICES ASSUME NEW f \in Claims \ contested'
               PROVE  /\ status'[f] \in {"none", "PENDING"} => decisions'[f] = 0
                      /\ \A o \in Reviewers : Reviewing(o, f)' /\ review'[o].step = "write" => decisions'[f] = 0
                      /\ decisions'[f] <= 1
    BY DEF Undecided
  <2>1. f \in Claims \ contested
    BY <1>2
  <2>2. f = e => decisions[f] = 0
    BY <1>2, <2>1 DEF ReviewInv, Undecided
  <2> QED BY <1>2, <1>4, <1>5, <1>6, <2>1, <2>2 DEF ReviewInv, Undecided
<1> QED
  BY <1>3, <1>7, <1>8 DEF ReviewInv

\* A review that leaves its claim, or was not about to write it.
LEMMA ReviewLeaves ==
  ASSUME ReviewInv, NEW r \in Reviewers, review' = [review EXCEPT ![r] = NoReview],
         UNCHANGED <<status, decisions, contested>>
  PROVE  ReviewInv'
<1>1. \A o \in Reviewers : review'[o] = IF o = r THEN NoReview ELSE review[o]
  BY DEF ReviewInv, ReviewShape
<1>2. ReviewShape'
  BY NoReviewIsNone DEF ReviewInv, ReviewShape
<1>3. \A o \in Reviewers, f \in Claims : Reviewing(o, f)' => Reviewing(o, f) /\ review'[o] = review[o]
  BY <1>1 DEF Reviewing, Under
<1>4. Alone' /\ Undecided'
  BY <1>3 DEF ReviewInv, Alone, Undecided
<1> QED
  BY <1>2, <1>4 DEF ReviewInv

LEMMA WriteStep ==
  ASSUME ReviewInv, NEW r \in Reviewers, WriteReview(r) PROVE ReviewInv'
<1> DEFINE e == review[r].claim
<1>1. CASE review' = [review EXCEPT ![r] = NoReview] /\ UNCHANGED <<status, decisions>>
  BY <1>1, ReviewLeaves DEF WriteReview
<1>2. CASE /\ status' = [status EXCEPT ![e] = review[r].verdict]
           /\ decisions' = [decisions EXCEPT ![e] = @ + 1]
           /\ review' = [review EXCEPT ![r].step = "announce"]
  <2>1. e \in Claims /\ review[r].verdict \in Verdicts /\ Reviewing(r, e) /\ review[r].step = "write"
    BY ReviewShapes DEF WriteReview, ReviewInv, Reviewing
  <2>2. review[r] = [step |-> "write", claim |-> e, verdict |-> review[r].verdict]
    BY <2>1 DEF ReviewInv, ReviewShape, Reviews, WriteReview, Under
  <2>3. review' = [review EXCEPT ![r] = [step |-> "announce", claim |-> e, verdict |-> review[r].verdict]]
    <3>1. review' = [review EXCEPT ![r] = [review[r] EXCEPT !.step = "announce"]]
      BY <1>2
    <3>2. [review[r] EXCEPT !.step = "announce"]
            = [step |-> "announce", claim |-> e, verdict |-> review[r].verdict]
      BY <2>2
    <3> QED BY <3>1, <3>2
  <2> DEFINE new == [step |-> "announce", claim |-> e, verdict |-> review[r].verdict]
  <2>4. new \in Reviews /\ new # NoReview /\ new.step = "announce" /\ new.claim = e
    BY <2>1 DEF Reviews, NoReview
  <2> HIDE DEF new
  <2>5. \A o \in Reviewers : review'[o] = IF o = r THEN new ELSE review[o]
    BY <2>3 DEF ReviewInv, ReviewShape, new
  <2>6. ReviewShape'
    <3>1. review' \in [Reviewers -> Reviews]
      BY <2>3, <2>4 DEF ReviewInv, ReviewShape, new
    <3>2. status' \in [Claims -> Statuses]
      BY <1>2, <2>1 DEF ReviewInv, ReviewShape, Statuses
    <3>3. decisions' \in [Claims -> Nat]
      BY <1>2, <2>1 DEF ReviewInv, ReviewShape
    <3> QED BY <3>1, <3>2, <3>3 DEF ReviewShape
  <2>7. \A o \in Reviewers, f \in Claims : Reviewing(o, f)' <=> Reviewing(o, f)
    BY <2>1, <2>4, <2>5 DEF Reviewing, Under
  <2>8. UNCHANGED contested
    BY DEF WriteReview
  <2>9. Alone'
    BY <2>7, <2>8 DEF ReviewInv, Alone
  <2>10. Undecided'
    <3> SUFFICES ASSUME NEW f \in Claims \ contested
                 PROVE  /\ status'[f] \in {"none", "PENDING"} => decisions'[f] = 0
                        /\ \A o \in Reviewers : Reviewing(o, f)' /\ review'[o].step = "write" => decisions'[f] = 0
                        /\ decisions'[f] <= 1
      BY <2>8 DEF Undecided
    <3>1. CASE f # e
      <4>1. status'[f] = status[f] /\ decisions'[f] = decisions[f]
        BY <1>2, <3>1 DEF ReviewInv, ReviewShape
      <4>2. \A o \in Reviewers : Reviewing(o, f)' => review'[o] = review[o]
        BY <2>1, <2>4, <2>5, <3>1 DEF Reviewing
      <4> QED BY <2>7, <4>1, <4>2 DEF ReviewInv, Undecided
    <3>2. CASE f = e
      <4>1. decisions[f] = 0
        BY <2>1, <3>2 DEF ReviewInv, Undecided
      <4>2. decisions'[f] = 1
        BY <1>2, <2>1, <3>2, <4>1 DEF ReviewInv, ReviewShape
      <4>3. status'[f] \notin {"none", "PENDING"}
        BY <1>2, <2>1, <3>2 DEF ReviewInv, ReviewShape, Verdicts
      <4>4. \A o \in Reviewers : Reviewing(o, f)' => o = r
        BY <2>1, <2>7, <3>2 DEF ReviewInv, Alone
      <4> QED BY <2>4, <2>5, <4>2, <4>3, <4>4
    <3> QED BY <3>1, <3>2
  <2> QED BY <2>6, <2>9, <2>10 DEF ReviewInv
<1> QED
  BY <1>1, <1>2 DEF WriteReview

LEMMA OtherSteps ==
  ASSUME ReviewInv, UNCHANGED <<status, review, decisions, contested>> PROVE ReviewInv'
BY DEF ReviewInv, ReviewShape, Alone, Undecided, Reviewing, Under

LEMMA ReviewStepInv == ReviewInv /\ [ExpensesNext]_expensesVars => ReviewInv'
<1> SUFFICES ASSUME ReviewInv, [ExpensesNext]_expensesVars PROVE ReviewInv'
  OBVIOUS
<1>1. CASE \E e \in Claims : CreateExpense(e)
  BY <1>1, CreateStep
<1>2. CASE \E r \in Reviewers : \E e \in Claims : \E v \in Verdicts : BeginReview(r, e, v)
  BY <1>2, BeginStep
<1>3. CASE \E r \in Reviewers : WriteReview(r)
  BY <1>3, WriteStep
<1>4. CASE \E r \in Reviewers : AnnounceReview(r)
  BY <1>4, ReviewLeaves DEF AnnounceReview
<1>5. CASE \E a \in adds : LandAdd(a)
  BY <1>5, OtherSteps DEF LandAdd
<1>6. CASE \E k \in Slots : \E j \in DOMAIN job : RunJob(k, j)
  BY <1>6, OtherSteps DEF RunJob
<1>7. CASE \E k \in Slots : SlotStep(k)
  BY <1>7, OtherSteps DEF SlotStep, InsertPending, DeletePending, ReadApproved, WriteSum, FinishJob
<1>8. CASE \E j \in filing : FileDeadLetter(j)
  BY <1>8, OtherSteps DEF FileDeadLetter
<1>9. CASE UNCHANGED expensesVars
  BY <1>9, OtherSteps DEF expensesVars
<1> QED
  BY <1>1, <1>2, <1>3, <1>4, <1>5, <1>6, <1>7, <1>8, <1>9 DEF ExpensesNext

\* An expense that no two reviews held at once is decided at most once, though the
\* status is read in one round trip and written, by id, in another.
THEOREM UncontestedDecidedOnce == ExpensesSpec => []DecidedOnce
<1>1. ReviewInv => DecidedOnce
  BY DEF ReviewInv, Undecided, DecidedOnce
<1> QED
  BY <1>1, ReviewInitInv, ReviewStepInv, PTL DEF ExpensesSpec

-----------------------------------------------------------------------------
(* That the tables follow.  The jobs of a claim are of two kinds: "created" *)
(* brings it into pending_expenses, "resolved" takes it out and, if it was  *)
(* approved, sets the total anew.                                           *)

Kinds == {"created", "resolved"}
Works == {Free} \cup [step : {"insert", "delete", "read", "sum", "done"}, job : Kinds \X Claims,
                      read : SUBSET Claims]

\* What the slots run, and what is on its way to the queue.
ExpenseShape ==
  /\ ReviewShape
  /\ adds \subseteq ({"created"} \X Claims \X {"none"}) \cup ({"resolved"} \X Claims \X Verdicts)
  /\ verdict \in [Claims -> Verdicts \cup {"none"}]
  /\ pendingRows \subseteq Claims
  /\ job \in [Kinds \X Claims -> {"none", "queued", "active", "failed"}]
  /\ slot \in [Slots -> Works]
  /\ \A k \in Slots : slot[k] # Free =>
       /\ job[slot[k].job] = "active"
       /\ slot[k].step = "insert" => slot[k].job[1] = "created"
       /\ slot[k].step \in {"delete", "read", "sum"} => slot[k].job[1] = "resolved"
  /\ \A k, l \in Slots : slot[k] # Free /\ slot[l] # Free /\ slot[k].job = slot[l].job => k = l

\* The claim is still to come into pending_expenses.
Coming(e) == <<"created", e, "none">> \in adds \/ job[<<"created", e>>] # "none"

\* The claim is still to be taken out of it.
Leaving(e) ==
  \/ \E r \in Reviewers : Reviewing(r, e) /\ review[r].step = "announce"
  \/ \E a \in adds : a[1] = "resolved" /\ a[2] = e
  \/ job[<<"resolved", e>>] # "none"

\* Nothing is done for a claim before its time.
EarlyOf(e) ==
  /\ status[e] = "none" => ~Coming(e) /\ e \notin pendingRows /\ \A r \in Reviewers : ~Reviewing(r, e)
  /\ status[e] \in {"none", "PENDING"} => ~Leaving(e)

PastDelete == {"read", "sum", "done"}

\* Of a claim whose "resolved" job waited for "created", the row is there, or on
\* its way in or out; past the insert it is there until "created" is done, and past
\* the delete nothing can bring it back.
FollowsOf(e) ==
  /\ status[e] = "PENDING" => e \in pendingRows \/ Coming(e)
  /\ status[e] \in Verdicts => Leaving(e) \/ (~Coming(e) /\ e \notin pendingRows)
  /\ \A k \in Slots : slot[k] # Free /\ slot[k].job = <<"resolved", e>> =>
       /\ ~Coming(e)
       /\ slot[k].step \in PastDelete => e \notin pendingRows
  /\ \A k \in Slots : slot[k] # Free /\ slot[k].job = <<"created", e>> /\ slot[k].step = "done" =>
       e \in pendingRows

InOrder == \A e \in Claims : EarlyOf(e)

RowsFollow == ~lost => \A e \in Claims \ late : FollowsOf(e)

FollowInv == ExpenseShape /\ InOrder /\ RowsFollow

\* An uncontested verdict is the one that is announced, sent and kept.
OneVerdict ==
  \A e \in Claims :
    /\ \A r \in Reviewers : Reviewing(r, e) =>
         IF review[r].step = "write" THEN status[e] = "PENDING" ELSE review[r].verdict = status[e]
    /\ \A a \in adds : a[1] = "resolved" /\ a[2] = e => a[3] = status[e]
    /\ job[<<"resolved", e>>] # "none" => verdict[e] = status[e]

\* What was approved is in the total, or a job that will put it there is to come;
\* the one job that runs writes no less than there is.
TotalGrows ==
  /\ \A k, l \in Slots : Resolves(k) /\ Resolves(l) => k = l
  /\ approvedSum \subseteq Approved
  /\ \A e \in Approved : e \in approvedSum \/ Leaving(e)
  /\ \A k \in Slots : Runs(k, "read") => slot[k].job[2] \in Approved
  /\ \A k \in Slots : Runs(k, "sum") =>
       approvedSum \cup {slot[k].job[2]} \subseteq slot[k].read /\ slot[k].read \subseteq Approved
  /\ \A k \in Slots : Resolves(k) /\ Runs(k, "done") =>
       slot[k].job[2] \in approvedSum \/ slot[k].job[2] \notin Approved

TotalInv ==
  FollowInv /\ ReviewInv /\ (serial /\ ~lost /\ contested = {} => OneVerdict /\ TotalGrows)

\* Nothing is taken from what will take a claim out.
LeavingKept == \A f \in Claims : Leaving(f) => Leaving(f)'

\* The operations of the queue, point by point.
LEMMA JobAdded ==
  ASSUME ExpenseShape, NEW j \in Kinds \X Claims, Add(j)
  PROVE  /\ slot' = slot
         /\ job' \in [Kinds \X Claims -> {"none", "queued", "active", "failed"}]
         /\ \A i \in Kinds \X Claims : job'[i] = IF i = j /\ job[i] = "none" THEN "queued" ELSE job[i]
BY DEF ExpenseShape, Add

LEMMA Taken ==
  ASSUME ExpenseShape, NEW k \in Slots, NEW j \in DOMAIN job, NEW first, Take(k, j, first),
         first \in {"insert", "delete"}, first = "insert" <=> j[1] = "created"
  PROVE  /\ j \in Kinds \X Claims /\ slot[k] = Free /\ job[j] = "queued"
         /\ \A i \in Kinds \X Claims : job'[i] = IF i = j THEN "active" ELSE job[i]
         /\ \A l \in Slots : slot'[l] = IF l = k THEN [step |-> first, job |-> j, read |-> {}] ELSE slot[l]
         /\ [step |-> first, job |-> j, read |-> {}] # Free
         /\ (UNCHANGED <<status, review, adds, verdict, pendingRows, decisions>>) => ExpenseShape'
<1> DEFINE new == [step |-> first, job |-> j, read |-> {}]
<1>1. /\ j \in Kinds \X Claims /\ slot[k] = Free /\ job[j] = "queued"
      /\ job' = [job EXCEPT ![j] = "active"] /\ slot' = [slot EXCEPT ![k] = new]
  BY DEF ExpenseShape, Take
<1>2. new \in Works /\ new # Free /\ new.step = first /\ new.job = j
  BY <1>1 DEF Works, Free
<1> HIDE DEF new
<1>3. /\ \A i \in Kinds \X Claims : job'[i] = IF i = j THEN "active" ELSE job[i]
      /\ \A l \in Slots : slot'[l] = IF l = k THEN new ELSE slot[l]
      /\ job' \in [Kinds \X Claims -> {"none", "queued", "active", "failed"}]
      /\ slot' \in [Slots -> Works]
  BY <1>1, <1>2 DEF ExpenseShape
<1>4. \A l \in Slots : slot[l] # Free => slot[l].job # j /\ slot[l].job \in Kinds \X Claims
  BY <1>1 DEF ExpenseShape, Works
<1>5. ASSUME UNCHANGED <<status, review, adds, verdict, pendingRows, decisions>>
      PROVE  ExpenseShape'
  <2>1. ReviewShape'
    BY <1>5 DEF ExpenseShape, ReviewShape
  <2>2. \A l \in Slots : slot'[l] # Free =>
          /\ job'[slot'[l].job] = "active"
          /\ slot'[l].step = "insert" => slot'[l].job[1] = "created"
          /\ slot'[l].step \in {"delete", "read", "sum"} => slot'[l].job[1] = "resolved"
    BY <1>1, <1>2, <1>3, <1>4 DEF ExpenseShape, Kinds
  <2>3. \A l, m \in Slots : slot'[l] # Free /\ slot'[m] # Free /\ slot'[l].job = slot'[m].job => l = m
    BY <1>2, <1>3, <1>4 DEF ExpenseShape
  <2> QED BY <1>3, <1>5, <2>1, <2>2, <2>3 DEF ExpenseShape
<1> QED BY <1>1, <1>2, <1>3, <1>5 DEF new

LEMMA Continued ==
  ASSUME ExpenseShape, NEW k \in Slots, slot[k] # Free,
         NEW step \in PastDelete, NEW read \in SUBSET Claims, Continue(k, step, read)
  PROVE  /\ job' = job
         /\ \A l \in Slots : l # k => slot'[l] = slot[l]
         /\ slot'[k] # Free /\ slot'[k].step = step /\ slot'[k].job = slot[k].job /\ slot'[k].read = read
         /\ slot' \in [Slots -> Works]
<1> DEFINE new == [step |-> step, job |-> slot[k].job, read |-> read]
<1>1. slot[k].job \in Kinds \X Claims
  BY DEF ExpenseShape, Works
<1>2. new \in Works /\ new # Free /\ new.step = step /\ new.job = slot[k].job /\ new.read = read
  BY <1>1 DEF Works, Free, PastDelete
<1>3. job' = job /\ slot' = [slot EXCEPT ![k] = new]
  BY DEF Continue
<1> HIDE DEF new
<1> QED BY <1>2, <1>3 DEF ExpenseShape

LEMMA ContinuedShape ==
  ASSUME ExpenseShape, NEW k \in Slots, slot[k] # Free,
         NEW step \in PastDelete, NEW read \in SUBSET Claims, Continue(k, step, read),
         step = "done" \/ slot[k].job[1] = "resolved",
         UNCHANGED <<status, review, adds, verdict, decisions>>, pendingRows' \subseteq Claims
  PROVE  ExpenseShape'
<1>1. /\ job' = job
      /\ \A l \in Slots : l # k => slot'[l] = slot[l]
      /\ slot'[k] # Free /\ slot'[k].step = step /\ slot'[k].job = slot[k].job
      /\ slot' \in [Slots -> Works]
  BY Continued
<1>2. ReviewShape'
  BY DEF ExpenseShape, ReviewShape
<1>3. ASSUME NEW l \in Slots, slot'[l] # Free
      PROVE  /\ slot[l] # Free /\ slot'[l].job = slot[l].job
             /\ slot'[l].step = "insert" => slot'[l].job[1] = "created"
             /\ slot'[l].step \in {"delete", "read", "sum"} => slot'[l].job[1] = "resolved"
  <2>1. CASE l = k
    BY <1>1, <2>1 DEF PastDelete
  <2>2. CASE l # k
    BY <1>1, <1>3, <2>2 DEF ExpenseShape
  <2> QED BY <2>1, <2>2
<1>4. /\ \A l \in Slots : slot'[l] # Free => job'[slot'[l].job] = "active"
      /\ \A l, m \in Slots : slot'[l] # Free /\ slot'[m] # Free /\ slot'[l].job = slot'[m].job => l = m
  BY <1>1, <1>3 DEF ExpenseShape
<1> QED BY <1>1, <1>2, <1>3, <1>4 DEF ExpenseShape

\* The slot is free again, and its job gone, queued or failed.
Left(k) ==
  /\ \A l \in Slots : slot'[l] = IF l = k THEN Free ELSE slot[l]
  /\ \A i \in Kinds \X Claims : i # slot[k].job => job'[i] = job[i]
  /\ slot' \in [Slots -> Works]
  /\ job' \in [Kinds \X Claims -> {"none", "queued", "active", "failed"}]

LEMMA Finished ==
  ASSUME ExpenseShape, NEW k \in Slots, slot[k] # Free, Done(k) \/ Throw(k)
  PROVE  /\ Left(k)
         /\ Done(k) => job'[slot[k].job] = "none"
         /\ Throw(k) => job'[slot[k].job] # "none"
<1>1. slot[k].job \in Kinds \X Claims
  BY DEF ExpenseShape, Works
<1>2. slot' = [slot EXCEPT ![k] = Free] /\ Free \in Works
  BY DEF Done, Throw, Works
<1>3. /\ \A l \in Slots : slot'[l] = IF l = k THEN Free ELSE slot[l]
      /\ slot' \in [Slots -> Works]
  BY <1>2 DEF ExpenseShape
<1>4. CASE Done(k)
  <2>1. job' = [job EXCEPT ![slot[k].job] = "none"]
    BY <1>4 DEF Done
  <2>2. Left(k) /\ job'[slot[k].job] = "none"
    BY <1>1, <1>3, <2>1 DEF ExpenseShape, Left
  <2>3. ~Throw(k)
    BY <1>1, <2>2 DEF Throw, ExpenseShape
  <2> QED BY <2>2, <2>3
<1>5. CASE Throw(k)
  <2>1. PICK x \in {"failed", "queued"} : job' = [job EXCEPT ![slot[k].job] = x]
    BY <1>5 DEF Throw
  <2>2. Left(k) /\ job'[slot[k].job] = x
    BY <1>1, <1>3, <2>1 DEF ExpenseShape, Left
  <2>3. ~Done(k)
    BY <1>1, <2>1, <2>2 DEF Done, ExpenseShape
  <2> QED BY <2>2, <2>3
<1> QED BY <1>4, <1>5

LEMMA LeftShape ==
  ASSUME ExpenseShape, NEW k \in Slots, slot[k] # Free, Left(k),
         UNCHANGED <<status, review, adds, verdict, decisions>>, pendingRows' \subseteq Claims
  PROVE  ExpenseShape'
<1>1. ReviewShape'
  BY DEF ExpenseShape, ReviewShape
<1>2. \A l \in Slots : slot'[l] # Free => l # k /\ slot'[l] = slot[l]
  BY DEF Left
<1>3. \A l \in Slots : l # k /\ slot[l] # Free =>
        slot[l].job # slot[k].job /\ slot[l].job \in Kinds \X Claims
  BY DEF ExpenseShape, Works
<1>4. \A l \in Slots : slot'[l] # Free =>
        /\ job'[slot'[l].job] = "active"
        /\ slot'[l].step = "insert" => slot'[l].job[1] = "created"
        /\ slot'[l].step \in {"delete", "read", "sum"} => slot'[l].job[1] = "resolved"
  BY <1>2, <1>3 DEF ExpenseShape, Left
<1>5. \A l, m \in Slots : slot'[l] # Free /\ slot'[m] # Free /\ slot'[l].job = slot'[m].job => l = m
  BY <1>2 DEF ExpenseShape
<1> QED BY <1>1, <1>4, <1>5 DEF ExpenseShape, Left

\* A step that has nothing to do with a claim.
LEMMA StaysEarly ==
  ASSUME NEW e \in Claims, EarlyOf(e), status'[e] = status[e],
         e \in pendingRows' => e \in pendingRows, Coming(e)' => Coming(e), Leaving(e)' => Leaving(e),
         \A r \in Reviewers : Reviewing(r, e)' => Reviewing(r, e)
  PROVE  EarlyOf(e)'
BY DEF EarlyOf

LEMMA StaysFollowed ==
  ASSUME NEW e \in Claims, FollowsOf(e), status'[e] = status[e],
         e \in pendingRows' <=> e \in pendingRows, Coming(e)' <=> Coming(e), Leaving(e)' <=> Leaving(e),
         \A k \in Slots : slot'[k] # Free /\ slot'[k].job \in {<<"created", e>>, <<"resolved", e>>} =>
           slot'[k] = slot[k]
  PROVE  FollowsOf(e)'
BY DEF FollowsOf

LEMMA CreateFollows ==
  ASSUME FollowInv, NEW e \in Claims, CreateExpense(e) PROVE FollowInv'
<1>1. /\ status[e] = "none" /\ status' = [status EXCEPT ![e] = "PENDING"]
      /\ adds' = adds \cup {<<"created", e, "none">>}
      /\ UNCHANGED <<review, verdict, pendingRows, job, slot, decisions, late, lost>>
  BY DEF CreateExpense, jobQueue
<1>2. ExpenseShape'
  <2>1. ReviewShape'
    BY <1>1 DEF FollowInv, ExpenseShape, ReviewShape, Statuses
  <2>2. <<"created", e, "none">> \in {"created"} \X Claims \X {"none"}
    OBVIOUS
  <2> QED BY <1>1, <2>1, <2>2 DEF FollowInv, ExpenseShape
<1>3. \A f \in Claims : status'[f] = IF f = e THEN "PENDING" ELSE status[f]
  BY <1>1 DEF FollowInv, ExpenseShape, ReviewShape
<1>4. \A f \in Claims, r \in Reviewers : Reviewing(r, f)' <=> Reviewing(r, f)
  BY <1>1 DEF Reviewing, Under
<1>5. \A f \in Claims : /\ Leaving(f)' <=> Leaving(f)
                        /\ Coming(f)' <=> (Coming(f) \/ f = e)
  BY <1>1, <1>4 DEF Leaving, Coming
<1>6. /\ EarlyOf(e) /\ ~Leaving(e) /\ ~Coming(e)
      /\ \A k \in Slots : slot[k] # Free => slot[k].job \notin {<<"created", e>>, <<"resolved", e>>}
  BY <1>1 DEF FollowInv, InOrder, EarlyOf, Leaving, Coming, ExpenseShape
<1>7. ASSUME NEW f \in Claims, f # e
      PROVE  EarlyOf(f)' /\ (FollowsOf(f) => FollowsOf(f)')
  <2>1. EarlyOf(f)
    BY DEF FollowInv, InOrder
  <2> QED BY <1>1, <1>3, <1>4, <1>5, <1>7, <2>1, StaysEarly, StaysFollowed
<1>8. EarlyOf(e)'
  BY <1>3, <1>5, <1>6 DEF EarlyOf
<1>9. FollowsOf(e)'
  <2>1. Coming(e)' /\ status'[e] = "PENDING" /\ "PENDING" \notin Verdicts
    BY <1>3, <1>5 DEF Verdicts
  <2>2. \A k \in Slots : slot'[k] # Free =>
          slot'[k].job # <<"created", e>> /\ slot'[k].job # <<"resolved", e>>
    BY <1>1, <1>6
  <2> QED BY <2>1, <2>2 DEF FollowsOf
<1> QED BY <1>1, <1>2, <1>7, <1>8, <1>9 DEF FollowInv, InOrder, RowsFollow

\* A step of a review that changes no row: what it announces is announced.
LEMMA ReviewFollows ==
  ASSUME FollowInv, ExpenseShape', UNCHANGED <<status, pendingRows, job, slot, late, lost>>,
         \A f \in Claims, r \in Reviewers : Reviewing(r, f)' => Reviewing(r, f) \/ status[f] # "none",
         \A f \in Claims : (Leaving(f)' <=> Leaving(f)) /\ (Coming(f)' <=> Coming(f))
  PROVE  FollowInv'
BY DEF FollowInv, InOrder, RowsFollow, EarlyOf, FollowsOf

LEMMA BeginFollows ==
  ASSUME FollowInv, NEW r \in Reviewers, NEW e \in Claims, NEW v \in Verdicts, BeginReview(r, e, v)
  PROVE  FollowInv' /\ LeavingKept
<1> DEFINE new == [step |-> "write", claim |-> e, verdict |-> v]
<1>1. /\ ~Under(r) /\ status[e] = "PENDING" /\ review' = [review EXCEPT ![r] = new]
      /\ UNCHANGED <<status, adds, verdict, pendingRows, job, slot, decisions, late, lost>>
  BY DEF BeginReview, jobQueue
<1>2. new \in Reviews /\ new.step = "write" /\ new.claim = e
  BY DEF Reviews
<1> HIDE DEF new
<1>3. \A o \in Reviewers : review'[o] = IF o = r THEN new ELSE review[o]
  BY <1>1 DEF FollowInv, ExpenseShape, ReviewShape
<1>4. review' \in [Reviewers -> Reviews]
  BY <1>1, <1>2 DEF FollowInv, ExpenseShape, ReviewShape
<1>5. ExpenseShape'
  BY <1>1, <1>4 DEF FollowInv, ExpenseShape, ReviewShape
<1>6. \A f \in Claims, o \in Reviewers :
        /\ Reviewing(o, f)' => Reviewing(o, f) \/ f = e
        /\ Reviewing(o, f)' /\ review'[o].step = "announce" <=> Reviewing(o, f) /\ review[o].step = "announce"
  BY <1>1, <1>2, <1>3 DEF Reviewing, Under
<1>7. \A f \in Claims : (Leaving(f)' <=> Leaving(f)) /\ (Coming(f)' <=> Coming(f))
  BY <1>1, <1>6 DEF Leaving, Coming
<1> QED BY <1>1, <1>5, <1>6, <1>7, ReviewFollows DEF LeavingKept

LEMMA WriteFollows ==
  ASSUME FollowInv, NEW r \in Reviewers, WriteReview(r) PROVE FollowInv' /\ LeavingKept
<1>0. PICK e \in Claims : e = review[r].claim
  BY ReviewShapes DEF WriteReview, FollowInv, ExpenseShape
<1>1. /\ Under(r) /\ review[r].step = "write" /\ review[r].verdict \in Verdicts
      /\ review[r] \in Reviews /\ Reviewing(r, e)
      /\ UNCHANGED <<adds, verdict, pendingRows, job, slot, late, lost>>
  BY <1>0, ReviewShapes DEF WriteReview, jobQueue, FollowInv, ExpenseShape, ReviewShape, Reviewing
<1>2. CASE /\ status' = [status EXCEPT ![e] = review[r].verdict]
           /\ decisions' = [decisions EXCEPT ![e] = @ + 1]
           /\ review' = [review EXCEPT ![r].step = "announce"]
  <2> DEFINE new == [review[r] EXCEPT !.step = "announce"]
  <2>1. review' = [review EXCEPT ![r] = new]
    BY <1>2
  <2>2. new \in Reviews /\ new # NoReview /\ new.step = "announce" /\ new.claim = e
    BY <1>0, <1>1 DEF Reviews, NoReview, Under
  <2> HIDE DEF new
  <2>3. \A o \in Reviewers : review'[o] = IF o = r THEN new ELSE review[o]
    BY <2>1 DEF FollowInv, ExpenseShape, ReviewShape
  <2>4. ReviewShape'
    <3>1. review' \in [Reviewers -> Reviews]
      BY <2>1, <2>2 DEF FollowInv, ExpenseShape, ReviewShape
    <3>2. status' \in [Claims -> Statuses] /\ decisions' \in [Claims -> Nat]
      BY <1>1, <1>2 DEF FollowInv, ExpenseShape, ReviewShape, Statuses
    <3> QED BY <3>1, <3>2 DEF ReviewShape
  <2>5. ExpenseShape'
    BY <1>1, <2>4 DEF FollowInv, ExpenseShape
  <2>6. \A f \in Claims, o \in Reviewers :
          /\ Reviewing(o, f)' => Reviewing(o, f)
          /\ f # e => (Reviewing(o, f)' /\ review'[o].step = "announce" <=>
                       Reviewing(o, f) /\ review[o].step = "announce")
    BY <1>1, <2>2, <2>3 DEF Reviewing, Under
  <2>7. \A f \in Claims : /\ Coming(f)' <=> Coming(f)
                          /\ f # e => (Leaving(f)' <=> Leaving(f))
    BY <1>1, <2>6 DEF Leaving, Coming
  <2>8. Leaving(e)'
    <3>1. Reviewing(r, e)' /\ review'[r].step = "announce"
      BY <2>2, <2>3 DEF Reviewing, Under
    <3> QED BY <3>1 DEF Leaving
  <2>9. \A f \in Claims : status'[f] = IF f = e THEN review[r].verdict ELSE status[f]
    BY <1>2 DEF FollowInv, ExpenseShape, ReviewShape
  <2>10. ASSUME NEW f \in Claims
         PROVE  EarlyOf(f)' /\ (FollowsOf(f) => FollowsOf(f)')
    <3>1. EarlyOf(f)
      BY DEF FollowInv, InOrder
    <3>2. CASE f # e
      BY <1>1, <2>6, <2>7, <2>9, <3>1, <3>2, StaysEarly, StaysFollowed
    <3>3. CASE f = e
      <4>1. status'[f] \in Verdicts /\ status'[f] \notin {"none", "PENDING"}
        BY <1>1, <2>9, <3>3 DEF Verdicts
      <4>2. EarlyOf(f)'
        BY <4>1 DEF EarlyOf
      <4>3. Leaving(f)' /\ (Coming(f)' <=> Coming(f)) /\ pendingRows' = pendingRows /\ slot' = slot
        BY <1>1, <2>7, <2>8, <3>3
      <4>4. FollowsOf(f) => FollowsOf(f)'
        BY <4>1, <4>3 DEF FollowsOf
      <4> QED BY <4>2, <4>4
    <3> QED BY <3>2, <3>3
  <2>11. LeavingKept
    BY <2>7, <2>8 DEF LeavingKept
  <2> QED BY <1>1, <2>5, <2>10, <2>11 DEF FollowInv, InOrder, RowsFollow
<1>3. CASE review' = [review EXCEPT ![r] = NoReview] /\ UNCHANGED <<status, decisions>>
  <2>1. \A o \in Reviewers : review'[o] = IF o = r THEN NoReview ELSE review[o]
    BY <1>3 DEF FollowInv, ExpenseShape, ReviewShape
  <2>2. review' \in [Reviewers -> Reviews]
    BY <1>3, NoReviewIsNone DEF FollowInv, ExpenseShape, ReviewShape
  <2>3. ExpenseShape'
    BY <1>1, <1>3, <2>2 DEF FollowInv, ExpenseShape, ReviewShape
  <2>4. \A f \in Claims, o \in Reviewers :
          /\ Reviewing(o, f)' => Reviewing(o, f)
          /\ Reviewing(o, f)' /\ review'[o].step = "announce" <=> Reviewing(o, f) /\ review[o].step = "announce"
    BY <1>1, <2>1 DEF Reviewing, Under
  <2>5. \A f \in Claims : (Leaving(f)' <=> Leaving(f)) /\ (Coming(f)' <=> Coming(f))
    BY <1>1, <2>4 DEF Leaving, Coming
  <2> QED BY <1>1, <1>3, <2>3, <2>4, <2>5, ReviewFollows DEF LeavingKept
<1> QED BY <1>0, <1>2, <1>3 DEF WriteReview

LEMMA AnnounceFollows ==
  ASSUME FollowInv, NEW r \in Reviewers, AnnounceReview(r) PROVE FollowInv' /\ LeavingKept
<1> DEFINE e == review[r].claim
           new == <<"resolved", review[r].claim, review[r].verdict>>
<1>1. /\ Under(r) /\ review[r].step = "announce" /\ e \in Claims /\ review[r].verdict \in Verdicts
      /\ adds' = adds \cup {new} /\ review' = [review EXCEPT ![r] = NoReview]
      /\ UNCHANGED <<status, decisions, verdict, pendingRows, job, slot, late, lost>>
  BY ReviewShapes DEF AnnounceReview, jobQueue, FollowInv, ExpenseShape
<1>2. new \in {"resolved"} \X Claims \X Verdicts /\ new[1] = "resolved" /\ new[2] = e
  BY <1>1
<1>3. \A f : new # <<"created", f, "none">>
  OBVIOUS
<1>4. Reviewing(r, e)
  BY <1>1 DEF Reviewing
<1> HIDE DEF new, e
<1>5. \A o \in Reviewers : review'[o] = IF o = r THEN NoReview ELSE review[o]
  BY <1>1 DEF FollowInv, ExpenseShape, ReviewShape
<1>6. review' \in [Reviewers -> Reviews]
  BY <1>1, NoReviewIsNone DEF FollowInv, ExpenseShape, ReviewShape
<1>7. ExpenseShape'
  BY <1>1, <1>2, <1>6 DEF FollowInv, ExpenseShape, ReviewShape
<1>8. \A f \in Claims, o \in Reviewers :
        /\ Reviewing(o, f)' <=> Reviewing(o, f) /\ o # r
        /\ o # r => review'[o] = review[o]
        /\ Reviewing(r, f) => f = e
  BY <1>5 DEF Reviewing, Under, e
<1>9. ASSUME NEW f \in Claims
      PROVE  (Leaving(f)' <=> Leaving(f)) /\ (Coming(f)' <=> Coming(f))
  <2>1. Coming(f)' <=> Coming(f)
    BY <1>1, <1>3 DEF Coming
  <2>2. CASE f = e
    <3>1. \E a \in adds' : a[1] = "resolved" /\ a[2] = f
      BY <1>1, <1>2, <2>2
    <3>2. Leaving(f)
      BY <1>1, <1>4, <2>2 DEF Leaving
    <3> QED BY <2>1, <3>1, <3>2 DEF Leaving
  <2>3. CASE f # e
    <3>1. (\E a \in adds' : a[1] = "resolved" /\ a[2] = f) <=> (\E a \in adds : a[1] = "resolved" /\ a[2] = f)
      BY <1>1, <1>2, <2>3
    <3>2. \A o \in Reviewers : Reviewing(o, f)' /\ review'[o].step = "announce" <=>
                               Reviewing(o, f) /\ review[o].step = "announce"
      BY <1>8, <2>3
    <3> QED BY <1>1, <2>1, <3>1, <3>2 DEF Leaving
  <2> QED BY <2>1, <2>2, <2>3
<1> QED BY <1>1, <1>7, <1>8, <1>9, ReviewFollows DEF LeavingKept

LEMMA LandFollows ==
  ASSUME FollowInv, NEW a \in adds, LandAdd(a) PROVE FollowInv' /\ (lost' \/ LeavingKept)
<1> DEFINE j == <<a[1], a[2]>>
<1>0. PICK e \in Claims : e = a[2]
  BY DEF FollowInv, ExpenseShape
<1>1. \/ a = <<"created", e, "none">> /\ j = <<"created", e>>
      \/ a[1] = "resolved" /\ a[3] \in Verdicts /\ j = <<"resolved", e>>
  <2>1. CASE a \in {"created"} \X Claims \X {"none"}
    BY <1>0, <2>1
  <2>2. CASE a \in {"resolved"} \X Claims \X Verdicts
    BY <1>0, <2>2
  <2> QED BY <2>1, <2>2 DEF FollowInv, ExpenseShape
<1>2. j \in Kinds \X Claims /\ adds' = adds \ {a} /\ a \in adds
      /\ UNCHANGED <<status, review, pendingRows, decisions, late>>
  BY <1>1 DEF LandAdd, Kinds
<1> HIDE DEF j
<1>3. \A f \in Claims, r \in Reviewers : Reviewing(r, f)' <=> Reviewing(r, f)
  BY <1>2 DEF Reviewing, Under
<1>4. CASE Add(j) /\ UNCHANGED lost /\ verdict' \in [Claims -> Verdicts \cup {"none"}]
  <2>1. /\ slot' = slot
        /\ job' \in [Kinds \X Claims -> {"none", "queued", "active", "failed"}]
        /\ \A i \in Kinds \X Claims : job'[i] = IF i = j /\ job[i] = "none" THEN "queued" ELSE job[i]
    BY <1>2, <1>4, JobAdded DEF FollowInv
  <2>2. ExpenseShape'
    <3>1. \A k \in Slots : slot[k] # Free => slot[k].job \in Kinds \X Claims
      BY DEF FollowInv, ExpenseShape, Works
    <3>2. ReviewShape'
      BY <1>2 DEF FollowInv, ExpenseShape, ReviewShape
    <3> QED BY <1>2, <1>4, <2>1, <3>1, <3>2 DEF FollowInv, ExpenseShape
  <2>3. ASSUME NEW f \in Claims
        PROVE  (Leaving(f)' <=> Leaving(f)) /\ (Coming(f)' <=> Coming(f))
    <3>1. <<"created", f>> \in Kinds \X Claims /\ <<"resolved", f>> \in Kinds \X Claims
      BY DEF Kinds
    <3>2. /\ job'[<<"created", f>>] = "none" <=> job[<<"created", f>>] = "none" /\ j # <<"created", f>>
          /\ job'[<<"resolved", f>>] = "none" <=> job[<<"resolved", f>>] = "none" /\ j # <<"resolved", f>>
      BY <2>1, <3>1
    <3>3. Coming(f)' <=> Coming(f)
      BY <1>1, <1>2, <3>2 DEF Coming
    <3>4. (\E b \in adds : b[1] = "resolved" /\ b[2] = f) <=>
            (\E b \in adds' : b[1] = "resolved" /\ b[2] = f) \/ (a[1] = "resolved" /\ f = e)
      BY <1>0, <1>2
    <3>5. j = <<"resolved", f>> <=> a[1] = "resolved" /\ f = e
      BY <1>1
    <3>6. Leaving(f)' <=> Leaving(f)
      BY <1>2, <1>3, <3>2, <3>4, <3>5 DEF Leaving
    <3> QED BY <3>3, <3>6
  <2> QED BY <1>2, <1>3, <1>4, <2>1, <2>2, <2>3
      DEF FollowInv, InOrder, RowsFollow, EarlyOf, FollowsOf, LeavingKept
<1>5. CASE lost' = TRUE /\ UNCHANGED <<job, slot, verdict>>
  <2>1. ExpenseShape'
    BY <1>2, <1>5 DEF FollowInv, ExpenseShape, ReviewShape
  <2>2. \A f \in Claims : (Leaving(f)' => Leaving(f)) /\ (Coming(f)' => Coming(f))
    BY <1>2, <1>3, <1>5 DEF Leaving, Coming
  <2> QED BY <1>2, <1>3, <1>5, <2>1, <2>2 DEF FollowInv, InOrder, RowsFollow, EarlyOf
<1>6. ASSUME Add(j), UNCHANGED lost,
             verdict' = IF a[1] = "resolved" /\ job[j] = "none" THEN [verdict EXCEPT ![a[2]] = a[3]]
                        ELSE verdict
      PROVE  verdict' \in [Claims -> Verdicts \cup {"none"}]
  BY <1>0, <1>1, <1>6 DEF FollowInv, ExpenseShape
<1> QED BY <1>4, <1>5, <1>6 DEF LandAdd, j, jobQueue

LEMMA RunFollows ==
  ASSUME FollowInv, NEW k \in Slots, NEW j \in DOMAIN job, RunJob(k, j) PROVE FollowInv' /\ LeavingKept
<1> DEFINE first == IF j[1] = "created" THEN "insert" ELSE "delete"
<1>1. /\ Take(k, j, first)
      /\ late' = IF j[1] = "resolved" /\ ~CreatedDone(j[2]) THEN late \cup {j[2]} ELSE late
      /\ UNCHANGED <<status, review, adds, verdict, pendingRows, decisions, lost>>
  BY DEF RunJob
<1>2. first \in {"insert", "delete"} /\ (first = "insert" <=> j[1] = "created")
  OBVIOUS
<1> HIDE DEF first
<1> DEFINE new == [step |-> first, job |-> j, read |-> {}]
<1>3. /\ j \in Kinds \X Claims /\ slot[k] = Free /\ job[j] = "queued"
      /\ \A i \in Kinds \X Claims : job'[i] = IF i = j THEN "active" ELSE job[i]
      /\ \A l \in Slots : slot'[l] = IF l = k THEN new ELSE slot[l]
      /\ new # Free /\ ExpenseShape'
  BY <1>1, <1>2, Taken DEF FollowInv
<1>4. new.job = j /\ new.step = first
  OBVIOUS
<1> HIDE DEF new
<1>5. \A f \in Claims, r \in Reviewers : Reviewing(r, f)' <=> Reviewing(r, f)
  BY <1>1 DEF Reviewing, Under
<1>6. ASSUME NEW f \in Claims
      PROVE  (Leaving(f)' <=> Leaving(f)) /\ (Coming(f)' <=> Coming(f))
  <2>1. <<"created", f>> \in Kinds \X Claims /\ <<"resolved", f>> \in Kinds \X Claims
    BY DEF Kinds
  <2>2. /\ job'[<<"created", f>>] = "none" <=> job[<<"created", f>>] = "none"
        /\ job'[<<"resolved", f>>] = "none" <=> job[<<"resolved", f>>] = "none"
    BY <1>3, <2>1
  <2>3. Coming(f)' <=> Coming(f)
    BY <1>1, <2>2 DEF Coming
  <2>4. Leaving(f)' <=> Leaving(f)
    BY <1>1, <1>5, <2>2 DEF Leaving
  <2> QED BY <2>3, <2>4
<1>7. ASSUME NEW f \in Claims, ~lost, f \notin late'
      PROVE  FollowsOf(f)'
  <2>1. f \notin late /\ FollowsOf(f)
    BY <1>1, <1>7 DEF FollowInv, RowsFollow
  <2>2. j = <<"resolved", f>> => ~Coming(f)
    BY <1>1, <1>7 DEF CreatedDone, Coming
  <2>3. ASSUME NEW l \in Slots, slot'[l] # Free, slot'[l].job = <<"resolved", f>>
        PROVE  ~Coming(f)' /\ (slot'[l].step \in PastDelete => f \notin pendingRows')
    <3>1. CASE l = k
      BY <1>2, <1>3, <1>4, <1>6, <2>2, <2>3, <3>1 DEF PastDelete
    <3>2. CASE l # k
      BY <1>1, <1>3, <1>6, <2>1, <2>3, <3>2 DEF FollowsOf
    <3> QED BY <3>1, <3>2
  <2>4. /\ status'[f] = "PENDING" => f \in pendingRows' \/ Coming(f)'
        /\ status'[f] \in Verdicts => Leaving(f)' \/ (~Coming(f)' /\ f \notin pendingRows')
    BY <1>1, <1>6, <2>1 DEF FollowsOf
  <2>5. ASSUME NEW l \in Slots, slot'[l] # Free, slot'[l].job = <<"created", f>>, slot'[l].step = "done"
        PROVE  f \in pendingRows'
    BY <1>1, <1>2, <1>3, <1>4, <2>1, <2>5 DEF FollowsOf
  <2> QED BY <2>3, <2>4, <2>5 DEF FollowsOf
<1>8. \A f \in Claims : EarlyOf(f)'
  BY <1>1, <1>5, <1>6 DEF FollowInv, InOrder, EarlyOf
<1> QED BY <1>1, <1>3, <1>6, <1>7, <1>8 DEF FollowInv, InOrder, RowsFollow, LeavingKept

\* A "created" job leaves its slot, to be taken again or with its row in place.
LEMMA CreatedLeaves ==
  ASSUME FollowInv, NEW k \in Slots, slot[k] # Free, NEW e \in Claims, slot[k].job = <<"created", e>>,
         Throw(k) \/ (Done(k) /\ slot[k].step = "done"),
         UNCHANGED <<status, review, adds, verdict, pendingRows, decisions, late, lost>>
  PROVE  FollowInv' /\ LeavingKept
<1>1. Left(k) /\ (Throw(k) => job'[<<"created", e>>] # "none")
  BY Finished DEF FollowInv
<1>2. Coming(e)
  BY DEF Coming, FollowInv, ExpenseShape
<1>3. ExpenseShape'
  BY <1>1, LeftShape DEF FollowInv, ExpenseShape
<1>4. \A f \in Claims, r \in Reviewers : Reviewing(r, f)' <=> Reviewing(r, f)
  BY DEF Reviewing, Under
<1>5. ASSUME NEW f \in Claims
      PROVE  /\ Leaving(f)' <=> Leaving(f)
             /\ Coming(f)' => Coming(f)
             /\ f # e \/ Throw(k) => (Coming(f)' <=> Coming(f))
  <2>1. /\ <<"created", f>> \in Kinds \X Claims /\ <<"resolved", f>> \in Kinds \X Claims
        /\ <<"resolved", f>> # <<"created", e>> /\ f # e => <<"created", f>> # <<"created", e>>
    BY DEF Kinds
  <2>2. /\ job'[<<"resolved", f>>] = job[<<"resolved", f>>]
        /\ f # e => job'[<<"created", f>>] = job[<<"created", f>>]
    BY <1>1, <2>1 DEF Left
  <2>3. Leaving(f)' <=> Leaving(f)
    BY <1>4, <2>2 DEF Leaving
  <2>4. Coming(f)' => Coming(f)
    BY <1>2, <2>2 DEF Coming
  <2>5. f # e => (Coming(f)' <=> Coming(f))
    BY <2>2 DEF Coming
  <2>6. Throw(k) /\ f = e => (Coming(f)' <=> Coming(f))
    BY <1>1, <1>2 DEF Coming
  <2> QED BY <2>3, <2>4, <2>5, <2>6
<1>6. ASSUME NEW f \in Claims PROVE EarlyOf(f)'
  <2>1. EarlyOf(f)
    BY DEF FollowInv, InOrder
  <2> QED BY <1>4, <1>5, <2>1, StaysEarly
<1>7. \A l \in Slots : slot'[l] # Free => l # k /\ slot'[l] = slot[l]
  BY <1>1 DEF Left
<1>8. ASSUME NEW f \in Claims, FollowsOf(f) PROVE FollowsOf(f)'
  <2>1. CASE f # e \/ Throw(k)
    BY <1>5, <1>7, <1>8, <2>1, StaysFollowed
  <2>2. CASE f = e /\ slot[k].step = "done"
    <3>1. f \in pendingRows
      BY <1>8, <2>2 DEF FollowsOf
    <3>2. \A l \in Slots : slot'[l] # Free => slot'[l].job # <<"resolved", f>>
      BY <1>2, <1>7, <1>8, <2>2 DEF FollowsOf
    <3>3. status'[f] \in Verdicts => Leaving(f)'
      BY <1>2, <1>5, <1>8, <2>2 DEF FollowsOf
    <3> QED BY <3>1, <3>2, <3>3 DEF FollowsOf
  <2> QED BY <2>1, <2>2
<1> QED BY <1>3, <1>5, <1>6, <1>8 DEF FollowInv, InOrder, RowsFollow, LeavingKept

\* What a slot does with its job, as seen by the claims: it goes on, or leaves it.
LEMMA InsertFollows ==
  ASSUME FollowInv, NEW k \in Slots, InsertPending(k) PROVE FollowInv' /\ LeavingKept
<1>1. /\ slot[k] # Free /\ slot[k].step = "insert"
      /\ UNCHANGED <<status, review, adds, verdict, decisions, late, lost>>
  BY DEF InsertPending, Runs
<1>2. PICK e \in Claims : slot[k].job = <<"created", e>>
  BY <1>1 DEF FollowInv, ExpenseShape, Works
<1>3. CASE Throw(k) /\ UNCHANGED pendingRows
  BY <1>1, <1>2, <1>3, CreatedLeaves
<1>4. CASE Continue(k, "done", {}) /\ pendingRows' = pendingRows \cup {e}
  <2>1. Coming(e)
    BY <1>1, <1>2 DEF Coming, FollowInv, ExpenseShape
  <2>2. "done" \in PastDelete /\ {} \in SUBSET Claims /\ pendingRows' \subseteq Claims
    BY <1>4 DEF PastDelete, FollowInv, ExpenseShape
  <2>3. /\ job' = job /\ ExpenseShape'
        /\ \A l \in Slots : l # k => slot'[l] = slot[l]
        /\ slot'[k] # Free /\ slot'[k].step = "done" /\ slot'[k].job = slot[k].job
    BY <1>1, <1>4, <2>2, Continued, ContinuedShape DEF FollowInv
  <2>4. \A f \in Claims, r \in Reviewers : Reviewing(r, f)' <=> Reviewing(r, f)
    BY <1>1 DEF Reviewing, Under
  <2>5. \A f \in Claims : (Leaving(f)' <=> Leaving(f)) /\ (Coming(f)' <=> Coming(f))
    BY <1>1, <2>3, <2>4 DEF Leaving, Coming
  <2>6. status[e] # "none"
    BY <2>1 DEF FollowInv, InOrder, EarlyOf
  <2>7. ASSUME NEW f \in Claims PROVE EarlyOf(f)'
    <3>1. EarlyOf(f)
      BY DEF FollowInv, InOrder
    <3> QED BY <1>1, <1>4, <2>4, <2>5, <2>6, <3>1 DEF EarlyOf
  <2>8. ASSUME NEW f \in Claims, FollowsOf(f) PROVE FollowsOf(f)'
    <3>1. CASE f # e
      <4>1. f \in pendingRows' <=> f \in pendingRows
        BY <1>4, <3>1
      <4>2. \A l \in Slots : slot'[l] # Free /\ slot'[l].job \in {<<"created", f>>, <<"resolved", f>>} =>
              slot'[l] = slot[l]
        BY <1>2, <2>3, <3>1
      <4> QED BY <1>1, <2>5, <2>8, <4>1, <4>2, StaysFollowed
    <3>2. CASE f = e
      <4>1. \A l \in Slots : slot'[l] # Free => slot'[l].job # <<"resolved", f>>
        BY <1>2, <2>1, <2>3, <2>8, <3>2 DEF FollowsOf
      <4>2. status'[f] \in Verdicts => Leaving(f)'
        BY <1>1, <2>1, <2>5, <2>8, <3>2 DEF FollowsOf
      <4> QED BY <1>4, <3>2, <4>1, <4>2 DEF FollowsOf
    <3> QED BY <3>1, <3>2
  <2> QED BY <1>1, <2>3, <2>5, <2>7, <2>8 DEF FollowInv, InOrder, RowsFollow, LeavingKept
<1> QED BY <1>2, <1>3, <1>4 DEF InsertPending

\* A "resolved" job runs: the claim is leaving, and nothing brings it back.
LEMMA Resolving ==
  ASSUME FollowInv, NEW k \in Slots, slot[k] # Free, NEW e \in Claims, slot[k].job = <<"resolved", e>>
  PROVE  /\ Leaving(e) /\ status[e] \notin {"none", "PENDING"}
         /\ ~lost /\ e \notin late => ~Coming(e)
         /\ ~lost /\ e \notin late /\ slot[k].step \in PastDelete => e \notin pendingRows
<1>1. Leaving(e)
  BY DEF FollowInv, ExpenseShape, Leaving
<1>2. status[e] \notin {"none", "PENDING"}
  BY <1>1 DEF FollowInv, InOrder, EarlyOf
<1>3. ~lost /\ e \notin late => FollowsOf(e)
  BY DEF FollowInv, RowsFollow
<1> QED BY <1>1, <1>2, <1>3 DEF FollowsOf

\* It goes on, with its row gone or about to be.
LEMMA ContinueFollows ==
  ASSUME FollowInv, NEW k \in Slots, slot[k] # Free,
         NEW step \in PastDelete, NEW read \in SUBSET Claims, Continue(k, step, read),
         UNCHANGED <<status, review, adds, verdict, decisions, late>>, lost => lost',
         NEW e \in Claims, slot[k].job = <<"resolved", e>>,
         pendingRows' \subseteq pendingRows, pendingRows \ {e} \subseteq pendingRows',
         lost' \/ e \notin pendingRows' \/ (slot[k].step \in PastDelete /\ pendingRows' = pendingRows)
  PROVE  FollowInv' /\ LeavingKept
<1>1. /\ job' = job
      /\ \A l \in Slots : l # k => slot'[l] = slot[l]
      /\ slot'[k] # Free /\ slot'[k].step = step /\ slot'[k].job = slot[k].job
  BY Continued DEF FollowInv
<1>2. ExpenseShape'
  BY ContinuedShape DEF FollowInv, ExpenseShape
<1>3. \A f \in Claims, r \in Reviewers : Reviewing(r, f)' <=> Reviewing(r, f)
  BY DEF Reviewing, Under
<1>4. \A f \in Claims : (Leaving(f)' <=> Leaving(f)) /\ (Coming(f)' <=> Coming(f))
  BY <1>1, <1>3 DEF Leaving, Coming
<1>5. \A f \in Claims : EarlyOf(f)'
  BY <1>3, <1>4 DEF FollowInv, InOrder, EarlyOf
<1>6. ASSUME NEW f \in Claims, ~lost', f \notin late'
      PROVE  FollowsOf(f)'
  <2>1. FollowsOf(f)
    BY <1>6 DEF FollowInv, RowsFollow
  <2>2. CASE f # e
    <3>1. f \in pendingRows' <=> f \in pendingRows
      BY <2>2
    <3>2. \A l \in Slots : slot'[l] # Free /\ slot'[l].job \in {<<"created", f>>, <<"resolved", f>>} =>
            slot'[l] = slot[l]
      BY <1>1, <2>2
    <3> QED BY <1>4, <2>1, <3>1, <3>2, StaysFollowed
  <2>3. CASE f = e
    <3>1. Leaving(f)' /\ ~Coming(f)' /\ f \notin pendingRows' /\ status'[f] \notin {"none", "PENDING"}
      BY <1>4, <1>6, <2>3, Resolving
    <3>2. \A l \in Slots : slot'[l] # Free => slot'[l].job # <<"created", f>>
      BY <1>2, <3>1 DEF ExpenseShape, Coming
    <3> QED BY <3>1, <3>2 DEF FollowsOf
  <2> QED BY <2>2, <2>3
<1> QED BY <1>2, <1>4, <1>5, <1>6 DEF FollowInv, InOrder, RowsFollow, LeavingKept

\* Or it leaves its slot, for good or to be taken again.
LEMMA LeaveFollows ==
  ASSUME FollowInv, NEW k \in Slots, slot[k] # Free, Done(k) \/ Throw(k),
         UNCHANGED <<status, review, adds, verdict, decisions, late>>, lost => lost',
         NEW e \in Claims, slot[k].job = <<"resolved", e>>,
         pendingRows' \subseteq pendingRows, pendingRows \ {e} \subseteq pendingRows',
         lost' \/ e \notin pendingRows' \/ (slot[k].step \in PastDelete /\ pendingRows' = pendingRows)
  PROVE  FollowInv' /\ \A f \in Claims \ {e} : Leaving(f) => Leaving(f)'
<1>1. Left(k)
  BY Finished DEF FollowInv
<1>2. pendingRows' \subseteq Claims
  BY DEF FollowInv, ExpenseShape
<1>3. ExpenseShape'
  BY <1>1, <1>2, LeftShape DEF FollowInv
<1>4. \A f \in Claims, r \in Reviewers : Reviewing(r, f)' <=> Reviewing(r, f)
  BY DEF Reviewing, Under
<1>5. ASSUME NEW f \in Claims
      PROVE  /\ Coming(f)' <=> Coming(f)
             /\ f # e => (Leaving(f)' <=> Leaving(f))
  <2>1. <<"created", f>> \in Kinds \X Claims /\ <<"resolved", f>> \in Kinds \X Claims
    BY DEF Kinds
  <2>2. /\ job'[<<"created", f>>] = job[<<"created", f>>]
        /\ f # e => job'[<<"resolved", f>>] = job[<<"resolved", f>>]
    BY <1>1, <2>1 DEF Left
  <2>3. Coming(f)' <=> Coming(f)
    BY <2>2 DEF Coming
  <2>4. f # e => (Leaving(f)' <=> Leaving(f))
    BY <1>4, <2>2 DEF Leaving
  <2> QED BY <2>3, <2>4
<1>6. /\ Leaving(e) /\ status[e] \notin {"none", "PENDING"}
      /\ ~lost /\ e \notin late => ~Coming(e)
      /\ ~lost /\ e \notin late /\ slot[k].step \in PastDelete => e \notin pendingRows
  BY Resolving
<1>8. ASSUME NEW f \in Claims PROVE EarlyOf(f)'
  <2>1. EarlyOf(f)
    BY DEF FollowInv, InOrder
  <2>2. CASE f # e
    BY <1>4, <1>5, <2>1, <2>2, StaysEarly
  <2>3. CASE f = e
    BY <1>6, <2>3 DEF EarlyOf
  <2> QED BY <2>2, <2>3
<1>9. ASSUME NEW f \in Claims, ~lost', f \notin late'
      PROVE  FollowsOf(f)'
  <2>1. FollowsOf(f)
    BY <1>9 DEF FollowInv, RowsFollow
  <2>2. \A l \in Slots : slot'[l] # Free => l # k /\ slot[l] # Free /\ slot'[l] = slot[l]
    BY <1>1 DEF Left
  <2>3. CASE f # e
    <3>1. f \in pendingRows' <=> f \in pendingRows
      BY <2>3
    <3> QED BY <1>5, <2>1, <2>2, <2>3, <3>1, StaysFollowed
  <2>4. CASE f = e
    <3>1. ~Coming(f)' /\ f \notin pendingRows' /\ status'[f] \notin {"none", "PENDING"}
      BY <1>5, <1>6, <1>9, <2>4
    <3>2. \A l \in Slots : slot'[l] # Free => slot'[l].job # <<"created", f>>
      BY <1>3, <3>1 DEF ExpenseShape, Coming
    <3> QED BY <3>1, <3>2 DEF FollowsOf
  <2> QED BY <2>3, <2>4
<1> QED BY <1>3, <1>5, <1>8, <1>9 DEF FollowInv, InOrder, RowsFollow

\* Which job a slot runs, by its step.
LEMMA ResolvedSlot ==
  ASSUME ExpenseShape, NEW k \in Slots, slot[k] # Free, slot[k].step \in {"delete", "read", "sum"}
  PROVE  \E e \in Claims : slot[k].job = <<"resolved", e>> /\ Resolves(k)
BY DEF ExpenseShape, Works, Kinds, Resolves

LEMMA FinishFollows ==
  ASSUME FollowInv, NEW k \in Slots, FinishJob(k) PROVE FollowInv'
<1>1. /\ slot[k] # Free /\ slot[k].step = "done" /\ Done(k)
      /\ UNCHANGED <<status, review, adds, verdict, pendingRows, decisions, late, lost>>
  BY DEF FinishJob, Runs
<1>2. PICK e \in Claims : slot[k].job \in {<<"created", e>>, <<"resolved", e>>}
  BY <1>1 DEF FollowInv, ExpenseShape, Works, Kinds
<1>3. CASE slot[k].job = <<"created", e>>
  BY <1>1, <1>3, CreatedLeaves
<1>4. CASE slot[k].job = <<"resolved", e>>
  BY <1>1, <1>4, LeaveFollows DEF PastDelete
<1> QED BY <1>2, <1>3, <1>4

LEMMA SlotFollows ==
  ASSUME FollowInv, NEW k \in Slots, SlotStep(k) PROVE FollowInv'
<1>1. CASE InsertPending(k)
  BY <1>1, InsertFollows
<1>2. CASE FinishJob(k)
  BY <1>2, FinishFollows
<1>3. ASSUME slot[k] # Free, slot[k].step \in {"delete", "read", "sum"}
      PROVE  \E e \in Claims : slot[k].job = <<"resolved", e>>
  BY <1>3, ResolvedSlot DEF FollowInv
<1>4. CASE DeletePending(k)
  <2>a. /\ slot[k] # Free /\ slot[k].step = "delete"
        /\ UNCHANGED <<status, review, adds, verdict, decisions, late>> /\ (lost => lost')
    BY <1>4 DEF DeletePending, Runs
  <2>1. PICK e \in Claims : slot[k].job = <<"resolved", e>>
    BY <1>3, <2>a
  <2>2. pendingRows' = pendingRows \ {e} \/ (lost' /\ UNCHANGED pendingRows)
    BY <1>4, <2>1 DEF DeletePending
  <2>3. PICK step \in PastDelete : Continue(k, step, {})
    BY <1>4 DEF DeletePending, PastDelete
  <2>4. /\ pendingRows' \subseteq pendingRows /\ pendingRows \ {e} \subseteq pendingRows'
        /\ lost' \/ e \notin pendingRows'
        /\ {} \in SUBSET Claims
    BY <2>2
  <2> QED BY <2>a, <2>1, <2>3, <2>4, ContinueFollows
<1>5. CASE ReadApproved(k)
  <2>a. /\ slot[k] # Free /\ slot[k].step = "read"
        /\ UNCHANGED <<status, review, adds, verdict, decisions, late, pendingRows>> /\ (lost => lost')
    BY <1>5 DEF ReadApproved, Runs
  <2>1. PICK e \in Claims : slot[k].job = <<"resolved", e>>
    BY <1>3, <2>a
  <2>2. PICK read \in SUBSET Claims : Continue(k, "sum", read)
    BY <1>5 DEF ReadApproved, Approved
  <2>3. "sum" \in PastDelete /\ slot[k].step \in PastDelete
    BY <2>a DEF PastDelete
  <2> QED BY <2>a, <2>1, <2>2, <2>3, ContinueFollows
<1>6. CASE WriteSum(k)
  <2>a. /\ slot[k] # Free /\ slot[k].step = "sum"
        /\ UNCHANGED <<status, review, adds, verdict, decisions, late, pendingRows>> /\ (lost => lost')
    BY <1>6 DEF WriteSum, Runs
  <2>1. PICK e \in Claims : slot[k].job = <<"resolved", e>>
    BY <1>3, <2>a
  <2>2. "done" \in PastDelete /\ slot[k].step \in PastDelete /\ {} \in SUBSET Claims
    BY <2>a DEF PastDelete
  <2>3. CASE Continue(k, "done", {})
    BY <2>a, <2>1, <2>2, <2>3, ContinueFollows
  <2>4. CASE Throw(k)
    BY <2>a, <2>1, <2>2, <2>4, LeaveFollows
  <2> QED BY <1>6, <2>3, <2>4 DEF WriteSum
<1> QED BY <1>1, <1>2, <1>4, <1>5, <1>6 DEF SlotStep

LEMMA FollowStep == FollowInv /\ [ExpensesNext]_expensesVars => FollowInv'
<1> SUFFICES ASSUME FollowInv, [ExpensesNext]_expensesVars PROVE FollowInv'
  OBVIOUS
<1>1. CASE UNCHANGED expensesVars \/ \E j \in filing : FileDeadLetter(j)
  <2>1. UNCHANGED <<status, review, adds, verdict, pendingRows, job, slot, decisions, late, lost>>
    BY <1>1 DEF expensesVars, jobQueue, FileDeadLetter, File, FileFails
  <2>2. ExpenseShape'
    BY <2>1 DEF FollowInv, ExpenseShape, ReviewShape
  <2>3. \A f \in Claims, r \in Reviewers : Reviewing(r, f)' <=> Reviewing(r, f)
    BY <2>1 DEF Reviewing, Under
  <2>4. \A f \in Claims : (Leaving(f)' <=> Leaving(f)) /\ (Coming(f)' <=> Coming(f))
    BY <2>1, <2>3 DEF Leaving, Coming
  <2> QED BY <2>1, <2>2, <2>3, <2>4, ReviewFollows
<1> QED
  BY <1>1, CreateFollows, BeginFollows, WriteFollows, AnnounceFollows, LandFollows, RunFollows,
     SlotFollows DEF ExpensesNext

LEMMA FollowInit == ExpensesInit => FollowInv
<1> SUFFICES ASSUME ExpensesInit PROVE FollowInv
  OBVIOUS
<1>1. ExpenseShape
  BY ReviewInitInv DEF ExpensesInit, ExpenseShape, ReviewInv, QueueInit, Works, Kinds
<1>2. \A e \in Claims : <<"created", e>> \in Kinds \X Claims /\ <<"resolved", e>> \in Kinds \X Claims
  BY DEF Kinds
<1>3. \A e \in Claims : ~Coming(e) /\ ~Leaving(e) /\ status[e] = "none" /\ \A r \in Reviewers : ~Reviewing(r, e)
  BY <1>2 DEF ExpensesInit, QueueInit, Coming, Leaving, Reviewing, Under, Kinds
<1>4. \A e \in Claims : EarlyOf(e) /\ FollowsOf(e)
  BY <1>3 DEF ExpensesInit, QueueInit, EarlyOf, FollowsOf, Verdicts
<1> QED BY <1>1, <1>4 DEF FollowInv, InOrder, RowsFollow

\* Once nothing is left to do for a claim, the snapshot's list of pending expenses
\* says of it what the full table says, as long as its jobs ran in their order
\* and no error was swallowed: for any number of reviews, retries and slots.
THEOREM SnapshotFollowsTable == ExpensesSpec => []PendingFollows
<1>1. FollowInv => PendingFollows
  <2> SUFFICES ASSUME FollowInv, ~lost
               PROVE  /\ \A e \in Claims \ late :
                           Settled(e) => (e \in PendingList(FALSE) <=> e \in PendingList(TRUE))
                      /\ late = {} /\ (\A e \in Claims : Settled(e)) =>
                           SummaryByEmployee.pendingCount = Cardinality(PendingList(FALSE))
    BY DEF PendingFollows
  <2>1. /\ PendingList(FALSE) = pendingRows /\ pendingRows \subseteq Claims
        /\ PendingList(TRUE) = {e \in Claims : status[e] = "PENDING"}
        /\ SummaryByEmployee.pendingCount = Cardinality(PendingList(TRUE))
    BY DEF PendingList, PendingFromSnapshot, Listed, SummaryByEmployee, FollowInv, ExpenseShape, Verdicts
  <2>2. ASSUME NEW e \in Claims \ late, Settled(e)
        PROVE  e \in pendingRows <=> status[e] = "PENDING"
    <3>1. ~Coming(e) /\ ~Leaving(e)
      <4>1. <<"created", e, "none">>[2] = e
        OBVIOUS
      <4> QED BY <2>2, <4>1 DEF Settled, Coming, Leaving, Reviewing
    <3>2. status[e] \in {"none", "PENDING"} \cup Verdicts
      BY DEF FollowInv, ExpenseShape, ReviewShape, Statuses
    <3>3. EarlyOf(e) /\ FollowsOf(e)
      BY DEF FollowInv, InOrder, RowsFollow
    <3> QED BY <3>1, <3>2, <3>3 DEF EarlyOf, FollowsOf, Verdicts
  <2>3. ASSUME late = {}, \A e \in Claims : Settled(e)
        PROVE  PendingList(TRUE) = PendingList(FALSE)
    BY <2>1, <2>2, <2>3
  <2> QED BY <2>1, <2>2, <2>3
<1> QED
  BY <1>1, FollowInit, FollowStep, PTL DEF ExpensesSpec

-----------------------------------------------------------------------------
(* The total.                                                              *)

\* A step that leaves the statuses, and the verdicts of the jobs.
LEMMA VerdictStays ==
  ASSUME OneVerdict, UNCHANGED <<status, verdict>>,
         \A r \in Reviewers, e \in Claims : Reviewing(r, e)' =>
           \/ Reviewing(r, e) /\ review'[r] = review[r]
           \/ review'[r].step = "write" /\ status[e] = "PENDING",
         \A a \in adds' : a \in adds \/ a[3] = status[a[2]],
         \A e \in Claims : job'[<<"resolved", e>>] # "none" => job[<<"resolved", e>>] # "none"
  PROVE  OneVerdict'
<1> SUFFICES ASSUME NEW e \in Claims
             PROVE  /\ \A r \in Reviewers : Reviewing(r, e)' =>
                         IF review'[r].step = "write" THEN status[e] = "PENDING"
                         ELSE review'[r].verdict = status[e]
                    /\ \A a \in adds' : a[1] = "resolved" /\ a[2] = e => a[3] = status[e]
                    /\ job'[<<"resolved", e>>] # "none" => verdict[e] = status[e]
  BY DEF OneVerdict
<1>1. ASSUME NEW r \in Reviewers, Reviewing(r, e)'
      PROVE  IF review'[r].step = "write" THEN status[e] = "PENDING" ELSE review'[r].verdict = status[e]
  <2>1. CASE Reviewing(r, e) /\ review'[r] = review[r]
    <3>1. IF review[r].step = "write" THEN status[e] = "PENDING" ELSE review[r].verdict = status[e]
      BY <2>1 DEF OneVerdict
    <3> QED BY <2>1, <3>1
  <2>2. CASE review'[r].step = "write" /\ status[e] = "PENDING"
    BY <2>2
  <2> QED BY <1>1, <2>1, <2>2
<1>2. ASSUME NEW a \in adds', a[1] = "resolved", a[2] = e
      PROVE  a[3] = status[e]
  BY <1>2 DEF OneVerdict
<1> QED BY <1>1, <1>2 DEF OneVerdict

\* A step that leaves the total, and takes nothing from what it is made of.
LEMMA TotalStays ==
  ASSUME TotalGrows, Approved' = Approved, UNCHANGED approvedSum,
         \A e \in Approved : e \in approvedSum \/ Leaving(e)',
         \A k \in Slots : slot'[k] # Free =>
           slot'[k] = slot[k] \/ (slot'[k].job[1] = "created" /\ slot'[k].step = "done")
  PROVE  TotalGrows'
<1>1. \A k \in Slots : Resolves(k)' => Resolves(k) /\ slot'[k] = slot[k]
  BY DEF Resolves
<1>2. \A k \in Slots, step \in {"read", "sum"} : Runs(k, step)' => Runs(k, step) /\ slot'[k] = slot[k]
  BY DEF Runs
<1>3. \A k \in Slots : Runs(k, "done")' /\ Resolves(k)' => Runs(k, "done")
  BY <1>1 DEF Runs
<1> QED BY <1>1, <1>2, <1>3 DEF TotalGrows

LEMMA CreateTotals ==
  ASSUME FollowInv, OneVerdict, TotalGrows, NEW e \in Claims, CreateExpense(e)
  PROVE  OneVerdict' /\ TotalGrows'
<1>1. /\ status[e] = "none" /\ status' = [status EXCEPT ![e] = "PENDING"]
      /\ adds' = adds \cup {<<"created", e, "none">>}
      /\ UNCHANGED <<review, verdict, approvedSum, job, slot>>
  BY DEF CreateExpense, jobQueue
<1>2. \A f \in Claims : status'[f] = IF f = e THEN "PENDING" ELSE status[f]
  BY <1>1 DEF FollowInv, ExpenseShape, ReviewShape
<1>3. ~Leaving(e) /\ \A r \in Reviewers : ~Reviewing(r, e)
  BY <1>1 DEF FollowInv, InOrder, EarlyOf
<1>4. \A f \in Claims, r \in Reviewers : Reviewing(r, f)' <=> Reviewing(r, f)
  BY <1>1 DEF Reviewing, Under
<1>5. \A f \in Claims : Leaving(f) => Leaving(f)'
  BY <1>1, <1>4 DEF Leaving
<1>6. \A b \in adds' : b[1] = "resolved" => b \in adds
  BY <1>1
<1>7. OneVerdict'
  <2> SUFFICES ASSUME NEW f \in Claims
               PROVE  /\ \A r \in Reviewers : Reviewing(r, f)' =>
                           IF review'[r].step = "write" THEN status'[f] = "PENDING"
                           ELSE review'[r].verdict = status'[f]
                      /\ \A a \in adds' : a[1] = "resolved" /\ a[2] = f => a[3] = status'[f]
                      /\ job'[<<"resolved", f>>] # "none" => verdict'[f] = status'[f]
    BY DEF OneVerdict
  <2>1. CASE f = e
    BY <1>1, <1>3, <1>4, <1>6, <2>1 DEF Leaving
  <2>2. CASE f # e
    BY <1>1, <1>2, <1>4, <1>6, <2>2 DEF OneVerdict
  <2> QED BY <2>1, <2>2
<1>8. Approved' = Approved
  BY <1>1, <1>2 DEF Approved
<1>9. TotalGrows'
  <2>1. \A f \in Approved : f \in approvedSum \/ Leaving(f)'
    BY <1>5 DEF TotalGrows, Approved
  <2> QED BY <1>1, <1>8, <2>1, TotalStays DEF Approved
<1> QED BY <1>7, <1>9

LEMMA BeginTotals ==
  ASSUME FollowInv, OneVerdict, TotalGrows, NEW r \in Reviewers, NEW e \in Claims, NEW v \in Verdicts,
         BeginReview(r, e, v)
  PROVE  OneVerdict' /\ TotalGrows'
<1> DEFINE new == [step |-> "write", claim |-> e, verdict |-> v]
<1>1. /\ status[e] = "PENDING" /\ review' = [review EXCEPT ![r] = new]
      /\ UNCHANGED <<status, adds, verdict, approvedSum, job, slot>>
  BY DEF BeginReview, jobQueue
<1>2. new.step = "write" /\ new.claim = e
  OBVIOUS
<1> HIDE DEF new
<1>3. \A o \in Reviewers : review'[o] = IF o = r THEN new ELSE review[o]
  BY <1>1 DEF FollowInv, ExpenseShape, ReviewShape
<1>4. \A f \in Claims, o \in Reviewers :
        Reviewing(o, f)' => (o = r /\ f = e) \/ (Reviewing(o, f) /\ review'[o] = review[o])
  BY <1>2, <1>3 DEF Reviewing, Under
<1>5. OneVerdict'
  BY <1>1, <1>2, <1>3, <1>4, VerdictStays
<1>6. TotalGrows'
  <2>1. \A f \in Approved : f \in approvedSum \/ Leaving(f)'
    BY <1>1, BeginFollows DEF LeavingKept, TotalGrows, Approved
  <2> QED BY <1>1, <2>1, TotalStays DEF Approved
<1> QED BY <1>5, <1>6

LEMMA WriteTotals ==
  ASSUME FollowInv, ReviewInv, contested = {}, OneVerdict, TotalGrows, NEW r \in Reviewers, WriteReview(r)
  PROVE  OneVerdict' /\ TotalGrows'
<1>0. PICK e \in Claims : e = review[r].claim
  BY ReviewShapes DEF WriteReview, ReviewInv
<1>1. /\ review[r].step = "write" /\ review[r].verdict \in Verdicts /\ Reviewing(r, e) /\ review[r] \in Reviews
      /\ UNCHANGED <<adds, verdict, approvedSum, job, slot>>
  BY <1>0, ReviewShapes DEF WriteReview, jobQueue, ReviewInv, ReviewShape, Reviewing
<1>2. status[e] = "PENDING" /\ ~Leaving(e) /\ \A o \in Reviewers : Reviewing(o, e) => o = r
  <2>1. status[e] = "PENDING"
    BY <1>1 DEF OneVerdict
  <2>2. \A o \in Reviewers : Reviewing(o, e) => o = r
    BY <1>1 DEF ReviewInv, Alone
  <2> QED BY <2>1, <2>2 DEF FollowInv, InOrder, EarlyOf
<1>3. CASE /\ status' = [status EXCEPT ![e] = review[r].verdict]
           /\ review' = [review EXCEPT ![r].step = "announce"]
  <2> DEFINE new == [review[r] EXCEPT !.step = "announce"]
  <2>1. review' = [review EXCEPT ![r] = new]
    BY <1>3
  <2>2. new.step = "announce" /\ new.claim = e /\ new.verdict = review[r].verdict
    BY <1>0, <1>1 DEF Reviews, NoReview, Reviewing, Under
  <2> HIDE DEF new
  <2>3. \A o \in Reviewers : review'[o] = IF o = r THEN new ELSE review[o]
    BY <2>1 DEF ReviewInv, ReviewShape
  <2>4. \A f \in Claims : status'[f] = IF f = e THEN review[r].verdict ELSE status[f]
    BY <1>3 DEF ReviewInv, ReviewShape
  <2>5. \A f \in Claims, o \in Reviewers :
          Reviewing(o, f)' => (o = r /\ f = e) \/ (o # r /\ f # e /\ Reviewing(o, f) /\ review'[o] = review[o])
    BY <1>2, <2>2, <2>3 DEF Reviewing, Under
  <2>6. OneVerdict'
    <3> SUFFICES ASSUME NEW f \in Claims
                 PROVE  /\ \A o \in Reviewers : Reviewing(o, f)' =>
                             IF review'[o].step = "write" THEN status'[f] = "PENDING"
                             ELSE review'[o].verdict = status'[f]
                        /\ \A a \in adds' : a[1] = "resolved" /\ a[2] = f => a[3] = status'[f]
                        /\ job'[<<"resolved", f>>] # "none" => verdict'[f] = status'[f]
      BY DEF OneVerdict
    <3>1. CASE f = e
      BY <1>1, <1>2, <2>2, <2>3, <2>4, <2>5, <3>1 DEF Leaving
    <3>2. CASE f # e
      BY <1>1, <2>4, <2>5, <3>2 DEF OneVerdict
    <3> QED BY <3>1, <3>2
  <2>7. Approved \subseteq Approved' /\ \A f \in Approved' : f \in Approved \/ f = e
    BY <1>2, <2>4 DEF Approved
  <2>8. Leaving(e)'
    BY <2>2, <2>3 DEF Leaving, Reviewing, Under, NoReview
  <2>9. TotalGrows'
    <3>1. \A f \in Approved' : f \in approvedSum \/ Leaving(f)'
      BY <2>7, <2>8, WriteFollows DEF TotalGrows, LeavingKept, Approved
    <3>2. \A k \in Slots : (Resolves(k)' <=> Resolves(k)) /\ \A step : Runs(k, step)' <=> Runs(k, step)
      BY <1>1 DEF Resolves, Runs
    <3>3. ASSUME NEW k \in Slots, Resolves(k) PROVE slot[k].job[2] # e /\ slot[k].job[2] \in Claims
      BY <1>2, <3>3 DEF Resolves, FollowInv, ExpenseShape, Works, Kinds, Leaving
    <3>4. ASSUME NEW k \in Slots, Resolves(k)', Runs(k, "done")'
          PROVE  slot'[k].job[2] \in approvedSum' \/ slot'[k].job[2] \notin Approved'
      BY <1>1, <2>7, <3>2, <3>3, <3>4 DEF TotalGrows
    <3> QED BY <1>1, <2>7, <3>1, <3>2, <3>4 DEF TotalGrows
  <2> QED BY <2>6, <2>9
<1>4. CASE review' = [review EXCEPT ![r] = NoReview] /\ UNCHANGED status
  <2>1. \A o \in Reviewers : review'[o] = IF o = r THEN NoReview ELSE review[o]
    BY <1>4 DEF ReviewInv, ReviewShape
  <2>2. \A f \in Claims, o \in Reviewers : Reviewing(o, f)' => Reviewing(o, f) /\ review'[o] = review[o]
    BY <2>1 DEF Reviewing, Under
  <2>3. OneVerdict'
    BY <1>1, <1>4, <2>2, VerdictStays
  <2>4. TotalGrows'
    <3>1. \A f \in Approved : f \in approvedSum \/ Leaving(f)'
      BY <1>1, <1>4, WriteFollows DEF LeavingKept, TotalGrows, Approved
    <3> QED BY <1>1, <1>4, <3>1, TotalStays DEF Approved
  <2> QED BY <2>3, <2>4
<1> QED BY <1>0, <1>3, <1>4 DEF WriteReview

LEMMA AnnounceTotals ==
  ASSUME FollowInv, OneVerdict, TotalGrows, NEW r \in Reviewers, AnnounceReview(r)
  PROVE  OneVerdict' /\ TotalGrows'
<1> DEFINE new == <<"resolved", review[r].claim, review[r].verdict>>
<1>1. /\ Under(r) /\ review[r].step = "announce" /\ review[r].claim \in Claims
      /\ adds' = adds \cup {new} /\ review' = [review EXCEPT ![r] = NoReview]
      /\ UNCHANGED <<status, verdict, approvedSum, job, slot>>
  BY ReviewShapes DEF AnnounceReview, jobQueue, FollowInv, ExpenseShape
<1>2. Reviewing(r, review[r].claim)
  BY <1>1 DEF Reviewing
<1>3. new[2] = review[r].claim /\ new[3] = status[review[r].claim]
  BY <1>1, <1>2 DEF OneVerdict
<1> HIDE DEF new
<1>4. \A o \in Reviewers : review'[o] = IF o = r THEN NoReview ELSE review[o]
  BY <1>1 DEF FollowInv, ExpenseShape, ReviewShape
<1>5. \A f \in Claims, o \in Reviewers : Reviewing(o, f)' => Reviewing(o, f) /\ review'[o] = review[o]
  BY <1>4 DEF Reviewing, Under
<1>6. OneVerdict'
  BY <1>1, <1>3, <1>5, VerdictStays
<1>7. TotalGrows'
  <2>1. \A f \in Approved : f \in approvedSum \/ Leaving(f)'
    BY <1>1, AnnounceFollows DEF LeavingKept, TotalGrows, Approved
  <2> QED BY <1>1, <2>1, TotalStays DEF Approved
<1> QED BY <1>6, <1>7

LEMMA LandTotals ==
  ASSUME FollowInv, OneVerdict, TotalGrows, NEW a \in adds, LandAdd(a), ~lost'
  PROVE  OneVerdict' /\ TotalGrows'
<1> DEFINE j == <<a[1], a[2]>>
<1>1. /\ a[2] \in Claims /\ j \in Kinds \X Claims /\ a[1] \in Kinds
      /\ adds' = adds \ {a} /\ a \in adds /\ Add(j)
      /\ verdict' = IF a[1] = "resolved" /\ job[j] = "none" THEN [verdict EXCEPT ![a[2]] = a[3]]
                    ELSE verdict
      /\ UNCHANGED <<status, review, approvedSum>>
  BY DEF LandAdd, FollowInv, ExpenseShape, Kinds
<1>2. j[1] = a[1] /\ j[2] = a[2] /\ \A f : j = <<"resolved", f>> <=> a[1] = "resolved" /\ a[2] = f
  BY <1>1
<1> HIDE DEF j
<1>3. /\ slot' = slot
      /\ \A i \in Kinds \X Claims : job'[i] = IF i = j /\ job[i] = "none" THEN "queued" ELSE job[i]
  BY <1>1, JobAdded DEF FollowInv
<1>4. OneVerdict'
  <2> SUFFICES ASSUME NEW f \in Claims
               PROVE  /\ \A r \in Reviewers : Reviewing(r, f)' =>
                           IF review'[r].step = "write" THEN status'[f] = "PENDING"
                           ELSE review'[r].verdict = status'[f]
                      /\ \A b \in adds' : b[1] = "resolved" /\ b[2] = f => b[3] = status'[f]
                      /\ job'[<<"resolved", f>>] # "none" => verdict'[f] = status'[f]
    BY DEF OneVerdict
  <2>1. \A r \in Reviewers : Reviewing(r, f)' <=> Reviewing(r, f)
    BY <1>1 DEF Reviewing, Under
  <2>2. <<"resolved", f>> \in Kinds \X Claims
    BY DEF Kinds
  <2>3. CASE j = <<"resolved", f>>
    <3>1. a[1] = "resolved" /\ a[2] = f /\ a[3] = status[f]
      BY <1>1, <1>2, <2>3 DEF OneVerdict
    <3>2. verdict'[f] = status'[f]
      <4>1. CASE job[j] = "none"
        BY <1>1, <3>1, <4>1 DEF FollowInv, ExpenseShape
      <4>2. CASE job[j] # "none"
        BY <1>1, <2>3, <4>2 DEF OneVerdict
      <4> QED BY <4>1, <4>2
    <3> QED BY <1>1, <2>1, <3>2 DEF OneVerdict
  <2>4. CASE j # <<"resolved", f>>
    <3>1. job'[<<"resolved", f>>] = job[<<"resolved", f>>]
      BY <1>3, <2>2, <2>4
    <3>2. verdict'[f] = verdict[f]
      BY <1>1, <1>2, <2>4 DEF FollowInv, ExpenseShape
    <3> QED BY <1>1, <2>1, <3>1, <3>2 DEF OneVerdict
  <2> QED BY <2>3, <2>4
<1>5. TotalGrows'
  <2>1. \A f \in Approved : f \in approvedSum \/ Leaving(f)'
    BY <1>1, <1>3, LandFollows DEF LeavingKept, TotalGrows, Approved
  <2> QED BY <1>1, <1>3, <2>1, TotalStays DEF Approved
<1> QED BY <1>4, <1>5

LEMMA RunTotals ==
  ASSUME FollowInv, OneVerdict, TotalGrows, NEW k \in Slots, NEW j \in DOMAIN job, RunJob(k, j), serial'
  PROVE  OneVerdict' /\ TotalGrows'
<1> DEFINE first == IF j[1] = "created" THEN "insert" ELSE "delete"
           new == [step |-> first, job |-> j, read |-> {}]
<1>1. /\ Take(k, j, first) /\ (j[1] = "resolved" => \A l \in Slots : ~Resolves(l))
      /\ UNCHANGED <<status, review, adds, verdict, approvedSum>>
  BY DEF RunJob
<1>2. first \in {"insert", "delete"} /\ (first = "insert" <=> j[1] = "created")
  OBVIOUS
<1> HIDE DEF first
<1>3. /\ j \in Kinds \X Claims /\ slot[k] = Free /\ job[j] = "queued"
      /\ \A i \in Kinds \X Claims : job'[i] = IF i = j THEN "active" ELSE job[i]
      /\ \A l \in Slots : slot'[l] = IF l = k THEN new ELSE slot[l]
  BY <1>1, <1>2, Taken DEF FollowInv
<1>4. new.job = j /\ new.step = first
  OBVIOUS
<1> HIDE DEF new
<1>5. \A e \in Claims : job'[<<"resolved", e>>] # "none" => job[<<"resolved", e>>] # "none"
  BY <1>3 DEF Kinds
<1>6. OneVerdict'
  BY <1>1, <1>5, VerdictStays DEF Reviewing, Under
<1>7. /\ \A l \in Slots : Resolves(l)' => IF l = k THEN j[1] = "resolved" ELSE Resolves(l)
      /\ \A l \in Slots : Runs(l, "read")' \/ Runs(l, "sum")' \/ Runs(l, "done")' =>
           l # k /\ slot'[l] = slot[l]
  BY <1>2, <1>3, <1>4 DEF Resolves, Runs
<1>8. Approved' = Approved
  BY <1>1 DEF Approved
<1>9. TotalGrows'
  <2>1. \A l, m \in Slots : Resolves(l)' /\ Resolves(m)' => l = m
    BY <1>1, <1>7 DEF TotalGrows
  <2>2. \A e \in Approved : e \in approvedSum' \/ Leaving(e)'
    BY <1>1, RunFollows DEF TotalGrows, LeavingKept, Approved
  <2>3. \A l \in Slots : Resolves(l)' /\ Runs(l, "done")' =>
          slot'[l].job[2] \in approvedSum' \/ slot'[l].job[2] \notin Approved'
    BY <1>1, <1>7, <1>8 DEF TotalGrows, Runs
  <2> QED BY <1>1, <1>7, <1>8, <2>1, <2>2, <2>3 DEF TotalGrows, Runs
<1> QED BY <1>6, <1>9

\* A "created" job has no part in it.
LEMMA CreatedTotals ==
  ASSUME ExpenseShape, OneVerdict, TotalGrows, NEW k \in Slots, slot[k] # Free, slot[k].job[1] = "created",
         Done(k) \/ Throw(k) \/ Continue(k, "done", {}),
         UNCHANGED <<status, review, adds, verdict, approvedSum>>, LeavingKept
  PROVE  OneVerdict' /\ TotalGrows'
<1>1. \A e \in Claims : job'[<<"resolved", e>>] = job[<<"resolved", e>>]
  <2>1. CASE Done(k) \/ Throw(k)
    BY <2>1, Finished DEF Left, Kinds
  <2>2. CASE Continue(k, "done", {})
    BY <2>2 DEF Continue
  <2> QED BY <2>1, <2>2
<1>2. \A l \in Slots : slot'[l] # Free =>
        slot'[l] = slot[l] \/ (slot'[l].job[1] = "created" /\ slot'[l].step = "done")
  <2>1. CASE Done(k) \/ Throw(k)
    BY <2>1, Finished DEF Left
  <2>2. CASE Continue(k, "done", {})
    <3>1. "done" \in PastDelete /\ {} \in SUBSET Claims
      BY DEF PastDelete
    <3> QED BY <2>2, <3>1, Continued
  <2> QED BY <2>1, <2>2
<1>3. OneVerdict'
  BY <1>1, VerdictStays DEF Reviewing, Under
<1>4. TotalGrows'
  <2>1. \A f \in Approved : f \in approvedSum \/ Leaving(f)'
    BY DEF LeavingKept, TotalGrows, Approved
  <2> QED BY <1>2, <2>1, TotalStays DEF Approved
<1> QED BY <1>3, <1>4

LEMMA InsertTotals ==
  ASSUME FollowInv, OneVerdict, TotalGrows, NEW k \in Slots, InsertPending(k)
  PROVE  OneVerdict' /\ TotalGrows'
<1>1. /\ slot[k] # Free /\ slot[k].step = "insert" /\ (Continue(k, "done", {}) \/ Throw(k))
      /\ UNCHANGED <<status, review, adds, verdict, approvedSum>>
  BY DEF InsertPending, Runs
<1>2. ExpenseShape /\ slot[k].job[1] = "created" /\ LeavingKept
  BY <1>1, InsertFollows DEF FollowInv, ExpenseShape
<1> QED BY <1>1, <1>2, CreatedTotals

LEMMA DeleteTotals ==
  ASSUME FollowInv, OneVerdict, TotalGrows, NEW k \in Slots, DeletePending(k), ~lost'
  PROVE  OneVerdict' /\ TotalGrows'
<1>1. /\ slot[k] # Free /\ slot[k].step = "delete"
      /\ UNCHANGED <<status, review, adds, verdict, approvedSum, decisions, late>>
      /\ lost => lost'
  BY DEF DeletePending, Runs
<1>2. PICK e \in Claims : slot[k].job = <<"resolved", e>> /\ Resolves(k)
  BY <1>1, ResolvedSlot DEF FollowInv
<1>3. pendingRows' = pendingRows \ {e}
  BY <1>2 DEF DeletePending
<1>4. job[<<"resolved", e>>] # "none" /\ verdict[e] = status[e]
  BY <1>1, <1>2 DEF OneVerdict, FollowInv, ExpenseShape
<1>5. Approved' = Approved
  BY <1>1 DEF Approved
<1>6. PICK step \in {"read", "done"} :
        Continue(k, step, {}) /\ (step = "read" <=> verdict[e] = "APPROVED")
  BY <1>2 DEF DeletePending
<1>7. step \in PastDelete /\ {} \in SUBSET Claims
  BY <1>6 DEF PastDelete
<1>8. FollowInv' /\ LeavingKept
  BY <1>1, <1>2, <1>3, <1>6, <1>7, ContinueFollows
<1>9. /\ job' = job /\ \A l \in Slots : l # k => slot'[l] = slot[l]
      /\ slot'[k].step = step /\ slot'[k].job = slot[k].job
  BY <1>1, <1>6, <1>7, Continued DEF FollowInv
<1>10. OneVerdict'
  BY <1>1, <1>9, VerdictStays DEF Reviewing, Under
<1>11. \A l \in Slots : l # k => ~Resolves(l) /\ ~Resolves(l)' /\ Runs(l, "read")' = Runs(l, "read")
                                  /\ Runs(l, "sum")' = Runs(l, "sum")
  BY <1>2, <1>9 DEF TotalGrows, Resolves, Runs
<1>12. (step = "read" <=> e \in Approved) /\ ~Runs(k, "sum")' /\ slot'[k].job[2] = e
  <2>1. step = "read" <=> e \in Approved
    BY <1>4, <1>6 DEF Approved
  <2>2. ~Runs(k, "sum")'
    BY <1>9 DEF Runs
  <2> QED BY <1>2, <1>9, <2>1, <2>2
<1>13. \A f \in Approved : f \in approvedSum \/ Leaving(f)'
  BY <1>8 DEF TotalGrows, LeavingKept, Approved
<1>14. \A l, m \in Slots : Resolves(l)' /\ Resolves(m)' => l = m
  BY <1>11
<1>15. ASSUME NEW l \in Slots, Runs(l, "read")' PROVE slot'[l].job[2] \in Approved'
  <2>1. CASE l = k
    BY <1>5, <1>9, <1>12, <1>15, <2>1 DEF Runs
  <2>2. CASE l # k
    BY <1>5, <1>9, <1>11, <1>15, <2>2 DEF TotalGrows
  <2> QED BY <2>1, <2>2
<1>16. ASSUME NEW l \in Slots, Runs(l, "sum")'
       PROVE  approvedSum' \cup {slot'[l].job[2]} \subseteq slot'[l].read /\ slot'[l].read \subseteq Approved'
  BY <1>1, <1>5, <1>9, <1>11, <1>12, <1>16 DEF TotalGrows
<1>17. ASSUME NEW l \in Slots, Resolves(l)', Runs(l, "done")'
       PROVE  slot'[l].job[2] \in approvedSum' \/ slot'[l].job[2] \notin Approved'
  BY <1>5, <1>9, <1>11, <1>12, <1>17 DEF Runs
<1> QED BY <1>1, <1>5, <1>10, <1>13, <1>14, <1>15, <1>16, <1>17 DEF TotalGrows

LEMMA ReadTotals ==
  ASSUME FollowInv, OneVerdict, TotalGrows, NEW k \in Slots, ReadApproved(k), ~lost'
  PROVE  OneVerdict' /\ TotalGrows'
<1>1. /\ slot[k] # Free /\ slot[k].step = "read" /\ Continue(k, "sum", Approved)
      /\ UNCHANGED <<status, review, adds, verdict, pendingRows, approvedSum, decisions, late>>
      /\ lost => lost'
  BY DEF ReadApproved, Runs
<1>2. PICK e \in Claims : slot[k].job = <<"resolved", e>> /\ Resolves(k)
  BY <1>1, ResolvedSlot DEF FollowInv
<1>3. "sum" \in PastDelete /\ slot[k].step \in PastDelete /\ Approved \in SUBSET Claims /\ Approved' = Approved
  BY <1>1 DEF Approved, PastDelete
<1>4. LeavingKept
  BY <1>1, <1>2, <1>3, ContinueFollows
<1>5. /\ job' = job /\ \A l \in Slots : l # k => slot'[l] = slot[l]
      /\ slot'[k].step = "sum" /\ slot'[k].job = slot[k].job /\ slot'[k].read = Approved
  BY <1>1, <1>3, Continued DEF FollowInv
<1>6. OneVerdict'
  BY <1>1, <1>5, VerdictStays DEF Reviewing, Under
<1>7. \A l \in Slots : l # k => ~Resolves(l)' /\ Runs(l, "read")' = Runs(l, "read")
                                /\ Runs(l, "sum")' = Runs(l, "sum")
  BY <1>2, <1>5 DEF TotalGrows, Resolves, Runs
<1>8. e \in Approved /\ ~Runs(k, "read")' /\ slot'[k].job[2] = e
  BY <1>1, <1>2, <1>5 DEF TotalGrows, Runs
<1>9. \A f \in Approved : f \in approvedSum \/ Leaving(f)'
  BY <1>4 DEF TotalGrows, LeavingKept, Approved
<1>10. ASSUME NEW l \in Slots, Runs(l, "read")' PROVE slot'[l].job[2] \in Approved'
  BY <1>3, <1>5, <1>7, <1>8, <1>10 DEF TotalGrows
<1>11. ASSUME NEW l \in Slots, Runs(l, "sum")'
       PROVE  approvedSum' \cup {slot'[l].job[2]} \subseteq slot'[l].read /\ slot'[l].read \subseteq Approved'
  <2>1. CASE l = k
    BY <1>1, <1>3, <1>5, <1>8, <2>1 DEF TotalGrows
  <2>2. CASE l # k
    BY <1>1, <1>3, <1>5, <1>7, <1>11, <2>2 DEF TotalGrows
  <2> QED BY <2>1, <2>2
<1>12. \A l, m \in Slots : Resolves(l)' /\ Resolves(m)' => l = m
  BY <1>7
<1>13. \A l \in Slots : Resolves(l)' => ~Runs(l, "done")'
  BY <1>5, <1>7 DEF Runs
<1> QED BY <1>1, <1>3, <1>6, <1>9, <1>10, <1>11, <1>12, <1>13 DEF TotalGrows

LEMMA WriteSumTotals ==
  ASSUME FollowInv, OneVerdict, TotalGrows, NEW k \in Slots, WriteSum(k)
  PROVE  OneVerdict' /\ TotalGrows'
<1>1. /\ slot[k] # Free /\ slot[k].step = "sum"
      /\ \/ Continue(k, "done", {}) /\ approvedSum' = slot[k].read
         \/ Throw(k) /\ UNCHANGED approvedSum
      /\ UNCHANGED <<status, review, adds, verdict, pendingRows, decisions, late, lost>>
  BY DEF WriteSum, Runs
<1>2. PICK e \in Claims : slot[k].job = <<"resolved", e>> /\ Resolves(k)
  BY <1>1, ResolvedSlot DEF FollowInv
<1>3. Approved' = Approved
  BY <1>1 DEF Approved
<1>4. approvedSum \cup {e} \subseteq slot[k].read /\ slot[k].read \subseteq Approved
  BY <1>1, <1>2 DEF TotalGrows, Runs
<1>5. slot[k].step \in PastDelete /\ "done" \in PastDelete /\ {} \in SUBSET Claims
  BY <1>1 DEF PastDelete
<1>6. CASE Continue(k, "done", {}) /\ approvedSum' = slot[k].read
  <2>1. /\ job' = job /\ \A l \in Slots : l # k => slot'[l] = slot[l]
        /\ slot'[k].step = "done" /\ slot'[k].job = slot[k].job
    BY <1>1, <1>5, <1>6, Continued DEF FollowInv
  <2>2. OneVerdict'
    BY <1>1, <2>1, VerdictStays DEF Reviewing, Under
  <2>3. LeavingKept
    BY <1>1, <1>2, <1>5, <1>6, ContinueFollows
  <2>4. \A l \in Slots : l # k => ~Resolves(l)' /\ ~Runs(l, "read") /\ ~Runs(l, "sum")
    BY <1>2, <2>1 DEF TotalGrows, Resolves, Runs, FollowInv, ExpenseShape
  <2>5. \A l \in Slots : ~Runs(l, "read")' /\ ~Runs(l, "sum")'
    BY <2>1, <2>4 DEF Runs
  <2>6. \A l \in Slots : Resolves(l)' => slot'[l].job[2] \in approvedSum'
    BY <1>2, <1>4, <1>6, <2>1, <2>4
  <2>7. \A l, m \in Slots : Resolves(l)' /\ Resolves(m)' => l = m
    BY <2>4
  <2>8. \A f \in Approved' : f \in approvedSum' \/ Leaving(f)'
    BY <1>3, <1>4, <1>6, <2>3 DEF TotalGrows, LeavingKept, Approved
  <2> QED BY <1>3, <1>4, <1>6, <2>2, <2>5, <2>6, <2>7, <2>8 DEF TotalGrows
<1>7. CASE Throw(k) /\ UNCHANGED approvedSum
  <2>1. /\ Left(k) /\ job'[slot[k].job] # "none"
        /\ \A f \in Claims \ {e} : Leaving(f) => Leaving(f)'
    BY <1>1, <1>2, <1>5, <1>7, Finished, LeaveFollows DEF FollowInv
  <2>2. \A l \in Slots : slot'[l] # Free => slot'[l] = slot[l]
    BY <2>1 DEF Left
  <2>3. \A f \in Claims : job'[<<"resolved", f>>] # "none" => job[<<"resolved", f>>] # "none"
    <3>1. job[<<"resolved", e>>] # "none"
      BY <1>1, <1>2 DEF FollowInv, ExpenseShape
    <3>2. \A f \in Claims \ {e} :
            <<"resolved", f>> \in Kinds \X Claims /\ <<"resolved", f>> # slot[k].job
      BY <1>2 DEF Kinds
    <3> QED BY <2>1, <3>1, <3>2 DEF Left
  <2>4. OneVerdict'
    BY <1>1, <2>3, VerdictStays DEF Reviewing, Under
  <2>5. Leaving(e)'
    BY <1>2, <2>1 DEF Leaving
  <2>6. \A f \in Approved : f \in approvedSum \/ Leaving(f)'
    BY <2>1, <2>5 DEF TotalGrows, Approved
  <2> QED BY <1>3, <1>7, <2>2, <2>4, <2>6, TotalStays
<1> QED BY <1>1, <1>6, <1>7

LEMMA FinishTotals ==
  ASSUME FollowInv, OneVerdict, TotalGrows, NEW k \in Slots, FinishJob(k)
  PROVE  OneVerdict' /\ TotalGrows'
<1>1. /\ slot[k] # Free /\ slot[k].step = "done" /\ Done(k)
      /\ UNCHANGED <<status, review, adds, verdict, pendingRows, approvedSum, decisions, late, lost>>
  BY DEF FinishJob, Runs
<1>2. PICK e \in Claims : slot[k].job \in {<<"created", e>>, <<"resolved", e>>}
  BY <1>1 DEF FollowInv, ExpenseShape, Works, Kinds
<1>3. CASE slot[k].job = <<"created", e>>
  <2>1. LeavingKept
    BY <1>1, <1>3, CreatedLeaves
  <2>2. slot[k].job[1] = "created" /\ ExpenseShape
    BY <1>3 DEF FollowInv
  <2> QED BY <1>1, <2>1, <2>2, CreatedTotals
<1>4. CASE slot[k].job = <<"resolved", e>>
  <2>1. Left(k) /\ \A f \in Claims \ {e} : Leaving(f) => Leaving(f)'
    BY <1>1, <1>4, Finished, LeaveFollows DEF FollowInv, PastDelete
  <2>2. \A l \in Slots : slot'[l] # Free => slot'[l] = slot[l]
    BY <2>1 DEF Left
  <2>3. \A f \in Claims : job'[<<"resolved", f>>] # "none" => job[<<"resolved", f>>] # "none"
    <3>1. job[<<"resolved", e>>] # "none"
      BY <1>1, <1>4 DEF FollowInv, ExpenseShape
    <3>2. \A f \in Claims \ {e} :
            <<"resolved", f>> \in Kinds \X Claims /\ <<"resolved", f>> # slot[k].job
      BY <1>4 DEF Kinds
    <3> QED BY <2>1, <3>1, <3>2 DEF Left
  <2>4. OneVerdict'
    BY <1>1, <2>3, VerdictStays DEF Reviewing, Under
  <2>5. e \in approvedSum \/ e \notin Approved
    BY <1>1, <1>4 DEF TotalGrows, Resolves, Runs
  <2>6. \A f \in Approved : f \in approvedSum \/ Leaving(f)'
    BY <2>1, <2>5 DEF TotalGrows, Approved
  <2> QED BY <1>1, <2>2, <2>4, <2>6, TotalStays DEF Approved
<1> QED BY <1>2, <1>3, <1>4

LEMMA TotalStep == TotalInv /\ [ExpensesNext]_expensesVars => TotalInv'
<1> SUFFICES ASSUME TotalInv, [ExpensesNext]_expensesVars, serial', ~lost', contested' = {}
             PROVE  OneVerdict' /\ TotalGrows'
  BY FollowStep, ReviewStepInv DEF TotalInv
<1>1. FollowInv /\ ReviewInv
  BY DEF TotalInv
<1>2. OneVerdict /\ TotalGrows /\ contested = {}
  <2>1. serial /\ ~lost /\ contested = {}
    <3>1. CASE UNCHANGED expensesVars
      BY <3>1 DEF expensesVars
    <3>2. CASE \E k \in Slots : SlotStep(k)
      <4>1. PICK k \in Slots :
              InsertPending(k) \/ DeletePending(k) \/ ReadApproved(k) \/ WriteSum(k) \/ FinishJob(k)
        BY <3>2 DEF SlotStep
      <4>2. UNCHANGED <<serial, contested>> /\ (lost => lost')
        <5>1. CASE InsertPending(k)
          BY <5>1 DEF InsertPending
        <5>2. CASE DeletePending(k)
          <6>1. UNCHANGED <<serial, contested>>
            BY <5>2 DEF DeletePending
          <6>2. lost => lost'
            BY <5>2 DEF DeletePending
          <6> QED BY <6>1, <6>2
        <5>3. CASE ReadApproved(k)
          <6>1. UNCHANGED <<serial, contested>>
            BY <5>3 DEF ReadApproved
          <6>2. lost => lost'
            BY <5>3 DEF ReadApproved
          <6> QED BY <6>1, <6>2
        <5>4. CASE WriteSum(k)
          BY <5>4 DEF WriteSum
        <5>5. CASE FinishJob(k)
          BY <5>5 DEF FinishJob
        <5> QED BY <4>1, <5>1, <5>2, <5>3, <5>4, <5>5
      <4> QED BY <4>2
    <3>3. CASE \E r \in Reviewers : \E e \in Claims : \E v \in Verdicts : BeginReview(r, e, v)
      BY <3>3 DEF BeginReview
    <3>4. CASE \E r \in Reviewers : WriteReview(r) \/ AnnounceReview(r)
      <4>1. UNCHANGED <<serial, contested, lost>>
        BY <3>4 DEF WriteReview, AnnounceReview
      <4> QED BY <4>1
    <3>5. CASE \E e \in Claims : CreateExpense(e)
      BY <3>5 DEF CreateExpense
    <3>6. CASE \E a \in adds : LandAdd(a)
      BY <3>6 DEF LandAdd
    <3>7. CASE \E k \in Slots : \E j \in DOMAIN job : RunJob(k, j)
      <4>1. UNCHANGED <<lost, contested>>
        BY <3>7 DEF RunJob
      <4>2. serial' => serial
        BY <3>7 DEF RunJob
      <4> QED BY <4>1, <4>2
    <3>8. CASE \E j \in filing : FileDeadLetter(j)
      BY <3>8 DEF FileDeadLetter
    <3> QED BY <3>1, <3>2, <3>3, <3>4, <3>5, <3>6, <3>7, <3>8 DEF ExpensesNext
  <2> QED BY <2>1 DEF TotalInv
<1>3. CASE \E e \in Claims : CreateExpense(e)
  BY <1>1, <1>2, <1>3, CreateTotals
<1>4. CASE \E r \in Reviewers : \E e \in Claims : \E v \in Verdicts : BeginReview(r, e, v)
  BY <1>1, <1>2, <1>4, BeginTotals
<1>5. CASE \E r \in Reviewers : WriteReview(r)
  BY <1>1, <1>2, <1>5, WriteTotals
<1>6. CASE \E r \in Reviewers : AnnounceReview(r)
  BY <1>1, <1>2, <1>6, AnnounceTotals
<1>7. CASE \E a \in adds : LandAdd(a)
  BY <1>1, <1>2, <1>7, LandTotals
<1>8. CASE \E k \in Slots : \E j \in DOMAIN job : RunJob(k, j)
  BY <1>1, <1>2, <1>8, RunTotals
<1>9. CASE \E k \in Slots : SlotStep(k)
  BY <1>1, <1>2, <1>9, InsertTotals, DeleteTotals, ReadTotals, WriteSumTotals, FinishTotals
  DEF SlotStep
<1>10. CASE UNCHANGED expensesVars \/ \E j \in filing : FileDeadLetter(j)
  <2>1. UNCHANGED <<status, review, adds, verdict, job, slot, approvedSum>>
    BY <1>10 DEF expensesVars, jobQueue, FileDeadLetter, File, FileFails
  <2>2. OneVerdict'
    BY <1>2, <2>1, VerdictStays DEF Reviewing, Under
  <2>3. Approved' = Approved /\ \A f \in Approved : f \in approvedSum \/ Leaving(f)'
    BY <1>2, <2>1 DEF Approved, TotalGrows, Leaving, Reviewing, Under
  <2> QED BY <1>2, <2>1, <2>2, <2>3, TotalStays
<1> QED
  BY <1>3, <1>4, <1>5, <1>6, <1>7, <1>8, <1>9, <1>10 DEF ExpensesNext

\* Once nothing is left to do for any claim, total_expenses is the sum of what is
\* approved, if no two recomputations overlapped, no claim was contested and no
\* error was swallowed: of the recomputations, which each set the whole sum from
\* what they read before, the last one saw every approval.
THEOREM TotalFollowsApprovals == ExpensesSpec => []SumFollows
<1>1. ExpensesInit => TotalInv
  <2> SUFFICES ASSUME ExpensesInit PROVE OneVerdict /\ TotalGrows
    BY FollowInit, ReviewInitInv DEF TotalInv
  <2>1. \A e \in Claims : <<"resolved", e>> \in Kinds \X Claims
    BY DEF Kinds
  <2>2. OneVerdict
    BY <2>1 DEF ExpensesInit, QueueInit, OneVerdict, Reviewing, Under, Kinds
  <2>3. TotalGrows
    BY DEF ExpensesInit, QueueInit, TotalGrows, Approved, Resolves, Runs
  <2> QED BY <2>2, <2>3
<1>2. TotalInv => SumFollows
  <2> SUFFICES ASSUME TotalInv, \A e \in Claims : Settled(e), serial, ~lost, contested = {}
               PROVE  approvedSum = Approved /\ Cardinality(approvedSum) = OwnExpenses("APPROVED")
    BY DEF SumFollows
  <2>1. TotalGrows
    BY DEF TotalInv
  <2>2. \A e \in Claims : ~Leaving(e)
    BY DEF Settled, Leaving, Reviewing
  <2>3. approvedSum = Approved
    BY <2>1, <2>2 DEF TotalGrows, Approved
  <2>4. Listed("APPROVED") = Approved
    BY DEF Listed, Approved
  <2> QED BY <2>3, <2>4 DEF OwnExpenses
<1> QED
  BY <1>1, <1>2, TotalStep, PTL DEF ExpensesSpec

-----------------------------------------------------------------------------
(* Types.  A job that may run has an attempt left, and a review writes its *)
(* claim once, so that there are no more decisions than reviews begun.      *)

\* A job that may still run has an attempt left, and one that was exhausted is kept.
Attempts ==
  /\ \A j \in Kinds \X Claims :
       made[j] \in 0..MaxAttempts /\ (job[j] \in {"queued", "active"} => made[j] < MaxAttempts)
  /\ made = [j \in Kinds \X Claims |-> made[j]]
  /\ filing \cup deadLetters \cup unfiled \subseteq {j \in Kinds \X Claims : job[j] = "failed"}

Writers(e) == {r \in Reviewers : Reviewing(r, e) /\ review[r].step = "write"}

\* Every review writes once.
Budget ==
  /\ reviewsBegun \in 0..MaxReviews
  /\ \A e \in Claims : /\ IsFiniteSet(Writers(e))
                       /\ decisions[e] + Cardinality(Writers(e)) <= reviewsBegun

ExpenseRest ==
  /\ approvedSum \subseteq Claims
  /\ contested \subseteq Claims /\ late \subseteq Claims
  /\ serial \in BOOLEAN /\ lost \in BOOLEAN

ExpensesTypeInv == FollowInv /\ Attempts /\ Budget /\ ExpenseRest

\* A job moves to another state, with an attempt left if it may run again.
LEMMA AttemptsMove ==
  ASSUME Attempts, NEW j \in Kinds \X Claims, job[j] # "failed", NEW x, NEW n \in 0..MaxAttempts,
         job \in [Kinds \X Claims -> {"none", "queued", "active", "failed"}],
         job' = [job EXCEPT ![j] = x], made' = [made EXCEPT ![j] = n],
         x \in {"queued", "active"} => n < MaxAttempts,
         UNCHANGED <<deadLetters, unfiled>>,
         filing' = filing \/ (filing' = filing \cup {j} /\ x = "failed")
  PROVE  Attempts'
<1>1. \A i \in Kinds \X Claims : job'[i] = IF i = j THEN x ELSE job[i]
  OBVIOUS
<1>2. made' = [i \in Kinds \X Claims |-> IF i = j THEN n ELSE made[i]]
  BY DEF Attempts
<1>3. made' = [i \in Kinds \X Claims |-> made'[i]]
  BY <1>2
<1>4. filing' \cup deadLetters' \cup unfiled' \subseteq {i \in Kinds \X Claims : job'[i] = "failed"}
  BY <1>1 DEF Attempts
<1> QED BY <1>1, <1>2, <1>3, <1>4 DEF Attempts

LEMMA MadeKept ==
  ASSUME Attempts, NEW j \in Kinds \X Claims, made' = made
  PROVE  made' = [made EXCEPT ![j] = made[j]]
BY DEF Attempts

LEMMA AttemptsStep ==
  ASSUME ExpenseShape, Attempts, [ExpensesNext]_expensesVars PROVE Attempts'
<1>0. /\ job \in [Kinds \X Claims -> {"none", "queued", "active", "failed"}]
      /\ MaxAttempts \in Nat \ {0}
      /\ \A k \in Slots : slot[k] # Free => slot[k].job \in Kinds \X Claims /\ job[slot[k].job] = "active"
  BY ExpensesConstants DEF ExpenseShape, Works
<1>1. CASE UNCHANGED <<job, made, filing, deadLetters, unfiled>>
  BY <1>1 DEF Attempts
<1>2. ASSUME NEW a \in adds, LandAdd(a) PROVE Attempts'
  <2> DEFINE j == <<a[1], a[2]>>
  <2>1. j \in Kinds \X Claims
    BY DEF ExpenseShape, Kinds
  <2>2. CASE Add(j)
    <3>1. CASE job[j] = "none"
      <4>1. job' = [job EXCEPT ![j] = "queued"] /\ made' = [made EXCEPT ![j] = 0]
            /\ UNCHANGED <<filing, deadLetters, unfiled>>
        BY <2>2, <3>1 DEF Add
      <4>2. 0 \in 0..MaxAttempts /\ 0 < MaxAttempts
        BY <1>0
      <4> HIDE DEF j
      <4> QED BY <1>0, <2>1, <3>1, <4>1, <4>2, AttemptsMove
    <3>2. CASE job[j] # "none"
      <4>1. job' = job /\ made' = [made EXCEPT ![j] = made[j]] /\ UNCHANGED <<filing, deadLetters, unfiled>>
        BY <1>0, <2>1, <2>2, <3>2 DEF Add
      <4>2. made' = made
        BY <2>1, <4>1 DEF Attempts
      <4> QED BY <1>1, <4>1, <4>2
    <3> QED BY <3>1, <3>2
  <2> QED BY <1>1, <1>2, <2>2 DEF LandAdd, jobQueue
<1>3. ASSUME NEW k \in Slots, NEW j \in DOMAIN job, RunJob(k, j) PROVE Attempts'
  <2>1. /\ j \in Kinds \X Claims /\ job[j] = "queued"
        /\ job' = [job EXCEPT ![j] = "active"] /\ UNCHANGED <<made, filing, deadLetters, unfiled>>
    BY <1>0, <1>3 DEF RunJob, Take
  <2>2. made[j] \in 0..MaxAttempts /\ made[j] < MaxAttempts
    BY <2>1 DEF Attempts
  <2> QED BY <1>0, <2>1, <2>2, MadeKept, AttemptsMove
<1>4. ASSUME NEW k \in Slots, slot[k] # Free, Done(k) PROVE Attempts'
  <2>1. PICK j \in Kinds \X Claims :
          /\ job[j] = "active"
          /\ job' = [job EXCEPT ![j] = "none"] /\ UNCHANGED <<made, filing, deadLetters, unfiled>>
    BY <1>0, <1>4 DEF Done
  <2>2. made[j] \in 0..MaxAttempts /\ made' = [made EXCEPT ![j] = made[j]]
    BY <2>1, MadeKept DEF Attempts
  <2> QED BY <1>0, <2>1, <2>2, AttemptsMove
<1>5. ASSUME NEW k \in Slots, slot[k] # Free, Throw(k) PROVE Attempts'
  <2> DEFINE j == slot[k].job
             x == IF made[j] + 1 >= MaxAttempts THEN "failed" ELSE "queued"
  <2>1. j \in Kinds \X Claims /\ job[j] = "active"
    BY <1>0, <1>5
  <2>2. made[j] \in 0..MaxAttempts /\ made[j] < MaxAttempts
    BY <2>1 DEF Attempts
  <2>3. /\ job' = [job EXCEPT ![j] = x] /\ made' = [made EXCEPT ![j] = made[j] + 1]
        /\ filing' = IF x = "failed" THEN filing \cup {j} ELSE filing
        /\ UNCHANGED <<deadLetters, unfiled>>
    BY <1>5 DEF Throw
  <2> HIDE DEF j
  <2>4. made[j] + 1 \in 0..MaxAttempts /\ (x \in {"queued", "active"} => made[j] + 1 < MaxAttempts)
    BY <1>0, <2>2
  <2> HIDE DEF x
  <2>5. filing' = filing \/ (filing' = filing \cup {j} /\ x = "failed")
    BY <2>3
  <2> QED BY <1>0, <2>1, <2>3, <2>4, <2>5, AttemptsMove
<1>6. ASSUME NEW k \in Slots, SlotStep(k) PROVE Attempts'
  <2>1. slot[k] # Free /\ (Done(k) \/ Throw(k) \/ UNCHANGED <<job, made, filing, deadLetters, unfiled>>)
    BY <1>6 DEF SlotStep, InsertPending, DeletePending, ReadApproved, WriteSum, FinishJob, Runs, Continue
  <2> QED BY <1>1, <1>4, <1>5, <2>1
<1>7. ASSUME NEW j \in filing, FileDeadLetter(j) PROVE Attempts'
  <2>1. UNCHANGED <<job, made>> /\ filing' \cup deadLetters' \cup unfiled' = filing \cup deadLetters \cup unfiled
    BY <1>7 DEF FileDeadLetter, File, FileFails
  <2> QED BY <2>1 DEF Attempts
<1> QED
  BY <1>1, <1>2, <1>3, <1>6, <1>7
  DEF ExpensesNext, expensesVars, jobQueue, CreateExpense, BeginReview, WriteReview, AnnounceReview

LEMMA BudgetStep ==
  ASSUME ExpenseShape, Budget, [ExpensesNext]_expensesVars PROVE Budget'
<1>0. ReviewShape /\ MaxReviews \in Nat
  BY ExpensesConstants DEF ExpenseShape
<1>1. CASE UNCHANGED <<review, decisions, reviewsBegun>>
  BY <1>1 DEF Budget, Writers, Reviewing, Under
<1>2. ASSUME NEW r \in Reviewers, NEW e \in Claims, NEW v \in Verdicts, BeginReview(r, e, v)
      PROVE  Budget'
  <2> DEFINE new == [step |-> "write", claim |-> e, verdict |-> v]
  <2>1. /\ review' = [review EXCEPT ![r] = new] /\ ~Under(r) /\ decisions' = decisions
        /\ reviewsBegun' = reviewsBegun + 1 /\ reviewsBegun < MaxReviews
    BY <1>2 DEF BeginReview
  <2>2. ASSUME NEW f \in Claims PROVE Writers(f)' \subseteq Writers(f) \cup {r}
    <3>1. \A o \in Reviewers : o # r => review'[o] = review[o]
      BY <1>0, <2>1 DEF ReviewShape
    <3> QED BY <3>1 DEF Writers, Reviewing, Under
  <2>3. ASSUME NEW f \in Claims
        PROVE  /\ IsFiniteSet(Writers(f)')
               /\ decisions'[f] + Cardinality(Writers(f)') <= reviewsBegun'
    <3>1. r \notin Writers(f)
      BY <2>1 DEF Writers, Reviewing
    <3>2. /\ IsFiniteSet(Writers(f)) /\ Cardinality(Writers(f)) \in Nat
          /\ decisions[f] \in Nat /\ decisions[f] + Cardinality(Writers(f)) <= reviewsBegun
      BY <1>0, FS_CardinalityType DEF Budget, ReviewShape
    <3>3. IsFiniteSet(Writers(f) \cup {r})
          /\ Cardinality(Writers(f) \cup {r}) = Cardinality(Writers(f)) + 1
      BY <3>1, <3>2, FS_AddElement
    <3>4. /\ IsFiniteSet(Writers(f)') /\ Cardinality(Writers(f)') <= Cardinality(Writers(f)) + 1
      BY <2>2, <3>3, FS_Subset
    <3>5. Cardinality(Writers(f)') \in Nat
      BY <3>4, FS_CardinalityType
    <3> QED BY <2>1, <3>2, <3>4, <3>5 DEF Budget
  <2>4. reviewsBegun' \in 0..MaxReviews
    BY <1>0, <2>1 DEF Budget
  <2> QED BY <2>3, <2>4 DEF Budget
<1>3. ASSUME NEW r \in Reviewers, Under(r), NEW x \in Reviews, x = NoReview \/ x.step # "write",
             review' = [review EXCEPT ![r] = x], reviewsBegun' = reviewsBegun,
             decisions' = decisions
             \/ /\ review[r].step = "write" /\ review[r].claim \in Claims
                /\ decisions' = [decisions EXCEPT ![review[r].claim] = @ + 1]
      PROVE  Budget'
  <2>0. \A o \in Reviewers : review'[o] = IF o = r THEN x ELSE review[o]
    BY <1>0, <1>3 DEF ReviewShape
  <2>1. ASSUME NEW f \in Claims PROVE Writers(f)' = Writers(f) \ {r}
    BY <1>3, <2>0, NoReviewIsNone DEF Writers, Reviewing, Under
  <2>2. ASSUME NEW f \in Claims
        PROVE  /\ IsFiniteSet(Writers(f)')
               /\ decisions'[f] + Cardinality(Writers(f)') <= reviewsBegun'
    <3>1. /\ IsFiniteSet(Writers(f)) /\ Cardinality(Writers(f)) \in Nat
          /\ decisions[f] \in Nat /\ decisions[f] + Cardinality(Writers(f)) <= reviewsBegun
      BY <1>0, FS_CardinalityType DEF Budget, ReviewShape
    <3>2. /\ IsFiniteSet(Writers(f)')
          /\ Cardinality(Writers(f)') =
               IF r \in Writers(f) THEN Cardinality(Writers(f)) - 1 ELSE Cardinality(Writers(f))
      BY <2>1, <3>1, FS_RemoveElement
    <3>3. CASE decisions'[f] = decisions[f]
      BY <1>3, <3>1, <3>2, <3>3 DEF Budget
    <3>4. CASE decisions'[f] # decisions[f]
      <4>1. /\ review[r].step = "write" /\ review[r].claim = f /\ decisions'[f] = decisions[f] + 1
        BY <1>0, <1>3, <3>4 DEF ReviewShape
      <4>2. r \in Writers(f)
        BY <1>3, <4>1 DEF Writers, Reviewing
      <4> QED BY <1>3, <3>1, <3>2, <4>1, <4>2 DEF Budget
    <3> QED BY <3>3, <3>4
  <2> QED BY <1>3, <2>2 DEF Budget
<1>4. ASSUME NEW r \in Reviewers, WriteReview(r) PROVE Budget'
  <2>1. /\ Under(r) /\ review[r].step = "write" /\ reviewsBegun' = reviewsBegun
        /\ review[r].claim \in Claims
    BY <1>0, <1>4, ReviewShapes DEF WriteReview
  <2>2. CASE review' = [review EXCEPT ![r] = NoReview] /\ decisions' = decisions
    BY <1>3, <2>1, <2>2, NoReviewIsNone
  <2>3. CASE /\ decisions' = [decisions EXCEPT ![review[r].claim] = @ + 1]
             /\ review' = [review EXCEPT ![r].step = "announce"]
    <3> DEFINE x == [review[r] EXCEPT !.step = "announce"]
    <3>1. review[r] \in [step : {"write", "announce"}, claim : Claims, verdict : Verdicts]
      BY <1>0, <2>1 DEF ReviewShape, Reviews, Under
    <3>2. x \in Reviews /\ x.step = "announce"
      BY <3>1 DEF Reviews
    <3>3. review' = [review EXCEPT ![r] = x]
      BY <2>3
    <3> HIDE DEF x
    <3> QED BY <1>3, <2>1, <2>3, <3>2, <3>3
  <2> QED BY <1>4, <2>2, <2>3 DEF WriteReview
<1>5. ASSUME NEW r \in Reviewers, AnnounceReview(r) PROVE Budget'
  BY <1>3, <1>5, NoReviewIsNone DEF AnnounceReview
<1> QED
  BY <1>1, <1>2, <1>4, <1>5
  DEF ExpensesNext, expensesVars, CreateExpense, LandAdd, RunJob, SlotStep, InsertPending,
      DeletePending, ReadApproved, WriteSum, FinishJob, FileDeadLetter

\* What a slot has read are claims, and so is the total.
LEMMA RestStep ==
  ASSUME ExpenseShape, ExpenseRest, [ExpensesNext]_expensesVars PROVE ExpenseRest'
<1>1. CASE UNCHANGED <<approvedSum, contested, late, serial, lost>>
  BY <1>1 DEF ExpenseRest
<1>2. ASSUME NEW r \in Reviewers, NEW e \in Claims, NEW v \in Verdicts, BeginReview(r, e, v)
      PROVE  ExpenseRest'
  BY <1>2 DEF BeginReview, ExpenseRest
<1>3. ASSUME NEW a \in adds, LandAdd(a) PROVE ExpenseRest'
  BY <1>3 DEF LandAdd, ExpenseRest
<1>4. ASSUME NEW k \in Slots, NEW j \in DOMAIN job, RunJob(k, j) PROVE ExpenseRest'
  <2>1. j[2] \in Claims
    BY DEF ExpenseShape
  <2>2. late' \subseteq late \cup {j[2]}
    BY <1>4 DEF RunJob
  <2>3. serial' \in BOOLEAN
    BY <1>4 DEF RunJob
  <2> QED BY <1>4, <2>1, <2>2, <2>3 DEF RunJob, ExpenseRest
<1>5. ASSUME NEW k \in Slots, SlotStep(k) PROVE ExpenseRest'
  <2>1. UNCHANGED <<contested, late, serial>> /\ lost' \in {lost, TRUE}
    BY <1>5 DEF SlotStep, InsertPending, DeletePending, ReadApproved, WriteSum, FinishJob
  <2>2. slot[k] # Free /\ approvedSum' \in {approvedSum, slot[k].read}
    BY <1>5 DEF SlotStep, InsertPending, DeletePending, ReadApproved, WriteSum, FinishJob,
                   Runs
  <2>3. slot[k].read \subseteq Claims
    BY <2>2 DEF ExpenseShape, Works
  <2> QED BY <2>1, <2>2, <2>3 DEF ExpenseRest
<1> QED
  BY <1>1, <1>2, <1>3, <1>4, <1>5
  DEF ExpensesNext, expensesVars, CreateExpense, WriteReview, AnnounceReview, FileDeadLetter

LEMMA ExpensesTypesInit == ExpensesInit => ExpensesTypeInv
<1> SUFFICES ASSUME ExpensesInit PROVE ExpensesTypeInv
  OBVIOUS
<1>1. FollowInv
  BY FollowInit
<1>2. Attempts
  BY ExpensesConstants DEF ExpensesInit, QueueInit, Attempts, Kinds
<1>3. Budget
  <2>1. \A e \in Claims : Writers(e) = {} /\ decisions[e] = 0
    BY DEF ExpensesInit, Writers, Reviewing, Under
  <2> QED BY <2>1, FS_EmptySet, ExpensesConstants DEF ExpensesInit, Budget
<1>4. ExpenseRest
  BY DEF ExpensesInit, ExpenseRest
<1> QED BY <1>1, <1>2, <1>3, <1>4 DEF ExpensesTypeInv

LEMMA ExpensesTypesStep == ExpensesTypeInv /\ [ExpensesNext]_expensesVars => ExpensesTypeInv'
BY FollowStep, AttemptsStep, BudgetStep, RestStep DEF ExpensesTypeInv, FollowInv

LEMMA ExpensesTypes == ExpensesTypeInv => ExpensesTypeOK
<1> SUFFICES ASSUME ExpensesTypeInv PROVE ExpensesTypeOK
  OBVIOUS
<1>1. ExpenseShape /\ ReviewShape /\ InOrder /\ Attempts /\ Budget /\ ExpenseRest
  BY DEF ExpensesTypeInv, FollowInv, ExpenseShape
<1>2. \A r \in Reviewers : Under(r) =>
        /\ review[r].step \in {"write", "announce"}
        /\ review[r].claim \in Claims /\ review[r].verdict \in Verdicts
        /\ status[review[r].claim] # "none"
  BY <1>1, ReviewShapes DEF InOrder, EarlyOf, Reviewing
<1>3. QueueTypeOK
  <2>1. made \in [Kinds \X Claims -> 0..MaxAttempts]
    BY <1>1 DEF Attempts
  <2>2. \A k \in Slots : slot[k] # Free => slot[k].job \in Kinds \X Claims /\ job[slot[k].job] = "active"
    BY <1>1 DEF ExpenseShape, Works
  <2>3. \A k, l \in Slots : slot[k] # Free /\ slot[l] # Free /\ k # l => slot[k].job # slot[l].job
    BY <1>1 DEF ExpenseShape
  <2> QED BY <1>1, <2>1, <2>2, <2>3 DEF QueueTypeOK, ExpenseShape, Attempts, Kinds
<1>4. decisions \in [Claims -> 0..MaxReviews]
  <2>1. ASSUME NEW e \in Claims PROVE decisions[e] \in 0..MaxReviews
    <3>1. Cardinality(Writers(e)) \in Nat /\ decisions[e] \in Nat
          /\ decisions[e] + Cardinality(Writers(e)) <= reviewsBegun /\ reviewsBegun \in 0..MaxReviews
      BY <1>1, FS_CardinalityType DEF Budget, ReviewShape
    <3> QED BY <3>1, ExpensesConstants
  <2> QED BY <1>1, <2>1 DEF ReviewShape
<1> QED
  BY <1>1, <1>2, <1>3, <1>4 DEF ExpensesTypeOK, ExpenseShape, ReviewShape, ExpenseRest


=============================================================================
