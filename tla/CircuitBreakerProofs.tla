------------------------- MODULE CircuitBreakerProofs -------------------------
(***************************************************************************)
(* Proofs about CircuitBreaker: no webhook is left disabled without a      *)
(* deadline by the breaker, and the scanner enables only those it may,     *)
(* for every number of webhooks and worker slots, with any number of       *)
(* restarts, lost keys, failed calls and PATCH requests; and no streak     *)
(* counts more failures than there were deliveries, a restart's repeats    *)
(* aside, in whichever of its copies it is read.                           *)
(***************************************************************************)
EXTENDS CircuitBreaker, FiniteSetTheorems, TLAPS

Rows ==
  /\ active \in [Webhooks -> BOOLEAN]
  /\ openUntil \in [Webhooks -> {"none", "future", "past"}]
  /\ adminSet \subseteq Webhooks
  /\ hook \in [Slots -> Webhooks]
  /\ adminOps \in Nat

\* Between the scan's query and its update nothing but the scanner itself
\* takes a deadline away.
ListIsOpen ==
  /\ scan # "idle" => closing \in todo
  /\ scan = "row" => \A w \in todo : openUntil[w] # "none"
  /\ \A w \in todo : w # closing => openUntil[w] # "none"
  /\ scan = "idle" => todo = {}
  /\ todo \subseteq Webhooks

IInv == Rows /\ ListIsOpen /\ StrandedOnlyByAdmin

LEMMA InitIInv == Init => IInv
<1>1. (CHOOSE w \in Webhooks : TRUE) \in Webhooks
  BY BreakerConstants
<1> QED
  BY <1>1 DEF Init, IInv, Rows, ListIsOpen, StrandedOnlyByAdmin

\* A step that leaves the rows and the scanner alone.
LEMMA FrameIInv ==
  ASSUME IInv, UNCHANGED <<active, openUntil, adminSet, scanner, adminOps>>,
         hook' \in [Slots -> Webhooks]
  PROVE  IInv'
BY DEF IInv, Rows, ListIsOpen, StrandedOnlyByAdmin, scanner

LEMMA StepIInv == IInv /\ [Next]_vars => IInv'
<1> SUFFICES ASSUME IInv, [Next]_vars PROVE IInv'
  OBVIOUS
<1> USE DEF row, redis, slots, bounds
<1>0. hook \in [Slots -> Webhooks]
  BY DEF IInv, Rows
<1>1. ASSUME NEW w \in Webhooks, NEW b \in BOOLEAN, Enqueue(w, b) PROVE IInv'
  BY <1>0, <1>1, FrameIInv DEF Enqueue
<1>2. ASSUME NEW k \in Slots, NEW w \in Webhooks, Deliver(k, w) PROVE IInv'
  BY <1>0, <1>2, FrameIInv DEF Deliver
<1>3. ASSUME NEW k \in Slots, SlotStep(k) PROVE IInv'
  <2>1. CASE Answer(k)
    BY <1>0, <2>1, FrameIInv DEF Answer
  <2>2. CASE RecordSuccess(k)
    BY <1>0, <2>2, FrameIInv DEF RecordSuccess
  <2>3. CASE RecordFailure(k)
    BY <1>0, <2>3, FrameIInv DEF RecordFailure
  <2>4. CASE OpenRow(k)
    <3>1. CASE UNCHANGED row /\ UNCHANGED adminSet
      BY <1>0, <2>4, <3>1, FrameIInv DEF OpenRow
    <3>2. CASE /\ active' = [active EXCEPT ![hook[k]] = FALSE]
               /\ openUntil' = [openUntil EXCEPT ![hook[k]] = "future"]
               /\ adminSet' = adminSet \ {hook[k]}
      BY <2>4, <3>2 DEF OpenRow, IInv, Rows, ListIsOpen, StrandedOnlyByAdmin, scanner
    <3> QED BY <2>4, <3>1, <3>2 DEF OpenRow
  <2>5. CASE SetCooldown(k)
    BY <1>0, <2>5, FrameIInv DEF SetCooldown
  <2> QED BY <1>3, <2>1, <2>2, <2>3, <2>4, <2>5 DEF SlotStep
<1>4. ASSUME NEW w \in Webhooks, NEW n \in Streak, ApplyWrite(w, n) PROVE IInv'
  BY <1>0, <1>4, FrameIInv DEF ApplyWrite
<1>5. ASSUME NEW w \in Webhooks, Elapse(w) PROVE IInv'
  BY <1>5 DEF Elapse, IInv, Rows, ListIsOpen, StrandedOnlyByAdmin, scanner
<1>6. CASE ScannerStep
  <2>1. CASE Scan
    BY <2>1 DEF Scan, Expired, IInv, Rows, ListIsOpen, StrandedOnlyByAdmin, scanner
  <2>2. CASE CloseRow
    <3>1. CASE UNCHANGED row /\ UNCHANGED adminSet
      BY <2>2, <3>1 DEF CloseRow, IInv, Rows, ListIsOpen, StrandedOnlyByAdmin
    <3>2. CASE /\ active' = [active EXCEPT ![closing] = TRUE]
               /\ openUntil' = [openUntil EXCEPT ![closing] = "none"]
               /\ adminSet' = adminSet \ {closing}
      BY <2>2, <3>2 DEF CloseRow, IInv, Rows, ListIsOpen, StrandedOnlyByAdmin
    <3> QED BY <2>2, <3>1, <3>2 DEF CloseRow
  <2>3. CASE CloseStreak
    BY <2>3 DEF CloseStreak, ScanOn, IInv, Rows, ListIsOpen, StrandedOnlyByAdmin
  <2>4. CASE CloseCooldown
    BY <2>4 DEF CloseCooldown, ScanOn, IInv, Rows, ListIsOpen, StrandedOnlyByAdmin
  <2> QED BY <1>6, <2>1, <2>2, <2>3, <2>4 DEF ScannerStep
<1>7. CASE SyncRead \/ SyncWrite
  BY <1>0, <1>7, FrameIInv DEF SyncRead, SyncWrite
<1>8. ASSUME NEW w \in Webhooks, NEW b \in BOOLEAN, PatchActive(w, b) PROVE IInv'
  BY <1>8 DEF PatchActive, IInv, Rows, ListIsOpen, StrandedOnlyByAdmin, scanner
<1>9. CASE Restart
  BY <1>9 DEF Restart, IInv, Rows, ListIsOpen, StrandedOnlyByAdmin
<1>10. ASSUME NEW w \in Webhooks, LoseKeys(w) PROVE IInv'
  BY <1>0, <1>10, FrameIInv DEF LoseKeys
<1>11. CASE UNCHANGED vars
  BY <1>0, <1>11, FrameIInv DEF vars
<1> QED
  BY <1>1, <1>2, <1>3, <1>4, <1>5, <1>6, <1>7, <1>8, <1>9, <1>10, <1>11 DEF Next

LEMMA Inductive == SafetySpec => []IInv
BY InitIInv, StepIInv, PTL DEF SafetySpec

\* A webhook the breaker disabled always carries a deadline the scanner can
\* find; only an administrator leaves one disabled without.
THEOREM NeverStranded == SafetySpec => []StrandedOnlyByAdmin
<1>1. IInv => StrandedOnlyByAdmin
  BY DEF IInv
<1> QED BY <1>1, Inductive, PTL

\* The scanner never enables a webhook whose circuit is closed, although it
\* updates the rows by id, long after it read them.
THEOREM ScannerIsSafe == SafetySpec => ScannerEnablesOpenOnly
<1>1. IInv /\ [Next]_vars =>
        [\A w \in Webhooks :
           ~active[w] /\ active'[w] /\ adminOps' = adminOps => openUntil[w] # "none"]_vars
  <2> SUFFICES ASSUME IInv, Next, NEW w \in Webhooks, ~active[w], active'[w],
                      adminOps' = adminOps
               PROVE  openUntil[w] # "none"
    BY DEF ScannerEnablesOpenOnly
  <2> USE DEF row, bounds
  <2>1. ASSUME NEW k \in Slots, SlotStep(k) PROVE FALSE
    BY <2>1 DEF SlotStep, Answer, RecordSuccess, RecordFailure, OpenRow, SetCooldown,
       IInv, Rows
  <2>2. CASE ScannerStep
    BY <2>2 DEF ScannerStep, Scan, CloseRow, CloseStreak, CloseCooldown, IInv, Rows, ListIsOpen
  <2>3. ASSUME NEW v \in Webhooks, NEW b \in BOOLEAN, PatchActive(v, b) PROVE FALSE
    BY <2>3 DEF PatchActive, IInv, Rows
  <2>4. CASE UNCHANGED active
    BY <2>4
  <2>5. \/ UNCHANGED active
        \/ \E k \in Slots : SlotStep(k)
        \/ ScannerStep
        \/ \E v \in Webhooks : \E b \in BOOLEAN : PatchActive(v, b)
    BY DEF Next, Enqueue, Deliver, ApplyWrite, Elapse, SyncRead, SyncWrite, Restart, LoseKeys
  <2> QED BY <2>1, <2>2, <2>3, <2>4, <2>5
<1> QED BY <1>1, Inductive, PTL DEF SafetySpec, ScannerEnablesOpenOnly

-------------------------------------------------------------------------------

Steps == {"idle", "post", "success", "failure", "open", "cooldown"}
Working(w) == {k \in Slots : pc[k] \in {"post", "success", "failure"} /\ hook[k] = w}
Busy(w) == {k \in Slots : pc[k] # "idle" /\ hook[k] = w}

\* A failure of webhook w costs a delivery, or a slot's share of a restart: what
\* is not queued or worked on may have been counted.
Spent(w) == (deliveries + restarts * Cardinality(Slots)) - jobs[w] - Cardinality(Working(w))

BreakerShape ==
  /\ active \in [Webhooks -> BOOLEAN]
  /\ openUntil \in [Webhooks -> {"none", "future", "past"}]
  /\ cooldown \in [Webhooks -> BOOLEAN]
  /\ pc \in [Slots -> Steps]
  /\ hook \in [Slots -> Webhooks]
  /\ scan \in {"idle", "row", "streak", "cooldown"}
  /\ todo \subseteq Webhooks /\ closing \in Webhooks
  /\ sync \in {"idle", "read", "write"}
  /\ adminSet \subseteq Webhooks
  /\ ioErrors \in 0..MaxIoErrors
  /\ deliveries \in 0..MaxDeliveries /\ restarts \in 0..MaxRestarts

JobsShape ==
  /\ jobs \in [Webhooks -> Nat]
  /\ \A w \in Webhooks : jobs[w] + Cardinality(Busy(w)) <= deliveries

\* A streak of webhook w that is kept somewhere, or on its way there.
Recorded(w, n) ==
  \/ n = dbStreak[w] \/ n = streak[w]
  \/ \E k \in Slots : pc[k] = "open" /\ hook[k] = w /\ n = seen[k]
  \/ n \in Streak /\ writes[<<w, n>>] > 0
  \/ <<w, n>> \in snapshot

StreakShape ==
  /\ dbStreak \in [Webhooks -> Nat] /\ streak \in [Webhooks -> Nat]
  /\ seen \in [Slots -> Streak]
  /\ writes \in [Webhooks \X Streak -> Nat]
  /\ snapshot \subseteq Webhooks \X Nat

Affordable == \A w \in Webhooks : \A n \in Nat : Recorded(w, n) => n <= Spent(w)

BreakerTypeInv == BreakerShape /\ JobsShape /\ StreakShape /\ Affordable

LEMMA SlotSets ==
  \A w : /\ IsFiniteSet(Busy(w)) /\ IsFiniteSet(Working(w))
         /\ Cardinality(Busy(w)) \in Nat /\ Cardinality(Working(w)) \in Nat
         /\ Cardinality(Working(w)) <= Cardinality(Busy(w))
         /\ Cardinality(Busy(w)) <= Cardinality(Slots)
         /\ Cardinality(Slots) \in Nat
<1> SUFFICES ASSUME NEW w
             PROVE  /\ IsFiniteSet(Busy(w)) /\ IsFiniteSet(Working(w))
                    /\ Cardinality(Busy(w)) \in Nat /\ Cardinality(Working(w)) \in Nat
                    /\ Cardinality(Working(w)) <= Cardinality(Busy(w))
                    /\ Cardinality(Busy(w)) <= Cardinality(Slots)
                    /\ Cardinality(Slots) \in Nat
  OBVIOUS
<1>1. Working(w) \subseteq Busy(w) /\ Busy(w) \subseteq Slots
  BY DEF Working, Busy
<1>2. IsFiniteSet(Slots)
  BY BreakerConstants
<1>3. IsFiniteSet(Busy(w)) /\ Cardinality(Busy(w)) <= Cardinality(Slots)
  BY <1>1, <1>2, FS_Subset
<1>4. IsFiniteSet(Working(w)) /\ Cardinality(Working(w)) <= Cardinality(Busy(w))
  BY <1>1, <1>3, FS_Subset
<1> QED BY <1>2, <1>3, <1>4, FS_CardinalityType

\* Restarts times slots.
LEMMA Repeats ==
  ASSUME BreakerShape
  PROVE  /\ restarts * Cardinality(Slots) \in Nat
         /\ deliveries + restarts * Cardinality(Slots) \in Streak
         /\ Streak \subseteq Nat
<1>1. Cardinality(Slots) \in Nat /\ restarts \in 0..MaxRestarts /\ MaxRestarts \in Nat
      /\ deliveries \in 0..MaxDeliveries /\ MaxDeliveries \in Nat
  BY BreakerConstants, SlotSets DEF BreakerShape
<1>2. \A a, b, n \in Nat : a <= b => a * n \in Nat /\ b * n \in Nat /\ a * n <= b * n
  OBVIOUS
<1>3. /\ restarts * Cardinality(Slots) \in Nat /\ MaxRestarts * Cardinality(Slots) \in Nat
      /\ restarts * Cardinality(Slots) <= MaxRestarts * Cardinality(Slots)
  BY <1>1, <1>2
<1> DEFINE r == restarts * Cardinality(Slots)
           m == MaxRestarts * Cardinality(Slots)
<1>4. r \in Nat /\ m \in Nat /\ r <= m
  BY <1>3
<1> HIDE DEF r, m
<1>5. deliveries + r \in 0..(MaxDeliveries + m) /\ 0..(MaxDeliveries + m) \subseteq Nat
  BY <1>1, <1>4
<1> QED BY <1>4, <1>5 DEF r, m, Streak

LEMMA SpentIsStreak ==
  BreakerShape /\ JobsShape =>
    \A w \in Webhooks :
      /\ Spent(w) \in Int /\ \A n \in Nat : n <= Spent(w) => n \in Streak
      /\ jobs[w] \in Nat /\ Cardinality(Working(w)) \in Nat
<1> SUFFICES ASSUME BreakerShape, JobsShape, NEW w \in Webhooks
             PROVE  /\ Spent(w) \in Int /\ \A n \in Nat : n <= Spent(w) => n \in Streak
                    /\ jobs[w] \in Nat /\ Cardinality(Working(w)) \in Nat
  OBVIOUS
<1> DEFINE d == deliveries + restarts * Cardinality(Slots)
           c == Cardinality(Working(w))
<1>1. d \in Streak /\ d \in Nat /\ jobs[w] \in Nat /\ c \in Nat
  BY Repeats, SlotSets DEF JobsShape
<1>2. Spent(w) = d - jobs[w] - c
  BY DEF Spent
<1>3. Streak = 0..(MaxDeliveries + MaxRestarts * Cardinality(Slots))
  BY DEF Streak
<1> DEFINE m == MaxDeliveries + MaxRestarts * Cardinality(Slots)
<1>4. Streak = 0..m /\ m \in Nat
  <2>1. MaxRestarts \in Nat /\ MaxDeliveries \in Nat /\ Cardinality(Slots) \in Nat
    BY BreakerConstants, SlotSets
  <2>2. \A a, n \in Nat : a * n \in Nat
    OBVIOUS
  <2> QED BY <1>3, <2>1, <2>2
<1> HIDE DEF d, c, m
<1> QED BY <1>1, <1>2, <1>4 DEF c

LEMMA BreakerShapeStep == BreakerShape /\ [Next]_vars => BreakerShape'
<1> SUFFICES ASSUME BreakerShape, [Next]_vars PROVE BreakerShape'
  OBVIOUS
<1> USE DEF row, redis, slots, scanner, syncer, bounds
<1>0. NoIoError \/ IoError => ioErrors' \in 0..MaxIoErrors
  BY BreakerConstants DEF NoIoError, IoError, BreakerShape
<1>a. ASSUME ScanOn
      PROVE  scan' \in {"idle", "row"} /\ todo' \subseteq Webhooks /\ closing' \in Webhooks
  BY <1>a DEF ScanOn, BreakerShape
<1>1. ASSUME NEW w \in Webhooks, NEW b \in BOOLEAN, Enqueue(w, b) PROVE BreakerShape'
  BY <1>1, BreakerConstants DEF Enqueue, BreakerShape
<1>2. ASSUME NEW k \in Slots, NEW w \in Webhooks, Deliver(k, w) PROVE BreakerShape'
  BY <1>2 DEF Deliver, BreakerShape, Steps
<1>3. ASSUME NEW k \in Slots, SlotStep(k) PROVE BreakerShape'
  <2>1. ioErrors' \in 0..MaxIoErrors
    BY <1>0, <1>3
    DEF SlotStep, Answer, RecordSuccess, RecordFailure, OpenRow, SetCooldown, BreakerShape
  <2>2. pc' \in [Slots -> Steps]
    BY <1>3
    DEF SlotStep, Answer, RecordSuccess, RecordFailure, OpenRow, SetCooldown, BreakerShape, Steps
  <2>3. /\ active' \in [Webhooks -> BOOLEAN] /\ cooldown' \in [Webhooks -> BOOLEAN]
        /\ openUntil' \in [Webhooks -> {"none", "future", "past"}] /\ adminSet' \subseteq Webhooks
    BY <1>3
    DEF SlotStep, Answer, RecordSuccess, RecordFailure, OpenRow, SetCooldown, BreakerShape
  <2>4. UNCHANGED <<hook, scanner, sync, deliveries, restarts>>
    BY <1>3 DEF SlotStep, Answer, RecordSuccess, RecordFailure, OpenRow, SetCooldown
  <2> QED BY <2>1, <2>2, <2>3, <2>4 DEF BreakerShape
<1>4. ASSUME NEW w \in Webhooks, NEW n \in Streak, ApplyWrite(w, n) PROVE BreakerShape'
  <2>1. ioErrors' \in 0..MaxIoErrors
    BY <1>0, <1>4 DEF ApplyWrite
  <2> QED BY <1>4, <2>1 DEF ApplyWrite, BreakerShape
<1>5. ASSUME NEW w \in Webhooks, Elapse(w) PROVE BreakerShape'
  BY <1>5 DEF Elapse, BreakerShape
<1>6. CASE Scan
  <2>1. ioErrors' \in 0..MaxIoErrors
    BY <1>0, <1>6 DEF Scan
  <2> QED BY <1>6, <2>1 DEF Scan, BreakerShape
<1>7. CASE CloseRow
  <2>1. ioErrors' \in 0..MaxIoErrors
    BY <1>0, <1>7 DEF CloseRow
  <2> QED BY <1>7, <2>1 DEF CloseRow, BreakerShape
<1>8. CASE CloseStreak
  <2>1. ioErrors' \in 0..MaxIoErrors
    BY <1>0, <1>8 DEF CloseStreak
  <2>2. /\ scan' \in {"idle", "row", "cooldown"} /\ todo' \subseteq Webhooks
        /\ closing' \in Webhooks
    BY <1>8, <1>a DEF CloseStreak, BreakerShape
  <2> QED BY <1>8, <2>1, <2>2 DEF CloseStreak, BreakerShape
<1>9. CASE CloseCooldown
  <2>1. ioErrors' \in 0..MaxIoErrors
    BY <1>0, <1>9 DEF CloseCooldown
  <2> QED BY <1>9, <1>a, <2>1 DEF CloseCooldown, BreakerShape
<1>10. CASE SyncRead
  <2>1. ioErrors' \in 0..MaxIoErrors
    BY <1>0, <1>10 DEF SyncRead
  <2> QED BY <1>10, <2>1 DEF SyncRead, BreakerShape
<1>11. CASE SyncWrite
  <2>1. ioErrors' \in 0..MaxIoErrors
    BY <1>0, <1>11 DEF SyncWrite
  <2>2. cooldown' \in [Webhooks -> BOOLEAN]
    BY <1>11 DEF SyncWrite, BreakerShape
  <2> QED BY <1>11, <2>1, <2>2 DEF SyncWrite, BreakerShape
<1>12. ASSUME NEW w \in Webhooks, NEW b \in BOOLEAN, PatchActive(w, b) PROVE BreakerShape'
  BY <1>12 DEF PatchActive, BreakerShape
<1>13. CASE Restart
  BY <1>13, BreakerConstants DEF Restart, BreakerShape, Steps
<1>14. ASSUME NEW w \in Webhooks, LoseKeys(w) PROVE BreakerShape'
  BY <1>14 DEF LoseKeys, BreakerShape
<1>15. CASE UNCHANGED vars
  BY <1>15 DEF vars, BreakerShape
<1> QED
  BY <1>1, <1>2, <1>3, <1>4, <1>5, <1>6, <1>7, <1>8, <1>9, <1>10, <1>11, <1>12, <1>13, <1>14, <1>15
  DEF Next, ScannerStep

\* A slot that does not take a job leaves the others where they are.
LEMMA SlotsLeave ==
  ASSUME BreakerShape, NEW k \in Slots, SlotStep(k)
  PROVE  /\ \A w : Busy(w)' \subseteq Busy(w) /\ Working(w)' \subseteq Working(w)
         /\ UNCHANGED <<jobs, hook, deliveries, restarts>>
<1>1. /\ hook' = hook /\ UNCHANGED <<jobs, deliveries, restarts>> /\ pc[k] # "idle"
      /\ pc' = [pc EXCEPT ![k] = pc'[k]]
      /\ pc[k] \notin {"post", "success", "failure"} =>
           pc'[k] \notin {"post", "success", "failure"}
  BY DEF SlotStep, Answer, RecordSuccess, RecordFailure, OpenRow, SetCooldown, slots, bounds,
         BreakerShape
<1> QED BY <1>1 DEF Busy, Working, BreakerShape

LEMMA JobsShapeStep == BreakerShape /\ JobsShape /\ [Next]_vars => JobsShape'
<1> SUFFICES ASSUME BreakerShape, JobsShape, [Next]_vars PROVE JobsShape'
  OBVIOUS
<1> USE DEF slots, bounds
<1>0. deliveries \in Nat
  BY BreakerConstants DEF BreakerShape
<1>1. CASE UNCHANGED <<jobs, pc, hook, deliveries>>
  BY <1>1 DEF JobsShape, Busy
<1>2. ASSUME NEW w \in Webhooks, NEW b \in BOOLEAN, Enqueue(w, b) PROVE JobsShape'
  <2>1. \A v : Busy(v)' = Busy(v)
    BY <1>2 DEF Enqueue, Busy
  <2>2. jobs' \in [Webhooks -> Nat]
    BY <1>2 DEF Enqueue, JobsShape
  <2>3. ASSUME NEW v \in Webhooks PROVE jobs'[v] + Cardinality(Busy(v)') <= deliveries'
    <3>1. /\ jobs[v] \in Nat /\ jobs'[v] \in {jobs[v], jobs[v] + 1} /\ Cardinality(Busy(v)) \in Nat
          /\ deliveries' = deliveries + 1 /\ jobs[v] + Cardinality(Busy(v)) <= deliveries
      BY <1>2, SlotSets DEF Enqueue, JobsShape
    <3>2. Busy(v)' = Busy(v)
      BY <2>1
    <3> DEFINE c == Cardinality(Busy(v))
    <3>3. Cardinality(Busy(v)') = c /\ c \in Nat
      BY <3>1, <3>2
    <3> HIDE DEF c
    <3> QED BY <1>0, <3>1, <3>3 DEF c
  <2> QED BY <2>2, <2>3 DEF JobsShape
<1>3. ASSUME NEW k \in Slots, NEW w \in Webhooks, Deliver(k, w) PROVE JobsShape'
  <2>1. jobs' \in [Webhooks -> Nat]
    BY <1>3 DEF Deliver, JobsShape
  <2>2. /\ \A v \in Webhooks : v # w => Busy(v)' = Busy(v) /\ jobs'[v] = jobs[v]
        /\ Busy(w)' = Busy(w) \cup {k} /\ k \notin Busy(w)
        /\ jobs'[w] = jobs[w] - 1 /\ jobs[w] \in Nat
    BY <1>3 DEF Deliver, Busy, BreakerShape, JobsShape
  <2>3. Cardinality(Busy(w) \cup {k}) = Cardinality(Busy(w)) + 1
    BY <2>2, SlotSets, FS_AddElement
  <2>4. jobs'[w] + Cardinality(Busy(w)') <= deliveries'
    <3>1. deliveries' = deliveries /\ jobs[w] + Cardinality(Busy(w)) <= deliveries
          /\ Cardinality(Busy(w)) \in Nat
      BY <1>3, SlotSets DEF Deliver, JobsShape
    <3>2. Cardinality(Busy(w)') = Cardinality(Busy(w)) + 1
      BY <2>2, <2>3
    <3> QED BY <1>0, <2>2, <3>1, <3>2
  <2>5. ASSUME NEW v \in Webhooks, v # w PROVE jobs'[v] + Cardinality(Busy(v)') <= deliveries'
    BY <1>3, <2>2, <2>5 DEF Deliver, JobsShape
  <2> QED BY <2>1, <2>4, <2>5 DEF JobsShape
<1>4. ASSUME NEW k \in Slots, SlotStep(k) PROVE JobsShape'
  <2>1. ASSUME NEW v \in Webhooks PROVE jobs'[v] + Cardinality(Busy(v)') <= deliveries'
    <3>1. Busy(v)' \subseteq Busy(v) /\ jobs' = jobs /\ deliveries' = deliveries
      BY <1>4, SlotsLeave
    <3>2. Cardinality(Busy(v)') <= Cardinality(Busy(v)) /\ IsFiniteSet(Busy(v)')
      BY <3>1, SlotSets, FS_Subset
    <3>3. Cardinality(Busy(v)') \in Nat /\ Cardinality(Busy(v)) \in Nat
      BY <3>2, SlotSets, FS_CardinalityType
    <3>4. jobs[v] \in Nat /\ jobs[v] + Cardinality(Busy(v)) <= deliveries
      BY DEF JobsShape
    <3> QED BY <1>0, <3>1, <3>2, <3>3, <3>4
  <2> QED BY <1>4, <2>1, SlotsLeave DEF JobsShape
<1>5. CASE Restart
  <2>1. \A v : Busy(v)' = {}
    BY <1>5 DEF Restart, Busy
  <2>2. /\ deliveries' = deliveries
        /\ jobs' = [v \in Webhooks |-> jobs[v] + Cardinality(Busy(v))]
    BY <1>5 DEF Restart, Busy
  <2>3. ASSUME NEW v \in Webhooks PROVE jobs'[v] \in Nat /\ jobs'[v] + Cardinality(Busy(v)') <= deliveries'
    <3>1. Cardinality(Busy(v)') = 0
      BY <2>1, FS_EmptySet
    <3>2. /\ jobs[v] \in Nat /\ Cardinality(Busy(v)) \in Nat
          /\ jobs[v] + Cardinality(Busy(v)) <= deliveries
      BY SlotSets DEF JobsShape
    <3> QED BY <1>0, <2>2, <3>1, <3>2
  <2> QED BY <2>2, <2>3 DEF JobsShape
<1> QED
  BY <1>1, <1>2, <1>3, <1>4, <1>5
  DEF Next, vars, ScannerStep, ApplyWrite, Elapse, Scan, CloseRow, CloseStreak, CloseCooldown,
      SyncRead, SyncWrite, PatchActive, LoseKeys

\* What was spent stays spent, and a failure costs one.
LEMMA SpentGrows ==
  ASSUME BreakerShape, JobsShape, [Next]_vars, NEW w \in Webhooks
  PROVE  /\ Spent(w)' \in Int /\ Spent(w) <= Spent(w)'
         /\ \A k \in Slots : RecordFailure(k) /\ hook[k] = w => Spent(w) + 1 <= Spent(w)'
<1> USE DEF slots, bounds
<1> DEFINE c == Cardinality(Working(w))
           r == restarts * Cardinality(Slots)
<1>0. /\ jobs[w] \in Nat /\ jobs'[w] \in Nat /\ c \in Nat /\ c' \in Nat
      /\ deliveries \in Nat /\ r \in Nat /\ r' \in Nat /\ Cardinality(Slots) \in Nat
  <2>1. BreakerShape' /\ JobsShape'
    BY BreakerShapeStep, JobsShapeStep
  <2>2. r \in Nat /\ r' \in Nat
    <3>1. \A a, b \in Nat : a * b \in Nat
      OBVIOUS
    <3> QED BY <2>1, <3>1, SlotSets, BreakerConstants DEF BreakerShape
  <2>3. c' \in Nat
    <3>1. Working(w)' \subseteq Slots
      BY DEF Working
    <3> QED BY <3>1, BreakerConstants, FS_Subset, FS_CardinalityType
  <2> QED BY <2>1, <2>2, <2>3, SlotSets, BreakerConstants DEF BreakerShape, JobsShape
<1>1. /\ Spent(w) = (deliveries + r) - jobs[w] - c
      /\ Spent(w)' = (deliveries' + r') - jobs'[w] - c'
  BY DEF Spent
<1>3. ASSUME NEW v \in Webhooks, NEW b \in BOOLEAN, Enqueue(v, b)
      PROVE  /\ Spent(w)' \in Int /\ Spent(w) <= Spent(w)'
             /\ \A k \in Slots : ~RecordFailure(k)
  <2>1. c' = c /\ r' = r /\ deliveries' = deliveries + 1 /\ jobs'[w] \in {jobs[w], jobs[w] + 1}
    BY <1>3 DEF Enqueue, Working, JobsShape
  <2>2. \A k \in Slots : ~RecordFailure(k)
    BY <1>0, <2>1 DEF RecordFailure
  <2> HIDE DEF c, r
  <2> QED BY <1>0, <1>1, <2>1, <2>2
<1>4. ASSUME NEW k \in Slots, NEW v \in Webhooks, Deliver(k, v)
      PROVE  /\ Spent(w)' \in Int /\ Spent(w) <= Spent(w)'
             /\ \A l \in Slots : ~RecordFailure(l)
  <2>1. r' = r /\ deliveries' = deliveries
    BY <1>4 DEF Deliver
  <2>2. jobs'[w] + c' = jobs[w] + c
    <3>1. CASE v = w
      <4>1. Working(w)' = Working(w) \cup {k} /\ k \notin Working(w) /\ jobs'[w] = jobs[w] - 1
        BY <1>4, <3>1 DEF Deliver, Working, BreakerShape, Steps, JobsShape
      <4>2. Cardinality(Working(w) \cup {k}) = c + 1
        BY <4>1, SlotSets, FS_AddElement
      <4>3. c' = c + 1
        BY <4>1, <4>2
      <4> HIDE DEF c
      <4> QED BY <1>0, <4>1, <4>3
    <3>2. CASE v # w
      BY <1>4, <3>2 DEF Deliver, Working, BreakerShape, Steps, JobsShape
    <3> QED BY <3>1, <3>2
  <2>3. \A l \in Slots : ~RecordFailure(l)
    <3>1. jobs' # jobs
      BY <1>4 DEF Deliver, JobsShape
    <3> QED BY <3>1 DEF RecordFailure
  <2> HIDE DEF c, r
  <2> QED BY <1>0, <1>1, <2>1, <2>2, <2>3
<1>5. ASSUME NEW k \in Slots, SlotStep(k)
      PROVE  Spent(w)' \in Int /\ Spent(w) <= Spent(w)'
  <2>1. /\ Working(w)' \subseteq Working(w) /\ jobs' = jobs /\ deliveries' = deliveries /\ r' = r
    BY <1>5, SlotsLeave
  <2>2. c' <= c
    BY <2>1, SlotSets, FS_Subset
  <2> HIDE DEF c, r
  <2> QED BY <1>0, <1>1, <2>1, <2>2
<1>6. ASSUME NEW k \in Slots, RecordFailure(k), hook[k] = w
      PROVE  Spent(w) + 1 <= Spent(w)'
  <2>1. /\ Working(w)' = Working(w) \ {k} /\ k \in Working(w)
        /\ jobs' = jobs /\ deliveries' = deliveries /\ r' = r
    BY <1>6 DEF RecordFailure, Working, BreakerShape
  <2>2. Cardinality(Working(w) \ {k}) = c - 1
    BY <2>1, SlotSets, FS_RemoveElement
  <2>3. c' = c - 1
    BY <2>1, <2>2
  <2> HIDE DEF c, r
  <2> QED BY <1>0, <1>1, <2>1, <2>3
<1>7. CASE Restart
  <2>1. Working(w)' = {}
    BY <1>7 DEF Restart, Working
  <2>2. jobs'[w] = jobs[w] + Cardinality(Busy(w)) /\ restarts' = restarts + 1
        /\ deliveries' = deliveries
    BY <1>7 DEF Restart, Busy
  <2>3. r' = r + Cardinality(Slots)
    <3>1. restarts \in Nat
      BY BreakerConstants DEF BreakerShape
    <3>2. \A a, b \in Nat : (a + 1) * b = a * b + b
      OBVIOUS
    <3> QED BY <1>0, <2>2, <3>1, <3>2
  <2>4. c' = 0
    BY <2>1, FS_EmptySet
  <2>5. Cardinality(Busy(w)) \in Nat /\ Cardinality(Busy(w)) <= Cardinality(Slots)
    BY SlotSets
  <2>6. \A k \in Slots : ~RecordFailure(k)
    BY <1>0, <2>2, BreakerConstants DEF RecordFailure, BreakerShape
  <2> HIDE DEF c, r
  <2> QED BY <1>0, <1>1, <2>2, <2>3, <2>4, <2>5, <2>6
<1>8. ASSUME Spent(w) <= Spent(w)', Spent(w)' \in Int
      PROVE  /\ Spent(w)' \in Int /\ Spent(w) <= Spent(w)'
             /\ \A k \in Slots : RecordFailure(k) /\ hook[k] = w => Spent(w) + 1 <= Spent(w)'
  BY <1>6, <1>8
<1>9. CASE UNCHANGED <<jobs, pc, hook, deliveries, restarts>>
  <2>1. c' = c /\ r' = r
    BY <1>9 DEF Working
  <2>2. Spent(w) <= Spent(w)' /\ Spent(w)' \in Int
    BY <1>0, <1>1, <1>9, <2>1
  <2> QED BY <1>8, <2>2
<1> QED
  BY <1>3, <1>4, <1>5, <1>7, <1>8, <1>9
  DEF Next, vars, ScannerStep, ApplyWrite, Elapse, Scan, CloseRow, CloseStreak, CloseCooldown,
      SyncRead, SyncWrite, PatchActive, LoseKeys

\* No step makes up a streak: it is moved, cleared, or counted once more.
LEMMA RecordedStep ==
  ASSUME BreakerShape, StreakShape, [Next]_vars, NEW w \in Webhooks, NEW n, Recorded(w, n)'
  PROVE  Recorded(w, n) \/ n = 0 \/ \E k \in Slots : RecordFailure(k) /\ hook[k] = w /\ n = streak[w] + 1
<1> USE DEF row, redis, slots, scanner, syncer, bounds
<1> DEFINE Known == Recorded(w, n) \/ n = 0
           Open(k) == pc[k] = "open" /\ hook[k] = w /\ n = seen[k]
<1>1. CASE UNCHANGED <<dbStreak, streak, pc, hook, seen, writes, snapshot>>
  BY <1>1 DEF Recorded
<1>2. ASSUME NEW k \in Slots, NEW v \in Webhooks, Deliver(k, v) PROVE Known
  <2>1. \A l \in Slots : Open(l)' => Open(l)
    BY <1>2 DEF Deliver, BreakerShape
  <2> QED BY <1>2, <2>1 DEF Deliver, Recorded
<1>3. ASSUME NEW k \in Slots, SlotStep(k), ~RecordFailure(k) PROVE Known
  <2>1. \A l \in Slots : Open(l)' => Open(l)
    BY <1>3 DEF SlotStep, Answer, RecordSuccess, OpenRow, SetCooldown, BreakerShape
  <2>2. dbStreak'[w] = dbStreak[w] \/ (dbStreak'[w] = seen[k] /\ pc[k] = "open" /\ hook[k] = w)
    <3>1. CASE UNCHANGED dbStreak
      BY <3>1
    <3>2. CASE pc[k] = "open" /\ dbStreak' = [dbStreak EXCEPT ![hook[k]] = seen[k]]
      BY <3>2 DEF StreakShape
    <3> QED BY <1>3, <3>1, <3>2 DEF SlotStep, Answer, RecordSuccess, OpenRow, SetCooldown
  <2>3. streak'[w] \in {0, streak[w]} /\ snapshot' = snapshot
    BY <1>3 DEF SlotStep, Answer, RecordSuccess, OpenRow, SetCooldown, StreakShape
  <2>4. n \in Streak /\ writes'[<<w, n>>] > 0 => n = 0 \/ writes[<<w, n>>] > 0
    BY <1>3 DEF SlotStep, Answer, RecordSuccess, Send, OpenRow, SetCooldown, StreakShape
  <2> QED BY <2>1, <2>2, <2>3, <2>4 DEF Recorded
<1>4. ASSUME NEW k \in Slots, RecordFailure(k) PROVE Known \/ (hook[k] = w /\ n = streak[w] + 1)
  <2>1. \A l \in Slots : Open(l)' => Open(l) \/ (hook[k] = w /\ n = streak[w] + 1)
    BY <1>4 DEF RecordFailure, BreakerShape, StreakShape
  <2>2. streak'[w] = streak[w] \/ (hook[k] = w /\ streak'[w] = streak[w] + 1)
    <3>1. streak' \in {streak, [streak EXCEPT ![hook[k]] = streak[hook[k]] + 1]}
      BY <1>4 DEF RecordFailure
    <3> QED BY <3>1 DEF StreakShape
  <2>3. n \in Streak /\ writes'[<<w, n>>] > 0 =>
          writes[<<w, n>>] > 0 \/ (hook[k] = w /\ n = streak[w] + 1)
    BY <1>4 DEF RecordFailure, Send, StreakShape
  <2>4. UNCHANGED <<dbStreak, snapshot>>
    BY <1>4 DEF RecordFailure
  <2> QED BY <2>1, <2>2, <2>3, <2>4 DEF Recorded
<1>5. ASSUME NEW v \in Webhooks, NEW m \in Streak, ApplyWrite(v, m) PROVE Known
  <2>1. dbStreak'[w] = dbStreak[w] \/ (w = v /\ dbStreak'[w] = m)
    BY <1>5 DEF ApplyWrite, StreakShape
  <2>2. n \in Streak /\ writes'[<<w, n>>] > 0 => writes[<<w, n>>] > 0
    BY <1>5 DEF ApplyWrite, StreakShape
  <2>3. UNCHANGED <<streak, pc, hook, seen, snapshot>>
    BY <1>5 DEF ApplyWrite
  <2> QED BY <1>5, <2>1, <2>2, <2>3 DEF ApplyWrite, Recorded
<1>6. CASE CloseRow \/ CloseStreak \/ \E v \in Webhooks : LoseKeys(v)
  <2>1. dbStreak'[w] \in {0, dbStreak[w]} /\ streak'[w] \in {0, streak[w]}
    BY <1>6 DEF CloseRow, CloseStreak, LoseKeys, StreakShape
  <2>2. UNCHANGED <<pc, hook, seen, writes, snapshot>>
    BY <1>6 DEF CloseRow, CloseStreak, LoseKeys
  <2> QED BY <2>1, <2>2 DEF Recorded
<1>7. CASE SyncRead
  <2>1. <<w, n>> \in snapshot' => n = dbStreak[w] \/ <<w, n>> \in snapshot
    BY <1>7 DEF SyncRead
  <2>2. UNCHANGED <<dbStreak, streak, pc, hook, seen, writes>>
    BY <1>7 DEF SyncRead
  <2> QED BY <2>1, <2>2 DEF Recorded
<1>8. CASE SyncWrite
  <2> DEFINE saved == {m \in Streak \ {0} : <<w, m>> \in snapshot}
  <2>1. streak'[w] = streak[w] \/ streak'[w] \in saved
    BY <1>8 DEF SyncWrite, StreakShape
  <2>2. UNCHANGED <<dbStreak, pc, hook, seen, writes>> /\ snapshot' = {}
    BY <1>8 DEF SyncWrite
  <2> QED BY <2>1, <2>2 DEF Recorded
<1>9. CASE Restart
  <2>1. \A l \in Slots : pc'[l] # "open"
    BY <1>9 DEF Restart
  <2>2. n \in Streak => ~(writes'[<<w, n>>] > 0)
    BY <1>9 DEF Restart
  <2>3. UNCHANGED <<dbStreak, streak, snapshot>>
    BY <1>9 DEF Restart
  <2> QED BY <2>1, <2>2, <2>3 DEF Recorded
<1> HIDE DEF Known, Open
<1>10. Known => Recorded(w, n) \/ n = 0
  BY DEF Known
<1> QED
  BY <1>1, <1>2, <1>3, <1>4, <1>5, <1>6, <1>7, <1>8, <1>9, <1>10
  DEF Next, vars, ScannerStep, Enqueue, Elapse, Scan, CloseCooldown, PatchActive

\* The streaks are numbers, and those seen are in their range if what was recorded is.
LEMMA StreakShapeStep ==
  ASSUME BreakerShape, StreakShape, [Next]_vars,
         \A k \in Slots : RecordFailure(k) => streak[hook[k]] + 1 \in Streak
  PROVE  StreakShape'
<1> USE DEF row, redis, slots, scanner, syncer, bounds
<1>0. Streak \subseteq Nat /\ Streak' = Streak
  BY Repeats DEF Streak
<1>1. CASE UNCHANGED <<dbStreak, streak, seen, writes, snapshot>>
  BY <1>1 DEF StreakShape
<1>2. ASSUME NEW k \in Slots, SlotStep(k), ~RecordFailure(k) PROVE StreakShape'
  <2>1. dbStreak' \in [Webhooks -> Nat]
    <3>1. dbStreak' \in {dbStreak, [dbStreak EXCEPT ![hook[k]] = seen[k]]}
      BY <1>2 DEF SlotStep, Answer, RecordSuccess, OpenRow, SetCooldown
    <3>2. seen[k] \in Nat
      BY <1>0 DEF StreakShape
    <3> QED BY <3>1, <3>2 DEF StreakShape
  <2>4. streak' \in [Webhooks -> Nat]
    BY <1>2 DEF SlotStep, Answer, RecordSuccess, OpenRow, SetCooldown, StreakShape
  <2>2. seen' = seen /\ snapshot' = snapshot
    BY <1>2 DEF SlotStep, Answer, RecordSuccess, OpenRow, SetCooldown
  <2>3. writes' \in [Webhooks \X Streak -> Nat]
    BY <1>2 DEF SlotStep, Answer, RecordSuccess, Send, OpenRow, SetCooldown, StreakShape
  <2> QED BY <2>1, <2>2, <2>3, <2>4 DEF StreakShape
<1>3. ASSUME NEW k \in Slots, RecordFailure(k) PROVE StreakShape'
  <2>1. streak' \in [Webhooks -> Nat] /\ UNCHANGED <<dbStreak, snapshot>>
    BY <1>3 DEF RecordFailure, StreakShape, BreakerShape
  <2>2. seen' \in [Slots -> Streak]
    BY <1>3 DEF RecordFailure, StreakShape
  <2>3. writes' \in [Webhooks \X Streak -> Nat]
    <3> DEFINE x == <<hook[k], streak[hook[k]] + 1>>
    <3>1. writes' \in {writes, [writes EXCEPT ![x] = writes[x] + 1]}
      BY <1>3 DEF RecordFailure, Send
    <3>2. x \in Webhooks \X Streak
      BY <1>3 DEF BreakerShape
    <3> HIDE DEF x
    <3> QED BY <3>1, <3>2 DEF StreakShape
  <2> QED BY <2>1, <2>2, <2>3 DEF StreakShape
<1>4. ASSUME NEW w \in Webhooks, NEW n \in Streak, ApplyWrite(w, n) PROVE StreakShape'
  <2>1. dbStreak' \in [Webhooks -> Nat] /\ UNCHANGED <<streak, seen, snapshot>>
    BY <1>0, <1>4 DEF ApplyWrite, StreakShape
  <2>2. writes' \in [Webhooks \X Streak -> Nat]
    BY <1>4 DEF ApplyWrite, StreakShape
  <2> QED BY <2>1, <2>2 DEF StreakShape
<1>5. CASE CloseRow \/ CloseStreak \/ \E w \in Webhooks : LoseKeys(w)
  <2>1. PICK w : /\ dbStreak' \in {dbStreak, [dbStreak EXCEPT ![w] = 0]}
                 /\ streak' \in {streak, [streak EXCEPT ![w] = 0]}
    BY <1>5 DEF CloseRow, CloseStreak, LoseKeys
  <2>2. UNCHANGED <<seen, writes, snapshot>>
    BY <1>5 DEF CloseRow, CloseStreak, LoseKeys
  <2> QED BY <2>1, <2>2 DEF StreakShape
<1>6. CASE SyncRead
  BY <1>6 DEF SyncRead, StreakShape
<1>7. CASE SyncWrite
  <2> DEFINE Saved(w) == {n \in Streak \ {0} : <<w, n>> \in snapshot}
  <2>1. ASSUME streak' # streak PROVE streak' \in [Webhooks -> Nat]
    <3>1. streak' = [w \in Webhooks |-> IF Saved(w) = {} THEN streak[w] ELSE CHOOSE n \in Saved(w) : TRUE]
      BY <1>7, <2>1 DEF SyncWrite
    <3>2. \A w \in Webhooks : Saved(w) # {} => (CHOOSE n \in Saved(w) : TRUE) \in Nat
      BY <1>0
    <3> HIDE DEF Saved
    <3> QED BY <3>1, <3>2 DEF StreakShape
  <2>2. UNCHANGED <<dbStreak, seen, writes>> /\ snapshot' = {}
    BY <1>7 DEF SyncWrite
  <2> QED BY <2>1, <2>2 DEF StreakShape
<1>8. CASE Restart
  BY <1>8 DEF Restart, StreakShape
<1> QED
  BY <1>1, <1>2, <1>3, <1>4, <1>5, <1>6, <1>7, <1>8
  DEF Next, vars, ScannerStep, Enqueue, Deliver, Elapse, Scan, CloseCooldown, PatchActive

LEMMA BreakerTypesStep == BreakerTypeInv /\ [Next]_vars => BreakerTypeInv'
<1> SUFFICES ASSUME BreakerShape, JobsShape, StreakShape, Affordable, [Next]_vars
             PROVE  BreakerTypeInv'
  BY DEF BreakerTypeInv
<1>1. BreakerShape' /\ JobsShape'
  BY BreakerShapeStep, JobsShapeStep
<1>2. \A w \in Webhooks : \A n \in Nat : n <= Spent(w)' => n \in Streak
  <2>1. (\A w \in Webhooks :
           /\ Spent(w) \in Int /\ \A n \in Nat : n <= Spent(w) => n \in Streak
           /\ jobs[w] \in Nat /\ Cardinality(Working(w)) \in Nat)'
    BY <1>1, SpentIsStreak, PTL
  <2> QED BY <2>1 DEF Streak
<1>3. ASSUME NEW w \in Webhooks, NEW n \in Nat, Recorded(w, n)' PROVE n <= Spent(w)'
  <2>1. Spent(w) <= Spent(w)' /\ Spent(w) \in Int /\ Spent(w)' \in Int
    BY SpentGrows, SpentIsStreak
  <2>2. CASE Recorded(w, n)
    BY <2>1, <2>2 DEF Affordable
  <2>3. streak[w] \in Nat /\ streak[w] <= Spent(w)
    BY DEF StreakShape, Affordable, Recorded
  <2>4. ASSUME NEW k \in Slots, RecordFailure(k), hook[k] = w, n = streak[w] + 1
        PROVE  n <= Spent(w)'
    <3>1. Spent(w) + 1 <= Spent(w)'
      BY <2>4, SpentGrows
    <3> QED BY <2>1, <2>3, <2>4, <3>1
  <2>5. 0 <= Spent(w)'
    BY <2>1, <2>3
  <2>6. \/ Recorded(w, n) \/ n = 0
        \/ \E k \in Slots : RecordFailure(k) /\ hook[k] = w /\ n = streak[w] + 1
    BY <1>3, RecordedStep
  <2> QED BY <2>2, <2>4, <2>5, <2>6
<1>4. ASSUME NEW w \in Webhooks, NEW k \in Slots, RecordFailure(k), hook[k] = w
      PROVE  streak[w] + 1 \in Streak
  <2>1. streak[w] \in Nat /\ streak[w] <= Spent(w)
    BY DEF StreakShape, Affordable, Recorded
  <2>2. Spent(w) \in Int /\ Spent(w)' \in Int
    BY SpentIsStreak, SpentGrows
  <2>3. Spent(w) + 1 <= Spent(w)'
    BY <1>4, SpentGrows
  <2>4. streak[w] + 1 <= Spent(w)' /\ streak[w] + 1 \in Nat
    BY <2>1, <2>2, <2>3
  <2> QED BY <1>2, <2>4
<1>5. StreakShape'
  <2>1. ASSUME NEW k \in Slots, RecordFailure(k) PROVE streak[hook[k]] + 1 \in Streak
    BY <1>4, <2>1 DEF BreakerShape
  <2> QED BY <2>1, StreakShapeStep
<1> QED BY <1>1, <1>3, <1>5 DEF BreakerTypeInv, Affordable

LEMMA BreakerTypesInit == Init => BreakerTypeInv
<1> SUFFICES ASSUME Init PROVE BreakerTypeInv
  OBVIOUS
<1>1. (CHOOSE w \in Webhooks : TRUE) \in Webhooks
  BY BreakerConstants
<1>2. BreakerShape
  BY <1>1, BreakerConstants DEF Init, BreakerShape, Steps
<1>3. JobsShape
  <2>1. ASSUME NEW w \in Webhooks PROVE jobs[w] + Cardinality(Busy(w)) <= deliveries
    <3>1. Busy(w) = {} /\ jobs[w] = 0 /\ deliveries = 0
      BY DEF Init, Busy
    <3> QED BY <3>1, FS_EmptySet
  <2> QED BY <2>1 DEF Init, JobsShape
<1>4. 0 \in Streak
  <2>1. deliveries + restarts * Cardinality(Slots) = 0
    <3>1. \A a \in Nat : 0 + 0 * a = 0
      OBVIOUS
    <3> QED BY <3>1, SlotSets DEF Init
  <2> QED BY <1>2, <2>1, Repeats
<1>5. StreakShape
  BY <1>4 DEF Init, StreakShape
<1>6. Affordable
  <2>1. ASSUME NEW w \in Webhooks, NEW n \in Nat, Recorded(w, n) PROVE n <= Spent(w)
    <3>1. n = 0
      BY <2>1 DEF Init, Recorded
    <3>2. Working(w) = {} /\ jobs[w] = 0
      BY DEF Init, Working
    <3>3. Spent(w) = 0
      <4>1. \A a \in Nat : ((0 + 0 * a) - 0) - 0 = 0
        OBVIOUS
      <4> QED BY <3>2, <4>1, SlotSets, FS_EmptySet DEF Init, Spent
    <3> QED BY <3>1, <3>3
  <2> QED BY <2>1 DEF Affordable
<1> QED BY <1>2, <1>3, <1>5, <1>6 DEF BreakerTypeInv

\* However often Redis is flushed or the sync brings an old streak back, no streak
\* exceeds the deliveries and what restarts may have repeated, and no variable
\* leaves its type.
THEOREM TypeCorrect == SafetySpec => []TypeOK
<1>1. BreakerTypeInv => TypeOK
  <2> SUFFICES ASSUME BreakerTypeInv PROVE TypeOK
    OBVIOUS
  <2>0. BreakerShape /\ JobsShape /\ StreakShape /\ Affordable
    BY DEF BreakerTypeInv
  <2>1. \A w \in Webhooks : dbStreak[w] \in Streak /\ streak[w] \in Streak
    <3>1. \A w \in Webhooks : Recorded(w, dbStreak[w]) /\ Recorded(w, streak[w])
      BY DEF Recorded
    <3> QED BY <2>0, <3>1, SpentIsStreak DEF Affordable, StreakShape
  <2>2. \A x \in snapshot : x \in Webhooks \X Streak
    <3> SUFFICES ASSUME NEW x \in snapshot PROVE x \in Webhooks \X Streak
      OBVIOUS
    <3>1. PICK w \in Webhooks, n \in Nat : x = <<w, n>>
      BY <2>0 DEF StreakShape
    <3>2. Recorded(w, n)
      BY <3>1 DEF Recorded
    <3> QED BY <2>0, <3>1, <3>2, SpentIsStreak DEF Affordable
  <2>3. jobs \in [Webhooks -> 0..MaxDeliveries]
    <3>1. ASSUME NEW w \in Webhooks PROVE jobs[w] \in 0..MaxDeliveries
      <4>1. jobs[w] \in Nat /\ Cardinality(Busy(w)) \in Nat
            /\ jobs[w] + Cardinality(Busy(w)) <= deliveries /\ deliveries \in 0..MaxDeliveries
        BY <2>0, SlotSets DEF JobsShape, BreakerShape
      <4> QED BY <4>1, BreakerConstants
    <3> QED BY <2>0, <3>1 DEF JobsShape
  <2>4. dbStreak \in [Webhooks -> Streak] /\ streak \in [Webhooks -> Streak]
    BY <2>0, <2>1 DEF StreakShape
  <2> QED BY <2>0, <2>2, <2>3, <2>4 DEF TypeOK, BreakerShape, StreakShape, Steps
<1> QED BY <1>1, BreakerTypesInit, BreakerTypesStep, PTL DEF SafetySpec

===============================================================================
