--------------------------- MODULE WebhookDlqProofs ---------------------------
(***************************************************************************)
(* Proofs about WebhookDlq: no dead letter is lost, and the queue keeps its *)
(* cap, for any number of deliveries, slots, crashes and sizes.            *)
(***************************************************************************)
EXTENDS WebhookDlq, SequenceTheorems, TLAPS

-----------------------------------------------------------------------------
(* What the operations of the queue do to its entries.                     *)

\* An entry is taken out of the middle.
LEMMA RemoveAtProperties ==
  ASSUME NEW S, NEW s \in Seq(S), NEW i \in DOMAIN s
  PROVE  /\ RemoveAt(s, i) \in Seq(S)
         /\ Len(RemoveAt(s, i)) = Len(s) - 1
         /\ \A j \in 1..(Len(s) - 1) : RemoveAt(s, i)[j] = IF j < i THEN s[j] ELSE s[j + 1]
<1>1. i \in 1..Len(s) /\ Len(s) \in Nat
  BY LenProperties
<1>2. /\ SubSeq(s, 1, i - 1) \in Seq(S) /\ Len(SubSeq(s, 1, i - 1)) = i - 1
      /\ \A j \in 1..(i - 1) : SubSeq(s, 1, i - 1)[j] = s[j]
  BY <1>1, SubSeqProperties
<1>3. /\ SubSeq(s, i + 1, Len(s)) \in Seq(S) /\ Len(SubSeq(s, i + 1, Len(s))) = Len(s) - i
      /\ \A j \in 1..(Len(s) - i) : SubSeq(s, i + 1, Len(s))[j] = s[i + j]
  BY <1>1, SubSeqProperties
<1> DEFINE front == SubSeq(s, 1, i - 1)
           back == SubSeq(s, i + 1, Len(s))
<1>4. /\ front \o back \in Seq(S) /\ Len(front \o back) = Len(front) + Len(back)
      /\ \A j \in 1..(Len(front) + Len(back)) :
           (front \o back)[j] = IF j <= Len(front) THEN front[j] ELSE back[j - Len(front)]
  <2> HIDE DEF front, back
  <2>1. front \in Seq(S) /\ back \in Seq(S)
    BY <1>2, <1>3 DEF front, back
  <2>2. QED
    BY <2>1, ConcatProperties
<1>5. RemoveAt(s, i) = front \o back
  BY DEF RemoveAt
<1>6. /\ Len(front) = i - 1 /\ Len(back) = Len(s) - i
      /\ \A j \in 1..(i - 1) : front[j] = s[j]
      /\ \A j \in 1..(Len(s) - i) : back[j] = s[i + j]
  BY <1>2, <1>3
<1> HIDE DEF front, back
<1>7. ASSUME NEW j \in 1..(Len(s) - 1)
      PROVE  RemoveAt(s, i)[j] = IF j < i THEN s[j] ELSE s[j + 1]
  <2>1. CASE j < i
    <3>1. (front \o back)[j] = front[j]
      BY <1>1, <1>4, <1>6, <2>1
    <3>2. QED
      BY <1>1, <1>5, <1>6, <2>1, <3>1
  <2>2. CASE j >= i
    <3>1. j \in 1..(Len(front) + Len(back)) /\ ~(j <= Len(front))
      BY <1>1, <1>6, <2>2
    <3>2. (front \o back)[j] = back[j - Len(front)]
      BY <1>4, <3>1
    <3>3. j - Len(front) \in 1..(Len(s) - i) /\ i + (j - Len(front)) = j + 1
      BY <1>1, <1>6, <2>2
    <3>4. back[j - Len(front)] = s[j + 1]
      BY <1>6, <3>3
    <3>5. ~(j < i)
      BY <1>1, <2>2
    <3>6. QED
      BY <1>5, <3>2, <3>4, <3>5
  <2>3. QED
    BY <1>1, <2>1, <2>2
<1>8. RemoveAt(s, i) \in Seq(S) /\ Len(RemoveAt(s, i)) = Len(s) - 1
  <2>1. Len(front) + Len(back) = Len(s) - 1
    BY <1>1, <1>6
  <2>2. QED
    BY <1>4, <1>5, <2>1
<1>9. QED
  BY <1>7, <1>8

\* Adding: the entry's delivery is held afterwards, and every one held before.
LEMMA AddEntryHolds ==
  ASSUME dlq \in Seq(Entry), NEW x \in Entry, AddEntry(x)
  PROVE  /\ dlq' \in Seq(Entry) /\ Len(dlq') <= Len(dlq) + 1
         /\ Holds(x[1])'
         /\ \A d : Holds(d) => Holds(d)'
<1>1. CASE Holds(x[1])
  BY <1>1 DEF AddEntry, Holds
<1>2. CASE ~Holds(x[1])
  <2>1. dlq' = Append(dlq, x)
    BY <1>2 DEF AddEntry
  <2>2. /\ dlq' \in Seq(Entry) /\ Len(dlq') = Len(dlq) + 1 /\ dlq'[Len(dlq) + 1] = x
        /\ \A i \in 1..Len(dlq) : dlq'[i] = dlq[i]
    BY <2>1, AppendProperties
  <2>3. QED
    BY <2>2 DEF Holds
<1>3. QED
  BY <1>1, <1>2

\* Removing by id: only that delivery goes, and if it was there the queue is
\* shorter by one.
LEMMA RemoveIdHolds ==
  ASSUME dlq \in Seq(Entry), NEW d, RemoveId(d)
  PROVE  /\ dlq' \in Seq(Entry)
         /\ Len(dlq') = IF Holds(d) THEN Len(dlq) - 1 ELSE Len(dlq)
         /\ \A e : e # d /\ Holds(e) => Holds(e)'
<1>1. CASE ~Holds(d)
  BY <1>1 DEF RemoveId, Holds
<1>2. CASE Holds(d)
  <2>1. PICK i \in DOMAIN dlq : dlq[i][1] = d /\ dlq' = RemoveAt(dlq, i)
    BY <1>2 DEF RemoveId
  <2>2. /\ dlq' \in Seq(Entry) /\ Len(dlq') = Len(dlq) - 1
        /\ \A j \in 1..(Len(dlq) - 1) : dlq'[j] = IF j < i THEN dlq[j] ELSE dlq[j + 1]
    BY <2>1, RemoveAtProperties
  <2>3. ASSUME NEW e, e # d, NEW j \in DOMAIN dlq, dlq[j][1] = e
        PROVE  Holds(e)'
    <3>1. j # i /\ i \in 1..Len(dlq) /\ j \in 1..Len(dlq) /\ Len(dlq) \in Nat
      BY <2>1, <2>3
    <3>2. CASE j < i
      <4>1. j \in 1..(Len(dlq) - 1) /\ dlq'[j] = dlq[j]
        BY <2>2, <3>1, <3>2
      <4>2. QED
        BY <2>2, <2>3, <4>1 DEF Holds
    <3>3. CASE j > i
      <4>1. j - 1 \in 1..(Len(dlq) - 1) /\ dlq'[j - 1] = dlq[j]
        BY <2>2, <3>1, <3>3
      <4>2. QED
        BY <2>2, <2>3, <4>1 DEF Holds
    <3>4. QED
      BY <3>1, <3>2, <3>3
  <2>4. QED
    BY <1>2, <2>2, <2>3 DEF Holds
<1>3. QED
  BY <1>1, <1>2

-----------------------------------------------------------------------------
(* The invariants.                                                         *)

Busy(k) == pc[k] # "idle"

\* What the proofs need of the types.
DlqShape ==
  /\ dlq \in Seq(Entry)
  /\ failures \in [Deliveries -> 0..MaxFailures]
  /\ redo \subseteq Entry
  /\ pc \in [Slots -> {"idle", "depth", "oldest", "archive", "remove", "add"}]
  /\ entry \in [Slots -> Entry \cup {NoEntry}]
  /\ \A k \in Slots : Busy(k) => entry[k] \in Entry
  /\ DOMAIN victim = Slots
  /\ ioErrors \in Nat

\* Where a dead-lettered delivery is to be found.
Kept(d) ==
  \/ Holds(d)
  \/ \E x \in archive \cup redo : x[1] = d
  \/ \E k \in Slots : Busy(k) /\ entry[k][1] = d

\* Whoever is about to remove an entry has put a row into the archive for it.
ArchivedFirst ==
  /\ \A k \in Slots : pc[k] = "remove" => victim[k] \in archive
  /\ purge \in {"expiredRemove", "overflowRemove"} => Head(plan) \in archive

LostInv ==
  DlqShape /\ (ioErrors = 0 => ArchivedFirst /\ \A d \in Deliveries : failures[d] > 0 => Kept(d))

\* While no two slots are in enqueueToDlq, the one that counted the queue as full
\* makes room before it adds, or somebody else did.
RoomInv ==
  ~overlapped =>
    /\ Len(dlq) <= MaxSize
    /\ \A k, c \in Slots : Busy(k) /\ Busy(c) => k = c
    /\ \A k \in Slots :
         /\ pc[k] \in {"archive", "remove"} => Len(dlq) < MaxSize \/ Holds(victim[k][1])
         /\ pc[k] = "add" => Len(dlq) < MaxSize

-----------------------------------------------------------------------------
(* The types.                                                              *)

LEMMA InitShape == Init => DlqShape
<1>1. <<>> \in Seq(Entry)
  BY EmptySeq
<1>2. QED
  BY <1>1, DlqConstants DEF Init, DlqShape, Busy

LEMMA IoErrorsGrow ==
  ASSUME DlqShape, IoError \/ NoIoError
  PROVE  ioErrors' \in Nat /\ (ioErrors' = 0 => ioErrors = 0 /\ NoIoError)
BY DEF DlqShape, IoError, NoIoError

LEMMA EnterShape ==
  ASSUME DlqShape, NEW k \in Slots, NEW x \in Entry, Enter(k, x), UNCHANGED <<dlq, victim, ioErrors>>,
         failures' \in [Deliveries -> 0..MaxFailures], redo' \subseteq Entry
  PROVE  DlqShape'
BY DEF DlqShape, Enter, Busy

LEMMA GotoShape ==
  ASSUME DlqShape, NEW k \in Slots, NEW step, Goto(k, step), Busy(k), UNCHANGED <<failures, redo, entry>>,
         step \in {"idle", "depth", "oldest", "archive", "remove", "add"},
         dlq' \in Seq(Entry), DOMAIN victim' = Slots, ioErrors' \in Nat
  PROVE  DlqShape'
BY DEF DlqShape, Goto, Busy

LEMMA SlotKeepsShape ==
  ASSUME DlqShape, NEW k \in Slots, SlotStep(k)
  PROVE  DlqShape'
<1>1. CASE ReadDepth(k)
  <2>1. ioErrors' \in Nat /\ Busy(k)
    BY <1>1, IoErrorsGrow DEF ReadDepth, GiveUp, Busy
  <2>2. QED
    BY <1>1, <2>1, GotoShape DEF ReadDepth, GiveUp, DlqShape
<1>2. CASE ReadOldest(k)
  <2>1. ioErrors' \in Nat /\ Busy(k) /\ DOMAIN victim' = Slots
    BY <1>2, IoErrorsGrow DEF ReadOldest, GiveUp, Busy, DlqShape
  <2>2. dlq' \in Seq(Entry)
    BY <1>2 DEF ReadOldest, DlqShape
  <2>3. QED
    BY <1>2, <2>1, <2>2, GotoShape DEF ReadOldest, GiveUp
<1>3. CASE ArchiveVictim(k)
  <2>1. ioErrors' \in Nat /\ Busy(k)
    BY <1>3, IoErrorsGrow DEF ArchiveVictim, ArchiveRow, Busy
  <2>2. QED
    BY <1>3, <2>1, GotoShape DEF ArchiveVictim, DlqShape
<1>4. CASE RemoveVictim(k)
  <2>1. ioErrors' \in Nat /\ Busy(k)
    BY <1>4, IoErrorsGrow DEF RemoveVictim, GiveUp, Busy
  <2>2. dlq' \in Seq(Entry)
    BY <1>4, RemoveIdHolds DEF RemoveVictim, DlqShape
  <2>3. QED
    BY <1>4, <2>1, <2>2, GotoShape DEF RemoveVictim, GiveUp, DlqShape
<1>5. CASE Add(k)
  <2>1. ioErrors' \in Nat /\ Busy(k)
    BY <1>5, IoErrorsGrow DEF Add, Busy
  <2>2. dlq' \in Seq(Entry)
    <3>1. entry[k] \in Entry
      BY <2>1 DEF DlqShape
    <3>2. QED
      BY <1>5, <3>1, AddEntryHolds DEF Add, DlqShape
  <2>3. QED
    BY <1>5, <2>1, <2>2, GotoShape DEF Add, DlqShape
<1>6. QED
  BY <1>1, <1>2, <1>3, <1>4, <1>5 DEF SlotStep

LEMMA NextShape == DlqShape /\ [Next]_vars => DlqShape'
<1> SUFFICES ASSUME DlqShape, [Next]_vars PROVE DlqShape'
  OBVIOUS
<1>1. ASSUME NEW k \in Slots, NEW d \in Deliveries, Exhaust(k, d)
      PROVE  DlqShape'
  <2>1. <<d, failures[d] + 1>> \in Entry /\ failures' \in [Deliveries -> 0..MaxFailures]
    BY <1>1, DlqConstants DEF Exhaust, DlqShape, Entry
  <2>2. redo' \subseteq Entry
    BY <1>1 DEF Exhaust, DlqShape
  <2>3. QED
    BY <1>1, <2>1, <2>2, EnterShape DEF Exhaust
<1>2. ASSUME NEW k \in Slots, NEW x \in Entry, Redo(k, x)
      PROVE  DlqShape'
  <2>1. failures' \in [Deliveries -> 0..MaxFailures] /\ redo' \subseteq Entry
    BY <1>2 DEF Redo, DlqShape
  <2>2. QED
    BY <1>2, <2>1, EnterShape DEF Redo
<1>3. ASSUME NEW k \in Slots, SlotStep(k)
      PROVE  DlqShape'
  BY <1>3, SlotKeepsShape
<1>4. CASE StartPurge
  BY <1>4 DEF StartPurge, slotVars, DlqShape, Busy
<1>5. CASE PurgeArchive
  <2>1. ioErrors' \in Nat
    BY <1>5, IoErrorsGrow DEF PurgeArchive, ArchiveRow
  <2>2. QED
    BY <1>5, <2>1 DEF PurgeArchive, slotVars, DlqShape, Busy
<1>6. CASE PurgeRemove
  <2>1. ioErrors' \in Nat
    BY <1>6, IoErrorsGrow DEF PurgeRemove
  <2>2. dlq' \in Seq(Entry)
    BY <1>6, RemoveIdHolds DEF PurgeRemove, DlqShape
  <2>3. QED
    BY <1>6, <2>1, <2>2 DEF PurgeRemove, slotVars, DlqShape, Busy
<1>7. CASE Recount
  BY <1>7 DEF Recount, slotVars, DlqShape, Busy
<1>8. ASSUME NEW x \in Entry, Age(x)
      PROVE  DlqShape'
  BY <1>8 DEF Age, slotVars, DlqShape, Busy
<1>9. CASE Crash
  <2>1. redo' \subseteq Entry
    BY <1>9 DEF Crash, DlqShape, Busy
  <2>2. pc' = [k \in Slots |-> "idle"]
    BY <1>9 DEF Crash
  <2>3. QED
    BY <1>9, <2>1, <2>2 DEF Crash, DlqShape, Busy
<1>10. CASE UNCHANGED vars
  BY <1>10 DEF vars, slotVars, DlqShape, Busy
<1>11. QED
  BY <1>1, <1>2, <1>3, <1>4, <1>5, <1>6, <1>7, <1>8, <1>9, <1>10 DEF Next, PurgeStep

-----------------------------------------------------------------------------
(* No dead letter is lost.                                                 *)

\* A delivery stays kept when a slot goes on and nothing is taken away.
LEMMA StaysKept ==
  ASSUME NEW d, Kept(d), archive \cup redo \subseteq archive' \cup redo', UNCHANGED entry,
         Holds(d) => Holds(d)' \/ \E x \in archive' : x[1] = d,
         \A k \in Slots : Busy(k) => Busy(k)' \/ Kept(entry[k][1])'
  PROVE  Kept(d)'
BY DEF Kept

LEMMA SlotLosesNothing ==
  ASSUME LostInv, NEW k \in Slots, SlotStep(k), ioErrors' = 0
  PROVE  ArchivedFirst' /\ \A d \in Deliveries : failures'[d] > 0 => Kept(d)'
<1>1. ioErrors = 0 /\ NoIoError
  BY IoErrorsGrow DEF LostInv, DlqShape, SlotStep, ReadDepth, ReadOldest, ArchiveVictim, ArchiveRow,
     RemoveVictim, Add, GiveUp, IoError, NoIoError
<1>2. ~IoError
  BY <1>1 DEF IoError, NoIoError, LostInv, DlqShape
<1>3. UNCHANGED <<failures, redo, entry, purgeVars>> /\ archive \subseteq archive'
  BY <1>2 DEF SlotStep, ReadDepth, ReadOldest, ArchiveVictim, ArchiveRow, RemoveVictim, Add, GiveUp
<1>4. \A d \in Deliveries : failures'[d] > 0 => Kept(d)
  BY <1>1, <1>3 DEF LostInv
<1>5. Busy(k) /\ pc \in [Slots -> {"idle", "depth", "oldest", "archive", "remove", "add"}]
  BY DEF SlotStep, ReadDepth, ReadOldest, ArchiveVictim, RemoveVictim, Add, Busy, LostInv, DlqShape
<1>6. ArchivedFirst /\ DOMAIN victim = Slots /\ dlq \in Seq(Entry) /\ entry[k] \in Entry
  BY <1>1, <1>5 DEF LostInv, DlqShape
<1>7. CASE ReadDepth(k)
  <2>1. PICK step \in {"oldest", "add"} : Goto(k, step)
    BY <1>2, <1>7 DEF ReadDepth, GiveUp
  <2>2. ArchivedFirst'
    BY <1>3, <1>5, <1>6, <1>7, <2>1 DEF ReadDepth, Goto, ArchivedFirst, purgeVars
  <2>3. \A c \in Slots : Busy(c) => Busy(c)'
    BY <1>5, <2>1 DEF Goto, Busy
  <2>4. QED
    BY <1>3, <1>4, <1>7, <2>2, <2>3, StaysKept DEF ReadDepth, Holds
<1>8. CASE ReadOldest(k)
  <2>1. PICK step \in {"archive", "add"} : Goto(k, step)
    BY <1>2, <1>8 DEF ReadOldest, GiveUp
  <2>2. \A c \in Slots : c # k => victim'[c] = victim[c]
    BY <1>6, <1>8 DEF ReadOldest
  <2>3. ArchivedFirst'
    BY <1>3, <1>5, <1>6, <2>1, <2>2 DEF Goto, ArchivedFirst, purgeVars
  <2>4. \A c \in Slots : Busy(c) => Busy(c)'
    BY <1>5, <2>1 DEF Goto, Busy
  <2>5. QED
    BY <1>3, <1>4, <1>8, <2>3, <2>4, StaysKept DEF ReadOldest, Holds
<1>9. CASE ArchiveVictim(k)
  <2>1. Goto(k, "remove") /\ archive' = archive \cup {victim[k]} /\ UNCHANGED <<dlq, victim>>
    BY <1>2, <1>9 DEF ArchiveVictim, ArchiveRow
  <2>2. ArchivedFirst'
    BY <1>3, <1>5, <1>6, <2>1 DEF Goto, ArchivedFirst, purgeVars
  <2>3. \A c \in Slots : Busy(c) => Busy(c)'
    BY <1>5, <2>1 DEF Goto, Busy
  <2>4. QED
    BY <1>3, <1>4, <2>1, <2>2, <2>3, StaysKept DEF Holds
<1>10. CASE RemoveVictim(k)
  <2>1. /\ Goto(k, "add") /\ RemoveId(victim[k][1]) /\ UNCHANGED <<archive, victim>>
        /\ pc[k] = "remove"
    BY <1>2, <1>10 DEF RemoveVictim, GiveUp
  <2>2. ArchivedFirst'
    BY <1>3, <1>5, <1>6, <2>1 DEF Goto, ArchivedFirst, purgeVars
  <2>3. \A c \in Slots : Busy(c) => Busy(c)'
    BY <1>5, <2>1 DEF Goto, Busy
  <2>4. victim[k] \in archive'
    BY <1>6, <2>1 DEF ArchivedFirst
  <2>5. ASSUME NEW d \in Deliveries, Holds(d)
        PROVE  Holds(d)' \/ \E x \in archive' : x[1] = d
    <3>1. CASE d = victim[k][1]
      BY <2>4, <3>1
    <3>2. CASE d # victim[k][1]
      BY <1>6, <2>1, <2>5, <3>2, RemoveIdHolds
    <3>3. QED
      BY <3>1, <3>2
  <2>6. QED
    BY <1>3, <1>4, <2>2, <2>3, <2>5, StaysKept
<1>11. CASE Add(k)
  <2>1. Goto(k, "idle") /\ AddEntry(entry[k]) /\ UNCHANGED <<archive, victim>>
    BY <1>2, <1>11 DEF Add
  <2>2. ArchivedFirst'
    BY <1>3, <1>5, <1>6, <2>1 DEF Goto, ArchivedFirst, purgeVars
  <2>3. Kept(entry[k][1])'
    <3>1. \E i \in DOMAIN dlq' : dlq'[i][1] = entry[k][1]
      BY <1>6, <2>1, AddEntryHolds DEF Holds
    <3>2. QED
      BY <1>3, <3>1 DEF Kept, Holds
  <2>4. \A c \in Slots : Busy(c) => Busy(c)' \/ Kept(entry[c][1])'
    BY <1>5, <2>1, <2>3 DEF Goto, Busy
  <2>5. \A d : Holds(d) => Holds(d)'
    BY <1>6, <2>1, AddEntryHolds
  <2>6. QED
    BY <1>3, <1>4, <2>2, <2>4, <2>5, StaysKept
<1>12. QED
  BY <1>7, <1>8, <1>9, <1>10, <1>11 DEF SlotStep

LEMMA PurgeLosesNothing ==
  ASSUME LostInv, PurgeStep, ioErrors' = 0
  PROVE  ArchivedFirst' /\ \A d \in Deliveries : failures'[d] > 0 => Kept(d)'
<1>1. ioErrors = 0 /\ NoIoError
  BY IoErrorsGrow DEF LostInv, DlqShape, PurgeStep, StartPurge, PurgeArchive, ArchiveRow, PurgeRemove,
     Recount, IoError, NoIoError
<1>2. ~IoError
  BY <1>1 DEF IoError, NoIoError, LostInv, DlqShape
<1>3. UNCHANGED <<failures, redo, slotVars>> /\ archive \subseteq archive'
  BY <1>2 DEF PurgeStep, StartPurge, PurgeArchive, ArchiveRow, PurgeRemove, Recount
<1>4. \A d \in Deliveries : failures'[d] > 0 => Kept(d)
  BY <1>1, <1>3 DEF LostInv
<1>5. \A k \in Slots : Busy(k) => Busy(k)'
  BY <1>3 DEF Busy, slotVars
<1>6. ArchivedFirst /\ dlq \in Seq(Entry)
  BY <1>1 DEF LostInv, DlqShape
<1>7. \A k \in Slots : pc'[k] = "remove" => victim'[k] \in archive'
  BY <1>3, <1>6 DEF ArchivedFirst, slotVars
<1>8. purge' \in {"expiredRemove", "overflowRemove"} => Head(plan') \in archive'
  <2>1. CASE StartPurge
    BY <2>1 DEF StartPurge
  <2>2. CASE PurgeArchive
    BY <1>2, <2>2 DEF PurgeArchive, ArchiveRow
  <2>3. CASE PurgeRemove
    BY <2>3 DEF PurgeRemove
  <2>4. CASE Recount
    BY <2>4 DEF Recount
  <2>5. QED
    BY <2>1, <2>2, <2>3, <2>4 DEF PurgeStep
<1>9. ASSUME NEW d \in Deliveries, Holds(d)
      PROVE  Holds(d)' \/ \E x \in archive' : x[1] = d
  <2>1. CASE PurgeRemove
    <3>1. RemoveId(Head(plan)[1]) /\ Head(plan) \in archive'
      BY <1>2, <1>3, <1>6, <2>1 DEF PurgeRemove, ArchivedFirst
    <3>2. CASE d = Head(plan)[1]
      BY <3>1, <3>2
    <3>3. CASE d # Head(plan)[1]
      BY <1>6, <1>9, <3>1, <3>3, RemoveIdHolds
    <3>4. QED
      BY <3>2, <3>3
  <2>2. CASE ~PurgeRemove
    <3>1. dlq' = dlq
      BY <2>2 DEF PurgeStep, StartPurge, PurgeArchive, Recount
    <3>2. QED
      BY <1>9, <3>1 DEF Holds
  <2>3. QED
    BY <2>1, <2>2
<1>10. \A d \in Deliveries : Kept(d) => Kept(d)'
  BY <1>3, <1>5, <1>9, StaysKept DEF slotVars
<1>11. QED
  BY <1>4, <1>7, <1>8, <1>10, <1>3 DEF ArchivedFirst

LEMMA NextLosesNothing == LostInv /\ [Next]_vars => LostInv'
<1> SUFFICES ASSUME LostInv, [Next]_vars, ioErrors' = 0
             PROVE  ArchivedFirst' /\ \A d \in Deliveries : failures'[d] > 0 => Kept(d)'
  BY NextShape DEF LostInv
<1>1. ASSUME NEW k \in Slots, NEW x \in Entry, ~Busy(k), Enter(k, x),
             UNCHANGED <<dlq, archive, victim, purgeVars, ioErrors>>,
             redo \subseteq redo' \cup {x},
             \A d \in Deliveries : failures'[d] > 0 => failures[d] > 0 \/ d = x[1]
      PROVE  ArchivedFirst' /\ \A d \in Deliveries : failures'[d] > 0 => Kept(d)'
  <2>1. ArchivedFirst /\ \A d \in Deliveries : failures[d] > 0 => Kept(d)
    BY <1>1 DEF LostInv
  <2>2. pc' = [pc EXCEPT ![k] = "depth"] /\ entry' = [entry EXCEPT ![k] = x]
        /\ k \in DOMAIN pc /\ k \in DOMAIN entry
    BY <1>1 DEF Enter, LostInv, DlqShape
  <2>3. Busy(k)' /\ entry'[k] = x /\ \A c \in Slots : Busy(c) => Busy(c)' /\ entry'[c] = entry[c]
    BY <1>1, <2>2 DEF Busy, LostInv, DlqShape
  <2>4. Kept(x[1])'
    BY <2>3 DEF Kept
  <2>5. \A d \in Deliveries : Kept(d) => Kept(d)'
    <3>1. \A d : Holds(d) => Holds(d)'
      BY <1>1 DEF Holds
    <3>2. QED
      BY <1>1, <2>3, <2>4, <3>1 DEF Kept
  <2>6. ArchivedFirst'
    BY <1>1, <2>1, <2>2 DEF ArchivedFirst, purgeVars, LostInv, DlqShape
  <2>7. QED
    BY <1>1, <2>1, <2>4, <2>5, <2>6
<1>2. ASSUME NEW k \in Slots, NEW d \in Deliveries, Exhaust(k, d)
      PROVE  ArchivedFirst' /\ \A e \in Deliveries : failures'[e] > 0 => Kept(e)'
  <2>1. <<d, failures[d] + 1>> \in Entry
    BY <1>2, DlqConstants DEF Exhaust, LostInv, DlqShape, Entry
  <2>2. \A e \in Deliveries : failures'[e] > 0 => failures[e] > 0 \/ e = <<d, failures[d] + 1>>[1]
    BY <1>2 DEF Exhaust, LostInv, DlqShape
  <2>3. QED
    BY <1>1, <1>2, <2>1, <2>2 DEF Exhaust, Busy
<1>3. ASSUME NEW k \in Slots, NEW x \in Entry, Redo(k, x)
      PROVE  ArchivedFirst' /\ \A d \in Deliveries : failures'[d] > 0 => Kept(d)'
  BY <1>1, <1>3 DEF Redo, Busy
<1>4. ASSUME NEW k \in Slots, SlotStep(k)
      PROVE  ArchivedFirst' /\ \A d \in Deliveries : failures'[d] > 0 => Kept(d)'
  BY <1>4, SlotLosesNothing
<1>5. CASE PurgeStep
  BY <1>5, PurgeLosesNothing
<1>6. ASSUME NEW x \in Entry, Age(x)
      PROVE  ArchivedFirst' /\ \A d \in Deliveries : failures'[d] > 0 => Kept(d)'
  BY <1>6 DEF Age, slotVars, purgeVars, LostInv, ArchivedFirst, Kept, Holds, Busy
<1>7. CASE Crash
  <2>1. ArchivedFirst' /\ \A d \in Deliveries : failures'[d] > 0 => Kept(d)
    BY <1>7 DEF Crash, ArchivedFirst, LostInv
  <2>2. redo \subseteq redo' /\ \A k \in Slots : Busy(k) => entry[k] \in redo'
    BY <1>7 DEF Crash, Busy
  <2>3. UNCHANGED <<dlq, archive, entry>>
    BY <1>7 DEF Crash
  <2>4. \A k \in Slots : Busy(k) => Kept(entry[k][1])'
    BY <2>2, <2>3 DEF Kept
  <2>5. QED
    BY <2>1, <2>2, <2>3, <2>4, StaysKept DEF Holds
<1>8. CASE UNCHANGED vars
  BY <1>8 DEF vars, slotVars, purgeVars, LostInv, ArchivedFirst, Kept, Holds, Busy
<1>9. QED
  BY <1>2, <1>3, <1>4, <1>5, <1>6, <1>7, <1>8 DEF Next

\* A delivery that was dead-lettered is in the queue, in the archive, with a slot
\* or with a job that BullMQ will run again, as long as no call failed: for any
\* number of evictions, purges and crashes between archiving and removing.
THEOREM DeadLettersAreKept == SafetySpec => []NothingLost
<1>1. Init => LostInv
  BY InitShape DEF Init, LostInv, ArchivedFirst
<1>2. LostInv => NothingLost
  BY DEF LostInv, NothingLost, Kept, Busy
<1>3. QED
  BY <1>1, <1>2, NextLosesNothing, PTL DEF SafetySpec

-----------------------------------------------------------------------------
(* The queue keeps its cap.                                                *)

\* Removing an id leaves the queue as it was, or below its cap.
LEMMA RemovedLeavesRoom ==
  ASSUME dlq \in Seq(Entry), Len(dlq) <= MaxSize, NEW d, RemoveId(d)
  PROVE  /\ ~Holds(d) => dlq' = dlq
         /\ Holds(d) => Len(dlq') < MaxSize
<1>1. Len(dlq) \in Nat /\ Len(dlq') = IF Holds(d) THEN Len(dlq) - 1 ELSE Len(dlq)
  BY RemoveIdHolds, LenProperties
<1>2. ~Holds(d) => dlq' = dlq
  BY DEF RemoveId
<1>3. QED
  BY <1>1, <1>2, DlqConstants

\* What the purge and the clock do to the queue leaves every slot its room.
LEMMA RoomKept ==
  ASSUME DlqShape', RoomInv, UNCHANGED <<slotVars, overlapped>>,
         dlq' = dlq \/ Len(dlq') < MaxSize
  PROVE  RoomInv'
<1> SUFFICES ASSUME ~overlapped PROVE RoomInv'
  BY DEF RoomInv
<1>1. Len(dlq') \in Nat
  BY LenProperties DEF DlqShape
<1>2. Len(dlq') <= MaxSize
  BY <1>1, DlqConstants DEF RoomInv
<1>3. CASE dlq' = dlq
  BY <1>3 DEF RoomInv, slotVars, Busy, Holds
<1>4. CASE Len(dlq') < MaxSize
  BY <1>2, <1>4 DEF RoomInv, slotVars, Busy
<1>5. QED
  BY <1>3, <1>4

\* The one slot that is busy goes on: it has its room, or it is done.
LEMMA SlotMovesOn ==
  ASSUME DlqShape, RoomInv, ~overlapped, UNCHANGED overlapped, NEW k \in Slots, Busy(k), NEW step,
         Goto(k, step), Len(dlq') <= MaxSize,
         step \in {"archive", "remove"} => Len(dlq') < MaxSize \/ Holds(victim[k][1])',
         step = "add" => Len(dlq') < MaxSize
  PROVE  RoomInv'
<1>1. pc' = [pc EXCEPT ![k] = step] /\ k \in DOMAIN pc /\ DOMAIN pc = Slots
  BY DEF Goto, DlqShape
<1>2. \A c \in Slots : Busy(c) => c = k
  BY DEF RoomInv
<1>3. \A c \in Slots : pc'[c] # "idle" => c = k
  BY <1>1, <1>2 DEF Busy
<1>4. \A c \in Slots : Busy(c)' => c = k
  BY <1>3 DEF Busy
<1>5. pc'[k] = step
  BY <1>1
<1>6. QED
  BY <1>3, <1>4, <1>5 DEF RoomInv

LEMMA SlotKeepsRoom ==
  ASSUME DlqShape, RoomInv, NEW k \in Slots, SlotStep(k)
  PROVE  RoomInv'
<1> SUFFICES ASSUME ~overlapped, UNCHANGED overlapped PROVE RoomInv'
  BY DEF RoomInv, SlotStep, ReadDepth, ReadOldest, ArchiveVictim, RemoveVictim, Add
<1>1. /\ Busy(k) /\ Len(dlq) \in Nat /\ Len(dlq) <= MaxSize /\ MaxSize \in Nat \ {0}
      /\ dlq \in Seq(Entry) /\ DOMAIN victim = Slots /\ DOMAIN dlq = 1..Len(dlq)
  BY LenProperties, DlqConstants
     DEF RoomInv, DlqShape, SlotStep, ReadDepth, ReadOldest, ArchiveVictim, RemoveVictim, Add, Busy
<1>2. CASE ReadDepth(k)
  <2>1. dlq' = dlq
    BY <1>2 DEF ReadDepth
  <2>2. CASE Goto(k, "idle")
    BY <1>1, <2>1, <2>2, SlotMovesOn
  <2>3. CASE IsFull /\ Goto(k, "oldest")
    BY <1>1, <2>1, <2>3, SlotMovesOn
  <2>4. CASE ~IsFull /\ Goto(k, "add")
    <3>1. Len(dlq) < MaxSize
      BY <1>1, <2>4 DEF IsFull
    <3>2. QED
      BY <1>1, <2>1, <2>4, <3>1, SlotMovesOn
  <2>5. QED
    BY <1>2, <2>2, <2>3, <2>4 DEF ReadDepth, GiveUp
<1>3. CASE ReadOldest(k)
  <2>1. dlq' = dlq
    BY <1>3 DEF ReadOldest
  <2>2. CASE Goto(k, "idle")
    BY <1>1, <2>1, <2>2, SlotMovesOn
  <2>3. CASE dlq = <<>> /\ Goto(k, "add")
    <3>1. Len(dlq) < MaxSize
      BY <1>1, <2>3
    <3>2. QED
      BY <1>1, <2>1, <2>3, <3>1, SlotMovesOn
  <2>4. CASE dlq # <<>> /\ Goto(k, "archive") /\ victim' = [victim EXCEPT ![k] = Head(dlq)]
    <3>1. victim'[k] = Head(dlq) /\ 1 \in DOMAIN dlq /\ Head(dlq) = dlq[1]
      BY <1>1, <2>4, EmptySeq, HeadTailProperties
    <3>2. Holds(victim[k][1])'
      BY <2>1, <3>1 DEF Holds
    <3>3. QED
      BY <1>1, <2>1, <2>4, <3>2, SlotMovesOn
  <2>5. QED
    BY <1>3, <2>2, <2>3, <2>4 DEF ReadOldest, GiveUp
<1>4. CASE ArchiveVictim(k)
  <2>1. Goto(k, "remove") /\ UNCHANGED <<dlq, victim>> /\ pc[k] = "archive"
    BY <1>4 DEF ArchiveVictim
  <2>2. Len(dlq') < MaxSize \/ Holds(victim[k][1])'
    BY <2>1 DEF RoomInv, Holds
  <2>3. QED
    BY <1>1, <2>1, <2>2, SlotMovesOn
<1>5. CASE RemoveVictim(k)
  <2>1. CASE Goto(k, "idle") /\ UNCHANGED dlq
    BY <1>1, <2>1, SlotMovesOn
  <2>2. CASE Goto(k, "add") /\ RemoveId(victim[k][1])
    <3>1. Len(dlq) < MaxSize \/ Holds(victim[k][1])
      BY <1>5 DEF RoomInv, RemoveVictim
    <3>2. Len(dlq') < MaxSize
      BY <1>1, <2>2, <3>1, RemovedLeavesRoom
    <3>3. Len(dlq') <= MaxSize
      <4>1. dlq' \in Seq(Entry)
        BY <1>1, <2>2, RemoveIdHolds
      <4>2. Len(dlq') \in Nat
        BY <4>1, LenProperties
      <4>3. QED
        BY <1>1, <3>2, <4>2
    <3>4. QED
      BY <1>1, <2>2, <3>2, <3>3, SlotMovesOn
  <2>3. QED
    BY <1>5, <2>1, <2>2 DEF RemoveVictim, GiveUp
<1>6. CASE Add(k)
  <2>1. Goto(k, "idle") /\ (AddEntry(entry[k]) \/ UNCHANGED dlq) /\ Len(dlq) < MaxSize
    BY <1>6 DEF Add, RoomInv
  <2>2. entry[k] \in Entry
    BY <1>1 DEF DlqShape
  <2>3. Len(dlq') <= Len(dlq) + 1 /\ Len(dlq') \in Nat
    <3>1. CASE UNCHANGED dlq
      BY <1>1, <3>1
    <3>2. CASE AddEntry(entry[k])
      BY <1>1, <2>2, <3>2, AddEntryHolds, LenProperties
    <3>3. QED
      BY <2>1, <3>1, <3>2
  <2>4. Len(dlq') <= MaxSize
    BY <1>1, <2>1, <2>3
  <2>5. QED
    BY <1>1, <2>1, <2>4, SlotMovesOn
<1>7. QED
  BY <1>2, <1>3, <1>4, <1>5, <1>6 DEF SlotStep

LEMMA NextKeepsRoom == DlqShape /\ RoomInv /\ [Next]_vars => RoomInv'
<1> SUFFICES ASSUME DlqShape, RoomInv, [Next]_vars PROVE RoomInv'
  OBVIOUS
<1>1. DlqShape'
  BY NextShape
<1>2. ASSUME NEW k \in Slots, NEW x, ~Busy(k), Enter(k, x), UNCHANGED dlq
      PROVE  RoomInv'
  <2> SUFFICES ASSUME ~overlapped' PROVE RoomInv'
    BY DEF RoomInv
  <2>1. ~overlapped /\ \A c \in Slots : ~Busy(c)
    BY <1>2 DEF Enter, Busy
  <2>2. pc' = [pc EXCEPT ![k] = "depth"] /\ DOMAIN pc = Slots
    BY <1>2 DEF Enter, DlqShape
  <2>3. \A c \in Slots : pc'[c] = IF c = k THEN "depth" ELSE "idle"
    BY <2>1, <2>2 DEF Busy
  <2>4. QED
    BY <1>2, <2>1, <2>3 DEF RoomInv, Busy
<1>3. ASSUME NEW k \in Slots, NEW d \in Deliveries, Exhaust(k, d)
      PROVE  RoomInv'
  BY <1>2, <1>3 DEF Exhaust, Busy
<1>4. ASSUME NEW k \in Slots, NEW x \in Entry, Redo(k, x)
      PROVE  RoomInv'
  BY <1>2, <1>4 DEF Redo, Busy
<1>5. ASSUME NEW k \in Slots, SlotStep(k)
      PROVE  RoomInv'
  BY <1>5, SlotKeepsRoom
<1>6. CASE PurgeStep
  <2>1. UNCHANGED <<slotVars, overlapped>>
    BY <1>6 DEF PurgeStep, StartPurge, PurgeArchive, PurgeRemove, Recount
  <2>2. CASE PurgeRemove
    <3>1. CASE UNCHANGED dlq
      BY <1>1, <2>1, <3>1, RoomKept
    <3>2. CASE RemoveId(Head(plan)[1])
      <4>1. ~overlapped => dlq' = dlq \/ Len(dlq') < MaxSize
        BY <3>2, RemovedLeavesRoom DEF RoomInv, DlqShape
      <4>2. CASE overlapped
        BY <2>1, <4>2 DEF RoomInv
      <4>3. QED
        BY <1>1, <2>1, <4>1, <4>2, RoomKept
    <3>3. QED
      BY <2>2, <3>1, <3>2 DEF PurgeRemove
  <2>3. CASE ~PurgeRemove
    <3>1. dlq' = dlq
      BY <1>6, <2>3 DEF PurgeStep, StartPurge, PurgeArchive, Recount
    <3>2. QED
      BY <1>1, <2>1, <3>1, RoomKept
  <2>4. QED
    BY <2>2, <2>3
<1>7. ASSUME NEW x \in Entry, Age(x)
      PROVE  RoomInv'
  BY <1>1, <1>7, RoomKept DEF Age
<1>8. CASE Crash
  <2>1. UNCHANGED <<dlq, overlapped>> /\ \A k \in Slots : pc'[k] = "idle"
    BY <1>8 DEF Crash
  <2>2. QED
    BY <2>1 DEF RoomInv, Busy
<1>9. CASE UNCHANGED vars
  BY <1>1, <1>9, RoomKept DEF vars
<1>10. QED
  BY <1>3, <1>4, <1>5, <1>6, <1>7, <1>8, <1>9 DEF Next

\* As long as no two slots were in enqueueToDlq at once, the queue never holds
\* more than its cap, however the purge, failed calls and crashes interleave
\* with the slot that makes room.
THEOREM QueueKeepsItsCap == SafetySpec => []DlqWithinMax
<1>1. Init => DlqShape /\ RoomInv
  BY InitShape, DlqConstants DEF Init, RoomInv, Busy
<1>2. DlqShape /\ RoomInv /\ [Next]_vars => DlqShape' /\ RoomInv'
  BY NextShape, NextKeepsRoom
<1>3. RoomInv => DlqWithinMax
  BY DEF RoomInv, DlqWithinMax
<1>4. QED
  BY <1>1, <1>2, <1>3, PTL DEF SafetySpec

=============================================================================
