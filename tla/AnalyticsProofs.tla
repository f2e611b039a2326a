---------------------------- MODULE AnalyticsProofs ----------------------------
(***************************************************************************)
(* What Analytics promises of a day, for any number of sessions, attempts, *)
(* slots, editions of a distance, failed calls and one crash: a session    *)
(* that a check-out closed is counted or on record, the settled rows lack  *)
(* none but those that a deactivation closed, and those who read the rows  *)
(* tell the same.                                                          *)
(*                                                                         *)
(* The argument follows one job through its handler: what it has read      *)
(* holds its own session and no less than the row it is about to replace.  *)
(* That is true only while no other job writes the row in between.         *)
(***************************************************************************)
EXTENDS AnalyticsReaders, FiniteSetTheorems, TLAPS

Handling == {"session", "employee", "saveEmployee", "organisation", "saveOrganisation", "today", "board", "done"}
Pairs == Sessions \X Nat
Works == {Free} \cup [step : Handling, job : Sessions, read : SUBSET Pairs]

-----------------------------------------------------------------------------
(* The queue.                                                              *)

QueueShape ==
  /\ job \in [Sessions -> {"none", "queued", "active", "failed"}]
  /\ made \in [Sessions -> Nat]
  /\ slot \in [Slots -> Works]
  /\ \A s \in Sessions : job[s] \in {"queued", "active"} => made[s] < MaxAttempts
  /\ \A k \in Slots : slot[k] # Free => job[slot[k].job] = "active"
  /\ \A k, l \in Slots : slot[k] # Free /\ slot[l] # Free /\ slot[k].job = slot[l].job => k = l

OnQueue(s) == s \in Pending \/ KnownAsFailed(s)

\* No job is forgotten.
Remembers == \A s \in Sessions : OnQueue(s) => OnQueue(s)'

LEMMA BusySlot ==
  ASSUME QueueShape, NEW k \in Slots, slot[k] # Free
  PROVE  slot[k].job \in Sessions /\ slot[k].step \in Handling /\ slot[k].read \in SUBSET Pairs
BY DEF QueueShape, Works

LEMMA QueueAdds ==
  ASSUME QueueShape, NEW s \in Sessions, Add(s)
  PROVE  QueueShape' /\ slot' = slot /\ Remembers /\ OnQueue(s)'
<1>1. /\ \A t \in Sessions : job'[t] = IF t = s /\ job[t] = "none" THEN "queued" ELSE job[t]
      /\ \A t \in Sessions : made'[t] = IF t = s /\ job[t] = "none" THEN 0 ELSE made[t]
      /\ slot' = slot
      /\ job' \in [Sessions -> {"none", "queued", "active", "failed"}] /\ made' \in [Sessions -> Nat]
  BY DEF QueueShape, Add
<1>2. 0 < MaxAttempts
  BY AnalyticsConstants
<1>3. QueueShape'
  <2>1. \A t \in Sessions : job'[t] \in {"queued", "active"} => made'[t] < MaxAttempts
    BY <1>1, <1>2 DEF QueueShape
  <2>2. \A k \in Slots : slot[k] # Free => slot[k].job \in Sessions
    BY BusySlot
  <2> QED BY <1>1, <2>1, <2>2 DEF QueueShape
<1>4. Remembers /\ OnQueue(s)'
  BY <1>1 DEF Remembers, OnQueue, Pending, KnownAsFailed, QueueShape
<1> QED BY <1>1, <1>3, <1>4

LEMMA QueueTakes ==
  ASSUME QueueShape, NEW k \in Slots, NEW s \in Sessions, Take(k, s, "session")
  PROVE  /\ QueueShape' /\ Remembers
         /\ slot[k] = Free /\ slot'[k].step = "session" /\ slot'[k].job = s /\ slot'[k].read = {}
         /\ \A l \in Slots : l # k => slot'[l] = slot[l]
<1> DEFINE new == [step |-> "session", job |-> s, read |-> {}]
<1>1. /\ slot[k] = Free /\ job[s] = "queued" /\ UNCHANGED made
      /\ job' = [job EXCEPT ![s] = "active"] /\ slot' = [slot EXCEPT ![k] = new]
  BY DEF Take
<1>2. new \in Works /\ new # Free /\ new.step = "session" /\ new.job = s /\ new.read = {}
  BY DEF Works, Free, Handling
<1> HIDE DEF new
<1>3. /\ \A t \in Sessions : job'[t] = IF t = s THEN "active" ELSE job[t]
      /\ \A l \in Slots : slot'[l] = IF l = k THEN new ELSE slot[l]
      /\ job' \in [Sessions -> {"none", "queued", "active", "failed"}]
      /\ slot' \in [Slots -> Works]
  BY <1>1, <1>2 DEF QueueShape
<1>4. \A l \in Slots : slot[l] # Free => slot[l].job # s /\ slot[l].job \in Sessions
  BY <1>1, BusySlot DEF QueueShape
<1>5. QueueShape'
  <2>1. /\ \A l \in Slots : slot'[l] # Free => job'[slot'[l].job] = "active"
        /\ \A l, m \in Slots : slot'[l] # Free /\ slot'[m] # Free /\ slot'[l].job = slot'[m].job => l = m
    BY <1>2, <1>3, <1>4 DEF QueueShape
  <2>2. \A t \in Sessions : job'[t] \in {"queued", "active"} => made'[t] < MaxAttempts
    BY <1>1, <1>3 DEF QueueShape
  <2> QED BY <1>1, <1>3, <2>1, <2>2 DEF QueueShape
<1>6. Remembers
  BY <1>1, <1>3 DEF Remembers, OnQueue, Pending, KnownAsFailed
<1> QED BY <1>1, <1>2, <1>3, <1>5, <1>6

LEMMA QueueContinues ==
  ASSUME QueueShape, NEW k \in Slots, slot[k] # Free, NEW step \in Handling, NEW read \in SUBSET Pairs,
         Continue(k, step, read)
  PROVE  /\ QueueShape' /\ Remembers
         /\ slot'[k] # Free /\ slot'[k].step = step /\ slot'[k].job = slot[k].job /\ slot'[k].read = read
         /\ \A l \in Slots : l # k => slot'[l] = slot[l]
<1> DEFINE new == [step |-> step, job |-> slot[k].job, read |-> read]
<1>1. UNCHANGED <<job, made>> /\ slot' = [slot EXCEPT ![k] = new]
  BY DEF Continue
<1>2. new \in Works /\ new # Free /\ new.step = step /\ new.job = slot[k].job /\ new.read = read
  BY BusySlot DEF Works, Free
<1> HIDE DEF new
<1>3. /\ \A l \in Slots : slot'[l] = IF l = k THEN new ELSE slot[l]
      /\ slot' \in [Slots -> Works]
  BY <1>1, <1>2 DEF QueueShape
<1>4. QueueShape'
  BY <1>1, <1>2, <1>3 DEF QueueShape
<1>5. Remembers
  BY <1>1 DEF Remembers, OnQueue, Pending, KnownAsFailed
<1> QED BY <1>2, <1>3, <1>4, <1>5

LEMMA QueueDone ==
  ASSUME QueueShape, NEW k \in Slots, slot[k] # Free, Done(k)
  PROVE  /\ QueueShape'
         /\ \A s \in Sessions : s # slot[k].job /\ OnQueue(s) => OnQueue(s)'
         /\ \A l \in Slots : slot'[l] = IF l = k THEN Free ELSE slot[l]
<1>1. PICK s \in Sessions : s = slot[k].job
  BY BusySlot
<1>2. /\ UNCHANGED made
      /\ job' = [job EXCEPT ![s] = "none"] /\ slot' = [slot EXCEPT ![k] = Free]
  BY <1>1 DEF Done
<1>3. /\ \A t \in Sessions : job'[t] = IF t = s THEN "none" ELSE job[t]
      /\ \A l \in Slots : slot'[l] = IF l = k THEN Free ELSE slot[l]
      /\ job' \in [Sessions -> {"none", "queued", "active", "failed"}]
      /\ slot' \in [Slots -> Works]
  BY <1>2 DEF QueueShape, Works
<1>4. \A l \in Slots : slot'[l] # Free =>
        l # k /\ slot[l] # Free /\ slot'[l] = slot[l] /\ slot[l].job # s /\ slot[l].job \in Sessions
  BY <1>1, <1>3, BusySlot DEF QueueShape
<1>5. QueueShape'
  BY <1>2, <1>3, <1>4 DEF QueueShape
<1>6. \A t \in Sessions : t # s /\ OnQueue(t) => OnQueue(t)'
  BY <1>2, <1>3 DEF OnQueue, Pending, KnownAsFailed
<1> QED BY <1>1, <1>3, <1>5, <1>6

LEMMA QueueThrows ==
  ASSUME QueueShape, NEW k \in Slots, slot[k] # Free, Throw(k)
  PROVE  QueueShape' /\ Remembers /\ \A l \in Slots : slot'[l] = IF l = k THEN Free ELSE slot[l]
<1>1. PICK s \in Sessions : s = slot[k].job
  BY BusySlot
<1>2. made[s] \in Nat /\ made[s] < MaxAttempts /\ MaxAttempts \in Nat
  BY <1>1, AnalyticsConstants DEF QueueShape
<1>3. /\ slot' = [slot EXCEPT ![k] = Free]
      /\ made' = [made EXCEPT ![s] = @ + 1]
      /\ job' = [job EXCEPT ![s] = IF made[s] + 1 >= MaxAttempts THEN "failed" ELSE "queued"]
  BY <1>1 DEF Throw
<1>4. /\ \A t \in Sessions : made'[t] = IF t = s THEN made[s] + 1 ELSE made[t]
      /\ \A l \in Slots : slot'[l] = IF l = k THEN Free ELSE slot[l]
      /\ made' \in [Sessions -> Nat] /\ slot' \in [Slots -> Works]
  BY <1>2, <1>3 DEF QueueShape, Works
<1>5. \A l \in Slots : slot'[l] # Free =>
        l # k /\ slot[l] # Free /\ slot'[l] = slot[l] /\ slot[l].job # s /\ slot[l].job \in Sessions
  BY <1>1, <1>4, BusySlot DEF QueueShape
<1>6. CASE made[s] + 1 >= MaxAttempts
  <2>2. /\ \A t \in Sessions : job'[t] = IF t = s THEN "failed" ELSE job[t]
        /\ job' \in [Sessions -> {"none", "queued", "active", "failed"}]
    BY <1>3, <1>6 DEF QueueShape
  <2>4. QueueShape'
    BY <1>4, <1>5, <2>2 DEF QueueShape
  <2>5. Remembers
    BY <2>2 DEF Remembers, OnQueue, Pending, KnownAsFailed
  <2> QED BY <1>4, <2>4, <2>5
<1>7. CASE ~(made[s] + 1 >= MaxAttempts)
  <2>1. made[s] + 1 < MaxAttempts
    BY <1>2, <1>7
  <2>2. /\ \A t \in Sessions : job'[t] = IF t = s THEN "queued" ELSE job[t]
        /\ job' \in [Sessions -> {"none", "queued", "active", "failed"}]
    BY <1>3, <1>7 DEF QueueShape
  <2>4. QueueShape'
    BY <1>4, <1>5, <2>1, <2>2 DEF QueueShape
  <2>5. Remembers
    BY <2>2 DEF Remembers, OnQueue, Pending, KnownAsFailed
  <2> QED BY <1>4, <2>4, <2>5
<1> QED BY <1>6, <1>7

LEMMA QueueStalls ==
  ASSUME QueueShape, Stall
  PROVE  QueueShape' /\ Remembers /\ \A k \in Slots : slot'[k] = Free
<1>1. /\ slot' = [k \in Slots |-> Free] /\ UNCHANGED made
      /\ job' = [s \in Sessions |-> IF job[s] = "active" THEN "queued" ELSE job[s]]
  BY DEF Stall
<1>2. QueueShape'
  BY <1>1 DEF QueueShape, Works
<1>3. Remembers
  BY <1>1 DEF Remembers, OnQueue, Pending, KnownAsFailed
<1> QED BY <1>1, <1>2, <1>3

-----------------------------------------------------------------------------
(* The rows.                                                               *)

DayShape ==
  /\ QueueShape
  /\ owner \in [Sessions -> Employees]
  /\ closer \in [Sessions -> {"open", "depth", "add", "intent", "out"}]
  /\ how \in [Sessions -> Ways \cup {"none"}]
  /\ edition \in [Sessions -> Nat]
  /\ empDay \in [Employees -> SUBSET Pairs]
  /\ orgDay \in [Employees -> SUBSET Pairs]
  /\ board \in [Employees -> SUBSET Pairs]
  /\ intent \in [Sessions -> {"none", "pending", "resolved", "dead"}]
  /\ replay \in [Sessions -> {"no", "depth", "add", "mark"}]

\* An edition of a closed session.
Real(x) == x[1] \in Final /\ 1 <= x[2] /\ x[2] <= edition[x[1]]

\* A row, and what a handler has read, sums up editions of sessions of its own.
RowsReal ==
  /\ \A e \in Employees : \A x \in empDay[e] \cup orgDay[e] \cup board[e] : Real(x) /\ owner[x[1]] = e
  /\ \A k \in Slots : slot[k] # Free =>
       /\ slot[k].step # "session" => slot[k].job \in Final
       /\ \A x \in slot[k].read : Real(x)
       /\ slot[k].step = "saveEmployee" => \A x \in slot[k].read : owner[x[1]] = owner[slot[k].job]

\* What the job in slot k has put into the rows and has read of them.
Carried(k) ==
  /\ slot[k].step = "saveEmployee" =>
       /\ In(slot[k].job, slot[k].read)
       /\ \A s \in Sessions : In(s, empDay[owner[slot[k].job]]) => In(s, slot[k].read)
  /\ slot[k].step \in {"organisation", "saveOrganisation", "today", "board", "done"} =>
       In(slot[k].job, empDay[owner[slot[k].job]])
  /\ slot[k].step = "saveOrganisation" => slot[k].read = Counted(empDay)
  /\ slot[k].step \in {"today", "board", "done"} => orgDay = empDay
  /\ slot[k].step = "board" /\ ~boardFailed => slot[k].read = Counted(orgDay)
  /\ slot[k].step = "done" => boardFailed \/ board = orgDay

Landed(s) == OnQueue(s) \/ IsCounted(s)

OneSlot == \A k, l \in Slots : slot[k] # Free /\ slot[l] # Free => k = l
Carries == \A k \in Slots : slot[k] # Free => Carried(k)

Accounted ==
  /\ \A s \in Closed \ (lost \cup AutoClosed) :
       closer[s] # "out" \/ intent[s] \in {"pending", "dead"} \/ Landed(s)
  /\ \A s \in Sessions : replay[s] = "mark" => Landed(s)

\* The rows that are made of other rows are up to date when there is no job.
Abreast ==
  (\A s \in Sessions : ~OnQueue(s)) => orgDay = empDay /\ (boardFailed \/ board = orgDay)

DayInv == DayShape /\ RowsReal /\ (~overlapped => OneSlot /\ Carries /\ Accounted /\ Abreast)

\* Nothing that has landed is taken back.
Keeps == \A s \in Sessions : Landed(s) => Landed(s)'

\* Sessions stay closed, and their editions.
Ages == UNCHANGED owner /\ Closed \subseteq Closed' /\ \A s \in Sessions : edition[s] <= edition'[s]

LEMMA RealStays ==
  ASSUME DayShape, DayShape', Ages
  PROVE  Final \subseteq Final' /\ \A x \in Pairs : Real(x) => Real(x)'
<1>1. \A s \in Sessions : edition[s] \in Nat /\ edition'[s] \in Nat
  BY DEF DayShape
<1>2. Final \subseteq Final'
  BY <1>1 DEF Ages, Final, Closed
<1>3. \A x \in Pairs : x[1] \in Sessions /\ x[2] \in Nat
  BY DEF Pairs
<1> QED BY <1>1, <1>2, <1>3 DEF Real, Ages

\* A step outside the worker, or one of it that only takes or drops a job.
LEMMA RowsStay ==
  ASSUME DayInv, DayShape', Ages, UNCHANGED metrics,
         \A k \in Slots : slot'[k] # Free =>
           \/ slot[k] # Free /\ slot'[k] = slot[k]
           \/ slot'[k].step = "session" /\ slot'[k].read = {}
  PROVE  RowsReal'
<1>1. Final \subseteq Final' /\ \A x \in Pairs : Real(x) => Real(x)'
  BY RealStays DEF DayInv
<1>2. UNCHANGED <<empDay, orgDay, board, owner>>
  BY DEF metrics, Ages
<1>3. ASSUME NEW e \in Employees, NEW x \in empDay'[e] \cup orgDay'[e] \cup board'[e]
      PROVE  Real(x)' /\ owner'[x[1]] = e
  <2>1. x \in Pairs /\ Real(x) /\ owner[x[1]] = e
    BY <1>2 DEF DayInv, DayShape, RowsReal
  <2> QED BY <1>1, <1>2, <2>1
<1>4. ASSUME NEW k \in Slots, slot'[k] # Free
      PROVE  /\ slot'[k].step # "session" => slot'[k].job \in Final'
             /\ \A x \in slot'[k].read : Real(x)'
             /\ slot'[k].step = "saveEmployee" => \A x \in slot'[k].read : owner'[x[1]] = owner'[slot'[k].job]
  <2>1. CASE slot[k] # Free /\ slot'[k] = slot[k]
    <3>1. slot[k].read \in SUBSET Pairs
      BY <2>1, BusySlot DEF DayInv, DayShape
    <3> QED BY <1>1, <1>2, <2>1, <3>1 DEF DayInv, RowsReal
  <2>2. CASE slot'[k].step = "session" /\ slot'[k].read = {}
    BY <2>2
  <2> QED BY <1>4, <2>1, <2>2
<1> QED BY <1>3, <1>4 DEF RowsReal

LEMMA LandedStays ==
  ASSUME DayInv, UNCHANGED <<metrics, owner>>, boardFailed => boardFailed', Remembers
  PROVE  Keeps /\ (Abreast => Abreast')
<1>1. Keeps
  BY DEF Keeps, Landed, IsCounted, Remembers, metrics
<1>2. ASSUME Abreast, \A s \in Sessions : ~OnQueue(s)'
      PROVE  orgDay' = empDay' /\ (boardFailed' \/ board' = orgDay')
  <2>1. \A s \in Sessions : ~OnQueue(s)
    BY <1>2 DEF Remembers
  <2> QED BY <1>2, <2>1 DEF Abreast, metrics
<1> QED BY <1>1, <1>2 DEF Abreast

LEMMA CarriesStays ==
  ASSUME DayInv, ~overlapped, UNCHANGED <<metrics, owner, boardFailed>>,
         \A k \in Slots : slot'[k] # Free =>
           \/ slot[k] # Free /\ slot'[k] = slot[k]
           \/ slot'[k].step = "session" /\ slot'[k].read = {}
  PROVE  Carries'
<1> SUFFICES ASSUME NEW k \in Slots, slot'[k] # Free PROVE Carried(k)'
  BY DEF Carries
<1>1. CASE slot[k] # Free /\ slot'[k] = slot[k]
  <2>1. Carried(k)
    BY <1>1 DEF DayInv, Carries
  <2> QED BY <1>1, <2>1 DEF Carried, metrics
<1>2. CASE slot'[k].step = "session"
  BY <1>2 DEF Carried
<1> QED BY <1>1, <1>2

\* A step outside the worker.
LEMMA OutsideStep ==
  ASSUME DayInv, DayShape', Ages, UNCHANGED <<metrics, boardFailed, overlapped>>, Remembers,
         \A k \in Slots : slot'[k] = slot[k] \/ slot'[k] = Free,
         ~overlapped /\ Keeps => Accounted'
  PROVE  DayInv'
<1>1. UNCHANGED owner
  BY DEF Ages
<1>2. RowsReal' /\ Keeps /\ (Abreast => Abreast')
  BY <1>1, RowsStay, LandedStays
<1>3. ~overlapped => OneSlot' /\ Carries'
  BY <1>1, CarriesStays DEF DayInv, OneSlot
<1> QED BY <1>2, <1>3 DEF DayInv

LEMMA CloseDay ==
  ASSUME DayInv, NEW s \in Sessions, NEW by \in Ways, Close(s, by) PROVE DayInv'
<1>1. /\ closer' = [closer EXCEPT ![s] = IF by = "deactivation" THEN "out" ELSE "depth"]
      /\ how' = [how EXCEPT ![s] = by]
      /\ UNCHANGED <<owner, edition, metrics, intents, queue, history>>
  BY DEF Close
<1>2. UNCHANGED <<empDay, orgDay, board, intent, replay, job, made, slot, lost, overlapped, boardFailed>>
  BY <1>1 DEF metrics, intents, queue, history
<1>3. /\ \A t \in Sessions : t # s => closer'[t] = closer[t] /\ how'[t] = how[t]
      /\ how'[s] = by /\ closer'[s] # "open" /\ (by # "deactivation" => closer'[s] = "depth")
      /\ closer' \in [Sessions -> {"open", "depth", "add", "intent", "out"}]
      /\ how' \in [Sessions -> Ways \cup {"none"}]
  BY <1>1 DEF DayInv, DayShape
<1>4. QueueShape' /\ Remembers
  BY <1>2 DEF DayInv, DayShape, QueueShape, Remembers, OnQueue, Pending, KnownAsFailed
<1>5. DayShape'
  BY <1>1, <1>2, <1>3, <1>4 DEF DayInv, DayShape
<1>6. Ages
  <2>1. \A t \in Sessions : edition[t] <= edition'[t]
    BY <1>1 DEF DayInv, DayShape
  <2> QED BY <1>1, <1>3, <2>1 DEF Ages, Closed
<1>7. ASSUME ~overlapped, Keeps PROVE Accounted'
  <2>1. ASSUME NEW t \in Closed' \ (lost' \cup AutoClosed')
        PROVE  closer'[t] # "out" \/ intent'[t] \in {"pending", "dead"} \/ Landed(t)'
    <3>1. CASE t = s
      BY <1>3, <3>1 DEF AutoClosed, Closed
    <3>2. CASE t # s
      <4>1. t \in Closed \ (lost \cup AutoClosed) /\ t \in Sessions
        BY <1>2, <1>3, <3>2 DEF AutoClosed, Closed
      <4> QED BY <1>2, <1>3, <1>7, <3>2, <4>1 DEF DayInv, Accounted, Keeps
    <3> QED BY <3>1, <3>2
  <2> QED BY <1>2, <1>7, <2>1 DEF DayInv, Accounted, Keeps
<1> QED BY <1>1, <1>2, <1>4, <1>5, <1>6, <1>7, OutsideStep

LEMMA ComputeDay ==
  ASSUME DayInv, NEW s \in Sessions, ComputeDistance(s) PROVE DayInv'
<1>1. /\ edition' = [edition EXCEPT ![s] = @ + 1]
      /\ UNCHANGED <<checkout, metrics, intents, queue, history>>
  BY DEF ComputeDistance
<1>2. UNCHANGED <<owner, closer, how, empDay, orgDay, board, intent, replay, job, made, slot, lost,
                  overlapped, boardFailed>>
  BY <1>1 DEF checkout, metrics, intents, queue, history
<1>3. QueueShape' /\ Remembers
  BY <1>2 DEF DayInv, DayShape, QueueShape, Remembers, OnQueue, Pending, KnownAsFailed
<1>4. DayShape' /\ Ages
  <2>1. edition' \in [Sessions -> Nat] /\ \A t \in Sessions : edition[t] <= edition'[t]
    BY <1>1 DEF DayInv, DayShape
  <2> QED BY <1>2, <1>3, <2>1 DEF DayInv, DayShape, Ages, Closed
<1>5. ASSUME ~overlapped, Keeps PROVE Accounted'
  BY <1>2, <1>5 DEF DayInv, Accounted, Keeps, Closed, AutoClosed
<1> QED BY <1>1, <1>2, <1>3, <1>4, <1>5, OutsideStep

\* A check-out, or the replay of an intent: the queue may have got a job.
LEMMA EnqueueStep ==
  ASSUME DayInv, UNCHANGED <<owner, how, edition, metrics, boardFailed, overlapped>>,
         UNCHANGED queue \/ \E s \in Sessions : Add(s),
         closer' \in [Sessions -> {"open", "depth", "add", "intent", "out"}], Closed \subseteq Closed',
         intent' \in [Sessions -> {"none", "pending", "resolved", "dead"}],
         replay' \in [Sessions -> {"no", "depth", "add", "mark"}],
         ~overlapped /\ Keeps => Accounted'
  PROVE  DayInv'
<1>1. QueueShape' /\ Remembers /\ slot' = slot
  <2>1. CASE UNCHANGED queue
    BY <2>1 DEF queue, DayInv, DayShape, QueueShape, Remembers, OnQueue, Pending, KnownAsFailed
  <2>2. CASE \E s \in Sessions : Add(s)
    BY <2>2, QueueAdds DEF DayInv, DayShape
  <2> QED BY <2>1, <2>2
<1>2. DayShape' /\ Ages
  BY <1>1 DEF DayInv, DayShape, Ages, metrics
<1> QED BY <1>1, <1>2, OutsideStep

\* A check-out goes on, and gives its session up only with a log line or an intent.
LEMMA CheckOutDay ==
  ASSUME DayInv, NEW s \in Sessions, CheckOutStep(s) PROVE DayInv'
<1>1. /\ UNCHANGED <<owner, how, edition, metrics, boardFailed, overlapped, replay>>
      /\ UNCHANGED queue \/ Add(s)
      /\ closer[s] \notin {"open", "out"}
  BY DEF CheckOutStep, ReadDepth, AddJob, PersistRetryIntent, intents
<1>2. PICK next \in {"add", "intent", "out"} :
        /\ closer' = [closer EXCEPT ![s] = next]
        /\ \/ next # "out" /\ UNCHANGED <<intent, lost>>
           \/ lost' = lost \cup {s} /\ UNCHANGED intent
           \/ Add(s) /\ UNCHANGED <<intent, lost>>
           \/ intent' = [intent EXCEPT ![s] = "pending"] /\ UNCHANGED lost
  BY DEF CheckOutStep, ReadDepth, AddJob, PersistRetryIntent, GiveUp, intents
<1>3. /\ \A t \in Sessions : closer'[t] = IF t = s THEN next ELSE closer[t]
      /\ closer' \in [Sessions -> {"open", "depth", "add", "intent", "out"}]
      /\ Closed' = Closed /\ AutoClosed' = AutoClosed
  BY <1>1, <1>2 DEF DayInv, DayShape, Closed, AutoClosed
<1>4. /\ intent' \in [Sessions -> {"none", "pending", "resolved", "dead"}]
      /\ \A t \in Sessions : t # s => intent'[t] = intent[t]
      /\ lost \subseteq lost'
  BY <1>2 DEF DayInv, DayShape
<1>5. ASSUME ~overlapped, Keeps PROVE Accounted'
  <2>1. ASSUME NEW t \in Closed' \ (lost' \cup AutoClosed')
        PROVE  closer'[t] # "out" \/ intent'[t] \in {"pending", "dead"} \/ Landed(t)'
    <3>1. t \in Closed \ (lost \cup AutoClosed) /\ t \in Sessions
      BY <1>3, <1>4 DEF Closed
    <3>2. CASE t # s
      BY <1>3, <1>4, <1>5, <3>1, <3>2 DEF DayInv, Accounted, Keeps
    <3>3. CASE t = s /\ next # "out"
      BY <1>3, <3>1, <3>3
    <3>4. CASE t = s /\ Add(s)
      BY <3>4, QueueAdds DEF DayInv, DayShape, Landed
    <3>5. CASE t = s /\ intent' = [intent EXCEPT ![s] = "pending"]
      BY <3>1, <3>5 DEF DayInv, DayShape
    <3>6. CASE t = s /\ lost' = lost \cup {s}
      BY <3>6
    <3> QED BY <1>2, <3>2, <3>3, <3>4, <3>5, <3>6
  <2>2. \A t \in Sessions : replay'[t] = "mark" => Landed(t)'
    BY <1>1, <1>5 DEF DayInv, Accounted, Keeps
  <2> QED BY <2>1, <2>2 DEF Accounted
<1>6. replay' \in [Sessions -> {"no", "depth", "add", "mark"}]
  BY <1>1 DEF DayInv, DayShape
<1> QED BY <1>1, <1>3, <1>4, <1>5, <1>6, EnqueueStep

\* The replay resolves an intent only once its job has been added.
LEMMA ReplayDay ==
  ASSUME DayInv, NEW s \in Sessions, ReplayNext(s) \/ ReplayAdd(s) \/ ReplayMark(s) \/ CleanupIntent(s)
  PROVE  DayInv'
<1>1. /\ UNCHANGED <<owner, closer, how, edition, metrics, boardFailed, overlapped>>
      /\ UNCHANGED queue \/ Add(s)
  BY DEF ReplayNext, ReplayAdd, ReplayMark, CleanupIntent, checkout, history
<1>2. PICK x \in {"no", "depth", "add", "mark"} :
        /\ replay' = [replay EXCEPT ![s] = x]
        /\ x = "mark" => Add(s) \/ replay[s] = "mark"
        /\ \/ UNCHANGED <<intent, lost>>
           \/ intent' = [intent EXCEPT ![s] = "dead"] /\ UNCHANGED lost
           \/ replay[s] = "mark" /\ intent' = [intent EXCEPT ![s] = "resolved"] /\ UNCHANGED lost
           \/ intent[s] = "resolved" /\ intent' = [intent EXCEPT ![s] = "none"] /\ UNCHANGED lost
           \/ lost' = lost \cup {s} /\ intent' = [intent EXCEPT ![s] = "none"]
  <2>1. CASE ReplayNext(s)
    BY <2>1 DEF ReplayNext, ReplayFails, history, DayInv, DayShape
  <2>2. CASE ReplayAdd(s)
    BY <2>2 DEF ReplayAdd, ReplayFails, history, DayInv, DayShape
  <2>3. CASE ReplayMark(s)
    BY <2>3 DEF ReplayMark, history, DayInv, DayShape
  <2>4. CASE CleanupIntent(s)
    <3>1. replay' = [replay EXCEPT ![s] = replay[s]] /\ replay[s] \in {"no", "depth", "add", "mark"}
      BY <2>4 DEF CleanupIntent, DayInv, DayShape
    <3>2. /\ intent' = [intent EXCEPT ![s] = "none"]
          /\ (intent[s] = "resolved" /\ UNCHANGED lost) \/ lost' = lost \cup {s}
      BY <2>4 DEF CleanupIntent
    <3> QED BY <3>1, <3>2
  <2> QED BY <2>1, <2>2, <2>3, <2>4
<1>3. /\ \A t \in Sessions : replay'[t] = IF t = s THEN x ELSE replay[t]
      /\ replay' \in [Sessions -> {"no", "depth", "add", "mark"}]
      /\ intent' \in [Sessions -> {"none", "pending", "resolved", "dead"}]
      /\ \A t \in Sessions : t # s => intent'[t] = intent[t]
      /\ lost \subseteq lost'
  BY <1>2 DEF DayInv, DayShape
<1>4. /\ Closed' = Closed /\ AutoClosed' = AutoClosed
      /\ closer' \in [Sessions -> {"open", "depth", "add", "intent", "out"}]
  BY <1>1 DEF Closed, AutoClosed, DayInv, DayShape
<1>5. ASSUME ~overlapped, Keeps PROVE Accounted'
  <2>1. \A t \in Sessions : replay'[t] = "mark" => Landed(t)'
    BY <1>2, <1>3, <1>5, QueueAdds DEF DayInv, DayShape, Accounted, Keeps, Landed
  <2>2. ASSUME NEW t \in Closed' \ (lost' \cup AutoClosed')
        PROVE  closer'[t] # "out" \/ intent'[t] \in {"pending", "dead"} \/ Landed(t)'
    <3>1. t \in Closed \ (lost \cup AutoClosed) /\ t \in Sessions
      BY <1>3, <1>4 DEF Closed
    <3>2. closer[t] # "out" \/ intent[t] \in {"pending", "dead"} \/ Landed(t)'
      BY <1>5, <3>1 DEF DayInv, Accounted, Keeps
    <3>3. CASE t # s \/ UNCHANGED intent
      BY <1>1, <1>3, <3>1, <3>2, <3>3
    <3>4. CASE t = s /\ intent' = [intent EXCEPT ![s] = "dead"]
      BY <3>1, <3>4 DEF DayInv, DayShape
    <3>5. CASE t = s /\ replay[s] = "mark"
      BY <1>5, <3>5 DEF DayInv, Accounted, Keeps
    <3>6. CASE t = s /\ intent[s] = "resolved"
      BY <1>1, <3>2, <3>6
    <3>7. CASE t = s /\ lost' = lost \cup {s}
      BY <3>7
    <3> QED BY <1>2, <3>3, <3>4, <3>5, <3>6, <3>7
  <2> QED BY <2>1, <2>2 DEF Accounted
<1> QED BY <1>1, <1>3, <1>4, <1>5, EnqueueStep

LEMMA CrashDay == ASSUME DayInv, Crash PROVE DayInv'
<1>1. /\ lost' = lost \cup {s \in Sessions : closer[s] \in {"depth", "add", "intent"}}
      /\ closer' = [s \in Sessions |-> IF closer[s] = "open" THEN "open" ELSE "out"]
      /\ \/ replay' = [s \in Sessions |-> IF intent[s] = "pending" THEN "depth" ELSE "no"]
         \/ replay' = [s \in Sessions |-> "no"]
      /\ Stall
      /\ UNCHANGED <<owner, how, edition, metrics, intent, overlapped, boardFailed>>
  BY DEF Crash
<1>2. QueueShape' /\ Remembers /\ \A k \in Slots : slot'[k] = Free
  BY <1>1, QueueStalls DEF DayInv, DayShape
<1>3. \A s \in Sessions : replay'[s] # "mark" /\ closer'[s] = IF closer[s] = "open" THEN "open" ELSE "out"
  BY <1>1
<1>4. DayShape'
  <2>1. closer' \in [Sessions -> {"open", "depth", "add", "intent", "out"}]
    BY <1>1
  <2>2. replay' \in [Sessions -> {"no", "depth", "add", "mark"}]
    BY <1>1
  <2> QED BY <1>1, <1>2, <2>1, <2>2 DEF DayInv, DayShape, metrics
<1>5. Closed' = Closed
  BY <1>3 DEF Closed
<1>6. Ages
  BY <1>1, <1>5 DEF Ages, DayInv, DayShape
<1>7. ASSUME ~overlapped, Keeps PROVE Accounted'
  <2>1. ASSUME NEW s \in Closed' \ (lost' \cup AutoClosed')
        PROVE  closer'[s] # "out" \/ intent'[s] \in {"pending", "dead"} \/ Landed(s)'
    <3>1. s \in Closed \ (lost \cup AutoClosed) /\ s \in Sessions /\ closer[s] = "out"
      BY <1>1, <1>5 DEF Closed, AutoClosed, DayInv, DayShape
    <3> QED BY <1>1, <1>7, <3>1 DEF DayInv, Accounted, Keeps
  <2> QED BY <1>3, <2>1 DEF Accounted
<1> QED BY <1>1, <1>2, <1>4, <1>6, <1>7, OutsideStep

-----------------------------------------------------------------------------
(* The worker.                                                             *)

LEMMA RunDay ==
  ASSUME DayInv, NEW k \in Slots, NEW s \in Sessions, RunJob(k, s) PROVE DayInv'
<1>1. /\ Take(k, s, "session")
      /\ overlapped' = (overlapped \/ \E l \in Slots : slot[l] # Free)
      /\ UNCHANGED <<owner, closer, how, edition, empDay, orgDay, board, intent, replay, lost, boardFailed>>
  BY DEF RunJob, checkout, metrics, intents
<1>2. /\ QueueShape' /\ Remembers
      /\ slot'[k].step = "session" /\ slot'[k].job = s /\ slot'[k].read = {}
      /\ \A l \in Slots : l # k => slot'[l] = slot[l]
  BY <1>1, QueueTakes DEF DayInv, DayShape
<1>3. DayShape' /\ Ages /\ UNCHANGED metrics /\ Closed' = Closed /\ AutoClosed' = AutoClosed
  BY <1>1, <1>2 DEF DayInv, DayShape, Ages, metrics, Closed, AutoClosed
<1>4. \A l \in Slots : slot'[l] # Free =>
        \/ slot[l] # Free /\ slot'[l] = slot[l]
        \/ slot'[l].step = "session" /\ slot'[l].read = {}
  BY <1>2
<1>5. RowsReal' /\ Keeps /\ (Abreast => Abreast')
  BY <1>1, <1>2, <1>3, <1>4, RowsStay, LandedStays
<1>6. ASSUME ~overlapped' PROVE OneSlot' /\ Carries' /\ Accounted' /\ Abreast'
  <2>1. ~overlapped /\ \A l \in Slots : slot[l] = Free
    BY <1>1, <1>6
  <2>2. OneSlot'
    BY <1>2, <2>1 DEF OneSlot
  <2>3. Carries'
    BY <1>1, <1>3, <1>4, <2>1, CarriesStays
  <2>4. Accounted'
    BY <1>1, <1>3, <1>5, <2>1 DEF DayInv, Accounted, Keeps, Closed
  <2> QED BY <1>5, <2>1, <2>2, <2>3, <2>4 DEF DayInv
<1> QED BY <1>3, <1>5, <1>6 DEF DayInv

\* The handler throws.
LEMMA ThrowDay ==
  ASSUME DayInv, NEW k \in Slots, slot[k] # Free, Throw(k),
         UNCHANGED <<checkout, edition, metrics, intents, lost, overlapped, boardFailed>>
  PROVE  DayInv'
<1>1. UNCHANGED <<owner, closer, how, empDay, orgDay, board, intent, replay>>
  BY DEF checkout, metrics, intents
<1>2. QueueShape' /\ Remembers /\ \A l \in Slots : slot'[l] = slot[l] \/ slot'[l] = Free
  BY QueueThrows DEF DayInv, DayShape
<1>3. DayShape' /\ Ages
  BY <1>1, <1>2 DEF DayInv, DayShape, Ages, Closed
<1>4. ASSUME ~overlapped, Keeps PROVE Accounted'
  BY <1>1, <1>4 DEF DayInv, Accounted, Keeps, Closed, AutoClosed
<1> QED BY <1>2, <1>3, <1>4, OutsideStep

\* The "failed" listener touches no job.
LEMMA FileDay == ASSUME DayInv, NEW j, FileDeadLetter(j) PROVE DayInv'
<1>1. UNCHANGED <<owner, closer, how, edition, empDay, orgDay, board, intent, replay, job, made, slot, lost,
                  overlapped, boardFailed>>
  BY DEF FileDeadLetter, File, FileFails, checkout, metrics, intents, history
<1>2. QueueShape' /\ Remembers
  BY <1>1 DEF DayInv, DayShape, QueueShape, Remembers, OnQueue, Pending, KnownAsFailed
<1>3. DayShape' /\ Ages
  BY <1>1, <1>2 DEF DayInv, DayShape, Ages, Closed
<1>4. ASSUME ~overlapped, Keeps PROVE Accounted'
  BY <1>1, <1>4 DEF DayInv, Accounted, Keeps, Closed, AutoClosed
<1> QED BY <1>1, <1>2, <1>3, <1>4, OutsideStep DEF metrics

\* The rows are of those types, and sum up editions of sessions of their own.
RowsWritten ==
  /\ empDay' \in [Employees -> SUBSET Pairs]
  /\ orgDay' \in [Employees -> SUBSET Pairs]
  /\ board' \in [Employees -> SUBSET Pairs]
  /\ \A e \in Employees : \A x \in empDay'[e] \cup orgDay'[e] \cup board'[e] : Real(x) /\ owner[x[1]] = e

\* Nothing that was counted is taken away.
KeepsCounted == \A s \in Sessions : IsCounted(s) => IsCounted(s)'

LEMMA RowsUnwritten == ASSUME DayInv, UNCHANGED metrics PROVE RowsWritten
BY DEF DayInv, DayShape, RowsReal, RowsWritten, metrics

\* The handler goes on to its next step.
LEMMA ContinueDay ==
  ASSUME DayInv, NEW k \in Slots, slot[k] # Free,
         NEW step \in Handling, NEW read \in SUBSET Pairs, Continue(k, step, read),
         UNCHANGED <<checkout, edition, intents, lost, overlapped>>, RowsWritten,
         step # "session", slot[k].job \in Final, \A x \in read : Real(x),
         step = "saveEmployee" => \A x \in read : owner[x[1]] = owner[slot[k].job],
         ~overlapped => KeepsCounted /\ Carried(k)'
  PROVE  DayInv'
<1>1. UNCHANGED <<owner, closer, how, intent, replay>>
  BY DEF checkout, intents
<1>2. /\ QueueShape' /\ Remembers
      /\ slot'[k] # Free /\ slot'[k].step = step /\ slot'[k].job = slot[k].job /\ slot'[k].read = read
      /\ \A l \in Slots : l # k => slot'[l] = slot[l]
  BY QueueContinues DEF DayInv, DayShape
<1>3. DayShape'
  BY <1>1, <1>2 DEF DayInv, DayShape, RowsWritten
<1>4. Closed' = Closed /\ AutoClosed' = AutoClosed /\ Final' = Final /\ \A x : Real(x)' <=> Real(x)
  BY <1>1 DEF Closed, AutoClosed, Final, Real
<1>5. RowsReal'
  <2>1. \A e \in Employees : \A x \in empDay'[e] \cup orgDay'[e] \cup board'[e] : Real(x)' /\ owner'[x[1]] = e
    BY <1>1, <1>4 DEF RowsWritten
  <2>2. ASSUME NEW l \in Slots, slot'[l] # Free
        PROVE  /\ slot'[l].step # "session" => slot'[l].job \in Final'
               /\ \A x \in slot'[l].read : Real(x)'
               /\ slot'[l].step = "saveEmployee" => \A x \in slot'[l].read : owner'[x[1]] = owner'[slot'[l].job]
    <3>1. CASE l = k
      BY <1>1, <1>2, <1>4, <3>1
    <3>2. CASE l # k
      BY <1>1, <1>2, <1>4, <2>2, <3>2 DEF DayInv, RowsReal
    <3> QED BY <3>1, <3>2
  <2> QED BY <2>1, <2>2 DEF RowsReal
<1>6. ASSUME ~overlapped PROVE OneSlot' /\ Carries' /\ Accounted' /\ Abreast'
  <2>1. \A l \in Slots : slot'[l] # Free => l = k
    BY <1>2, <1>6 DEF DayInv, OneSlot
  <2>2. OneSlot' /\ Carries'
    BY <1>6, <2>1 DEF OneSlot, Carries
  <2>3. Keeps
    BY <1>2, <1>6 DEF Keeps, KeepsCounted, Landed, Remembers
  <2>4. Accounted'
    <3>1. Accounted /\ UNCHANGED lost
      BY <1>6 DEF DayInv
    <3> QED BY <1>1, <1>4, <1>6, <2>3, <3>1 DEF Accounted, Keeps, Closed
  <2>5. Abreast'
    <3>1. slot[k].job \in Sessions /\ OnQueue(slot[k].job)
      BY BusySlot DEF DayInv, DayShape, QueueShape, OnQueue, Pending
    <3>2. \E s \in Sessions : OnQueue(s)'
      BY <1>2, <3>1 DEF Remembers
    <3> QED BY <3>2 DEF Abreast
  <2> QED BY <2>2, <2>4, <2>5
<1> QED BY <1>3, <1>5, <1>6 DEF DayInv

\* The handler returns.
LEMMA DoneDay ==
  ASSUME DayInv, NEW k \in Slots, slot[k] # Free, NEW j \in Sessions, j = slot[k].job, Done(k),
         UNCHANGED <<checkout, edition, intents, lost, overlapped>>, RowsWritten,
         ~overlapped => /\ KeepsCounted /\ IsCounted(j)'
                        /\ orgDay' = empDay' /\ (boardFailed' \/ board' = orgDay')
  PROVE  DayInv'
<1>1. UNCHANGED <<owner, closer, how, intent, replay>>
  BY DEF checkout, intents
<1>3. /\ QueueShape' /\ \A s \in Sessions : s # j /\ OnQueue(s) => OnQueue(s)'
      /\ \A l \in Slots : slot'[l] = IF l = k THEN Free ELSE slot[l]
  BY QueueDone DEF DayInv, DayShape
<1>4. DayShape'
  BY <1>1, <1>3 DEF DayInv, DayShape, RowsWritten
<1>5. Closed' = Closed /\ AutoClosed' = AutoClosed /\ Final' = Final /\ \A x : Real(x)' <=> Real(x)
  BY <1>1 DEF Closed, AutoClosed, Final, Real
<1>6. RowsReal'
  <2>1. \A e \in Employees : \A x \in empDay'[e] \cup orgDay'[e] \cup board'[e] : Real(x)' /\ owner'[x[1]] = e
    BY <1>1, <1>5 DEF RowsWritten
  <2> QED BY <1>1, <1>3, <1>5, <2>1 DEF DayInv, RowsReal
<1>7. ASSUME ~overlapped PROVE OneSlot' /\ Carries' /\ Accounted' /\ Abreast'
  <2>1. \A l \in Slots : slot'[l] = Free
    BY <1>3, <1>7 DEF DayInv, OneSlot
  <2>2. OneSlot' /\ Carries'
    BY <2>1 DEF OneSlot, Carries
  <2>4. Keeps
    BY <1>3, <1>7 DEF Keeps, KeepsCounted, Landed
  <2>5. Accounted'
    <3>1. Accounted /\ UNCHANGED lost
      BY <1>7 DEF DayInv
    <3> QED BY <1>1, <1>5, <1>7, <2>4, <3>1 DEF Accounted, Keeps, Closed
  <2>6. Abreast'
    BY <1>7 DEF Abreast
  <2> QED BY <2>2, <2>5, <2>6
<1> QED BY <1>4, <1>6, <1>7 DEF DayInv

\* The row made of all rows of the employees is theirs.
LEMMA ByOwnerOfAll ==
  ASSUME DayInv
  PROVE  ByOwner(Counted(empDay)) = empDay /\ ByOwner(Counted(orgDay)) = orgDay
<1>1. ASSUME NEW rows \in [Employees -> SUBSET Pairs], \A e \in Employees : \A x \in rows[e] : owner[x[1]] = e
      PROVE  ByOwner(Counted(rows)) = rows
  <2>1. \A e \in Employees : {x \in Counted(rows) : owner[x[1]] = e} = rows[e]
    BY <1>1 DEF Counted
  <2> QED BY <2>1 DEF ByOwner
<1> QED BY <1>1 DEF DayInv, DayShape, RowsReal

LEMMA ByOwnerReal ==
  ASSUME DayInv, NEW S \in SUBSET Pairs, \A x \in S : Real(x)
  PROVE  /\ ByOwner(S) \in [Employees -> SUBSET Pairs]
         /\ \A e \in Employees : \A x \in ByOwner(S)[e] : Real(x) /\ owner[x[1]] = e
BY DEF ByOwner

\* A job past its first step.
LEMMA AtWork ==
  ASSUME DayInv, NEW k \in Slots, slot[k] # Free
  PROVE  /\ slot[k].job \in Sessions /\ owner[slot[k].job] \in Employees
         /\ slot[k].read \in SUBSET Pairs /\ \A x \in slot[k].read : Real(x)
         /\ slot[k].step # "session" => slot[k].job \in Final
         /\ slot[k].step = "saveEmployee" => \A x \in slot[k].read : owner[x[1]] = owner[slot[k].job]
         /\ ~overlapped => Carried(k)
BY BusySlot DEF DayInv, DayShape, RowsReal, Carries

LEMMA CountedReal ==
  ASSUME DayInv
  PROVE  /\ Counted(empDay) \in SUBSET Pairs /\ \A x \in Counted(empDay) : Real(x)
         /\ Counted(orgDay) \in SUBSET Pairs /\ \A x \in Counted(orgDay) : Real(x)
BY DEF Counted, DayInv, DayShape, RowsReal

LEMMA CountedStays == ASSUME DayInv, UNCHANGED <<checkout, metrics>> PROVE KeepsCounted
BY DEF KeepsCounted, IsCounted, checkout, metrics

LEMMA ReadSessionDay ==
  ASSUME DayInv, NEW k \in Slots, ReadSession(k) PROVE DayInv'
<1>1. /\ slot[k] # Free
      /\ UNCHANGED <<checkout, edition, metrics, intents, lost, overlapped, boardFailed>>
      /\ \/ Throw(k)
         \/ slot[k].job \in Final /\ Continue(k, "employee", {})
  BY DEF ReadSession, Reads, Runs, history
<1>2. CASE slot[k].job \in Final /\ Continue(k, "employee", {})
  <2>1. "employee" \in Handling /\ {} \in SUBSET Pairs
    BY DEF Handling
  <2>2. slot'[k].step = "employee"
    BY <1>1, <1>2, <2>1, QueueContinues DEF DayInv, DayShape
  <2>3. Carried(k)'
    BY <2>2 DEF Carried
  <2> QED BY <1>1, <1>2, <2>1, <2>3, ContinueDay, RowsUnwritten, CountedStays
<1> QED BY <1>1, <1>2, ThrowDay

LEMMA ReadEmployeeDay ==
  ASSUME DayInv, NEW k \in Slots, ReadEmployee(k) PROVE DayInv'
<1> DEFINE read == Day(owner[slot[k].job])
<1>1. /\ slot[k] # Free /\ slot[k].step = "employee"
      /\ UNCHANGED <<checkout, edition, metrics, intents, lost, overlapped, boardFailed>>
      /\ Throw(k) \/ Continue(k, "saveEmployee", read)
  BY DEF ReadEmployee, Reads, Runs, history
<1>2. slot[k].job \in Final /\ owner[slot[k].job] \in Employees
  BY <1>1, AtWork
<1>3. read \in SUBSET Pairs /\ \A x \in read : Real(x) /\ owner[x[1]] = owner[slot[k].job]
  BY DEF Day, Real, Pairs, Final, Closed, DayInv, DayShape
<1>4. ASSUME NEW s \in Final, owner[s] = owner[slot[k].job] PROVE In(s, read)
  <2>1. <<s, edition[s]>> \in read
    BY <1>4 DEF Day
  <2> QED BY <2>1 DEF In
<1>5. \A s \in Sessions : In(s, empDay[owner[slot[k].job]]) => In(s, read)
  BY <1>2, <1>4 DEF In, DayInv, RowsReal, Real
<1> HIDE DEF read
<1>6. CASE Continue(k, "saveEmployee", read)
  <2>1. "saveEmployee" \in Handling
    BY DEF Handling
  <2>2. slot'[k].step = "saveEmployee" /\ slot'[k].job = slot[k].job /\ slot'[k].read = read
    BY <1>1, <1>3, <1>6, <2>1, QueueContinues DEF DayInv, DayShape
  <2>3. Carried(k)'
    BY <1>1, <1>2, <1>4, <1>5, <2>2 DEF Carried, checkout, metrics
  <2> QED BY <1>1, <1>2, <1>3, <1>6, <2>1, <2>3, ContinueDay, RowsUnwritten, CountedStays
<1> QED BY <1>1, <1>6, ThrowDay

LEMMA SaveEmployeeDay ==
  ASSUME DayInv, NEW k \in Slots, SaveEmployee(k) PROVE DayInv'
<1>1. /\ slot[k] # Free /\ slot[k].step = "saveEmployee"
      /\ UNCHANGED <<checkout, edition, orgDay, board, intents, lost, overlapped, boardFailed>>
      /\ \/ Throw(k) /\ UNCHANGED empDay
         \/ /\ Continue(k, "organisation", {})
            /\ empDay' = [empDay EXCEPT ![owner[slot[k].job]] = slot[k].read]
  BY DEF SaveEmployee, Runs, history
<1>2. /\ slot[k].job \in Final /\ slot[k].job \in Sessions /\ owner[slot[k].job] \in Employees
      /\ slot[k].read \in SUBSET Pairs
      /\ \A x \in slot[k].read : Real(x) /\ owner[x[1]] = owner[slot[k].job]
      /\ ~overlapped => Carried(k)
  BY <1>1, AtWork
<1>3. CASE /\ Continue(k, "organisation", {})
           /\ empDay' = [empDay EXCEPT ![owner[slot[k].job]] = slot[k].read]
  <2>1. "organisation" \in Handling /\ {} \in SUBSET Pairs
    BY DEF Handling
  <2>2. slot'[k].step = "organisation" /\ slot'[k].job = slot[k].job
    BY <1>1, <1>3, <2>1, QueueContinues DEF DayInv, DayShape
  <2>3. \A e \in Employees : empDay'[e] = IF e = owner[slot[k].job] THEN slot[k].read ELSE empDay[e]
    BY <1>3 DEF DayInv, DayShape
  <2>4. RowsWritten
    <3>1. empDay' \in [Employees -> SUBSET Pairs]
      BY <1>2, <1>3 DEF DayInv, DayShape
    <3>2. \A e \in Employees : \A x \in empDay'[e] : Real(x) /\ owner[x[1]] = e
      BY <1>2, <2>3 DEF DayInv, RowsReal
    <3> QED BY <1>1, <3>1, <3>2 DEF DayInv, DayShape, RowsReal, RowsWritten
  <2>5. ASSUME ~overlapped PROVE KeepsCounted /\ Carried(k)'
    <3>1. /\ In(slot[k].job, slot[k].read)
          /\ \A s \in Sessions : In(s, empDay[owner[slot[k].job]]) => In(s, slot[k].read)
      BY <1>1, <1>2, <2>5 DEF Carried
    <3>2. \A s \in Sessions : In(s, empDay[owner[s]]) => In(s, empDay'[owner[s]])
      BY <2>3, <3>1 DEF DayInv, DayShape
    <3>3. KeepsCounted
      BY <1>1, <3>2 DEF KeepsCounted, IsCounted, checkout
    <3>4. Carried(k)'
      BY <1>1, <1>2, <2>2, <2>3, <3>1 DEF Carried, checkout
    <3> QED BY <3>3, <3>4
  <2> QED BY <1>1, <1>2, <1>3, <2>1, <2>4, <2>5, ContinueDay
<1>4. CASE Throw(k) /\ UNCHANGED empDay
  BY <1>1, <1>4, ThrowDay DEF metrics
<1> QED BY <1>1, <1>3, <1>4

LEMMA ReadOrganisationDay ==
  ASSUME DayInv, NEW k \in Slots, ReadOrganisation(k) PROVE DayInv'
<1> DEFINE read == Counted(empDay)
<1>1. /\ slot[k] # Free /\ slot[k].step = "organisation"
      /\ UNCHANGED <<checkout, edition, metrics, intents, lost, overlapped, boardFailed>>
      /\ Throw(k) \/ Continue(k, "saveOrganisation", read)
  BY DEF ReadOrganisation, Reads, Runs, history
<1>2. slot[k].job \in Final /\ (~overlapped => Carried(k))
  BY <1>1, AtWork
<1>3. read \in SUBSET Pairs /\ \A x \in read : Real(x)
  BY CountedReal
<1>5. CASE Continue(k, "saveOrganisation", read)
  <2>1. "saveOrganisation" \in Handling
    BY DEF Handling
  <2>2. slot'[k].step = "saveOrganisation" /\ slot'[k].job = slot[k].job /\ slot'[k].read = read
    BY <1>1, <1>3, <1>5, <2>1, QueueContinues DEF DayInv, DayShape
  <2>3. ~overlapped => Carried(k)'
    BY <1>1, <1>2, <2>2 DEF Carried, Counted, checkout, metrics
  <2> QED BY <1>1, <1>2, <1>3, <1>5, <2>1, <2>3, ContinueDay, RowsUnwritten, CountedStays
<1> QED BY <1>1, <1>5, ThrowDay

LEMMA SaveOrganisationDay ==
  ASSUME DayInv, NEW k \in Slots, SaveOrganisation(k) PROVE DayInv'
<1>1. /\ slot[k] # Free /\ slot[k].step = "saveOrganisation"
      /\ UNCHANGED <<checkout, edition, empDay, board, intents, lost, overlapped, boardFailed>>
      /\ \/ Throw(k) /\ UNCHANGED orgDay
         \/ Continue(k, "today", {}) /\ orgDay' = ByOwner(slot[k].read)
  BY DEF SaveOrganisation, Runs, history
<1>2. /\ slot[k].job \in Final /\ slot[k].job \in Sessions
      /\ slot[k].read \in SUBSET Pairs /\ \A x \in slot[k].read : Real(x)
      /\ ~overlapped => Carried(k)
  BY <1>1, AtWork
<1>3. CASE Continue(k, "today", {}) /\ orgDay' = ByOwner(slot[k].read)
  <2>1. "today" \in Handling /\ {} \in SUBSET Pairs
    BY DEF Handling
  <2>2. slot'[k].step = "today" /\ slot'[k].job = slot[k].job
    BY <1>1, <1>3, <2>1, QueueContinues DEF DayInv, DayShape
  <2>3. RowsWritten
    BY <1>1, <1>2, <1>3, ByOwnerReal DEF DayInv, DayShape, RowsReal, RowsWritten
  <2>4. ASSUME ~overlapped PROVE KeepsCounted /\ Carried(k)'
    <3>1. In(slot[k].job, empDay[owner[slot[k].job]]) /\ slot[k].read = Counted(empDay)
      BY <1>1, <1>2, <2>4 DEF Carried
    <3>2. orgDay' = empDay
      BY <1>3, <3>1, ByOwnerOfAll
    <3>3. KeepsCounted
      BY <1>1, <3>2 DEF KeepsCounted, IsCounted, checkout
    <3>4. Carried(k)'
      BY <1>1, <1>2, <2>2, <3>1, <3>2 DEF Carried, checkout
    <3> QED BY <3>3, <3>4
  <2> QED BY <1>1, <1>2, <1>3, <2>1, <2>3, <2>4, ContinueDay
<1>4. CASE Throw(k) /\ UNCHANGED orgDay
  BY <1>1, <1>4, ThrowDay DEF metrics
<1> QED BY <1>1, <1>3, <1>4

LEMMA ReadTodayDay ==
  ASSUME DayInv, NEW k \in Slots, ReadToday(k) PROVE DayInv'
<1>1. /\ slot[k] # Free /\ slot[k].step = "today"
      /\ UNCHANGED <<checkout, edition, metrics, intents, lost, overlapped>>
  BY DEF ReadToday, Runs
<1>2. slot[k].job \in Final /\ slot[k].job \in Sessions /\ (~overlapped => Carried(k))
  BY <1>1, AtWork
<1>3. PICK next \in {"board", "done"} : \E read \in SUBSET Pairs :
        /\ Continue(k, next, read)
        /\ \A x \in read : Real(x)
        /\ \/ next = "board" /\ read = Counted(orgDay) /\ UNCHANGED boardFailed
           \/ boardFailed' = TRUE
  BY CountedReal DEF ReadToday
<1>4. PICK read \in SUBSET Pairs :
        /\ Continue(k, next, read)
        /\ \A x \in read : Real(x)
        /\ \/ next = "board" /\ read = Counted(orgDay) /\ UNCHANGED boardFailed
           \/ boardFailed' = TRUE
  BY <1>3
<1>5. next \in Handling /\ next \notin {"session", "saveEmployee"}
  BY DEF Handling
<1>6. slot'[k].step = next /\ slot'[k].job = slot[k].job /\ slot'[k].read = read
  BY <1>1, <1>4, <1>5, QueueContinues DEF DayInv, DayShape
<1>7. ~overlapped => Carried(k)'
  <2> SUFFICES ASSUME ~overlapped PROVE Carried(k)'
    OBVIOUS
  <2>1. In(slot[k].job, empDay[owner[slot[k].job]]) /\ orgDay = empDay
    BY <1>1, <1>2 DEF Carried
  <2>2. UNCHANGED <<owner, empDay, orgDay, board>>
    BY <1>1 DEF checkout, metrics
  <2> QED BY <1>4, <1>6, <2>1, <2>2 DEF Carried, Counted
<1>8. RowsWritten /\ KeepsCounted
  BY <1>1, RowsUnwritten, CountedStays
<1> QED BY <1>1, <1>2, <1>4, <1>5, <1>7, <1>8, ContinueDay

LEMMA SaveBoardDay ==
  ASSUME DayInv, NEW k \in Slots, SaveBoard(k) PROVE DayInv'
<1>1. /\ slot[k] # Free /\ slot[k].step = "board" /\ Continue(k, "done", {})
      /\ UNCHANGED <<checkout, edition, empDay, orgDay, intents, lost, overlapped>>
      /\ \/ board' = ByOwner(slot[k].read) /\ UNCHANGED boardFailed
         \/ boardFailed' = TRUE /\ UNCHANGED board
  BY DEF SaveBoard, Runs
<1>2. /\ slot[k].job \in Final /\ slot[k].job \in Sessions
      /\ slot[k].read \in SUBSET Pairs /\ \A x \in slot[k].read : Real(x)
      /\ ~overlapped => Carried(k)
  BY <1>1, AtWork
<1>3. "done" \in Handling /\ {} \in SUBSET Pairs
  BY DEF Handling
<1>4. slot'[k].step = "done" /\ slot'[k].job = slot[k].job
  BY <1>1, <1>3, QueueContinues DEF DayInv, DayShape
<1>5. RowsWritten
  BY <1>1, <1>2, ByOwnerReal DEF DayInv, DayShape, RowsReal, RowsWritten
<1>6. UNCHANGED <<owner, empDay, orgDay>>
  BY <1>1 DEF checkout
<1>7. KeepsCounted
  BY <1>6 DEF KeepsCounted, IsCounted
<1>8. ASSUME ~overlapped PROVE Carried(k)'
  <2>1. /\ In(slot[k].job, empDay[owner[slot[k].job]]) /\ orgDay = empDay
        /\ ~boardFailed => slot[k].read = Counted(orgDay)
    BY <1>1, <1>2, <1>8 DEF Carried
  <2>2. boardFailed' \/ board' = orgDay
    BY <1>1, <2>1, ByOwnerOfAll
  <2> QED BY <1>4, <1>6, <2>1, <2>2 DEF Carried
<1> QED BY <1>1, <1>2, <1>3, <1>5, <1>7, <1>8, ContinueDay

LEMMA FinishJobDay ==
  ASSUME DayInv, NEW k \in Slots, FinishJob(k) PROVE DayInv'
<1>1. /\ slot[k] # Free /\ slot[k].step = "done" /\ Done(k)
      /\ UNCHANGED <<checkout, edition, metrics, intents, lost, overlapped, boardFailed>>
  BY DEF FinishJob, Runs, history
<1>2. slot[k].job \in Sessions /\ (~overlapped => Carried(k))
  BY <1>1, AtWork
<1>3. PICK j \in Sessions : j = slot[k].job
  BY <1>2
<1>4. UNCHANGED <<owner, empDay, orgDay, board>>
  BY <1>1 DEF checkout, metrics
<1>5. RowsWritten /\ KeepsCounted
  BY <1>1, RowsUnwritten, CountedStays
<1>6. ASSUME ~overlapped PROVE IsCounted(j)' /\ orgDay' = empDay' /\ (boardFailed' \/ board' = orgDay')
  <2>1. /\ In(j, empDay[owner[j]]) /\ orgDay = empDay
        /\ boardFailed \/ board = orgDay
    BY <1>1, <1>2, <1>3, <1>6 DEF Carried
  <2> QED BY <1>1, <1>4, <2>1 DEF IsCounted
<1> QED BY <1>1, <1>3, <1>5, <1>6, DoneDay

-----------------------------------------------------------------------------
(* The day.                                                                *)

LEMMA DayInit == Init => DayInv
<1> SUFFICES ASSUME Init PROVE DayInv
  OBVIOUS
<1>1. DayShape
  <2>1. owner \in [Sessions -> Employees]
    BY AnalyticsConstants DEF Init
  <2> QED BY <2>1 DEF Init, QueueInit, Nothing, DayShape, QueueShape, Works
<1>2. RowsReal
  BY DEF Init, QueueInit, Nothing, RowsReal
<1>3. OneSlot /\ Carries
  BY DEF Init, QueueInit, OneSlot, Carries
<1>4. Accounted /\ Abreast
  BY DEF Init, Accounted, Closed, Abreast
<1> QED BY <1>1, <1>2, <1>3, <1>4 DEF DayInv

LEMMA DayStep == DayInv /\ [Next]_vars => DayInv'
<1> SUFFICES ASSUME DayInv, [Next]_vars PROVE DayInv'
  OBVIOUS
<1>1. CASE \E s \in Sessions : \E by \in Ways : Close(s, by)
  BY <1>1, CloseDay
<1>2. CASE \E s \in Sessions : CheckOutStep(s) \/ ComputeDistance(s)
  BY <1>2, CheckOutDay, ComputeDay
<1>3. CASE \E s \in Sessions : ReplayNext(s) \/ ReplayAdd(s) \/ ReplayMark(s) \/ CleanupIntent(s)
  BY <1>3, ReplayDay
<1>4. CASE \E k \in Slots : \E s \in Sessions : RunJob(k, s)
  BY <1>4, RunDay
<1>5. CASE \E k \in Slots : SlotStep(k)
  BY <1>5, ReadSessionDay, ReadEmployeeDay, SaveEmployeeDay, ReadOrganisationDay, SaveOrganisationDay,
     ReadTodayDay, SaveBoardDay, FinishJobDay DEF SlotStep
<1>6. CASE (\E j \in filing : FileDeadLetter(j)) \/ Crash
  BY <1>6, FileDay, CrashDay
<1>7. CASE UNCHANGED vars
  <2>1. UNCHANGED <<owner, closer, how, edition, metrics, queue, history, intent, replay>>
    BY <1>7 DEF vars, checkout, intents
  <2>2. UNCHANGED <<job, made, slot, lost, overlapped, boardFailed>>
    BY <2>1 DEF queue, history
  <2>3. UNCHANGED queue /\ Closed' = Closed /\ AutoClosed' = AutoClosed
    BY <2>1 DEF Closed, AutoClosed
  <2>4. ASSUME ~overlapped, Keeps PROVE Accounted'
    <3>1. Accounted
      BY <2>4 DEF DayInv
    <3>2. \A s \in Sessions : Landed(s) => Landed(s)'
      BY <2>4 DEF Keeps
    <3>3. /\ UNCHANGED <<closer, intent, replay, lost>>
          /\ Closed' = Closed /\ AutoClosed' = AutoClosed /\ Closed \subseteq Sessions
      BY <2>1, <2>2, <2>3 DEF Closed
    <3> QED BY <3>1, <3>2, <3>3 DEF Accounted
  <2> QED BY <2>1, <2>2, <2>3, <2>4, EnqueueStep DEF DayInv, DayShape
<1> QED BY <1>1, <1>2, <1>3, <1>4, <1>5, <1>6, <1>7 DEF Next

\* Through refused and failed enqueues, retries, replays of intents and a crash, a
\* session closed by a check-out is counted, on its way or on record, unless it was
\* given up with a log line or jobs overlapped.  Nothing is said of one closed by a
\* deactivation, which sends nothing to the queue.
THEOREM ClosedSessionsAreAccounted == SafetySpec => []ClosedIsAccounted
<1>1. DayInv => ClosedIsAccounted
  <2> SUFFICES ASSUME DayInv, ~overlapped, NEW s \in Closed \ (lost \cup AutoClosed)
               PROVE  closer[s] # "out" \/ s \in Pending \/ OnRecord(s) \/ IsCounted(s)
    BY DEF ClosedIsAccounted
  <2> QED BY DEF DayInv, Accounted, Landed, OnQueue, OnRecord
<1> QED BY <1>1, DayInit, DayStep, PTL DEF SafetySpec

LEMMA DayInvIsExact == DayInv => DayIsExact
<1> SUFFICES ASSUME DayInv, Settled, ~overlapped PROVE Exact
  BY DEF DayIsExact
<1>1. \A s \in Final \ AutoClosed : IsCounted(s)
  <2> SUFFICES ASSUME NEW s \in Final \ AutoClosed PROVE IsCounted(s)
    OBVIOUS
  <2>1. s \in Sessions /\ s \in Closed \ (lost \cup AutoClosed) /\ closer[s] = "out"
    BY DEF Final, Closed, Settled
  <2>2. s \notin Pending /\ ~OnRecord(s)
    BY <2>1 DEF Settled, Pending
  <2> QED BY <2>1, <2>2 DEF DayInv, Accounted, Landed, OnQueue, OnRecord
<1>2. \A x \in Pairs : Real(x) => x = <<x[1], edition[x[1]]>> /\ x[1] \in Final /\ x[1] \in Sessions
  <2> SUFFICES ASSUME NEW x \in Pairs, Real(x)
               PROVE  x = <<x[1], edition[x[1]]>> /\ x[1] \in Final /\ x[1] \in Sessions
    OBVIOUS
  <2>1. x[1] \in Sessions /\ x[2] \in Nat /\ x = <<x[1], x[2]>>
    BY DEF Pairs
  <2>2. edition[x[1]] \in Nat /\ edition[x[1]] <= 1 /\ 1 <= x[2] /\ x[2] <= edition[x[1]]
    BY <2>1 DEF Settled, Real, DayInv, DayShape
  <2> QED BY <2>1, <2>2 DEF Real
<1>3. ASSUME NEW e \in Employees
      PROVE  empDay[e] \subseteq Day(e) /\ InRow(Day(e) \ empDay[e]) \subseteq AutoClosed
  <2>1. \A x \in empDay[e] : x \in Pairs /\ Real(x) /\ owner[x[1]] = e
    BY DEF DayInv, DayShape, RowsReal
  <2>2. empDay[e] \subseteq Day(e)
    BY <1>2, <2>1 DEF Day
  <2>3. ASSUME NEW x \in Day(e) \ empDay[e] PROVE x[1] \in AutoClosed
    <3>1. PICK s \in Final : owner[s] = e /\ x = <<s, edition[s]>>
      BY DEF Day
    <3>2. SUFFICES ASSUME s \notin AutoClosed PROVE FALSE
      BY <3>1
    <3>3. PICK y \in empDay[e] : y[1] = s
      BY <1>1, <3>1, <3>2 DEF IsCounted, In
    <3>4. y = x
      BY <1>2, <2>1, <3>1, <3>3
    <3> QED BY <3>3, <3>4
  <2> QED BY <2>2, <2>3 DEF InRow
<1>4. orgDay = empDay /\ (boardFailed \/ board = orgDay)
  <2>1. \A s \in Sessions : ~OnQueue(s)
    BY DEF Settled, OnQueue, Pending, OnRecord
  <2> QED BY <2>1 DEF DayInv, Abreast
<1> QED BY <1>3, <1>4 DEF Exact

\* Once every job is done, with each distance computed once and no two jobs at a
\* time, the row of an employee sums up closed sessions of the day and lacks none
\* but those closed by a deactivation; that of the organisation, and the
\* dashboard's but for a failed update, sum up the same.
THEOREM SettledDayIsExact == SafetySpec => []DayIsExact
BY DayInvIsExact, DayInit, DayStep, PTL DEF SafetySpec

-----------------------------------------------------------------------------
(* Rankings.  A ranking is a matter of the totals: the places of a finite  *)
(* set are all taken once, and whoever breaks the ties, the total at a     *)
(* place is the same.                                                      *)

Ranked(S, total, key) ==
  /\ IsFiniteSet(S)
  /\ \A e \in S : total[e] \in Nat /\ key[e] \in Int
  /\ \A a, e \in S : key[a] = key[e] => a = e

Ahead(S, total, key, e) == {a \in S : total[a] > total[e] \/ (total[a] = total[e] /\ key[a] < key[e])}

LEMMA PlaceType ==
  ASSUME NEW S, NEW total, NEW key, Ranked(S, total, key), NEW e \in S
  PROVE  /\ Place(S, total, key, e) \in Nat /\ Place(S, total, key, e) < Cardinality(S)
         /\ Place(S, total, key, e) = Cardinality(Ahead(S, total, key, e))
         /\ IsFiniteSet(Ahead(S, total, key, e))
<1>1. total[e] \in Nat /\ key[e] \in Int /\ IsFiniteSet(S)
  BY DEF Ranked
<1>2. Ahead(S, total, key, e) \subseteq S \ {e}
  BY <1>1 DEF Ahead
<1>3. IsFiniteSet(S \ {e}) /\ Cardinality(S \ {e}) = Cardinality(S) - 1 /\ Cardinality(S) \in Nat
  BY <1>1, FS_RemoveElement, FS_CardinalityType
<1>4. /\ IsFiniteSet(Ahead(S, total, key, e)) /\ Cardinality(Ahead(S, total, key, e)) \in Nat
      /\ Cardinality(Ahead(S, total, key, e)) <= Cardinality(S \ {e})
  BY <1>2, <1>3, FS_Subset, FS_CardinalityType
<1> QED BY <1>3, <1>4 DEF Place, Ahead

LEMMA PlacesDiffer ==
  ASSUME NEW S, NEW total, NEW key, Ranked(S, total, key), NEW a \in S, NEW e \in S,
         Place(S, total, key, a) = Place(S, total, key, e)
  PROVE  a = e
<1>1. ASSUME NEW x \in S, NEW y \in S, x \in Ahead(S, total, key, y)
      PROVE  Place(S, total, key, x) # Place(S, total, key, y)
  <2>1. \A z \in S : total[z] \in Nat /\ key[z] \in Int
    BY DEF Ranked
  <2>2. /\ Ahead(S, total, key, x) \subseteq Ahead(S, total, key, y)
        /\ x \in Ahead(S, total, key, y) /\ x \notin Ahead(S, total, key, x)
    BY <1>1, <2>1 DEF Ahead
  <2>3. Cardinality(Ahead(S, total, key, x)) # Cardinality(Ahead(S, total, key, y))
    BY <2>2, PlaceType, FS_Subset
  <2> QED BY <2>3, PlaceType
<1>2. a \notin Ahead(S, total, key, e) /\ e \notin Ahead(S, total, key, a)
  BY <1>1
<1>3. /\ total[a] \in Nat /\ total[e] \in Nat /\ key[a] \in Int /\ key[e] \in Int
      /\ key[a] = key[e] => a = e
  BY DEF Ranked
<1> QED BY <1>2, <1>3 DEF Ahead

LEMMA PlaceTaken ==
  ASSUME NEW S, NEW total, NEW key, Ranked(S, total, key), NEW i \in Nat, i < Cardinality(S)
  PROVE  \E e \in S : Place(S, total, key, e) = i
<1> DEFINE n == Cardinality(S)
           m == n - 1
           f == [e \in S |-> Place(S, total, key, e)]
<1>1. n \in Nat /\ IsFiniteSet(S)
  BY FS_CardinalityType DEF Ranked
<1>2. IsFiniteSet(0..m) /\ Cardinality(0..m) = n
  <2>1. 0 \in Int /\ m \in Int /\ ~(0 > m) /\ m - 0 + 1 = n
    BY <1>1
  <2> HIDE DEF m
  <2> QED BY <2>1, FS_Interval
<1>3. \A e \in S : f[e] = Place(S, total, key, e) /\ f[e] \in 0..m
  BY <1>1, PlaceType
<1>4. f \in Injection(S, 0..m)
  <2>1. f \in [S -> 0..m]
    BY <1>3
  <2>2. \A a, e \in S : f[a] = f[e] => a = e
    BY PlacesDiffer
  <2> QED BY <2>1, <2>2 DEF Injection, IsInjective
<1>5. f \in Surjection(S, 0..m)
  BY <1>1, <1>2, <1>4, FS_Injection
<1>6. i \in 0..m
  BY <1>1
<1> QED BY <1>3, <1>5, <1>6 DEF Surjection

\* Whoever is at the same place by another key has no smaller total: those up to
\* the one place would all be ahead of the other.
LEMMA NoLessAtPlace ==
  ASSUME NEW S, NEW total, NEW key, NEW tally, NEW other, Ranked(S, total, key), Ranked(S, tally, other),
         \A e \in S : total[e] = tally[e],
         NEW a \in S, NEW b \in S, Place(S, total, key, a) = Place(S, tally, other, b)
  PROVE  total[b] >= total[a]
<1> SUFFICES ASSUME total[a] > total[b] PROVE FALSE
  BY DEF Ranked
<1> DEFINE here == Ahead(S, total, key, a)
           there == Ahead(S, tally, other, b)
<1>1. \A e \in S : total[e] \in Nat /\ tally[e] = total[e] /\ key[e] \in Int /\ other[e] \in Int
  BY DEF Ranked
<1>2. here \cup {a} \subseteq there
  BY <1>1 DEF Ahead
<1>3. a \notin here
  BY <1>1 DEF Ahead
<1>4. /\ IsFiniteSet(here) /\ IsFiniteSet(there) /\ Cardinality(here) = Cardinality(there)
      /\ Cardinality(here) \in Nat
  BY PlaceType
<1> HIDE DEF here, there
<1>5. Cardinality(here \cup {a}) = Cardinality(here) + 1
  BY <1>3, <1>4, FS_AddElement
<1>6. Cardinality(here \cup {a}) <= Cardinality(there)
  BY <1>2, <1>4, FS_Subset
<1> QED BY <1>4, <1>5, <1>6

LEMMA RankedTotals ==
  ASSUME NEW S, NEW total, NEW key, NEW tally, NEW other, Ranked(S, total, key), Ranked(S, tally, other),
         \A e \in S : total[e] = tally[e], NEW n \in Nat
  PROVE  /\ DOMAIN Ranking(S, total, key, n) = DOMAIN Ranking(S, tally, other, n)
         /\ \A i \in DOMAIN Ranking(S, total, key, n) :
              Ranking(S, total, key, n)[i].total = Ranking(S, tally, other, n)[i].total
<1> DEFINE top == IF n < Cardinality(S) THEN n ELSE Cardinality(S)
<1>1. Cardinality(S) \in Nat
  BY FS_CardinalityType DEF Ranked
<1>2. /\ DOMAIN Ranking(S, total, key, n) = 1..top
      /\ DOMAIN Ranking(S, tally, other, n) = 1..top
  BY DEF Ranking
<1>3. ASSUME NEW i \in 1..top
      PROVE  Ranking(S, total, key, n)[i].total = Ranking(S, tally, other, n)[i].total
  <2> DEFINE a == CHOOSE e \in S : Place(S, total, key, e) = i - 1
             b == CHOOSE e \in S : Place(S, tally, other, e) = i - 1
  <2>1. i - 1 \in Nat /\ i - 1 < Cardinality(S)
    BY <1>1
  <2>2. a \in S /\ Place(S, total, key, a) = i - 1
    BY <2>1, PlaceTaken
  <2>3. b \in S /\ Place(S, tally, other, b) = i - 1
    BY <2>1, PlaceTaken
  <2>4. Ranking(S, total, key, n)[i].total = total[a] /\ Ranking(S, tally, other, n)[i].total = tally[b]
    BY DEF Ranking
  <2> HIDE DEF a, b
  <2>5. total[b] >= total[a]
    BY <2>2, <2>3, NoLessAtPlace
  <2>6. tally[a] >= tally[b]
    BY <2>2, <2>3, NoLessAtPlace
  <2>7. total[a] \in Nat /\ total[b] \in Nat /\ tally[a] = total[a] /\ tally[b] = total[b]
    BY <2>2, <2>3 DEF Ranked
  <2> QED BY <2>4, <2>5, <2>6, <2>7
<1> QED BY <1>2, <1>3

-----------------------------------------------------------------------------
(* Sums.                                                                   *)

LEMMA UnitsFinite ==
  ASSUME NEW S, IsFiniteSet(S), NEW f, \A x \in S : f[x] \in Nat
  PROVE  IsFiniteSet(Units(f, S)) /\ SumOver(f, S) \in Nat
<1> DEFINE U(x) == {x} \X (1..f[x])
           g == [x \in S |-> U(x)]
           R == {U(x) : x \in S}
<1>1. \A x \in S : IsFiniteSet(U(x))
  <2> TAKE x \in S
  <2>1. IsFiniteSet({x})
    BY FS_Singleton
  <2>2. IsFiniteSet(1..f[x])
    BY FS_Interval
  <2> QED BY <2>1, <2>2, FS_Product
<1>2. IsFiniteSet(R)
  <2>1. g \in Surjection(S, R)
    BY DEF Surjection
  <2> QED BY <2>1, FS_Surjection
<1>3. IsFiniteSet(UNION R)
  <2>1. \A T \in R : IsFiniteSet(T)
    BY <1>1
  <2> QED BY <1>2, <2>1, FS_UNION
<1> QED BY <1>3, FS_CardinalityType DEF Units, SumOver

LEMMA UnitsMember ==
  ASSUME NEW S, NEW f, NEW u
  PROVE  u \in Units(f, S) <=> \E x \in S : u \in {x} \X (1..f[x])
BY DEF Units

Part(S, of, e) == {x \in S : of[x] = e}

\* A sum is the sum of the sums of its parts: the units of the parts are counted
\* off, one part after the other.
LEMMA SumOfParts ==
  ASSUME NEW S, IsFiniteSet(S), NEW E, NEW of \in [S -> E], NEW f, \A x \in S : f[x] \in Nat,
         NEW g, \A e \in E : g[e] = SumOver(f, Part(S, of, e))
  PROVE  IsFiniteSet(E) => SumOver(g, E) = SumOver(f, S)
<1> SUFFICES ASSUME IsFiniteSet(E) PROVE SumOver(g, E) = SumOver(f, S)
  OBVIOUS
<1> DEFINE U(e) == Units(f, Part(S, of, e))
           b == [e \in E |-> CHOOSE h : h \in Bijection(1..g[e], U(e))]
           F == [u \in Units(g, E) |-> b[u[1]][u[2]]]
<1>1. ASSUME NEW e \in E PROVE IsFiniteSet(U(e)) /\ g[e] \in Nat /\ g[e] = Cardinality(U(e))
  <2>1. IsFiniteSet(Part(S, of, e)) /\ \A x \in Part(S, of, e) : f[x] \in Nat
    BY FS_Subset DEF Part
  <2> QED BY <2>1, UnitsFinite DEF SumOver
<1>2. ASSUME NEW e \in E PROVE b[e] \in Bijection(1..g[e], U(e))
  <2>1. ExistsBijection(1..g[e], U(e))
    BY <1>1, FS_CardinalityType
  <2> QED BY <2>1 DEF ExistsBijection
<1> HIDE DEF U, b
<1>3. ASSUME NEW u \in Units(g, E)
      PROVE  u[1] \in E /\ u[2] \in 1..g[u[1]] /\ u = <<u[1], u[2]>> /\ F[u] = b[u[1]][u[2]] /\ F[u] \in U(u[1])
  <2>1. PICK e \in E : u \in {e} \X (1..g[e])
    BY UnitsMember
  <2>2. u[1] = e /\ u[2] \in 1..g[e] /\ u = <<u[1], u[2]>>
    BY <2>1
  <2>3. b[e] \in [1..g[e] -> U(e)]
    BY <1>2 DEF Bijection, Injection
  <2> QED BY <2>2, <2>3
<1>4. \A e \in E : \A w \in U(e) : w \in Units(f, S) /\ w[1] \in S /\ of[w[1]] = e
  <2> SUFFICES ASSUME NEW e \in E, NEW w \in U(e) PROVE w \in Units(f, S) /\ w[1] \in S /\ of[w[1]] = e
    OBVIOUS
  <2>1. PICK x \in Part(S, of, e) : w \in {x} \X (1..f[x])
    BY UnitsMember DEF U
  <2>2. x \in S /\ of[x] = e /\ w[1] = x
    BY <2>1 DEF Part
  <2> QED BY <2>1, <2>2, UnitsMember
<1> HIDE DEF F
<1>5. \A u, v \in Units(g, E) : F[u] = F[v] => u = v
  <2> SUFFICES ASSUME NEW u \in Units(g, E), NEW v \in Units(g, E), F[u] = F[v] PROVE u = v
    OBVIOUS
  <2>1. u[1] = v[1]
    BY <1>3, <1>4
  <2>2. u[2] = v[2]
    <3>1. PICK e \in E : e = u[1]
      BY <1>3
    <3>2. b[e] \in Bijection(1..g[e], U(e))
      BY <1>2
    <3>3. IsInjective(b[e]) /\ DOMAIN b[e] = 1..g[e]
      BY <3>2 DEF Bijection, Injection
    <3>4. \A i, j \in 1..g[e] : b[e][i] = b[e][j] => i = j
      BY <3>3 DEF IsInjective
    <3> QED BY <1>3, <2>1, <3>1, <3>4
  <2> QED BY <1>3, <2>1, <2>2
<1>6. \A w \in Units(f, S) : \E u \in Units(g, E) : F[u] = w
  <2> SUFFICES ASSUME NEW w \in Units(f, S) PROVE \E u \in Units(g, E) : F[u] = w
    OBVIOUS
  <2>1. PICK x \in S : w \in {x} \X (1..f[x])
    BY UnitsMember
  <2>2. of[x] \in E /\ x \in Part(S, of, of[x])
    BY DEF Part
  <2>3. w \in U(of[x])
    BY <2>1, <2>2, UnitsMember DEF U
  <2>4. PICK i \in 1..g[of[x]] : b[of[x]][i] = w
    BY <1>2, <2>2, <2>3 DEF Bijection, Surjection
  <2>5. <<of[x], i>> \in Units(g, E)
    BY <2>2, UnitsMember
  <2>6. F[<<of[x], i>>] = b[of[x]][i]
    BY <1>3, <2>5
  <2> QED BY <2>4, <2>5, <2>6
<1>7. F \in Bijection(Units(g, E), Units(f, S))
  <2>1. F \in [Units(g, E) -> Units(f, S)]
    <3>1. \A u \in Units(g, E) : F[u] \in Units(f, S)
      BY <1>3, <1>4
    <3> QED BY <3>1 DEF F
  <2> QED BY <1>5, <1>6, <2>1 DEF Bijection, Injection, Surjection, IsInjective
<1>8. IsFiniteSet(Units(g, E))
  BY <1>1, UnitsFinite
<1> QED BY <1>7, <1>8, FS_Bijection DEF SumOver, ExistsBijection

LEMMA SumOfTwo ==
  ASSUME NEW A, NEW B, IsFiniteSet(A), IsFiniteSet(B), A \cap B = {},
         NEW f, \A x \in A \cup B : f[x] \in Nat
  PROVE  SumOver(f, A \cup B) = SumOver(f, A) + SumOver(f, B)
<1>1. /\ IsFiniteSet(Units(f, A)) /\ SumOver(f, A) \in Nat
      /\ IsFiniteSet(Units(f, B)) /\ SumOver(f, B) \in Nat
  BY UnitsFinite
<1>2. Units(f, A \cup B) = Units(f, A) \cup Units(f, B)
  BY DEF Units
<1>3. Units(f, A) \cap Units(f, B) = {}
  <2> SUFFICES ASSUME NEW u \in Units(f, A), u \in Units(f, B) PROVE FALSE
    OBVIOUS
  <2>1. u[1] \in A
    BY UnitsMember
  <2>2. u[1] \in B
    BY UnitsMember
  <2> QED BY <2>1, <2>2
<1>4. Cardinality(Units(f, A) \cup Units(f, B))
        = Cardinality(Units(f, A)) + Cardinality(Units(f, B)) - Cardinality({})
  BY <1>1, <1>3, FS_Union
<1>5. Cardinality({}) = 0
  BY FS_EmptySet
<1>6. /\ SumOver(f, A \cup B) = Cardinality(Units(f, A) \cup Units(f, B))
      /\ SumOver(f, A) = Cardinality(Units(f, A)) /\ SumOver(f, B) = Cardinality(Units(f, B))
  BY <1>2 DEF SumOver
<1> QED BY <1>1, <1>4, <1>5, <1>6

-----------------------------------------------------------------------------
(* The readers.                                                            *)

LEMMA AmountType == \A m \in Metrics : \A s \in Sessions : Amount(m)[s] \in Nat
<1> SUFFICES ASSUME NEW m \in Metrics, NEW s \in Sessions PROVE Amount(m)[s] \in Nat
  OBVIOUS
<1>1. Km[s] \in Nat /\ Seconds[s] \in Nat
  BY ReadersConstants
<1>2. CASE m = "sessions"
  BY <1>2 DEF Amount
<1>3. CASE m = "distance"
  BY <1>1, <1>3 DEF Amount
<1>4. CASE m = "duration"
  BY <1>1, <1>4 DEF Amount
<1> QED BY <1>2, <1>3, <1>4 DEF Metrics

LEMMA LatestExists ==
  ASSUME NEW e, HasSessions(e)
  PROVE  Latest(e) \in SessionsOf(e) /\ Latest(e) \in Nat
<1> DEFINE S == SessionsOf(e)
           id == [s \in S |-> s]
<1>1. IsFiniteSet(S) /\ S # {} /\ S \subseteq Nat
  BY AnalyticsConstants, ReadersConstants, FS_Subset DEF SessionsOf, HasSessions
<1> HIDE DEF S
<1>2. Ranked(S, id, id)
  BY <1>1 DEF Ranked
<1>3. Cardinality(S) \in Nat /\ Cardinality(S) # 0
  BY <1>1, FS_CardinalityType, FS_EmptySet
<1>4. PICK s \in S : Place(S, id, id, s) = 0
  BY <1>2, <1>3, PlaceTaken
<1>5. Ahead(S, id, id, s) = {}
  BY <1>2, <1>4, PlaceType, FS_EmptySet
<1>6. \A t \in S : t <= s
  <2> SUFFICES ASSUME NEW t \in S, t > s PROVE FALSE
    BY <1>1
  <2>1. id[t] > id[s]
    OBVIOUS
  <2> QED BY <1>5, <2>1 DEF Ahead
<1> QED BY <1>1, <1>6 DEF Latest, S

LEMMA ExactRows ==
  ASSUME owner \in [Sessions -> Employees], Exact, Final = Sessions
  PROVE  /\ \A e \in Employees : InRow(empDay[e]) = SessionsOf(e) \ Missed
         /\ InRow(Counted(orgDay)) = Sessions \ Missed
         /\ Missed \subseteq AutoClosed
<1>1. \A s \in Sessions : owner[s] \in Employees /\ (s \in Missed <=> s \notin InRow(empDay[owner[s]]))
  BY DEF Exact, Missed, IsCounted, In, InRow
<1>2. ASSUME NEW e \in Employees, NEW x \in empDay[e] PROVE x[1] \in Sessions /\ owner[x[1]] = e
  <2>1. x \in Day(e)
    BY <1>2 DEF Exact
  <2>2. PICK s \in Final : owner[s] = e /\ x = <<s, edition[s]>>
    BY <2>1 DEF Day
  <2> QED BY <2>2
<1>3. ASSUME NEW e \in Employees PROVE InRow(empDay[e]) = SessionsOf(e) \ Missed
  <2>1. ASSUME NEW s \in InRow(empDay[e]) PROVE s \in SessionsOf(e) \ Missed
    <3>1. PICK x \in empDay[e] : s = x[1]
      BY DEF InRow
    <3> QED BY <1>1, <1>2, <3>1 DEF SessionsOf
  <2>2. ASSUME NEW s \in SessionsOf(e) \ Missed PROVE s \in InRow(empDay[e])
    BY <1>1 DEF SessionsOf
  <2> QED BY <2>1, <2>2
<1>4. InRow(Counted(orgDay)) = Sessions \ Missed
  <2>1. orgDay = empDay
    BY DEF Exact
  <2>2. ASSUME NEW s \in Sessions \ Missed PROVE s \in InRow(Counted(empDay))
    <3>1. owner[s] \in Employees /\ s \in InRow(empDay[owner[s]])
      BY <1>1
    <3> QED BY <3>1 DEF InRow, Counted
  <2>3. ASSUME NEW s \in InRow(Counted(empDay)) PROVE s \in Sessions \ Missed
    <3>1. PICK e \in Employees : s \in InRow(empDay[e])
      BY DEF InRow, Counted
    <3> QED BY <1>3, <3>1 DEF SessionsOf
  <2> QED BY <2>1, <2>2, <2>3
<1>5. ASSUME NEW s \in Missed PROVE s \in AutoClosed
  <2>1. s \in Sessions /\ s \in Final /\ owner[s] \in Employees
    BY <1>1 DEF Missed
  <2>2. <<s, edition[s]>> \in Day(owner[s])
    BY <2>1 DEF Day
  <2>3. <<s, edition[s]>>[1] = s
    OBVIOUS
  <2>4. <<s, edition[s]>> \notin empDay[owner[s]]
    BY <1>1, <2>1, <2>3 DEF InRow
  <2>5. s \in InRow(Day(owner[s]) \ empDay[owner[s]])
    BY <2>2, <2>3, <2>4 DEF InRow
  <2> QED BY <2>1, <2>5 DEF Exact
<1> QED BY <1>3, <1>4, <1>5

LEMMA ReadersOfExactRows ==
  ASSUME owner \in [Sessions -> Employees], Exact, Final = Sessions
  PROVE  /\ \A m \in Metrics :
              OrgSummary[m] = SumOver([e \in Employees |-> UserSummary(e)[m]], Employees)
         /\ \A e \in Employees : MySummary(e) = UserSummary(e)
         /\ boardFailed \/ \A m \in DOMAIN AdminDashboard : AdminDashboard[m] = OrgSummary[m]
         /\ Missed \subseteq AutoClosed
         /\ \A m \in Metrics : \A e \in Employees :
              Total(m, SessionsOf(e)) = UserSummary(e)[m] + Total(m, SessionsOf(e) \cap Missed)
         /\ Missed = {} =>
              /\ \A m \in Metrics : \A n \in 1..Cardinality(Employees) :
                   LET rows == Leaderboard(m, n)
                       sessions == TopPerformers(m, n)
                   IN /\ DOMAIN rows = DOMAIN sessions
                      /\ \A i \in DOMAIN rows : rows[i].total = sessions[i].total
              /\ Sessions # {} => SessionTrend = <<OrgSummary>>
<1>1. \A e \in Employees : IsFiniteSet(SessionsOf(e)) /\ SessionsOf(e) \subseteq Sessions
  BY AnalyticsConstants, FS_Subset DEF SessionsOf
<1>2. ASSUME NEW m \in Metrics, NEW e \in Employees
      PROVE  /\ EmployeeMetrics(e)[m] = Total(m, SessionsOf(e) \ Missed)
             /\ UserSummary(e)[m] = Total(m, SessionsOf(e) \ Missed)
             /\ Total(m, SessionsOf(e)) = UserSummary(e)[m] + Total(m, SessionsOf(e) \cap Missed)
             /\ Total(m, SessionsOf(e)) \in Nat
  <2> DEFINE counted == SessionsOf(e) \ Missed
             missed == SessionsOf(e) \cap Missed
  <2>1. EmployeeMetrics(e)[m] = Total(m, counted)
    BY ExactRows DEF EmployeeMetrics
  <2>2. ASSUME ~HasSessions(e) PROVE Total(m, counted) = 0
    <3>1. counted = {}
      BY <2>2 DEF SessionsOf, HasSessions
    <3> QED BY <3>1, FS_EmptySet DEF Total, SumOver, Units
  <2>3. UserSummary(e)[m] = Total(m, counted)
    BY <2>1, <2>2 DEF UserSummary
  <2>4. /\ IsFiniteSet(counted) /\ IsFiniteSet(missed) /\ counted \cap missed = {}
        /\ counted \cup missed = SessionsOf(e) /\ \A s \in SessionsOf(e) : Amount(m)[s] \in Nat
    BY <1>1, AmountType, FS_Subset
  <2> HIDE DEF counted, missed
  <2>5. Total(m, SessionsOf(e)) = Total(m, counted) + Total(m, missed)
    BY <2>4, SumOfTwo DEF Total
  <2>6. Total(m, SessionsOf(e)) \in Nat
    BY <1>1, AmountType, UnitsFinite DEF Total
  <2> QED BY <2>1, <2>3, <2>5, <2>6 DEF counted, missed
<1>3. ASSUME Missed = {}, NEW m \in Metrics, NEW n \in 1..Cardinality(Employees)
      PROVE  /\ DOMAIN Leaderboard(m, n) = DOMAIN TopPerformers(m, n)
             /\ \A i \in DOMAIN Leaderboard(m, n) : Leaderboard(m, n)[i].total = TopPerformers(m, n)[i].total
  <2> DEFINE S == {e \in Employees : HasSessions(e)}
             tally == [e \in S |-> Total(m, SessionsOf(e))]
             latest == [e \in S |-> -Latest(e)]
  <2>1. Leaderboard(m, n) = Ranking(S, RowTotals(m), ById, n)
    <3>1. \A e \in Employees : InRow(empDay[e]) = SessionsOf(e)
      BY <1>3, ExactRows
    <3>2. \A e \in Employees : empDay[e] # {} <=> InRow(empDay[e]) # {}
      BY DEF InRow
    <3>3. AggregatedEmployees = S
      BY <3>1, <3>2 DEF AggregatedEmployees, SessionsOf, HasSessions
    <3> QED BY <3>3 DEF Leaderboard
  <2>2. TopPerformers(m, n) = Ranking(S, tally, latest, n)
    BY DEF TopPerformers
  <2>3. \A e \in S : RowTotals(m)[e] = tally[e] /\ tally[e] \in Nat
    <3>1. \A e \in Employees : SessionsOf(e) \ Missed = SessionsOf(e)
      BY <1>3
    <3> QED BY <1>2, <3>1 DEF RowTotals
  <2>4. IsFiniteSet(S) /\ n \in Nat
    BY ReadersConstants, FS_Subset
  <2>5. \A e \in S : ById[e] = e /\ e \in Int
    BY ReadersConstants DEF ById
  <2>6. \A e \in S : latest[e] = -Latest(e) /\ Latest(e) \in Nat /\ owner[Latest(e)] = e
    BY LatestExists DEF SessionsOf
  <2> HIDE DEF S, tally, latest
  <2>7. Ranked(S, RowTotals(m), ById)
    BY <2>3, <2>4, <2>5 DEF Ranked
  <2>8. Ranked(S, tally, latest)
    <3>1. \A e \in S : latest[e] \in Int
      BY <2>6
    <3>2. \A a, e \in S : latest[a] = latest[e] => a = e
      BY <2>6
    <3> QED BY <2>3, <2>4, <3>1, <3>2 DEF Ranked
  <2> QED BY <2>1, <2>2, <2>3, <2>4, <2>7, <2>8, RankedTotals
<1>4. ASSUME NEW m \in Metrics
      PROVE  OrgSummary[m] = SumOver([e \in Employees |-> UserSummary(e)[m]], Employees)
  <2> DEFINE summaries == [e \in Employees |-> UserSummary(e)[m]]
             S == Sessions \ Missed
             of == [s \in S |-> owner[s]]
  <2>1. OrgSummary[m] = SumOver(Amount(m), S)
    BY ExactRows DEF OrgSummary, OrgDailyMetrics, Total
  <2>2. \A e \in Employees : summaries[e] = SumOver(Amount(m), Part(S, of, e))
    <3>1. \A e \in Employees : Part(S, of, e) = SessionsOf(e) \ Missed
      BY DEF Part, SessionsOf
    <3> QED BY <1>2, <3>1 DEF Total
  <2>3. /\ IsFiniteSet(S) /\ IsFiniteSet(Employees) /\ \A s \in S : Amount(m)[s] \in Nat
        /\ of \in [S -> Employees]
    BY AnalyticsConstants, ReadersConstants, AmountType, FS_Subset
  <2> HIDE DEF summaries, S, of
  <2>4. SumOver(summaries, Employees) = SumOver(Amount(m), S)
    BY <2>2, <2>3, SumOfParts
  <2> QED BY <2>1, <2>4 DEF summaries
<1>5. ASSUME NEW e \in Employees PROVE MySummary(e) = UserSummary(e)
  <2>1. \A m \in Metrics : EmployeeMetrics(e)[m] = UserSummary(e)[m]
    BY <1>2
  <2> QED BY <2>1 DEF MySummary, UserSummary, EmployeeMetrics
<1>6. ASSUME Missed = {}, Sessions # {} PROVE SessionTrend = <<OrgSummary>>
  <2>1. InRow(Counted(orgDay)) # {}
    BY <1>6, ExactRows
  <2>2. Counted(orgDay) # {}
    BY <2>1 DEF InRow
  <2> QED BY <2>2 DEF SessionTrend, OrgSummary
<1>7. ASSUME ~boardFailed, NEW m \in DOMAIN AdminDashboard PROVE AdminDashboard[m] = OrgSummary[m]
  <2>1. board = orgDay
    BY <1>7 DEF Exact
  <2>2. m \in Metrics /\ m \in {"sessions", "distance"}
    BY DEF AdminDashboard, Metrics
  <2> QED BY <2>1, <2>2 DEF AdminDashboard, OrgSummary, OrgDailyMetrics
<1>8. Missed \subseteq AutoClosed
  BY ExactRows
<1> QED BY <1>2, <1>3, <1>4, <1>5, <1>6, <1>7, <1>8

\* Of a settled day the readers of the rows tell the same: the organisation's
\* summary is the sum of its users'.  The sessions tell more by those that no row
\* counts, each closed by a deactivation; where there is none, the leaderboard and
\* the top performers have the same totals at every place, whoever is at it.
THEOREM ReadersTellTheSame == SafetySpec => []ReadersAgree
<1>1. DayInv => ReadersAgree
  <2> SUFFICES ASSUME DayInv, Settled, ~overlapped, Final = Sessions PROVE ReadersAgree
    BY DEF ReadersAgree
  <2>1. owner \in [Sessions -> Employees] /\ Exact
    BY DayInvIsExact DEF DayIsExact, DayInv, DayShape
  <2> QED BY <2>1, ReadersOfExactRows DEF ReadersAgree
<1> QED BY <1>1, DayInit, DayStep, PTL DEF SafetySpec

=============================================================================
