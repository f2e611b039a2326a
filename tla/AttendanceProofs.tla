--------------------------- MODULE AttendanceProofs ---------------------------
(***************************************************************************)
(* That Attendance implements AttendancePromise; that only an upsert with  *)
(* an old state of the sessions can spoil employee_latest_sessions; that   *)
(* early points, the totals and, once nothing is left to do, is_checked_in *)
(* and active_users are as the properties of Attendance say.               *)
(*                                                                         *)
(* The first two follow from one invariant, AttendanceInv: what a request  *)
(* or a late write is about is a session there is, and no row is ahead of  *)
(* the sessions.  The last rests on it and on MirrorInv: the order in      *)
(* which the jobs ran, as a number that the rows and the sessions are both *)
(* compared with.                                                          *)
(***************************************************************************)
EXTENDS Attendance, FiniteSetTheorems, TLAPS

Steps == {"insert", "close", "autoClose", "announceIn", "announceOut", "start", "store"}
About == {"close", "autoClose", "announceIn", "announceOut"}

ReqStates == {Idle} \cup [step : Steps, session : Nat, point : Points \cup {"none"}]
PlainRows == [session : Nat, closed : BOOLEAN, dist : BOOLEAN]

\* The rows of the sessions, and the one that mirrors the latest.
Shape ==
  /\ opened \in Nat /\ closed \subseteq 1..opened /\ dist \subseteq closed
  /\ latest \in PlainRows /\ latest.session <= opened
  /\ staleWrite \in BOOLEAN

\* A request that closes or announces a session has one.
RequestsShape ==
  /\ req \in [Requests -> ReqStates]
  /\ \A r \in Requests : req[r].step \in About => req[r].session \in 1..opened

\* So has a late write; that of a distance comes after the distance.
LateShape ==
  /\ late \subseteq [by : Requests \cup {"distance"}, row : PlainRows]
  /\ \A w \in late : /\ w.row.session \in 1..opened
                     /\ w.by = "distance" => w.row.session \in dist

\* LatestRowExact, of the row alone.
LatestExact == opened > 0 /\ ~staleWrite => latest = Row(opened)

AttendanceInv == Shape /\ RequestsShape /\ LateShape /\ LatestExact

LEMMA AttendanceInitInv == Init => AttendanceInv
<1> SUFFICES ASSUME Init PROVE AttendanceInv
  OBVIOUS
<1>1. Shape
  <2>1. NoRow \in PlainRows /\ NoRow.session = 0
    BY DEF NoRow, PlainRows
  <2>2. latest = NoRow /\ opened = 0 /\ closed = {} /\ dist = {} /\ staleWrite = FALSE
    BY DEF Init
  <2>3. latest \in PlainRows /\ latest.session <= opened
    BY <2>1, <2>2
  <2>4. opened \in Nat /\ closed \subseteq 1..opened /\ dist \subseteq closed
    BY <2>2
  <2> QED BY <2>2, <2>3, <2>4 DEF Shape
<1>2. RequestsShape
  BY DEF Init, RequestsShape, ReqStates, Idle, About
<1>3. LateShape
  BY DEF Init, LateShape
<1>4. LatestExact
  BY DEF Init, LatestExact
<1> QED
  BY <1>1, <1>2, <1>3, <1>4 DEF AttendanceInv

-----------------------------------------------------------------------------
(* Steps of one kind preserve it for one reason.                           *)

\* What the invariant and the promise are about.
core == <<opened, closed, dist, latest, late, req, staleWrite>>

LEMMA CoreUnchanged == AttendanceInv /\ UNCHANGED core => AttendanceInv' /\ UNCHANGED <<opened, Open>>
BY DEF core, AttendanceInv, Shape, RequestsShape, LateShape, LatestExact, Row, Open

\* A request moves to another step about a session there is, and nothing else
\* that matters here changes.
LEMMA RequestMoves ==
  ASSUME AttendanceInv, NEW r \in Requests, NEW to \in ReqStates,
         to.step \in About => to.session \in 1..opened,
         req' = [req EXCEPT ![r] = to],
         UNCHANGED <<opened, closed, dist, latest, late, staleWrite>>
  PROVE  AttendanceInv' /\ UNCHANGED <<opened, Open>>
<1>1. RequestsShape'
  BY DEF AttendanceInv, RequestsShape
<1> QED
  BY <1>1 DEF AttendanceInv, Shape, LateShape, LatestExact, Row, Open

LEMMA IdleIsState == Idle \in ReqStates /\ Idle.step \notin About
BY DEF Idle, ReqStates, About

LEMMA StepIsState ==
  ASSUME NEW step \in Steps, NEW s \in Nat, NEW p \in Points \cup {"none"}
  PROVE  /\ [step |-> step, session |-> s, point |-> p] \in ReqStates
         /\ [step |-> step, session |-> s, point |-> p].step = step
         /\ [step |-> step, session |-> s, point |-> p].session = s
BY DEF ReqStates

\* A session is closed, and the trigger fires.
LEMMA SessionCloses ==
  ASSUME AttendanceInv, NEW s \in 1..opened, closed' = closed \cup {s},
         Trigger([session |-> s, closed |-> TRUE, dist |-> s \in dist]),
         UNCHANGED <<opened, dist, staleWrite>>
  PROVE  /\ Shape' /\ LatestExact'
         /\ opened' = opened /\ (Open' = Open \/ (Open /\ ~Open'))
<1> DEFINE row == [session |-> s, closed |-> TRUE, dist |-> s \in dist]
<1>1. row \in PlainRows /\ row.session = s
  BY DEF PlainRows, AttendanceInv, Shape
<1>2. latest' = IF latest.session > s THEN latest ELSE row
  BY <1>1 DEF Trigger
<1>3. Shape'
  BY <1>1, <1>2 DEF AttendanceInv, Shape
<1>4. CASE s = opened
  <2>1. Row(opened)' = row
    BY <1>4 DEF Row
  <2> HIDE DEF row
  <2>2. latest' = row
    BY <1>2, <1>4 DEF AttendanceInv, Shape, PlainRows
  <2> QED BY <1>3, <1>4, <2>1, <2>2 DEF LatestExact, Open
<1>5. CASE s # opened
  <2>1. opened \in closed' <=> opened \in closed
    BY <1>5
  <2>2. Row(opened)' = Row(opened)
    BY <2>1 DEF Row
  <2>3. ~staleWrite => latest.session = opened
    BY DEF AttendanceInv, Shape, LatestExact, Row
  <2> QED BY <1>2, <1>3, <1>5, <2>1, <2>2, <2>3 DEF AttendanceInv, Shape, LatestExact, Open
<1> QED
  BY <1>4, <1>5

LEMMA GotoIsState ==
  ASSUME NEW r \in Requests, NEW step \in Steps, NEW s \in Nat, NEW p \in Points \cup {"none"},
         Goto(r, step, s, p)
  PROVE  \E to \in ReqStates : /\ req' = [req EXCEPT ![r] = to]
                               /\ to.step = step /\ to.session = s
<1> DEFINE to == [step |-> step, session |-> s, point |-> p]
<1>1. to \in ReqStates /\ to.step = step /\ to.session = s
  BY StepIsState
<1>2. req' = [req EXCEPT ![r] = to]
  BY DEF Goto
<1> HIDE DEF to
<1> QED BY <1>1, <1>2

-----------------------------------------------------------------------------
(* The actions.                                                            *)

\* A step of the promise, or none.
Kept == \/ Promise!PromiseCheckIn \/ Promise!PromiseCheckOut
        \/ UNCHANGED <<opened, Open>>

LEMMA LandStep ==
  ASSUME AttendanceInv, NEW w \in late, Land(w) PROVE AttendanceInv' /\ Kept
<1>1. UNCHANGED <<opened, closed, dist, req>> /\ late' = late \ {w}
  BY DEF Land, rows
<1>2. RequestsShape' /\ LateShape' /\ UNCHANGED <<opened, Open>>
  BY <1>1 DEF AttendanceInv, RequestsShape, LateShape, Open
<1>3. CASE UNCHANGED <<latest, staleWrite>>
  BY <1>1, <1>2, <1>3 DEF AttendanceInv, Shape, LatestExact, Row, Kept
<1>4. w.row \in PlainRows /\ w.row.session \in 1..opened
  BY DEF AttendanceInv, LateShape
<1>5. CASE w.by # "distance" /\ latest' = w.row /\ staleWrite' = (staleWrite \/ w.row # Row(opened))
  <2>1. Shape'
    BY <1>1, <1>4, <1>5 DEF AttendanceInv, Shape
  <2>2. Row(opened)' = Row(opened)
    BY <1>1 DEF Row
  <2> QED BY <1>1, <1>2, <1>5, <2>1, <2>2 DEF AttendanceInv, LatestExact, Kept
<1>6. CASE w.by = "distance" /\ latest.session # w.row.session
  BY <1>3, <1>6 DEF Land, AttendanceInv, Shape
<1>7. CASE /\ w.by = "distance" /\ latest.session = w.row.session
           /\ latest' = [latest EXCEPT !.dist = TRUE] /\ UNCHANGED staleWrite
  <2>1. latest' \in PlainRows /\ latest'.session = latest.session
    BY <1>7 DEF AttendanceInv, Shape, PlainRows
  <2>2. Shape'
    BY <1>1, <1>7, <2>1 DEF AttendanceInv, Shape
  <2>3. w.row.session \in dist
    BY <1>7 DEF AttendanceInv, LateShape
  <2>4. ASSUME opened > 0, ~staleWrite PROVE latest' = Row(opened)
    <3>1. latest = [session |-> opened, closed |-> opened \in closed, dist |-> opened \in dist]
      BY <2>4 DEF AttendanceInv, LatestExact, Row
    <3>2. opened \in dist
      BY <1>7, <2>3, <3>1
    <3> QED BY <1>7, <3>1, <3>2 DEF Row
  <2>5. Row(opened)' = Row(opened)
    BY <1>1 DEF Row
  <2> QED BY <1>1, <1>2, <1>7, <2>2, <2>4, <2>5 DEF AttendanceInv, LatestExact, Kept
<1> QED
  BY <1>3, <1>5, <1>6, <1>7 DEF Land, AttendanceInv, Shape

LEMMA CreateSessionStep ==
  ASSUME AttendanceInv, NEW r \in Requests, CreateSession(r) PROVE AttendanceInv' /\ Kept
<1>1. UNCHANGED <<closed, dist, late, staleWrite>>
  BY DEF CreateSession, history
<1>2. CASE Leave(r) /\ UNCHANGED <<opened, latest>>
  BY <1>1, <1>2, IdleIsState, RequestMoves DEF Leave, Kept
<1>3. CASE /\ ~Open /\ opened' = opened + 1
           /\ Trigger([session |-> opened + 1, closed |-> FALSE, dist |-> FALSE])
           /\ Goto(r, "announceIn", opened + 1, "none")
  <2> DEFINE row == [session |-> opened + 1, closed |-> FALSE, dist |-> FALSE]
  <2>1. opened \in Nat /\ opened + 1 \notin closed /\ opened + 1 \notin dist
    BY DEF AttendanceInv, Shape
  <2>2. row \in PlainRows /\ row.session = opened + 1
    BY <2>1 DEF PlainRows
  <2>9. latest' = IF latest.session > row.session THEN latest ELSE row
    BY <1>3 DEF Trigger
  <2>3. latest' = row
    <3> HIDE DEF row
    <3> QED BY <2>1, <2>2, <2>9 DEF AttendanceInv, Shape, PlainRows
  <2>4. Shape'
    <3> HIDE DEF row
    <3> QED BY <1>1, <1>3, <2>1, <2>2, <2>3 DEF AttendanceInv, Shape
  <2>5. LatestExact'
    <3>2. opened' = opened + 1 /\ (opened' \in closed') = FALSE /\ (opened' \in dist') = FALSE
      BY <1>1, <1>3, <2>1
    <3>1. Row(opened)' = row
      BY <3>2 DEF Row
    <3> HIDE DEF row
    <3> QED BY <2>3, <3>1 DEF LatestExact
  <2>6. LateShape'
    BY <1>1, <1>3, <2>1 DEF AttendanceInv, LateShape
  <2>7. RequestsShape'
    <3> DEFINE to == [step |-> "announceIn", session |-> opened + 1, point |-> "none"]
    <3>1. to \in ReqStates /\ to.session = opened + 1
      BY <2>1, StepIsState DEF Steps
    <3>2. req' = [req EXCEPT ![r] = to]
      BY <1>3 DEF Goto
    <3> HIDE DEF to
    <3> QED BY <1>3, <2>1, <3>1, <3>2 DEF AttendanceInv, RequestsShape
  <2>8. Promise!PromiseCheckIn
    BY <1>1, <1>3, <2>1 DEF Promise!PromiseCheckIn, Open
  <2> QED BY <2>4, <2>5, <2>6, <2>7, <2>8 DEF AttendanceInv, Kept
<1> QED
  BY <1>2, <1>3 DEF CreateSession

LEMMA CloseStep ==
  ASSUME AttendanceInv, NEW r \in Requests, CloseSession(r) \/ AutoCloseSession(r)
  PROVE  AttendanceInv' /\ Kept
<1> DEFINE s == req[r].session
<1>1. UNCHANGED <<opened, dist, late, staleWrite>>
  BY DEF CloseSession, AutoCloseSession, history
<1>2. s \in 1..opened
  BY DEF CloseSession, AutoCloseSession, At, About, AttendanceInv, RequestsShape
<1>3. PICK to \in ReqStates : /\ req' = [req EXCEPT ![r] = to]
                              /\ to.step \in About => to.session \in 1..opened
  <2>1. CASE Leave(r)
    BY <2>1, IdleIsState DEF Leave
  <2>2. CASE Goto(r, "announceOut", s, "none")
    BY <1>2, <2>2, GotoIsState DEF Steps, AttendanceInv, Shape
  <2> QED BY <2>1, <2>2 DEF CloseSession, AutoCloseSession
<1>4. CASE UNCHANGED <<closed, latest>>
  BY <1>1, <1>3, <1>4, RequestMoves DEF Kept
<1>5. CASE /\ closed' = closed \cup {s}
           /\ Trigger([session |-> s, closed |-> TRUE, dist |-> s \in dist])
  <2>1. Shape' /\ LatestExact' /\ opened' = opened /\ (Open' = Open \/ (Open /\ ~Open'))
    BY <1>1, <1>2, <1>5, SessionCloses
  <2>2. RequestsShape' /\ LateShape'
    BY <1>1, <1>3 DEF AttendanceInv, RequestsShape, LateShape
  <2> QED BY <2>1, <2>2 DEF AttendanceInv, Kept, Promise!PromiseCheckOut, Open
<1> QED
  BY <1>4, <1>5 DEF CloseSession, AutoCloseSession

LEMMA AnnounceStep ==
  ASSUME AttendanceInv, NEW r \in Requests, AnnounceCheckIn(r) \/ AnnounceCheckOut(r)
  PROVE  AttendanceInv' /\ Kept
<1>1. UNCHANGED <<opened, closed, dist, latest, staleWrite>>
  BY DEF AnnounceCheckIn, AnnounceCheckOut, Announce, rows
<1>2. req[r].session \in 1..opened /\ req[r].session \in Nat
  BY DEF AnnounceCheckIn, AnnounceCheckOut, Announce, At, About, AttendanceInv, RequestsShape, Shape
<1>3. PICK b \in BOOLEAN :
        late' = late \cup {[by |-> r, row |-> [session |-> req[r].session, closed |-> b,
                                               dist |-> b /\ req[r].session \in dist]]}
  BY DEF AnnounceCheckIn, AnnounceCheckOut, Announce
<1>4. [session |-> req[r].session, closed |-> b, dist |-> b /\ req[r].session \in dist] \in PlainRows
  BY <1>2 DEF PlainRows
<1>5. LateShape'
  BY <1>1, <1>2, <1>3, <1>4, AttendanceConstants DEF AttendanceInv, LateShape
<1>6. req' = [req EXCEPT ![r] = Idle]
  BY DEF AnnounceCheckIn, AnnounceCheckOut, Announce, Leave
<1>7. RequestsShape'
  BY <1>1, <1>6, IdleIsState DEF AttendanceInv, RequestsShape
<1>8. Shape' /\ LatestExact' /\ UNCHANGED <<opened, Open>>
  BY <1>1 DEF AttendanceInv, Shape, LatestExact, Row, Open
<1> QED
  BY <1>5, <1>7, <1>8 DEF AttendanceInv, Kept

LEMMA DistanceStep ==
  ASSUME AttendanceInv, NEW s \in Sessions, DistanceComputed(s) PROVE AttendanceInv' /\ Kept
<1> DEFINE row == [session |-> s, closed |-> TRUE, dist |-> TRUE]
<1>1. /\ s \in closed /\ dist' = dist \cup {s}
      /\ late' = late \cup {[by |-> "distance", row |-> row]}
      /\ UNCHANGED <<opened, closed, req, staleWrite>>
  BY DEF DistanceComputed, history
<1>2. s \in 1..opened /\ s \in Nat
  BY <1>1 DEF AttendanceInv, Shape
<1>3. row \in PlainRows /\ row.session = s
  BY <1>2 DEF PlainRows
<1>4. latest' = IF latest.session > s THEN latest ELSE row
  BY <1>3 DEF DistanceComputed, Trigger
<1>5. Shape'
  BY <1>1, <1>2, <1>3, <1>4 DEF AttendanceInv, Shape
<1>6. LatestExact'
  <2>1. CASE s = opened
    <3>1. Row(opened)' = row
      BY <1>1, <2>1 DEF Row
    <3> HIDE DEF row
    <3>2. latest' = row
      BY <1>2, <1>4, <2>1 DEF AttendanceInv, Shape, PlainRows
    <3> QED BY <3>1, <3>2 DEF LatestExact
  <2>2. CASE s # opened
    <3>1. Row(opened)' = Row(opened)
      BY <1>1, <2>2 DEF Row
    <3>2. opened > 0 /\ ~staleWrite => latest.session = opened
      BY DEF AttendanceInv, LatestExact, Row
    <3> QED BY <1>1, <1>2, <1>4, <2>2, <3>1, <3>2 DEF AttendanceInv, Shape, LatestExact
  <2> QED BY <2>1, <2>2
<1>7. LateShape'
  <2> HIDE DEF row
  <2> DEFINE write == [by |-> "distance", row |-> row]
  <2>3. write.by = "distance" /\ write.row = row
    OBVIOUS
  <2>4. write \in [by : Requests \cup {"distance"}, row : PlainRows]
    BY <1>3
  <2>5. late' = late \cup {write}
    BY <1>1
  <2> HIDE DEF write
  <2>1. \A w \in late' : w \in late \/ (w.by = "distance" /\ w.row = row)
    BY <2>3, <2>5
  <2>2. late' \subseteq [by : Requests \cup {"distance"}, row : PlainRows]
    BY <2>4, <2>5 DEF AttendanceInv, LateShape
  <2> QED BY <1>1, <1>2, <1>3, <2>1, <2>2 DEF AttendanceInv, LateShape
<1>8. RequestsShape' /\ UNCHANGED <<opened, Open>>
  BY <1>1 DEF AttendanceInv, RequestsShape, Open
<1> QED
  BY <1>5, <1>6, <1>7, <1>8 DEF AttendanceInv, Kept

LEMMA BeginStep ==
  ASSUME AttendanceInv, NEW r \in Requests,
         BeginCheckIn(r) \/ BeginCheckOut(r) \/ BeginDeactivation(r)
  PROVE  AttendanceInv' /\ Kept
<1>1. UNCHANGED <<opened, closed, dist, latest, late, staleWrite>>
  BY DEF BeginCheckIn, BeginCheckOut, BeginDeactivation, rows, history
<1>2. opened \in Nat /\ (Open => opened \in 1..opened)
  BY DEF AttendanceInv, Shape, Open
<1>3. PICK to \in ReqStates : /\ req' = [req EXCEPT ![r] = to]
                              /\ to.step \in About => to.session \in 1..opened
  <2>1. CASE BeginCheckIn(r)
    BY <2>1, GotoIsState DEF BeginCheckIn, Steps, About
  <2>2. CASE BeginCheckOut(r)
    BY <1>2, <2>2, GotoIsState DEF BeginCheckOut, Steps
  <2>3. CASE BeginDeactivation(r)
    BY <1>2, <2>3, GotoIsState DEF BeginDeactivation, Steps
  <2> QED BY <2>1, <2>2, <2>3
<1> QED
  BY <1>1, <1>3, RequestMoves DEF Kept

LEMMA FixStep ==
  ASSUME AttendanceInv, NEW r \in Requests,
         \/ \E s \in Sessions : \E p \in Points : BeginFix(r, s, p)
         \/ ReadStart(r) \/ StoreFix(r)
  PROVE  AttendanceInv' /\ Kept
<1>1. UNCHANGED <<opened, closed, dist, latest, late, staleWrite>>
  BY DEF BeginFix, ReadStart, StoreFix, RecordLocation, RecordLocationBatch, rows, history
<1>2. PICK to \in ReqStates : req' = [req EXCEPT ![r] = to] /\ to.step \notin About
  <2>1. CASE Leave(r)
    BY <2>1, IdleIsState DEF Leave
  <2>2. CASE \E s \in Sessions : \E p \in Points : BeginFix(r, s, p)
    <3>1. PICK s \in Sessions, p \in Points : Goto(r, "start", s, p)
      BY <2>2 DEF BeginFix
    <3> QED BY <3>1, GotoIsState DEF Steps, About, Sessions
  <2>3. CASE ReadStart(r) /\ ~Leave(r)
    <3>1. Goto(r, "store", req[r].session, req[r].point)
      BY <2>3 DEF ReadStart
    <3>2. req[r].session \in Nat /\ req[r].point \in Points \cup {"none"}
      BY <2>3 DEF ReadStart, At, AttendanceInv, RequestsShape, ReqStates
    <3> QED BY <3>1, <3>2, GotoIsState DEF Steps, About
  <2> QED BY <2>1, <2>2, <2>3 DEF StoreFix
<1> QED
  BY <1>1, <1>2, RequestMoves DEF Kept

LEMMA ReconcileStep == AttendanceInv /\ Reconcile => AttendanceInv' /\ Kept
<1> SUFFICES ASSUME AttendanceInv, Reconcile PROVE AttendanceInv' /\ Kept
  OBVIOUS
<1>1. UNCHANGED <<opened, closed, dist, late, req, staleWrite>>
  BY DEF Reconcile, rows, history
<1>2. latest' = latest \/ (opened > 0 /\ latest' = Row(opened))
  BY DEF Reconcile, AttendanceInv, Shape
<1>3. Row(opened)' = Row(opened)
  BY <1>1 DEF Row
<1>4. Row(opened) \in PlainRows /\ Row(opened).session = opened
  BY DEF Row, PlainRows, AttendanceInv, Shape
<1>5. Shape' /\ LatestExact'
  BY <1>1, <1>2, <1>3, <1>4 DEF AttendanceInv, Shape, LatestExact
<1> QED
  BY <1>1, <1>5 DEF AttendanceInv, RequestsShape, LateShape, Open, Kept

LEMMA CrashStep == AttendanceInv /\ Crash => AttendanceInv' /\ Kept
<1> SUFFICES ASSUME AttendanceInv, Crash PROVE AttendanceInv' /\ Kept
  OBVIOUS
<1>1. /\ UNCHANGED <<opened, closed, dist, latest, staleWrite>> /\ late' = {}
      /\ req' = [r \in Requests |-> Idle]
  BY DEF Crash, rows
<1>2. RequestsShape' /\ LateShape'
  BY <1>1, IdleIsState DEF RequestsShape, LateShape
<1> QED
  BY <1>1, <1>2 DEF AttendanceInv, Shape, LatestExact, Row, Open, Kept

LEMMA OtherSteps ==
  ASSUME AttendanceInv,
         \/ \E k \in Slots : \E j \in DOMAIN job : RunJob(k, j)
         \/ \E k \in Slots : SlotStep(k)
         \/ \E j \in filing : FileDeadLetter(j)
         \/ DailyMetricsWritten \/ UNCHANGED vars
  PROVE  AttendanceInv' /\ Kept
<1>1. UNCHANGED core
  BY DEF RunJob, SlotStep, WriteState, WriteActiveUser, ReadTotals, WriteTotals, FinishJob,
         FileDeadLetter, DailyMetricsWritten, vars, core, rows, history
<1> QED
  BY <1>1, CoreUnchanged DEF Kept

LEMMA AttendanceStepInv == AttendanceInv /\ [Next]_vars => AttendanceInv' /\ Kept
<1> SUFFICES ASSUME AttendanceInv, [Next]_vars PROVE AttendanceInv' /\ Kept
  OBVIOUS
<1>1. ASSUME NEW r \in Requests, RequestStep(r) PROVE AttendanceInv' /\ Kept
  BY <1>1, CreateSessionStep, CloseStep, AnnounceStep, FixStep DEF RequestStep
<1>2. ASSUME NEW r \in Requests, BeginCheckIn(r) \/ BeginCheckOut(r) \/ BeginDeactivation(r)
      PROVE AttendanceInv' /\ Kept
  BY <1>2, BeginStep
<1>3. ASSUME \E r \in Requests : \E s \in Sessions : \E p \in Points : BeginFix(r, s, p)
      PROVE AttendanceInv' /\ Kept
  BY <1>3, FixStep
<1>4. CASE \E w \in late : Land(w)
  BY <1>4, LandStep
<1>5. CASE \E s \in Sessions : DistanceComputed(s)
  BY <1>5, DistanceStep
<1> QED
  BY <1>1, <1>2, <1>3, <1>4, <1>5, ReconcileStep, CrashStep, OtherSteps DEF Next

-----------------------------------------------------------------------------
\* Between the trigger, the upserts nobody waits for and the distances, the row
\* of employee_latest_sessions is at every moment that of the latest session,
\* until an upsert with an old state of the sessions lands.
THEOREM LatestSessionRowExact == SafetySpec => []LatestRowExact
<1>1. AttendanceInv => LatestRowExact
  <2> SUFFICES ASSUME AttendanceInv, opened > 0, ~staleWrite
               PROVE  LatestPerEmployee = {OwnSessions[1]}
    BY DEF LatestRowExact, OrgSessions
  <2>1. opened \in Nat /\ latest = Row(opened)
    BY DEF AttendanceInv, Shape, LatestExact
  <2>2. OwnSessions[1] = Row(opened)
    <3>1. 1 \in 1..opened /\ opened + 1 - 1 = opened
      BY <2>1
    <3> QED BY <3>1 DEF OwnSessions
  <2>3. latest # NoRow
    BY <2>1 DEF Row, NoRow
  <2> QED BY <2>1, <2>2, <2>3 DEF LatestPerEmployee
<1> QED
  BY <1>1, AttendanceInitInv, AttendanceStepInv, PTL DEF SafetySpec

\* Attendance implements the promise: however many check-ins, check-outs, forced
\* check-outs and deactivations run at once, crash or fail, the sessions are those
\* of somebody who is in or out.
THEOREM AttendanceKeepsPromise == SafetySpec => KeepsPromise
<1>1. Init => Promise!PromiseInit
  BY DEF Init, Promise!PromiseInit, Open
<1>2. Kept => [Promise!PromiseCheckIn \/ Promise!PromiseCheckOut]_Promise!promiseVars
  BY DEF Kept, Promise!promiseVars
<1> QED
  BY <1>1, <1>2, AttendanceInitInv, AttendanceStepInv, PTL DEF SafetySpec, KeepsPromise, Promise!Promise

-----------------------------------------------------------------------------
(* Points recorded before their session began.                             *)

EarlyAreOfClosed == \A s \in Sessions : <<s, "early">> \in points => s \in closed

\* A request that is past the comparison with such a point saw its session
\* closed.
EarlyInv ==
  /\ \A r \in Requests : req[r].step = "store" /\ req[r].point = "early" => req[r].session \in closed
  /\ EarlyAreOfClosed

LEMMA EarlyReadStart ==
  ASSUME AttendanceInv, EarlyInv, NEW r \in Requests, ReadStart(r) PROVE EarlyInv'
<1>1. UNCHANGED <<closed, points>>
  BY DEF ReadStart, rows
<1>2. CASE Leave(r)
  BY <1>1, <1>2 DEF Leave, EarlyInv, EarlyAreOfClosed, AttendanceInv, RequestsShape, Idle
<1>3. CASE /\ req[r].session \notin closed => req[r].point # "early"
           /\ Goto(r, "store", req[r].session, req[r].point)
  <2> DEFINE to == [step |-> "store", session |-> req[r].session, point |-> req[r].point]
  <2>1. to.step = "store" /\ to.session = req[r].session /\ to.point = req[r].point
    OBVIOUS
  <2>2. req' = [req EXCEPT ![r] = to]
    BY <1>3 DEF Goto
  <2> HIDE DEF to
  <2> QED BY <1>1, <1>3, <2>1, <2>2 DEF EarlyInv, EarlyAreOfClosed, AttendanceInv, RequestsShape
<1> QED
  BY <1>2, <1>3 DEF ReadStart

\* Every other step of a request leads to a step other than "store".
LEMMA EarlyElsewhere ==
  ASSUME AttendanceInv, EarlyInv, NEW r \in Requests, NEW to,
         to.step # "store", req' = [req EXCEPT ![r] = to],
         closed \subseteq closed', UNCHANGED points
  PROVE  EarlyInv'
BY DEF EarlyInv, EarlyAreOfClosed, AttendanceInv, RequestsShape

LEMMA EarlyGoto ==
  ASSUME AttendanceInv, EarlyInv, NEW r \in Requests, NEW step, step # "store", NEW s, NEW p,
         Goto(r, step, s, p) \/ Leave(r), closed \subseteq closed', UNCHANGED points
  PROVE  EarlyInv'
<1>1. CASE Leave(r)
  BY <1>1, EarlyElsewhere DEF Leave, Idle
<1>2. CASE Goto(r, step, s, p)
  <2> DEFINE to == [step |-> step, session |-> s, point |-> p]
  <2>1. to.step # "store"
    OBVIOUS
  <2>2. req' = [req EXCEPT ![r] = to]
    BY <1>2 DEF Goto
  <2> HIDE DEF to
  <2> QED BY <2>1, <2>2, EarlyElsewhere
<1> QED
  BY <1>1, <1>2

LEMMA EarlyRequests ==
  ASSUME AttendanceInv, EarlyInv, NEW r \in Requests,
         \/ RequestStep(r) \/ BeginCheckIn(r) \/ BeginCheckOut(r) \/ BeginDeactivation(r)
         \/ \E s \in Sessions : \E p \in Points : BeginFix(r, s, p)
  PROVE  EarlyInv'
<1>1. CASE BeginCheckIn(r) \/ BeginCheckOut(r) \/ BeginDeactivation(r)
  BY <1>1, EarlyGoto DEF BeginCheckIn, BeginCheckOut, BeginDeactivation, rows
<1>2. CASE \E s \in Sessions : \E p \in Points : BeginFix(r, s, p)
  BY <1>2, EarlyGoto DEF BeginFix, rows
<1>3. CASE CreateSession(r) \/ CloseSession(r) \/ AutoCloseSession(r)
  <2>1. closed \subseteq closed' /\ UNCHANGED points
    BY <1>3 DEF CreateSession, CloseSession, AutoCloseSession
  <2>2. CASE Leave(r)
    BY <2>1, <2>2, EarlyElsewhere DEF Leave, Idle
  <2>3. CASE ~Leave(r)
    <3>1. \/ Goto(r, "announceIn", opened + 1, "none")
          \/ Goto(r, "announceOut", req[r].session, "none")
      BY <1>3, <2>3 DEF CreateSession, CloseSession, AutoCloseSession
    <3> QED BY <2>1, <3>1, EarlyGoto
  <2> QED BY <2>2, <2>3
<1>4. CASE AnnounceCheckIn(r) \/ AnnounceCheckOut(r)
  <2>1. Leave(r) /\ closed' = closed /\ UNCHANGED points
    BY <1>4 DEF AnnounceCheckIn, AnnounceCheckOut, Announce, rows
  <2> QED BY <2>1, EarlyElsewhere DEF Leave, Idle
<1>5. CASE ReadStart(r)
  BY <1>5, EarlyReadStart
<1>6. CASE StoreFix(r)
  <2>1. req[r].step = "store" /\ Leave(r) /\ closed' = closed
    BY <1>6 DEF StoreFix, At, rows
  <2>2. \A s : <<s, "early">> \in points' =>
          <<s, "early">> \in points \/ (s = req[r].session /\ req[r].point = "early")
    BY <1>6 DEF StoreFix, RecordLocation, RecordLocationBatch
  <2> QED BY <2>1, <2>2 DEF Leave, Idle, EarlyInv, EarlyAreOfClosed, AttendanceInv, RequestsShape
<1> QED
  BY <1>1, <1>2, <1>3, <1>4, <1>5, <1>6 DEF RequestStep

LEMMA EarlyStepInv == AttendanceInv /\ EarlyInv /\ [Next]_vars => EarlyInv'
<1> SUFFICES ASSUME AttendanceInv, EarlyInv, [Next]_vars PROVE EarlyInv'
  OBVIOUS
<1>1. ASSUME NEW r \in Requests,
             \/ RequestStep(r) \/ BeginCheckIn(r) \/ BeginCheckOut(r) \/ BeginDeactivation(r)
             \/ \E s \in Sessions : \E p \in Points : BeginFix(r, s, p)
      PROVE EarlyInv'
  BY <1>1, EarlyRequests
<1>2. CASE UNCHANGED <<req, closed, points>>
  BY <1>2 DEF EarlyInv, EarlyAreOfClosed
<1>3. CASE Crash
  <2>1. req' = [r \in Requests |-> Idle] /\ UNCHANGED <<closed, points>>
    BY <1>3 DEF Crash, rows
  <2> QED BY <2>1 DEF EarlyInv, EarlyAreOfClosed, Idle
<1>4. CASE \/ \E w \in late : Land(w)
           \/ \E k \in Slots : (\E j \in DOMAIN job : RunJob(k, j)) \/ SlotStep(k)
           \/ \E j \in filing : FileDeadLetter(j)
           \/ \E s \in Sessions : DistanceComputed(s)
           \/ DailyMetricsWritten \/ Reconcile \/ UNCHANGED vars
  <2>1. UNCHANGED <<req, closed, points>>
    BY <1>4 DEF Land, RunJob, SlotStep, WriteState, WriteActiveUser, ReadTotals, WriteTotals, FinishJob,
                FileDeadLetter,
                DistanceComputed, DailyMetricsWritten, Reconcile, vars, rows
  <2> QED BY <1>2, <2>1
<1> QED
  BY <1>1, <1>3, <1>4 DEF Next

\* The comparison of recorded_at with the check-in, skipped when the session is not
\* found open, lets an earlier point through only of a session that was closed
\* between the two reads of the request.
THEOREM EarlyPointsAreOfClosed == SafetySpec => []EarlyPointsNeedCheckOut
<1>1. Init => EarlyInv
  BY DEF Init, EarlyInv, EarlyAreOfClosed, Idle
<1>2. EarlyInv => EarlyPointsNeedCheckOut
  BY DEF EarlyInv, EarlyAreOfClosed, EarlyPointsNeedCheckOut, RouteOf
<1> QED
  BY <1>1, <1>2, AttendanceInitInv, AttendanceStepInv, EarlyStepInv, PTL DEF SafetySpec

-----------------------------------------------------------------------------
(* The totals, recomputed by several jobs, some of them twice.             *)

\* A job about to write the totals read as many sessions as there were, and
\* employee_daily_metrics only grows.
TotalsInv ==
  /\ daily \in Nat /\ totals \in Nat /\ totals <= daily
  /\ slot = [k \in Slots |-> slot[k]]
  /\ \A k \in Slots : slot[k].step = "write" => \E n \in 0..daily : slot[k].read = 1..n

\* A slot is given another state, the rows stay.
LEMMA SlotMoves ==
  ASSUME TotalsInv, NEW k \in Slots, NEW to, slot' = [slot EXCEPT ![k] = to],
         to.step = "write" => \E n \in 0..daily : to.read = 1..n,
         daily' = daily, totals' \in Nat, totals' <= daily
  PROVE  TotalsInv'
BY DEF TotalsInv

LEMMA FreeIsNotWrite == Free.step # "write"
BY DEF Free

\* The ways a handler may move on.
LEMMA SlotSteps ==
  ASSUME TotalsInv, NEW k \in Slots, NEW step, NEW read,
         Continue(k, step, read) \/ Done(k) \/ Throw(k),
         step = "write" => \E n \in 0..daily : read = 1..n,
         daily' = daily, totals' \in Nat, totals' <= daily
  PROVE  TotalsInv'
<1>1. CASE Done(k) \/ Throw(k)
  BY <1>1, SlotMoves, FreeIsNotWrite DEF Done, Throw
<1>2. CASE Continue(k, step, read)
  <2> DEFINE to == [step |-> step, job |-> slot[k].job, read |-> read]
  <2>1. to.step = step /\ to.read = read
    OBVIOUS
  <2>2. slot' = [slot EXCEPT ![k] = to]
    BY <1>2 DEF Continue
  <2> HIDE DEF to
  <2> QED BY <2>1, <2>2, SlotMoves
<1> QED
  BY <1>1, <1>2

LEMMA TotalsHandlers ==
  ASSUME TotalsInv, NEW k \in Slots, SlotStep(k) PROVE TotalsInv'
<1>0. daily' = daily
  BY DEF SlotStep, WriteState, WriteActiveUser, ReadTotals, WriteTotals, FinishJob
<1>1. CASE WriteState(k)
  <2>1. (Continue(k, "active", {}) \/ Throw(k)) /\ totals' = totals
    BY <1>1 DEF WriteState, Statement
  <2> QED BY <1>0, <2>1, SlotSteps DEF TotalsInv
<1>2. CASE WriteActiveUser(k)
  <2>1. (Continue(k, "read", {}) \/ Continue(k, "done", {}) \/ Throw(k)) /\ totals' = totals
    BY <1>2 DEF WriteActiveUser, Statement
  <2> QED BY <1>0, <2>1, SlotSteps DEF TotalsInv
<1>3. CASE ReadTotals(k)
  <2>1. /\ Continue(k, "write", 1..daily) \/ Continue(k, "write", {})
        /\ totals' = totals
    BY <1>3 DEF ReadTotals, mirrors
  <2>2. (\E n \in 0..daily : 1..daily = 1..n) /\ (\E n \in 0..daily : {} = 1..n)
    <3>1. daily \in 0..daily /\ 0 \in 0..daily /\ {} = 1..0
      BY DEF TotalsInv
    <3> QED BY <3>1
  <2> QED BY <1>0, <2>1, <2>2, SlotSteps DEF TotalsInv
<1>4. CASE WriteTotals(k)
  <2>1. CASE Throw(k) /\ totals' = totals
    BY <1>0, <2>1, SlotMoves, FreeIsNotWrite DEF TotalsInv, Throw
  <2>2. CASE Continue(k, "done", {}) /\ totals' = Cardinality(slot[k].read)
    <3>1. PICK n \in 0..daily : slot[k].read = 1..n
      BY <1>4 DEF WriteTotals, Runs, TotalsInv
    <3>2. n \in Nat /\ n <= daily
      BY <3>1 DEF TotalsInv
    <3>3. totals' = n
      BY <2>2, <3>1, <3>2, FS_Interval
    <3> QED BY <1>0, <2>2, <3>2, <3>3, SlotSteps
  <2> QED BY <1>4, <2>1, <2>2 DEF WriteTotals
<1>5. CASE FinishJob(k)
  <2>1. Done(k) /\ totals' = totals
    BY <1>5 DEF FinishJob, mirrors
  <2> QED BY <1>0, <2>1, SlotSteps DEF TotalsInv
<1> QED
  BY <1>1, <1>2, <1>3, <1>4, <1>5 DEF SlotStep

LEMMA TotalsStepInv == TotalsInv /\ [Next]_vars => TotalsInv'
<1> SUFFICES ASSUME TotalsInv, [Next]_vars PROVE TotalsInv'
  OBVIOUS
<1>0. ASSUME UNCHANGED <<slot, daily, totals>> PROVE TotalsInv'
  BY <1>0 DEF TotalsInv
<1>1. ASSUME NEW k \in Slots, SlotStep(k) PROVE TotalsInv'
  BY <1>1, TotalsHandlers
<1>2. ASSUME NEW k \in Slots, NEW j \in DOMAIN job, RunJob(k, j) PROVE TotalsInv'
  <2> DEFINE to == [step |-> "state", job |-> j, read |-> {}]
  <2>1. to.step # "write"
    OBVIOUS
  <2>2. slot' = [slot EXCEPT ![k] = to] /\ daily' = daily /\ totals' = totals
    BY <1>2 DEF RunJob, Take, mirrors
  <2> HIDE DEF to
  <2> QED BY <2>1, <2>2, SlotMoves DEF TotalsInv
<1>3. CASE Crash
  <2>1. slot' = [k \in Slots |-> Free] /\ daily' = daily /\ totals' = totals
    BY <1>3 DEF Crash, Stall, mirrors
  <2> QED BY <2>1, FreeIsNotWrite DEF TotalsInv
<1>4. CASE Reconcile
  <2>1. slot' = slot /\ daily' = daily /\ totals' \in {daily, totals}
    BY <1>4 DEF Reconcile, queue, mirrors
  <2> QED BY <2>1 DEF TotalsInv
<1>5. CASE DailyMetricsWritten
  <2>1. slot' = slot /\ daily' = daily + 1 /\ totals' = totals
    BY <1>5 DEF DailyMetricsWritten, queue, mirrors
  <2> QED BY <2>1 DEF TotalsInv
<1>6. ASSUME NEW r \in Requests, RequestStep(r) PROVE TotalsInv'
  BY <1>0, <1>6 DEF RequestStep, CreateSession, CloseSession, AutoCloseSession, AnnounceCheckIn,
                    AnnounceCheckOut, Announce, ReadStart, StoreFix, RecordLocation, RecordLocationBatch,
                    EnqueueLocationUpdate, Add, queue, mirrors
<1>7. CASE \/ \E w \in late : Land(w)
           \/ \E r \in Requests : BeginCheckIn(r) \/ BeginCheckOut(r) \/ BeginDeactivation(r)
           \/ \E r \in Requests : \E s \in Sessions : \E p \in Points : BeginFix(r, s, p)
           \/ \E s \in Sessions : DistanceComputed(s)
           \/ \E j \in filing : FileDeadLetter(j)
           \/ UNCHANGED vars
  BY <1>0, <1>7 DEF Land, BeginCheckIn, BeginCheckOut, BeginDeactivation, BeginFix,
                    DistanceComputed, FileDeadLetter, File, FileFails, vars, queue, mirrors
<1> QED
  BY <1>1, <1>2, <1>3, <1>4, <1>5, <1>6, <1>7 DEF Next

\* However often the snapshot jobs are retried or found stalled, and run at once,
\* total_sessions never exceeds what the daily metrics count.
THEOREM TotalsAreSet == SafetySpec => []TotalsNotInflated
<1>1. Init => TotalsInv
  BY FreeIsNotWrite DEF Init, QueueInit, TotalsInv
<1>2. TotalsInv => TotalsNotInflated
  BY DEF TotalsInv, TotalsNotInflated, ProfileSessions, SnapshotSessions, DailySessions
<1> QED
  BY <1>1, <1>2, TotalsStepInv, PTL DEF SafetySpec

-----------------------------------------------------------------------------
(* What the snapshot worker leaves behind.  The queue first.               *)

JobIds == ({"in", "out"} \X Sessions \X {"none"}) \cup ({"loc"} \X Sessions \X Points)

HandlerSteps == {"state", "active", "read", "write", "done"}

QueueShape ==
  /\ opened <= MaxSessions
  /\ job \in [JobIds -> {"none", "queued", "active", "failed"}]
  /\ slot = [k \in Slots |-> slot[k]]
  /\ \A k \in Slots : slot[k] # Free =>
       slot[k].job \in JobIds /\ job[slot[k].job] = "active" /\ slot[k].step \in HandlerSteps
  /\ \A k, l \in Slots :
       slot[k] # Free /\ slot[l] # Free /\ slot[k].job = slot[l].job => k = l

LEMMA FreeIsNoStep == Free.step = "free"
BY DEF Free

LEMMA AddShape ==
  ASSUME QueueShape, NEW j, Add(j), UNCHANGED opened
  PROVE  QueueShape'
BY DEF QueueShape, Add

LEMMA TakeShape ==
  ASSUME QueueShape, NEW k \in Slots, NEW j \in DOMAIN job, Take(k, j, "state"),
         UNCHANGED opened
  PROVE  QueueShape'
<1> DEFINE to == [step |-> "state", job |-> j, read |-> {}]
<1>1. /\ to.step = "state" /\ to.job = j /\ j \in JobIds
      /\ slot' = [slot EXCEPT ![k] = to] /\ job' = [job EXCEPT ![j] = "active"]
      /\ job[j] = "queued" /\ slot[k] = Free
  BY DEF Take, QueueShape
<1> HIDE DEF to
<1> QED BY <1>1 DEF QueueShape, HandlerSteps

LEMMA ContinueShape ==
  ASSUME QueueShape, NEW k \in Slots, slot[k] # Free, NEW step \in HandlerSteps, NEW read,
         Continue(k, step, read), UNCHANGED opened
  PROVE  QueueShape'
<1> DEFINE to == [step |-> step, job |-> slot[k].job, read |-> read]
<1>1. /\ to.step = step /\ to.job = slot[k].job
      /\ slot' = [slot EXCEPT ![k] = to] /\ job' = job
  BY DEF Continue
<1> HIDE DEF to
<1> QED BY <1>1 DEF QueueShape

LEMMA EndShape ==
  ASSUME QueueShape, NEW k \in Slots, slot[k] # Free, Done(k) \/ Throw(k), UNCHANGED opened
  PROVE  QueueShape'
<1>1. slot' = [slot EXCEPT ![k] = Free]
  BY DEF Done, Throw
<1>2. \E s \in {"none", "queued", "failed"} : job' = [job EXCEPT ![slot[k].job] = s]
  BY DEF Done, Throw
<1> QED BY <1>1, <1>2 DEF QueueShape

LEMMA SlotShape ==
  ASSUME QueueShape, NEW k \in Slots, SlotStep(k)
  PROVE  QueueShape'
<1>1. slot[k] # Free /\ UNCHANGED opened
  BY DEF SlotStep, WriteState, WriteActiveUser, ReadTotals, WriteTotals, FinishJob, Runs, rows
<1>2. CASE WriteState(k)
  BY <1>1, <1>2, ContinueShape, EndShape DEF WriteState, Statement, HandlerSteps
<1>3. CASE WriteActiveUser(k)
  BY <1>1, <1>3, ContinueShape, EndShape DEF WriteActiveUser, Statement, HandlerSteps
<1>4. CASE ReadTotals(k)
  BY <1>1, <1>4, ContinueShape DEF ReadTotals, HandlerSteps
<1>5. CASE WriteTotals(k)
  BY <1>1, <1>5, ContinueShape, EndShape DEF WriteTotals, HandlerSteps
<1>6. CASE FinishJob(k)
  BY <1>1, <1>6, EndShape DEF FinishJob
<1> QED BY <1>2, <1>3, <1>4, <1>5, <1>6 DEF SlotStep

LEMMA ShapeStep == AttendanceInv /\ QueueShape /\ [Next]_vars => QueueShape'
<1> SUFFICES ASSUME AttendanceInv, QueueShape, [Next]_vars PROVE QueueShape'
  OBVIOUS
<1>0. ASSUME UNCHANGED <<job, slot, opened>> PROVE QueueShape'
  BY <1>0 DEF QueueShape
<1>1. ASSUME NEW k \in Slots, SlotStep(k) PROVE QueueShape'
  BY <1>1, SlotShape
<1>2. ASSUME NEW k \in Slots, NEW j \in DOMAIN job, RunJob(k, j) PROVE QueueShape'
  BY <1>2, TakeShape DEF RunJob, rows
<1>3. CASE Crash
  BY <1>3 DEF Crash, Stall, QueueShape, JobIds, rows
<1>4. ASSUME NEW r \in Requests, AnnounceCheckIn(r) \/ AnnounceCheckOut(r) \/ StoreFix(r)
      PROVE QueueShape'
  BY <1>0, <1>4, AddShape DEF AnnounceCheckIn, AnnounceCheckOut, Announce, StoreFix, RecordLocation,
     RecordLocationBatch, EnqueueLocationUpdate, queue, rows
<1>5. ASSUME NEW r \in Requests, CreateSession(r) PROVE QueueShape'
  <2>1. opened' <= MaxSessions
    BY <1>5, AttendanceConstants DEF CreateSession, QueueShape, AttendanceInv, Shape
  <2> QED BY <1>5, <2>1 DEF CreateSession, QueueShape, queue
<1>6. ASSUME NEW r \in Requests, CloseSession(r) \/ AutoCloseSession(r) \/ ReadStart(r)
      PROVE QueueShape'
  BY <1>0, <1>6 DEF CloseSession, AutoCloseSession, ReadStart, queue, rows
<1>7. CASE \/ \E w \in late : Land(w)
           \/ \E r \in Requests : BeginCheckIn(r) \/ BeginCheckOut(r) \/ BeginDeactivation(r)
           \/ \E r \in Requests : \E s \in Sessions : \E p \in Points : BeginFix(r, s, p)
           \/ \E s \in Sessions : DistanceComputed(s)
           \/ \E j \in filing : FileDeadLetter(j)
           \/ DailyMetricsWritten \/ Reconcile
           \/ UNCHANGED vars
  BY <1>0, <1>7 DEF Land, BeginCheckIn, BeginCheckOut, BeginDeactivation, BeginFix, FileDeadLetter,
                    File, FileFails, DistanceComputed, DailyMetricsWritten, Reconcile, vars, queue, rows
<1> QED
  BY <1>1, <1>2, <1>3, <1>4, <1>5, <1>6, <1>7 DEF Next, RequestStep

-----------------------------------------------------------------------------
(* Every change of the sessions has its job: on its way, kept in the queue, *)
(* or taken.  As long as no job was overtaken by one of a later change, the *)
(* rows are those of the job taken last, once it wrote them; and once that *)
(* is the job of the last change, of the sessions.  A job that was         *)
(* overtaken either stays or runs out of order.                            *)

In(s)  == <<"in", s, "none">>
Out(s) == <<"out", s, "none">>

Announces(r, j) ==
  /\ req[r].step = (IF j[1] = "in" THEN "announceIn" ELSE "announceOut")
  /\ req[r].session = j[2]

Outstanding(j) == job[j] # "none" \/ \E r \in Requests : Announces(r, j)

Overtaken == \E j \in AttendanceJobs : Outstanding(j) /\ Rank(j) < taken

Regular == ordered /\ ~lost /\ ~Overtaken

\* The rank of the last change of the sessions.
Due == IF Open THEN 2 * opened - 1 ELSE 2 * opened

OnSlot(k, j) == slot[k] # Free /\ slot[k].job = j

Passed(j, steps) == job[j] = "none" \/ \E k \in Slots : OnSlot(k, j) /\ slot[k].step \in steps

StateWritten(j) == Passed(j, {"active", "read", "write", "done"})
UserWritten(j)  == Passed(j, {"read", "write", "done"})

\* No job and no row is ahead of the sessions.
Real ==
  /\ \A j \in AttendanceJobs :
       Outstanding(j) => j[2] \in 1..opened /\ (j[1] = "out" => j[2] \in closed)
  /\ taken \in Nat /\ taken <= Due
  /\ activeUser \in Nat /\ activeUser <= opened
  /\ ordered \in BOOLEAN /\ lost \in BOOLEAN

OneAtATime ==
  ordered =>
    /\ \A k \in Slots : \A j \in AttendanceJobs : OnSlot(k, j) => Rank(j) = taken
    /\ \A k, l \in Slots : \A i, j \in AttendanceJobs : OnSlot(k, i) /\ OnSlot(l, j) => k = l

Covered ==
  ordered /\ ~lost =>
    /\ \A s \in 1..opened : Outstanding(In(s)) \/ taken >= 2 * s - 1
    /\ \A s \in closed : Outstanding(Out(s)) \/ taken >= 2 * s

\* active_users never falls behind: the row of an earlier session was replaced
\* or deleted.
Floor ==
  Regular => \A s \in Sessions :
    taken = 2 * s \/ (taken = 2 * s - 1 /\ UserWritten(In(s))) => activeUser = 0 \/ activeUser >= s

Mirrored ==
  Regular => \A j \in AttendanceJobs : Rank(j) = taken /\ taken = Due =>
    /\ StateWritten(j) => lastState = [session |-> opened, in |-> Open]
    /\ UserWritten(j) => activeUser = IF Open THEN opened ELSE 0

MirrorInv == Real /\ OneAtATime /\ Covered /\ Floor /\ Mirrored

LEMMA AttendanceJobParts ==
  ASSUME NEW j \in AttendanceJobs
  PROVE  /\ j \in JobIds /\ j[1] \in {"in", "out"} /\ j[2] \in Sessions /\ j[2] \in Nat
         /\ j[1] = "in" => j = In(j[2]) /\ Rank(j) = 2 * j[2] - 1
         /\ j[1] = "out" => j = Out(j[2]) /\ Rank(j) = 2 * j[2]
         /\ Rank(j) \in Nat /\ Rank(j) >= 1
<1>1. j \in JobIds /\ j[1] \in {"in", "out"} /\ j[2] \in Sessions /\ j = <<j[1], j[2], "none">>
  BY DEF AttendanceJobs, JobIds
<1>2. j[2] \in Nat /\ j[2] >= 1
  BY <1>1, AttendanceConstants DEF Sessions
<1> QED BY <1>1, <1>2 DEF In, Out, Rank

LEMMA JobOfSession ==
  ASSUME NEW s \in Sessions
  PROVE  /\ In(s) \in AttendanceJobs /\ In(s)[1] = "in" /\ In(s)[2] = s /\ Rank(In(s)) = 2 * s - 1
         /\ Out(s) \in AttendanceJobs /\ Out(s)[1] = "out" /\ Out(s)[2] = s /\ Rank(Out(s)) = 2 * s
         /\ s \in Nat /\ s >= 1
BY AttendanceConstants DEF In, Out, AttendanceJobs, Rank, Sessions

LEMMA InitMirrors == Init => QueueShape /\ MirrorInv
<1> SUFFICES ASSUME Init PROVE QueueShape /\ MirrorInv
  OBVIOUS
<1>1. /\ opened = 0 /\ closed = {} /\ taken = 0 /\ activeUser = 0 /\ ordered = TRUE /\ lost = FALSE
      /\ req = [r \in Requests |-> Idle] /\ Idle.step = "idle"
      /\ job = [j \in JobIds |-> "none"] /\ slot = [k \in Slots |-> Free]
  BY DEF Init, QueueInit, JobIds, Idle
<1>2. QueueShape
  BY <1>1, AttendanceConstants DEF QueueShape
<1>3. \A j \in AttendanceJobs : ~Outstanding(j) /\ Rank(j) >= 1
  BY <1>1, AttendanceJobParts DEF Outstanding, Announces
<1>4. \A k \in Slots, j \in AttendanceJobs : ~OnSlot(k, j)
  BY <1>1 DEF OnSlot
<1>5. Due = 0 /\ ~Open
  BY <1>1 DEF Due, Open
<1>6. Real
  <2>1. ordered \in BOOLEAN /\ lost \in BOOLEAN
    BY <1>1
  <2>2. taken \in Nat /\ taken <= Due /\ activeUser \in Nat /\ activeUser <= opened
    BY <1>1, <1>5
  <2> QED BY <1>3, <2>1, <2>2 DEF Real
<1>10. OneAtATime
  BY <1>4 DEF OneAtATime
<1>7. Covered
  BY <1>1 DEF Covered
<1>8. Floor
  BY <1>1 DEF Floor
<1>9. Mirrored
  BY <1>1, <1>3 DEF Mirrored
<1> QED BY <1>2, <1>6, <1>7, <1>8, <1>9, <1>10 DEF MirrorInv

LEMMA SessionsThere ==
  ASSUME AttendanceInv, QueueShape
  PROVE  /\ opened \in Nat /\ MaxSessions \in Nat
         /\ 1..opened \subseteq Sessions /\ closed \subseteq 1..opened /\ closed \subseteq Sessions
         /\ Open \in BOOLEAN /\ Open => opened \in 1..opened
         /\ Due \in Nat /\ Due <= 2 * opened /\ Due >= 2 * opened - 1
BY AttendanceConstants DEF AttendanceInv, Shape, QueueShape, Sessions, Open, Due

\* Nothing is written: jobs that had passed a step may have to repeat it, and one
\* may leave the queue if it is the one taken last.
LEMMA Recede ==
  ASSUME AttendanceInv, QueueShape, MirrorInv, UNCHANGED <<opened, closed, taken, ordered, lastState, activeUser>>,
         lost' \in BOOLEAN, lost => lost',
         \A j \in AttendanceJobs : Outstanding(j)' => Outstanding(j),
         \A k \in Slots : \A j \in AttendanceJobs : OnSlot(k, j)' => OnSlot(k, j),
         lost' \/ ~ordered \/
           \A j \in AttendanceJobs :
             /\ Outstanding(j) => Outstanding(j)' \/ Rank(j) = taken
             /\ StateWritten(j)' => StateWritten(j)
             /\ UserWritten(j)' => UserWritten(j)
  PROVE  MirrorInv'
<1>1. Due' = Due /\ Open' = Open
  BY DEF Due, Open
<1>2. Real'
  BY <1>1 DEF MirrorInv, Real
<1>3. OneAtATime'
  BY DEF MirrorInv, OneAtATime
<1>4. CASE lost' \/ ~ordered
  BY <1>2, <1>3, <1>4 DEF MirrorInv, Covered, Floor, Mirrored, Regular
<1>5. CASE ~lost' /\ ordered
  <2>0. \A j \in AttendanceJobs :
          /\ Outstanding(j) => Outstanding(j)' \/ Rank(j) = taken
          /\ StateWritten(j)' => StateWritten(j)
          /\ UserWritten(j)' => UserWritten(j)
    BY <1>5
  <2>2. Regular' => Regular
    <3>1. Overtaken => Overtaken'
      BY <2>0, AttendanceJobParts DEF Overtaken, MirrorInv, Real
    <3> QED BY <1>5, <3>1 DEF Regular
  <2>3. Floor'
    BY <2>0, <2>2, JobOfSession DEF MirrorInv, Floor
  <2>4. Mirrored'
    BY <1>1, <2>0, <2>2 DEF MirrorInv, Mirrored
  <2>5. ASSUME NEW s \in 1..opened PROVE Outstanding(In(s))' \/ taken' >= 2 * s - 1
    <3>1. In(s) \in AttendanceJobs /\ Rank(In(s)) = 2 * s - 1 /\ s \in Nat
      BY SessionsThere, JobOfSession
    <3>2. Outstanding(In(s)) \/ taken >= 2 * s - 1
      BY <1>5 DEF MirrorInv, Covered
    <3> QED BY <2>0, <3>1, <3>2 DEF MirrorInv, Real
  <2>6. ASSUME NEW s \in closed PROVE Outstanding(Out(s))' \/ taken' >= 2 * s
    <3>1. Out(s) \in AttendanceJobs /\ Rank(Out(s)) = 2 * s /\ s \in Nat
      BY SessionsThere, JobOfSession
    <3>2. Outstanding(Out(s)) \/ taken >= 2 * s
      BY <1>5 DEF MirrorInv, Covered
    <3> QED BY <2>0, <3>1, <3>2 DEF MirrorInv, Real
  <2>7. Covered'
    BY <2>5, <2>6 DEF Covered
  <2> QED BY <1>2, <1>3, <2>3, <2>4, <2>7 DEF MirrorInv
<1> QED BY <1>4, <1>5

\* The sessions change, and the request that changed them has their job in hand.
LEMMA Advance ==
  ASSUME AttendanceInv, QueueShape, MirrorInv, AttendanceInv', QueueShape',
         UNCHANGED <<job, slot, taken, ordered, activeUser>>, lost' \in BOOLEAN, lost => lost',
         closed \subseteq closed', opened <= opened',
         \/ Due' = Due /\ Open' = Open /\ opened' = opened /\ lastState' = lastState
         \/ Due' > Due,
         \A j \in AttendanceJobs :
           Outstanding(j)' => \/ Outstanding(j)
                              \/ j[2] \in 1..opened' /\ (j[1] = "out" => j[2] \in closed'),
         lost' \/
           /\ \A j \in AttendanceJobs : Outstanding(j) => Outstanding(j)'
           /\ \A s \in (1..opened') \ (1..opened) : Outstanding(In(s))'
           /\ \A s \in closed' \ closed : Outstanding(Out(s))'
  PROVE  MirrorInv'
<1>1. opened \in Nat /\ opened' \in Nat /\ Due \in Nat /\ Due' \in Nat
  <2>1. opened \in Nat /\ opened' \in Nat
    BY DEF AttendanceInv, Shape
  <2>2. Due \in Nat
    BY SessionsThere
  <2>3. Due' \in Nat
    <3>1. \A n \in Nat : 2 * n \in Nat /\ (n > 0 => 2 * n - 1 \in Nat)
      OBVIOUS
    <3>2. Open' => opened' > 0
      BY DEF Open
    <3> QED BY <2>1, <3>1, <3>2 DEF Due
  <2> QED BY <2>1, <2>2, <2>3
<1>2. Real'
  BY <1>1 DEF MirrorInv, Real
<1>3. OneAtATime'
  BY DEF MirrorInv, OneAtATime, OnSlot
<1>4. CASE lost'
  BY <1>2, <1>3, <1>4 DEF MirrorInv, Covered, Floor, Mirrored, Regular
<1>5. CASE ~lost'
  <2>1. Covered'
    <3>1. ASSUME ordered, NEW s \in 1..opened' PROVE Outstanding(In(s))' \/ taken' >= 2 * s - 1
      <4>1. CASE s \in 1..opened
        <5>1. In(s) \in AttendanceJobs
          BY <4>1, SessionsThere, JobOfSession
        <5> QED BY <1>5, <3>1, <4>1, <5>1 DEF MirrorInv, Covered
      <4>2. CASE s \notin 1..opened
        BY <1>5, <4>2
      <4> QED BY <4>1, <4>2
    <3>2. ASSUME ordered, NEW s \in closed' PROVE Outstanding(Out(s))' \/ taken' >= 2 * s
      <4>1. CASE s \in closed
        <5>1. Out(s) \in AttendanceJobs
          BY <4>1, SessionsThere, JobOfSession
        <5> QED BY <1>5, <3>2, <4>1, <5>1 DEF MirrorInv, Covered
      <4>2. CASE s \notin closed
        BY <1>5, <4>2
      <4> QED BY <4>1, <4>2
    <3> QED BY <3>1, <3>2 DEF Covered
  <2>2. Regular' => Regular
    BY <1>5 DEF Regular, Overtaken
  <2>3. \A j \in AttendanceJobs :
          /\ StateWritten(j)' <=> StateWritten(j)
          /\ UserWritten(j)' <=> UserWritten(j)
    BY DEF StateWritten, UserWritten, Passed, OnSlot
  <2>4. Floor'
    BY <2>2, <2>3, JobOfSession DEF MirrorInv, Floor
  <2>5. Mirrored'
    BY <1>1, <2>2, <2>3 DEF MirrorInv, Mirrored, Real
  <2> QED BY <1>2, <1>3, <2>1, <2>4, <2>5 DEF MirrorInv
<1> QED BY <1>4, <1>5

\* What a request announces, before and after it takes a step.
LEMMA AnnouncesOf ==
  ASSUME AttendanceInv, NEW r \in Requests, NEW to, req' = [req EXCEPT ![r] = to],
         NEW j \in AttendanceJobs
  PROVE  /\ \A c \in Requests : c # r => Announces(c, j)' = Announces(c, j)
         /\ Announces(r, j)' <=> /\ to.step = (IF j[1] = "in" THEN "announceIn" ELSE "announceOut")
                                /\ to.session = j[2]
BY DEF AttendanceInv, RequestsShape, Announces

\* A request moves on, but not to or from an announcement.
LEMMA QuietMove ==
  ASSUME AttendanceInv, QueueShape, MirrorInv, NEW r \in Requests, NEW to,
         req' = [req EXCEPT ![r] = to], to.step \notin {"announceIn", "announceOut"},
         req[r].step \notin {"announceIn", "announceOut"},
         UNCHANGED <<opened, closed, slot, taken, ordered, lost, lastState, activeUser>>,
         \A j \in AttendanceJobs : job'[j] = job[j]
  PROVE  MirrorInv'
<1>1. ASSUME NEW j \in AttendanceJobs PROVE Outstanding(j)' <=> Outstanding(j)
  BY <1>1, AnnouncesOf DEF Outstanding, Announces
<1>2. \A k \in Slots : \A j \in AttendanceJobs : OnSlot(k, j)' <=> OnSlot(k, j)
  BY DEF OnSlot
<1>3. \A j \in AttendanceJobs :
        /\ StateWritten(j)' <=> StateWritten(j)
        /\ UserWritten(j)' <=> UserWritten(j)
  BY <1>2 DEF StateWritten, UserWritten, Passed
<1>4. lost' \in BOOLEAN /\ (lost => lost')
  BY DEF MirrorInv, Real
<1> QED BY <1>1, <1>2, <1>3, <1>4, Recede

LEMMA GotoMove ==
  ASSUME NEW r, NEW step, NEW s, NEW p, Goto(r, step, s, p)
  PROVE  \E to : /\ req' = [req EXCEPT ![r] = to]
                 /\ to.step = step /\ to.session = s /\ to.point = p
<1> DEFINE to == [step |-> step, session |-> s, point |-> p]
<1>1. to.step = step /\ to.session = s /\ to.point = p
  OBVIOUS
<1>2. req' = [req EXCEPT ![r] = to]
  BY DEF Goto
<1> HIDE DEF to
<1> QED BY <1>1, <1>2

LEMMA LeaveMove ==
  ASSUME NEW r, Leave(r)
  PROVE  \E to : req' = [req EXCEPT ![r] = to] /\ to.step = "idle"
<1>1. Idle.step = "idle"
  BY DEF Idle
<1> QED BY <1>1 DEF Leave

LEMMA QuietRequests ==
  ASSUME AttendanceInv, QueueShape, MirrorInv, NEW r \in Requests,
         \/ BeginCheckIn(r) \/ BeginCheckOut(r) \/ BeginDeactivation(r)
         \/ \E s \in Sessions : \E p \in Points : BeginFix(r, s, p)
         \/ ReadStart(r) \/ StoreFix(r)
  PROVE  MirrorInv'
<1>1. /\ UNCHANGED <<opened, closed, slot, taken, ordered, lost, lastState, activeUser>>
      /\ req[r].step \notin {"announceIn", "announceOut"}
  <2> USE DEF rows, queue, history, mirrors, Idle, At
  <2>1. CASE BeginCheckIn(r) \/ BeginCheckOut(r) \/ BeginDeactivation(r)
    BY <2>1 DEF BeginCheckIn, BeginCheckOut, BeginDeactivation
  <2>2. CASE \E s \in Sessions : \E p \in Points : BeginFix(r, s, p)
    BY <2>2 DEF BeginFix
  <2>3. CASE ReadStart(r)
    BY <2>3 DEF ReadStart
  <2>4. CASE StoreFix(r)
    BY <2>4 DEF StoreFix, RecordLocation, RecordLocationBatch, EnqueueLocationUpdate, Add
  <2> QED BY <2>1, <2>2, <2>3, <2>4
<1>2. \A j \in AttendanceJobs : job'[j] = job[j]
  <2>1. CASE UNCHANGED job
    BY <2>1
  <2>2. CASE \E s, p : Add(<<"loc", s, p>>)
    <3>1. PICK s, p : Add(<<"loc", s, p>>)
      BY <2>2
    <3>2. \A j \in AttendanceJobs : j # <<"loc", s, p>>
      BY DEF AttendanceJobs
    <3> QED BY <3>1, <3>2, AttendanceJobParts DEF Add, QueueShape
  <2>3. CASE StoreFix(r)
    BY <2>1, <2>2, <2>3 DEF StoreFix, RecordLocation, RecordLocationBatch, EnqueueLocationUpdate, queue
  <2> QED
    BY <2>1, <2>3 DEF BeginCheckIn, BeginCheckOut, BeginDeactivation, BeginFix, ReadStart, queue
<1>3. \/ Leave(r)
      \/ \E step \in Steps \ {"announceIn", "announceOut"} : \E s, p : Goto(r, step, s, p)
  BY DEF BeginCheckIn, BeginCheckOut, BeginDeactivation, BeginFix, ReadStart, StoreFix, Steps
<1>4. \E to : /\ req' = [req EXCEPT ![r] = to]
              /\ to.step \notin {"announceIn", "announceOut"}
  BY <1>3, GotoMove, LeaveMove
<1> QED BY <1>1, <1>2, <1>4, QuietMove

LEMMA MirrorCreate ==
  ASSUME AttendanceInv, QueueShape, MirrorInv, AttendanceInv', QueueShape',
         NEW r \in Requests, CreateSession(r)
  PROVE  MirrorInv'
<1>1. /\ UNCHANGED <<closed, job, slot, taken, ordered, lost, lastState, activeUser>>
      /\ req[r].step = "insert"
  BY DEF CreateSession, At, queue, history, mirrors
<1>2. CASE Leave(r) /\ UNCHANGED opened
  BY <1>1, <1>2, LeaveMove, QuietMove
<1>3. CASE ~Open /\ opened' = opened + 1 /\ Goto(r, "announceIn", opened + 1, "none")
  <2>1. PICK to : req' = [req EXCEPT ![r] = to] /\ to.step = "announceIn" /\ to.session = opened + 1
    BY <1>3, GotoMove
  <2>2. opened \in Nat /\ opened' \in 1..opened' /\ opened' \in Sessions /\ closed \subseteq 1..opened
    BY <1>3, AttendanceConstants DEF AttendanceInv, Shape, QueueShape, Sessions
  <2>3. Due' > Due
    <3>1. Open' /\ Due = 2 * opened
      BY <1>1, <1>3, <2>2 DEF Open, Due
    <3>2. Due' = 2 * (opened + 1) - 1
      BY <1>3, <3>1 DEF Due
    <3> QED BY <2>2, <3>1, <3>2
  <2>4. ASSUME NEW j \in AttendanceJobs
        PROVE  /\ Outstanding(j) => Outstanding(j)'
               /\ Outstanding(j)' => Outstanding(j) \/ (j[1] = "in" /\ j[2] = opened')
    <3>1. /\ \A c \in Requests : c # r => Announces(c, j)' = Announces(c, j)
          /\ Announces(r, j)' => j[1] = "in" /\ j[2] = opened'
      BY <1>3, <2>1, AnnouncesOf, AttendanceJobParts
    <3>2. ~Announces(r, j)
      BY <1>1 DEF Announces
    <3> QED BY <1>1, <3>1, <3>2 DEF Outstanding
  <2>5. PICK n \in Sessions : n = opened'
    BY <2>2
  <2>11. Outstanding(In(n))'
    <3>1. In(n) \in AttendanceJobs /\ In(n)[1] = "in" /\ In(n)[2] = n
      BY JobOfSession
    <3>2. Announces(r, In(n))'
      BY <1>3, <2>1, <2>5, <3>1 DEF AttendanceInv, RequestsShape, Announces
    <3> QED BY <3>2 DEF Outstanding
  <2>6. \A s \in (1..opened') \ (1..opened) : s = n
    BY <1>3, <2>2, <2>5
  <2>7. lost' \in BOOLEAN /\ (lost => lost')
    BY <1>1 DEF MirrorInv, Real
  <2>8. opened <= opened'
    BY <1>3, <2>2
  <2>9. \A s \in (1..opened') \ (1..opened) : Outstanding(In(s))'
    BY <2>6, <2>11
  <2>10. \A j \in AttendanceJobs :
           Outstanding(j)' => \/ Outstanding(j)
                              \/ j[2] \in 1..opened' /\ (j[1] = "out" => j[2] \in closed')
    BY <2>2, <2>4
  <2> QED BY <1>1, <2>3, <2>4, <2>7, <2>8, <2>9, <2>10, Advance
<1> QED BY <1>2, <1>3 DEF CreateSession

LEMMA MirrorClose ==
  ASSUME AttendanceInv, QueueShape, MirrorInv, AttendanceInv', QueueShape',
         NEW r \in Requests, CloseSession(r) \/ AutoCloseSession(r)
  PROVE  MirrorInv'
<1>1. /\ UNCHANGED <<opened, job, slot, taken, ordered, lastState, activeUser>>
      /\ req[r].step \in {"close", "autoClose"}
      /\ req[r].session \in 1..opened
  <2>1. /\ UNCHANGED <<opened, job, slot, taken, ordered, lastState, activeUser>>
        /\ req[r].step \in {"close", "autoClose"}
    BY DEF CloseSession, AutoCloseSession, At, queue, history, mirrors
  <2> QED BY <2>1 DEF AttendanceInv, RequestsShape, About
<1>2. CASE Leave(r) /\ UNCHANGED <<closed, lost>>
  BY <1>1, <1>2, LeaveMove, QuietMove
<1>3. CASE \/ CloseSession(r) /\ closed' = closed \cup {req[r].session} /\ Goto(r, "announceOut", req[r].session, "none")
           \/ AutoCloseSession(r) /\ closed' = closed \cup {req[r].session} /\ lost' = TRUE
  <2> PICK s \in 1..opened : s = req[r].session
    BY <1>1
  <2>0. s \in 1..opened /\ closed' = closed \cup {s}
    BY <1>1, <1>3
  <2>1. PICK to : /\ req' = [req EXCEPT ![r] = to]
                  /\ \/ to.step = "announceOut" /\ to.session = s /\ UNCHANGED lost
                     \/ to.step = "idle" /\ lost' = TRUE
    <3>1. CASE Goto(r, "announceOut", s, "none") /\ UNCHANGED lost
      BY <3>1, GotoMove
    <3>2. CASE Leave(r) /\ lost' = TRUE
      BY <3>2, LeaveMove
    <3> QED BY <1>3, <3>1, <3>2 DEF CloseSession, AutoCloseSession, history
  <2>2. \/ Due' = Due /\ Open' = Open /\ opened' = opened /\ lastState' = lastState
        \/ Due' > Due
    <3>1. opened \in Nat
      BY DEF AttendanceInv, Shape
    <3>2. CASE s = opened /\ Open
      <4>1. ~Open'
        BY <1>1, <2>0, <3>2 DEF Open
      <4>2. Due' = 2 * opened /\ Due = 2 * opened - 1
        BY <1>1, <3>2, <4>1 DEF Due
      <4> QED BY <3>1, <4>2
    <3>3. CASE ~(s = opened /\ Open)
      <4>1. Open' = Open
        BY <1>1, <2>0, <3>3 DEF Open
      <4> QED BY <1>1, <4>1 DEF Due
    <3> QED BY <3>2, <3>3
  <2>3. ASSUME NEW j \in AttendanceJobs
        PROVE  /\ Outstanding(j) => Outstanding(j)'
               /\ Outstanding(j)' => Outstanding(j) \/ j[2] = s
    <3>1. /\ \A c \in Requests : c # r => Announces(c, j)' = Announces(c, j)
          /\ Announces(r, j)' => j[2] = s
      BY <2>1, AnnouncesOf
    <3>2. ~Announces(r, j)
      BY <1>1 DEF Announces
    <3> QED BY <1>1, <3>1, <3>2 DEF Outstanding
  <2>4. lost' \/ Outstanding(Out(s))'
    <3>1. CASE to.step = "announceOut" /\ to.session = s
      <4>1. Out(s) \in AttendanceJobs /\ Out(s)[1] = "out" /\ Out(s)[2] = s
        BY <2>0, SessionsThere, JobOfSession
      <4>2. Announces(r, Out(s))'
        BY <2>1, <3>1, <4>1 DEF AttendanceInv, RequestsShape, Announces
      <4> QED BY <4>2 DEF Outstanding
    <3> QED BY <2>1, <3>1
  <2>5. lost' \in BOOLEAN /\ (lost => lost')
    BY <2>1 DEF MirrorInv, Real
  <2>6. closed \subseteq closed' /\ opened <= opened' /\ (1..opened') \ (1..opened) = {}
    <3>1. opened \in Nat
      BY DEF AttendanceInv, Shape
    <3> QED BY <1>1, <2>0, <3>1
  <2>7. \A c \in closed' \ closed : c = s
    BY <2>0
  <2>8. \A j \in AttendanceJobs :
           Outstanding(j)' => \/ Outstanding(j)
                              \/ j[2] \in 1..opened' /\ (j[1] = "out" => j[2] \in closed')
    BY <1>1, <2>0, <2>3
  <2>9. lost' \/ \A c \in closed' \ closed : Outstanding(Out(c))'
    BY <2>4, <2>7
  <2> QED BY <1>1, <2>2, <2>3, <2>5, <2>6, <2>8, <2>9, Advance
<1> QED BY <1>2, <1>3 DEF CloseSession, AutoCloseSession, history

LEMMA MirrorAnnounce ==
  ASSUME AttendanceInv, QueueShape, MirrorInv,
         NEW r \in Requests, NEW kind \in {"in", "out"}, NEW b \in BOOLEAN,
         Announce(r, kind, IF kind = "in" THEN "announceIn" ELSE "announceOut", b)
  PROVE  MirrorInv'
<1>0. req[r].session \in 1..opened
  BY DEF Announce, At, AttendanceInv, RequestsShape, About
<1>9. PICK s \in 1..opened : s = req[r].session
  BY <1>0
<1> DEFINE j == <<kind, s, "none">>
<1>1. /\ UNCHANGED <<opened, closed, slot, taken, ordered, lastState, activeUser>>
      /\ req[r].step = IF kind = "in" THEN "announceIn" ELSE "announceOut"
      /\ \/ job' = [job EXCEPT ![j] = IF @ = "none" THEN "queued" ELSE @] /\ lost' = lost
         \/ job' = job /\ lost' = TRUE
  BY <1>9 DEF Announce, At, Add, rows, queue, mirrors
<1>2. PICK to : req' = [req EXCEPT ![r] = to] /\ to.step = "idle"
  BY LeaveMove DEF Announce
<1>3. s \in Sessions /\ j \in AttendanceJobs /\ j[1] = kind /\ j[2] = s
  BY SessionsThere DEF AttendanceJobs
<1>4. Announces(r, j) /\ Outstanding(j)
  BY <1>1, <1>3, <1>9 DEF Announces, Outstanding
<1>5. ASSUME NEW i \in AttendanceJobs
      PROVE  /\ Outstanding(i)' => Outstanding(i)
             /\ lost' \/ (Outstanding(i) => Outstanding(i)')
             /\ job'[i] = "none" => job[i] = "none"
  <2> HIDE DEF j
  <2>1. /\ \A c \in Requests : c # r => Announces(c, i)' = Announces(c, i)
        /\ ~Announces(r, i)'
    BY <1>2, AnnouncesOf
  <2>2. i \in JobIds
    BY AttendanceJobParts
  <2>3. CASE i = j
    BY <1>1, <1>4, <2>2, <2>3 DEF QueueShape, Outstanding
  <2>4. CASE i # j
    <3>1. ~Announces(r, i)
      BY <1>1, <1>3, <1>9, <2>4, AttendanceJobParts DEF Announces, In, Out, j
    <3> QED BY <1>1, <2>1, <2>2, <2>4, <3>1 DEF QueueShape, Outstanding
  <2> QED BY <2>3, <2>4
<1>6. \A k \in Slots : \A i \in AttendanceJobs : OnSlot(k, i)' <=> OnSlot(k, i)
  BY <1>1 DEF OnSlot
<1>7. \A i \in AttendanceJobs :
        /\ StateWritten(i)' => StateWritten(i)
        /\ UserWritten(i)' => UserWritten(i)
  BY <1>1, <1>5, <1>6 DEF StateWritten, UserWritten, Passed
<1>8. lost' \in BOOLEAN /\ (lost => lost')
  <2>1. CASE lost' = lost
    BY <2>1 DEF MirrorInv, Real
  <2>2. CASE lost' = TRUE
    BY <2>2
  <2> QED BY <1>1, <2>1, <2>2
<1> HIDE DEF j
<1> QED BY <1>1, <1>5, <1>6, <1>7, <1>8, Recede

\* No two jobs have one rank, and that of the last change is the job of it.
LEMMA RankTells ==
  ASSUME NEW i \in AttendanceJobs, NEW j \in AttendanceJobs, Rank(i) = Rank(j)
  PROVE  i = j
<1>1. \A m, n \in Nat : 2 * m # 2 * n - 1 /\ (2 * m = 2 * n => m = n) /\ (2 * m - 1 = 2 * n - 1 => m = n)
  OBVIOUS
<1> QED BY <1>1, AttendanceJobParts

LEMMA DueJob ==
  ASSUME AttendanceInv, QueueShape, NEW j \in AttendanceJobs, Rank(j) = Due
  PROVE  /\ j[2] = opened
         /\ j[1] = "in" <=> Open
         /\ j[1] = "out" <=> ~Open
<1>1. \A m, n \in Nat : 2 * m # 2 * n - 1 /\ (2 * m = 2 * n => m = n) /\ (2 * m - 1 = 2 * n - 1 => m = n)
  OBVIOUS
<1>2. opened \in Nat
  BY SessionsThere
<1> QED BY <1>1, <1>2, AttendanceJobParts DEF Due

\* What taking a job does to the attendance jobs.
LEMMA TakeMove ==
  ASSUME QueueShape, NEW k \in Slots, NEW j \in DOMAIN job, Take(k, j, "state"), UNCHANGED req
  PROVE  /\ \A i \in AttendanceJobs : Outstanding(i)' <=> Outstanding(i)
         /\ \A l \in Slots : \A i \in AttendanceJobs : OnSlot(l, i)' <=> OnSlot(l, i) \/ (l = k /\ i = j)
         /\ \A i \in AttendanceJobs : i # j => /\ StateWritten(i)' <=> StateWritten(i)
                                               /\ UserWritten(i)' <=> UserWritten(i)
         /\ ~StateWritten(j)' /\ ~UserWritten(j)'
<1> DEFINE to == [step |-> "state", job |-> j, read |-> {}]
<1>1. /\ to.step = "state" /\ to.job = j /\ to # Free /\ j \in JobIds
      /\ slot' = [slot EXCEPT ![k] = to] /\ job' = [job EXCEPT ![j] = "active"]
      /\ job[j] = "queued" /\ slot[k] = Free
  BY FreeIsNoStep DEF Take, QueueShape
<1> HIDE DEF to
<1>2. \A l \in Slots : slot'[l] = IF l = k THEN to ELSE slot[l]
  BY <1>1 DEF QueueShape
<1>3. job'[j] = "active" /\ \A i \in JobIds : i # j => job'[i] = job[i]
  BY <1>1 DEF QueueShape
<1>4. ASSUME NEW i \in AttendanceJobs PROVE Outstanding(i)' <=> Outstanding(i)
  BY <1>1, <1>3, AttendanceJobParts DEF Outstanding, Announces
<1>5. \A l \in Slots : \A i : OnSlot(l, i)' <=> OnSlot(l, i) \/ (l = k /\ i = j)
  BY <1>1, <1>2 DEF OnSlot
<1>6. ASSUME NEW i \in AttendanceJobs, i # j
      PROVE  (StateWritten(i)' <=> StateWritten(i)) /\ (UserWritten(i)' <=> UserWritten(i))
  <2>1. job'[i] = job[i]
    BY <1>3, <1>6, AttendanceJobParts
  <2>2. \A l \in Slots : /\ OnSlot(l, i)' <=> OnSlot(l, i)
                         /\ OnSlot(l, i) => slot'[l].step = slot[l].step
    BY <1>1, <1>2, <1>5, <1>6 DEF OnSlot
  <2> QED BY <2>1, <2>2 DEF StateWritten, UserWritten, Passed
<1>7. ~StateWritten(j)' /\ ~UserWritten(j)'
  <2>1. \A l \in Slots : OnSlot(l, j)' => slot'[l].step = "state"
    BY <1>1, <1>2, <1>5 DEF OnSlot, QueueShape
  <2> QED BY <1>3, <2>1 DEF StateWritten, UserWritten, Passed
<1> QED BY <1>4, <1>5, <1>6, <1>7

\* What a step of a handler that goes on does to them.
LEMMA ContinueMove ==
  ASSUME QueueShape, NEW k \in Slots, slot[k] # Free, NEW step \in HandlerSteps, NEW read,
         Continue(k, step, read), UNCHANGED req
  PROVE  /\ \A i \in AttendanceJobs : Outstanding(i)' <=> Outstanding(i)
         /\ \A l \in Slots : \A i \in AttendanceJobs : OnSlot(l, i)' <=> OnSlot(l, i)
         /\ \A i \in AttendanceJobs : i # slot[k].job => /\ StateWritten(i)' <=> StateWritten(i)
                                                         /\ UserWritten(i)' <=> UserWritten(i)
         /\ \A i \in AttendanceJobs : i = slot[k].job =>
              /\ StateWritten(i) <=> slot[k].step # "state"
              /\ UserWritten(i) <=> slot[k].step \in {"read", "write", "done"}
              /\ StateWritten(i)' <=> step # "state"
              /\ UserWritten(i)' <=> step \in {"read", "write", "done"}
<1> DEFINE to == [step |-> step, job |-> slot[k].job, read |-> read]
<1>1. /\ to.step = step /\ to.job = slot[k].job /\ to # Free
      /\ slot' = [slot EXCEPT ![k] = to] /\ job' = job
  BY FreeIsNoStep DEF Continue, HandlerSteps
<1> HIDE DEF to
<1>2. \A l \in Slots : slot'[l] = IF l = k THEN to ELSE slot[l]
  BY <1>1 DEF QueueShape
<1>3. \A i \in AttendanceJobs : Outstanding(i)' <=> Outstanding(i)
  BY <1>1 DEF Outstanding, Announces
<1>4. \A l \in Slots : \A i : OnSlot(l, i)' <=> OnSlot(l, i)
  BY <1>1, <1>2 DEF OnSlot
<1>5. ASSUME NEW i \in AttendanceJobs, i # slot[k].job
      PROVE  (StateWritten(i)' <=> StateWritten(i)) /\ (UserWritten(i)' <=> UserWritten(i))
  <2>1. \A l \in Slots : /\ OnSlot(l, i)' <=> OnSlot(l, i)
                         /\ OnSlot(l, i) => slot'[l].step = slot[l].step
    BY <1>2, <1>4, <1>5 DEF OnSlot
  <2> QED BY <1>1, <2>1 DEF StateWritten, UserWritten, Passed
<1>6. ASSUME NEW i \in AttendanceJobs, i = slot[k].job
      PROVE  /\ StateWritten(i) <=> slot[k].step # "state"
             /\ UserWritten(i) <=> slot[k].step \in {"read", "write", "done"}
             /\ StateWritten(i)' <=> step # "state"
             /\ UserWritten(i)' <=> step \in {"read", "write", "done"}
  <2>1. \A l \in Slots : OnSlot(l, i) <=> l = k
    BY <1>6 DEF OnSlot, QueueShape
  <2>2. \A l \in Slots : OnSlot(l, i)' <=> l = k
    BY <1>4, <2>1
  <2>3. job[i] = "active" /\ job'[i] = "active" /\ slot'[k].step = step
    BY <1>1, <1>2, <1>6 DEF QueueShape
  <2>4. slot[k].step \in HandlerSteps
    BY DEF QueueShape
  <2> QED BY <2>1, <2>2, <2>3, <2>4 DEF StateWritten, UserWritten, Passed, HandlerSteps
<1> QED BY <1>3, <1>4, <1>5, <1>6

\* An attempt ends: one of a location update, one that wrote everything, or one that
\* throws.
LEMMA MirrorEnd ==
  ASSUME AttendanceInv, QueueShape, MirrorInv, NEW k \in Slots, slot[k] # Free,
         Done(k) \/ Throw(k), Done(k) => slot[k].job \notin AttendanceJobs \/ slot[k].step = "done",
         UNCHANGED <<opened, closed, req, taken, ordered, lost, lastState, activeUser>>
  PROVE  MirrorInv'
<1>1. /\ slot' = [slot EXCEPT ![k] = Free]
      /\ \E state \in {"none", "queued", "failed"} :
           /\ job' = [job EXCEPT ![slot[k].job] = state]
           /\ state = "none" => Done(k)
  BY DEF Done, Throw
<1>2. PICK state \in {"none", "queued", "failed"} :
        job' = [job EXCEPT ![slot[k].job] = state] /\ (state = "none" => Done(k))
  BY <1>1
<1>3. slot[k].job \in JobIds /\ job[slot[k].job] = "active"
  BY DEF QueueShape
<1>4. \A l \in Slots : slot'[l] = IF l = k THEN Free ELSE slot[l]
  BY <1>1 DEF QueueShape
<1>5. job'[slot[k].job] = state /\ \A i \in JobIds : i # slot[k].job => job'[i] = job[i]
  BY <1>2, <1>3 DEF QueueShape
<1>6. \A l \in Slots : \A i : OnSlot(l, i)' <=> OnSlot(l, i) /\ l # k
  BY <1>4 DEF OnSlot
<1>7. ASSUME NEW i \in AttendanceJobs PROVE Outstanding(i)' => Outstanding(i)
  BY <1>3, <1>5, AttendanceJobParts DEF Outstanding, Announces
<1>8. ASSUME NEW i \in AttendanceJobs, ordered
      PROVE  /\ Outstanding(i) => Outstanding(i)' \/ Rank(i) = taken
             /\ StateWritten(i)' => StateWritten(i)
             /\ UserWritten(i)' => UserWritten(i)
  <2>1. CASE i = slot[k].job
    <3>1. OnSlot(k, i) /\ Rank(i) = taken
      BY <1>8, <2>1 DEF OnSlot, MirrorInv, OneAtATime
    <3>2. \A l \in Slots : ~OnSlot(l, i)'
      BY <1>6, <2>1 DEF OnSlot, QueueShape
    <3>3. job'[i] = "none" => slot[k].step = "done"
      BY <1>2, <1>5, <2>1
    <3>4. StateWritten(i)' \/ UserWritten(i)' => job'[i] = "none"
      BY <3>2 DEF StateWritten, UserWritten, Passed
    <3>5. slot[k].step = "done" => StateWritten(i) /\ UserWritten(i)
      BY <3>1 DEF StateWritten, UserWritten, Passed
    <3> QED BY <3>1, <3>3, <3>4, <3>5
  <2>2. CASE i # slot[k].job
    <3>1. job'[i] = job[i]
      BY <1>5, <2>2, AttendanceJobParts
    <3>2. \A l \in Slots : OnSlot(l, i)' => OnSlot(l, i) /\ slot'[l].step = slot[l].step
      BY <1>4, <1>6
    <3> QED BY <3>1, <3>2 DEF StateWritten, UserWritten, Passed, Outstanding, Announces
  <2> QED BY <2>1, <2>2
<1>9. lost' \in BOOLEAN /\ (lost => lost')
  BY DEF MirrorInv, Real
<1> QED BY <1>6, <1>7, <1>8, <1>9, Recede

\* A step of a handler that writes neither of the two rows.
LEMMA MirrorGoesOn ==
  ASSUME AttendanceInv, QueueShape, MirrorInv, NEW k \in Slots, slot[k] # Free,
         NEW step \in HandlerSteps, NEW read, Continue(k, step, read),
         \/ slot[k].job \notin AttendanceJobs
         \/ slot[k].step \in {"read", "write"}
         \/ lost',
         UNCHANGED <<opened, closed, req, taken, ordered, lastState, activeUser>>,
         lost' \in BOOLEAN, lost => lost'
  PROVE  MirrorInv'
<1>1. /\ \A i \in AttendanceJobs : Outstanding(i)' <=> Outstanding(i)
      /\ \A l \in Slots : \A i \in AttendanceJobs : OnSlot(l, i)' <=> OnSlot(l, i)
  BY ContinueMove
<1>2. ASSUME ~lost', NEW i \in AttendanceJobs
      PROVE  (StateWritten(i)' => StateWritten(i)) /\ (UserWritten(i)' => UserWritten(i))
  <2>1. CASE i # slot[k].job
    BY <2>1, ContinueMove
  <2>2. CASE i = slot[k].job
    <3>1. slot[k].step \in {"read", "write"}
      BY <1>2, <2>2
    <3> QED BY <2>2, <3>1, ContinueMove
  <2> QED BY <2>1, <2>2
<1> QED BY <1>1, <1>2, Recede

\* The upsert of employee_last_state, done.
LEMMA MirrorState ==
  ASSUME AttendanceInv, QueueShape, MirrorInv, NEW k \in Slots, NEW j \in AttendanceJobs,
         OnSlot(k, j), slot[k].step = "state", Continue(k, "active", {}),
         lastState' = [session |-> j[2], in |-> j[1] = "in"],
         UNCHANGED <<opened, closed, req, taken, ordered, lost, activeUser>>
  PROVE  MirrorInv'
<1>1. slot[k] # Free /\ slot[k].job = j /\ "active" \in HandlerSteps
  BY DEF OnSlot, HandlerSteps
<1>2. /\ \A i \in AttendanceJobs : Outstanding(i)' <=> Outstanding(i)
      /\ \A l \in Slots : \A i \in AttendanceJobs : OnSlot(l, i)' <=> OnSlot(l, i)
  BY <1>1, ContinueMove
<1>3. /\ \A i \in AttendanceJobs : i # j => (StateWritten(i)' <=> StateWritten(i))
      /\ \A i \in AttendanceJobs : UserWritten(i)' => UserWritten(i)
  BY <1>1, ContinueMove
<1>4. Due' = Due /\ Open' = Open
  BY DEF Due, Open
<1>5. Real' /\ OneAtATime'
  BY <1>2, <1>4 DEF MirrorInv, Real, OneAtATime
<1>6. Covered'
  BY <1>2, SessionsThere, JobOfSession DEF MirrorInv, Covered
<1>7. Regular' => Regular
  BY <1>2 DEF Regular, Overtaken
<1>8. Floor'
  BY <1>3, <1>7, JobOfSession DEF MirrorInv, Floor
<1>9. ASSUME Regular', NEW i \in AttendanceJobs, Rank(i) = taken, taken = Due
      PROVE  /\ lastState' = [session |-> opened, in |-> Open]
             /\ UserWritten(i)' => activeUser = IF Open THEN opened ELSE 0
  <2>1. i = j
    BY <1>7, <1>9, RankTells DEF MirrorInv, OneAtATime, Regular
  <2>2. lastState' = [session |-> opened, in |-> Open]
    <3>1. j[2] = opened /\ (j[1] = "in" <=> Open)
      BY <1>9, <2>1, DueJob
    <3>2. CASE Open
      <4>1. Open = TRUE /\ (j[1] = "in") = TRUE
        BY <3>1, <3>2 DEF Open
      <4> QED BY <3>1, <4>1
    <3>3. CASE ~Open
      <4>1. Open = FALSE /\ (j[1] = "in") = FALSE
        BY <3>1, <3>3 DEF Open
      <4> QED BY <3>1, <4>1
    <3> QED BY <3>2, <3>3
  <2>3. UserWritten(i)' => activeUser = IF Open THEN opened ELSE 0
    BY <1>3, <1>7, <1>9 DEF MirrorInv, Mirrored
  <2> QED BY <2>2, <2>3
<1>10. Mirrored'
  BY <1>4, <1>9 DEF Mirrored
<1> QED BY <1>5, <1>6, <1>8, <1>10 DEF MirrorInv

\* The row of active_users, upserted or deleted.
LEMMA MirrorActive ==
  ASSUME AttendanceInv, QueueShape, MirrorInv, NEW k \in Slots, NEW j \in AttendanceJobs,
         OnSlot(k, j), slot[k].step = "active", Continue(k, "read", {}),
         activeUser' = IF j[1] = "in" THEN j[2] ELSE IF activeUser = j[2] THEN 0 ELSE activeUser,
         UNCHANGED <<opened, closed, req, taken, ordered, lost, lastState>>
  PROVE  MirrorInv'
<1>1. slot[k] # Free /\ slot[k].job = j /\ "read" \in HandlerSteps
  BY DEF OnSlot, HandlerSteps
<1>2. /\ \A i \in AttendanceJobs : Outstanding(i)' <=> Outstanding(i)
      /\ \A l \in Slots : \A i \in AttendanceJobs : OnSlot(l, i)' <=> OnSlot(l, i)
  BY <1>1, ContinueMove
<1>3. /\ \A i \in AttendanceJobs : i # j => (UserWritten(i)' <=> UserWritten(i))
      /\ \A i \in AttendanceJobs : StateWritten(i)' => StateWritten(i)
  BY <1>1, ContinueMove
<1>4. Due' = Due /\ Open' = Open
  BY DEF Due, Open
<1>5. j[2] \in 1..opened /\ opened \in Nat
  <2>1. Outstanding(j)
    BY <1>1 DEF QueueShape, Outstanding
  <2> QED BY <2>1, SessionsThere DEF MirrorInv, Real
<1>6. Real' /\ OneAtATime'
  <2>1. activeUser' \in Nat /\ activeUser' <= opened
    BY <1>5 DEF MirrorInv, Real
  <2>2. Real'
    BY <1>2, <1>4, <2>1 DEF MirrorInv, Real
  <2> QED BY <1>2, <2>2 DEF MirrorInv, OneAtATime
<1>7. Covered'
  BY <1>2, SessionsThere, JobOfSession DEF MirrorInv, Covered
<1>8. Regular' => Regular
  BY <1>2 DEF Regular, Overtaken
<1>9. Regular' => Rank(j) = taken
  BY <1>8 DEF MirrorInv, OneAtATime, Regular
<1>10. ASSUME Regular', NEW s \in Sessions,
             taken = 2 * s \/ (taken = 2 * s - 1 /\ UserWritten(In(s))')
       PROVE  activeUser' = 0 \/ activeUser' >= s
  <2>0. activeUser \in Nat
    BY DEF MirrorInv, Real
  <2>1. CASE taken = 2 * s
    <3>1. j = Out(s) /\ j[1] = "out" /\ j[2] = s
      BY <1>9, <1>10, <2>1, JobOfSession, RankTells
    <3>2. activeUser = 0 \/ activeUser >= s
      BY <1>8, <1>10, <2>1 DEF MirrorInv, Floor
    <3>3. activeUser' = IF activeUser = s THEN 0 ELSE activeUser
      BY <3>1
    <3> QED BY <3>2, <3>3
  <2>2. CASE taken = 2 * s - 1
    <3>1. j = In(s) /\ j[1] = "in" /\ j[2] = s
      BY <1>9, <1>10, <2>2, JobOfSession, RankTells
    <3>2. activeUser' = s /\ s \in Nat
      BY <3>1, JobOfSession
    <3> QED BY <3>2
  <2> QED BY <1>10, <2>1, <2>2
<1>11. Floor'
  BY <1>10 DEF Floor
<1>12. ASSUME Regular', NEW i \in AttendanceJobs, Rank(i) = taken, taken = Due
       PROVE  /\ StateWritten(i)' => lastState = [session |-> opened, in |-> Open]
              /\ activeUser' = IF Open THEN opened ELSE 0
  <2>1. i = j
    BY <1>9, <1>12, RankTells
  <2>2. j[2] = opened /\ (j[1] = "in" <=> Open) /\ (j[1] = "out" <=> ~Open)
    BY <1>12, <2>1, DueJob
  <2>3. CASE Open
    BY <2>2, <2>3, <1>3, <1>8, <1>12 DEF MirrorInv, Mirrored
  <2>4. CASE ~Open
    <3>1. activeUser = 0 \/ activeUser >= opened
      <4>1. opened \in Sessions /\ taken = 2 * opened
        BY <1>5, <1>12, <2>4, SessionsThere DEF Due
      <4> QED BY <1>8, <1>12, <4>1 DEF MirrorInv, Floor
    <3>2. activeUser \in Nat /\ activeUser <= opened
      BY DEF MirrorInv, Real
    <3>3. activeUser = 0 \/ activeUser = opened
      BY <1>5, <3>1, <3>2
    <3>4. activeUser' = 0
      BY <2>2, <2>4, <3>3
    <3> QED BY <1>3, <1>8, <1>12, <2>4, <3>4 DEF MirrorInv, Mirrored
  <2> QED BY <2>3, <2>4
<1>13. Mirrored'
  BY <1>4, <1>12 DEF Mirrored
<1> QED BY <1>6, <1>7, <1>11, <1>13 DEF MirrorInv

LEMMA MirrorSlot ==
  ASSUME AttendanceInv, QueueShape, MirrorInv, ioErrors \in Nat, NEW k \in Slots, SlotStep(k)
  PROVE  MirrorInv'
<1>0. /\ slot[k] # Free /\ slot[k].job \in JobIds
      /\ lost \in BOOLEAN
      /\ UNCHANGED <<opened, closed, req, taken, ordered>>
      /\ IoError => ioErrors' # ioErrors
      /\ NoIoError => ioErrors' = ioErrors
  <2>1. slot[k] # Free /\ UNCHANGED <<opened, closed, req, taken, ordered>>
    BY DEF SlotStep, WriteState, WriteActiveUser, ReadTotals, WriteTotals, FinishJob, Runs, rows, history
  <2> QED BY <2>1 DEF QueueShape, IoError, NoIoError, MirrorInv, Real
<1>1. CASE WriteState(k)
  <2>0. slot[k].step = "state" /\ UNCHANGED <<lost, activeUser>>
    BY <1>1 DEF WriteState, Runs, history
  <2>1. CASE Throw(k) /\ IoError
    <3>1. lastState' = lastState
      BY <1>0, <1>1, <2>1 DEF WriteState
    <3>2. ~Done(k)
      BY <1>0, <2>1 DEF Throw, Done, QueueShape
    <3> QED BY <1>0, <2>0, <2>1, <3>1, <3>2, MirrorEnd
  <2>2. CASE Continue(k, "active", {}) /\ NoIoError /\ slot[k].job[1] = "loc"
    <3>1. lastState' = lastState /\ slot[k].job \notin AttendanceJobs /\ "active" \in HandlerSteps
      BY <1>0, <1>1, <2>2, AttendanceJobParts DEF WriteState, HandlerSteps
    <3> QED BY <1>0, <2>0, <2>2, <3>1, MirrorGoesOn
  <2>3. CASE Continue(k, "active", {}) /\ NoIoError /\ slot[k].job[1] # "loc"
    <3>1. PICK j \in AttendanceJobs : j = slot[k].job
      BY <1>0, <2>3 DEF JobIds, AttendanceJobs
    <3>2. OnSlot(k, j) /\ lastState' = [session |-> j[2], in |-> j[1] = "in"]
      BY <1>0, <1>1, <2>3, <3>1 DEF WriteState, OnSlot
    <3> QED BY <1>0, <2>0, <2>3, <3>2, MirrorState
  <2> QED BY <1>1, <2>1, <2>2, <2>3 DEF WriteState, Statement
<1>2. CASE WriteActiveUser(k)
  <2>0. slot[k].step = "active" /\ lastState' = lastState
    BY <1>2 DEF WriteActiveUser, Runs
  <2>1. CASE slot[k].job[1] = "in"
    <3>0. /\ lost' = lost
          /\ activeUser' = IF ioErrors' # ioErrors THEN activeUser ELSE slot[k].job[2]
          /\ Statement(k, "read")
      BY <1>2, <2>1 DEF WriteActiveUser
    <3>1. PICK j \in AttendanceJobs : j = slot[k].job
      BY <1>0, <2>1 DEF JobIds, AttendanceJobs
    <3>2. OnSlot(k, j)
      BY <1>0, <3>1 DEF OnSlot
    <3>3. CASE Throw(k) /\ IoError
      <4>1. activeUser' = activeUser
        BY <1>0, <3>0, <3>3
      <4>2. ~Done(k)
        BY <1>0, <3>3 DEF Throw, Done, QueueShape
      <4> QED BY <1>0, <2>0, <3>0, <3>3, <4>1, <4>2, MirrorEnd
    <3>4. CASE Continue(k, "read", {}) /\ NoIoError
      <4>1. activeUser' = j[2] /\ j[1] = "in"
        BY <1>0, <2>1, <3>0, <3>1, <3>4
      <4> QED BY <1>0, <2>0, <3>0, <3>2, <3>4, <4>1, MirrorActive
    <3> QED BY <3>0, <3>3, <3>4 DEF Statement
  <2>2. CASE slot[k].job[1] = "out"
    <3>0. /\ Continue(k, "read", {})
          /\ \/ /\ activeUser' = IF activeUser = slot[k].job[2] THEN 0 ELSE activeUser
                /\ lost' = lost
             \/ lost' = TRUE /\ activeUser' = activeUser
      BY <1>2, <2>2 DEF WriteActiveUser
    <3>1. PICK j \in AttendanceJobs : j = slot[k].job
      BY <1>0, <2>2 DEF JobIds, AttendanceJobs
    <3>2. OnSlot(k, j) /\ j[1] # "in" /\ "read" \in HandlerSteps
      BY <1>0, <2>2, <3>1 DEF OnSlot, HandlerSteps
    <3>3. CASE activeUser' = (IF activeUser = slot[k].job[2] THEN 0 ELSE activeUser) /\ lost' = lost
      BY <1>0, <2>0, <3>0, <3>1, <3>2, <3>3, MirrorActive
    <3>4. CASE lost' = TRUE /\ activeUser' = activeUser
      BY <1>0, <2>0, <3>0, <3>2, <3>4, MirrorGoesOn
    <3> QED BY <3>0, <3>3, <3>4
  <2>3. CASE slot[k].job[1] = "loc"
    <3>1. /\ Continue(k, "done", {}) /\ UNCHANGED <<activeUser, lost>>
          /\ slot[k].job \notin AttendanceJobs /\ "done" \in HandlerSteps
      BY <1>2, <2>3, AttendanceJobParts DEF WriteActiveUser, HandlerSteps
    <3> QED BY <1>0, <2>0, <3>1, MirrorGoesOn
  <2> QED BY <1>2, <2>1, <2>2, <2>3 DEF WriteActiveUser
<1>3. CASE ReadTotals(k)
  <2>1. /\ slot[k].step = "read" /\ "write" \in HandlerSteps
        /\ UNCHANGED <<lost, lastState, activeUser>>
        /\ \E read : Continue(k, "write", read)
    BY <1>3 DEF ReadTotals, Runs, history, mirrors, HandlerSteps
  <2>2. lost' \in BOOLEAN /\ (lost => lost')
    BY <1>0, <2>1
  <2> QED BY <1>0, <2>1, <2>2, MirrorGoesOn
<1>4. CASE WriteTotals(k)
  <2>1. /\ slot[k].step = "write" /\ "done" \in HandlerSteps
        /\ Continue(k, "done", {}) \/ Throw(k)
        /\ UNCHANGED <<lost, lastState, activeUser>>
    BY <1>4 DEF WriteTotals, Runs, history, HandlerSteps
  <2>2. lost' \in BOOLEAN /\ (lost => lost')
    BY <1>0, <2>1
  <2>3. CASE Continue(k, "done", {})
    BY <1>0, <2>1, <2>2, <2>3, MirrorGoesOn
  <2>4. CASE Throw(k)
    <3>1. ~Done(k)
      BY <1>0, <2>4 DEF Throw, Done, QueueShape
    <3> QED BY <1>0, <2>1, <2>4, <3>1, MirrorEnd
  <2> QED BY <2>1, <2>3, <2>4
<1>5. CASE FinishJob(k)
  <2>1. slot[k].step = "done" /\ Done(k) /\ UNCHANGED <<lost, lastState, activeUser>>
    BY <1>5 DEF FinishJob, Runs, history, mirrors
  <2> QED BY <1>0, <2>1, MirrorEnd
<1> QED BY <1>1, <1>2, <1>3, <1>4, <1>5 DEF SlotStep

LEMMA MirrorRun ==
  ASSUME AttendanceInv, QueueShape, MirrorInv, NEW k \in Slots, NEW j \in DOMAIN job, RunJob(k, j)
  PROVE  MirrorInv'
<1>1. /\ Take(k, j, "state") /\ j \in JobIds /\ job[j] = "queued"
      /\ UNCHANGED <<opened, closed, req, lost, lastState, activeUser>>
  BY DEF RunJob, Take, QueueShape, rows, mirrors
<1>2. /\ \A i \in AttendanceJobs : Outstanding(i)' <=> Outstanding(i)
      /\ \A l \in Slots : \A i \in AttendanceJobs : OnSlot(l, i)' <=> OnSlot(l, i) \/ (l = k /\ i = j)
      /\ \A i \in AttendanceJobs : i # j => /\ StateWritten(i)' <=> StateWritten(i)
                                            /\ UserWritten(i)' <=> UserWritten(i)
      /\ ~StateWritten(j)' /\ ~UserWritten(j)'
  BY <1>1, TakeMove
<1>3. CASE j \notin AttendanceJobs
  <2>1. UNCHANGED <<taken, ordered>>
    BY <1>3 DEF RunJob
  <2>2. lost' \in BOOLEAN /\ (lost => lost')
    BY <1>1 DEF MirrorInv, Real
  <2> QED BY <1>1, <1>2, <1>3, <2>1, <2>2, Recede
<1>4. CASE j \in AttendanceJobs
  <2>1. /\ taken' = Rank(j)
        /\ ordered' = (ordered /\ Rank(j) >= taken /\ ~Busy(AttendanceJobs))
    BY <1>4 DEF RunJob
  <2>2. ordered' \in BOOLEAN /\ (ordered' => ordered /\ Rank(j) >= taken /\ ~Busy(AttendanceJobs))
    BY <2>1
  <2>3. Outstanding(j) /\ Rank(j) \in Nat /\ taken \in Nat /\ opened \in Nat
    BY <1>1, <1>4, AttendanceJobParts DEF Outstanding, MirrorInv, Real, AttendanceInv, Shape
  <2>4. Due' = Due /\ Open' = Open
    BY <1>1 DEF Due, Open
  <2>5. Rank(j) <= Due
    <3>1. j[2] \in 1..opened /\ (j[1] = "out" => j[2] \in closed)
      BY <1>4, <2>3 DEF MirrorInv, Real
    <3>2. CASE j[2] = opened
      BY <1>4, <2>3, <3>1, <3>2, AttendanceJobParts DEF Due, Open
    <3>3. CASE j[2] # opened
      <4>1. j[2] + 1 <= opened /\ j[2] \in Nat
        BY <2>3, <3>1, <3>3
      <4>2. Rank(j) <= 2 * j[2]
        BY <1>4, <4>1, AttendanceJobParts
      <4>3. Due \in Nat /\ Due >= 2 * opened - 1
        BY SessionsThere
      <4> QED BY <2>3, <4>1, <4>2, <4>3
    <3> QED BY <3>2, <3>3
  <2>6. Real'
    <3>1. taken' \in Nat /\ taken' <= Due'
      BY <2>1, <2>3, <2>4, <2>5
    <3>2. lost' \in BOOLEAN
      BY <1>1 DEF MirrorInv, Real
    <3>3. \A i \in AttendanceJobs :
            Outstanding(i)' => i[2] \in 1..opened' /\ (i[1] = "out" => i[2] \in closed')
      BY <1>1, <1>2 DEF MirrorInv, Real
    <3>4. activeUser' \in Nat /\ activeUser' <= opened'
      BY <1>1 DEF MirrorInv, Real
    <3> QED BY <2>2, <3>1, <3>2, <3>3, <3>4 DEF Real
  <2>7. ordered' => \A l \in Slots : \A i \in AttendanceJobs : OnSlot(l, i)' => l = k /\ i = j
    <3>1. ~Busy(AttendanceJobs) => \A l \in Slots : \A i \in AttendanceJobs : ~OnSlot(l, i)
      BY DEF Busy, OnSlot
    <3> QED BY <1>2, <2>2, <3>1
  <2>8. OneAtATime'
    BY <2>1, <2>7 DEF OneAtATime
  <2>9. Covered'
    <3>1. ASSUME ordered', ~lost', NEW s \in 1..opened
          PROVE  Outstanding(In(s))' \/ taken' >= 2 * s - 1
      <4>1. In(s) \in AttendanceJobs /\ s \in Nat
        BY SessionsThere, JobOfSession
      <4>2. Outstanding(In(s)) \/ taken >= 2 * s - 1
        BY <1>1, <2>2, <3>1 DEF MirrorInv, Covered
      <4> QED BY <1>2, <2>1, <2>2, <2>3, <3>1, <4>1, <4>2
    <3>2. ASSUME ordered', ~lost', NEW s \in closed
          PROVE  Outstanding(Out(s))' \/ taken' >= 2 * s
      <4>1. Out(s) \in AttendanceJobs /\ s \in Nat
        BY SessionsThere, JobOfSession
      <4>2. Outstanding(Out(s)) \/ taken >= 2 * s
        BY <1>1, <2>2, <3>2 DEF MirrorInv, Covered
      <4> QED BY <1>2, <2>1, <2>2, <2>3, <3>2, <4>1, <4>2
    <3> QED BY <1>1, <3>1, <3>2 DEF Covered
  <2>10. Regular' => Regular /\ Rank(j) >= taken /\ ~Overtaken'
    <3>1. ordered' /\ Overtaken => Overtaken'
      <4> SUFFICES ASSUME ordered', NEW i \in AttendanceJobs, Outstanding(i), Rank(i) < taken
                   PROVE  Overtaken'
        BY DEF Overtaken
      <4>1. Rank(i) < Rank(j) /\ Outstanding(i)'
        BY <1>2, <2>2, <2>3, AttendanceJobParts
      <4> QED BY <2>1, <4>1 DEF Overtaken
    <3> QED BY <1>1, <2>2, <3>1 DEF Regular
  <2>11. ASSUME Regular', NEW s \in Sessions,
                taken' = 2 * s \/ (taken' = 2 * s - 1 /\ UserWritten(In(s))')
         PROVE  activeUser' = 0 \/ activeUser' >= s
    <3>1. taken' # 2 * s - 1
      BY <1>2, <1>4, <2>1, <2>11, JobOfSession, RankTells
    <3>2. taken' = 2 * s /\ j = Out(s) /\ j[2] = s
      BY <1>4, <2>1, <2>11, <3>1, JobOfSession, RankTells
    <3>3. CASE taken = 2 * s
      BY <1>1, <2>10, <2>11, <3>3 DEF MirrorInv, Floor
    <3>4. CASE taken # 2 * s
      <4>1. taken < 2 * s /\ s \in Nat
        BY <2>1, <2>3, <2>10, <2>11, <3>2, <3>4, JobOfSession
      <4>2. s \in 1..opened
        BY <1>4, <2>3, <3>2 DEF MirrorInv, Real
      <4>3. ~Outstanding(In(s))
        <5>1. In(s) \in AttendanceJobs /\ Rank(In(s)) = 2 * s - 1
          BY JobOfSession
        <5>2. Rank(In(s)) < taken'
          BY <3>2, <4>1, <5>1
        <5> QED BY <1>2, <2>10, <2>11, <5>1, <5>2 DEF Overtaken
      <4>4. taken = 2 * s - 1
        <5>1. taken >= 2 * s - 1
          BY <2>10, <2>11, <4>2, <4>3 DEF MirrorInv, Covered, Regular
        <5> QED BY <2>3, <4>1, <5>1
      <4>5. UserWritten(In(s))
        BY <4>3 DEF Outstanding, UserWritten, Passed
      <4> QED BY <1>1, <2>10, <2>11, <4>4, <4>5 DEF MirrorInv, Floor
    <3> QED BY <3>3, <3>4
  <2>12. Floor'
    BY <2>11 DEF Floor
  <2>13. Mirrored'
    BY <1>2, <1>4, <2>1, RankTells DEF Mirrored
  <2> QED BY <2>6, <2>8, <2>9, <2>12, <2>13 DEF MirrorInv
<1> QED BY <1>3, <1>4

LEMMA MirrorReconcile ==
  ASSUME AttendanceInv, QueueShape, MirrorInv, Reconcile
  PROVE  MirrorInv'
<1>1. UNCHANGED <<opened, closed, req, job, slot, taken, ordered, lost>>
  BY DEF Reconcile, rows, queue, history
<1>2. /\ Due' = Due /\ Open' = Open /\ (Regular' <=> Regular)
      /\ \A i \in AttendanceJobs : Outstanding(i)' <=> Outstanding(i)
      /\ \A l \in Slots : \A i \in AttendanceJobs : OnSlot(l, i)' <=> OnSlot(l, i)
      /\ \A i \in AttendanceJobs : /\ StateWritten(i)' <=> StateWritten(i)
                                   /\ UserWritten(i)' <=> UserWritten(i)
  BY <1>1 DEF Due, Open, Outstanding, Announces, OnSlot, StateWritten, UserWritten, Passed, Regular,
              Overtaken
<1>3. OneAtATime' /\ Covered'
  BY <1>1, <1>2, SessionsThere, JobOfSession DEF MirrorInv, OneAtATime, Covered
<1>4. CASE UNCHANGED <<lastState, activeUser>>
  BY <1>1, <1>2, <1>3, <1>4, JobOfSession DEF MirrorInv, Real, Floor, Mirrored
<1>5. CASE /\ lastState' = IF opened = 0 THEN lastState ELSE [session |-> opened, in |-> Open]
           /\ activeUser' = IF Open THEN opened ELSE 0
  <2>1. opened \in Nat
    BY SessionsThere
  <2>2. Real'
    <3>1. activeUser' \in Nat /\ activeUser' <= opened
      BY <1>5, <2>1
    <3> QED BY <1>1, <1>2, <3>1 DEF MirrorInv, Real
  <2>3. ASSUME NEW s \in Sessions, taken = 2 * s \/ taken = 2 * s - 1
        PROVE  activeUser' = 0 \/ activeUser' >= s
    <3>1. CASE Open
      <4>1. taken \in Nat /\ taken <= 2 * opened - 1 /\ s \in Nat
        BY <3>1, JobOfSession DEF MirrorInv, Real, Due
      <4>2. \A m, n \in Nat : 2 * m <= 2 * n - 1 \/ 2 * m - 1 <= 2 * n - 1 => n >= m
        OBVIOUS
      <4> QED BY <1>5, <2>1, <2>3, <3>1, <4>1, <4>2
    <3>2. CASE ~Open
      BY <1>5, <3>2
    <3> QED BY <3>1, <3>2
  <2>4. Floor'
    BY <1>1, <2>3 DEF Floor
  <2>5. ASSUME NEW i \in AttendanceJobs, Rank(i) = Due PROVE opened # 0
    BY <2>5, AttendanceJobParts DEF Due, Open
  <2>6. Mirrored'
    BY <1>1, <1>2, <1>5, <2>5 DEF Mirrored
  <2> QED BY <1>3, <2>2, <2>4, <2>6 DEF MirrorInv
<1> QED BY <1>4, <1>5 DEF Reconcile, mirrors

LEMMA MirrorCrash ==
  ASSUME AttendanceInv, QueueShape, MirrorInv, Crash
  PROVE  MirrorInv'
<1>1. /\ UNCHANGED <<opened, closed, taken, ordered, lastState, activeUser>>
      /\ req' = [r \in Requests |-> Idle] /\ Idle.step = "idle"
      /\ lost' = (lost \/ \E r \in Requests : req[r] # Idle)
      /\ slot' = [k \in Slots |-> Free]
      /\ job' = [j \in JobIds |-> IF job[j] = "active" THEN "queued" ELSE job[j]]
  BY DEF Crash, Stall, JobIds, rows, mirrors, Idle
<1>2. \A i \in AttendanceJobs : ~\E r \in Requests : Announces(r, i)'
  BY <1>1, AttendanceJobParts DEF Announces
<1>3. \A i \in AttendanceJobs : /\ job'[i] = "none" <=> job[i] = "none"
                                /\ Outstanding(i)' <=> job[i] # "none"
  BY <1>1, <1>2, AttendanceJobParts DEF Outstanding
<1>4. \A l \in Slots : \A i : ~OnSlot(l, i)'
  BY <1>1 DEF OnSlot
<1>5. lost' \in BOOLEAN /\ (lost => lost')
  BY <1>1
<1>6. ASSUME ~lost', NEW i \in AttendanceJobs
      PROVE  Outstanding(i) => Outstanding(i)'
  <2>1. \A r \in Requests : req[r] = Idle
    BY <1>1, <1>6
  <2>2. ~\E r \in Requests : Announces(r, i)
    BY <1>1, <2>1, AttendanceJobParts DEF Announces
  <2> QED BY <1>3, <2>2 DEF Outstanding
<1>7. \A i \in AttendanceJobs : /\ Outstanding(i)' => Outstanding(i)
                                /\ StateWritten(i)' => StateWritten(i)
                                /\ UserWritten(i)' => UserWritten(i)
  BY <1>3, <1>4 DEF Outstanding, StateWritten, UserWritten, Passed
<1> QED BY <1>1, <1>4, <1>5, <1>6, <1>7, Recede

\* The rest is not about the sessions, the jobs or the two rows.
LEMMA MirrorAside ==
  ASSUME AttendanceInv, QueueShape, MirrorInv,
         UNCHANGED <<opened, closed, req, job, slot, taken, ordered, lost, lastState, activeUser>>
  PROVE  MirrorInv'
<1>1. /\ \A i \in AttendanceJobs : /\ Outstanding(i)' <=> Outstanding(i)
                                   /\ StateWritten(i)' <=> StateWritten(i)
                                   /\ UserWritten(i)' <=> UserWritten(i)
      /\ \A l \in Slots : \A i \in AttendanceJobs : OnSlot(l, i)' <=> OnSlot(l, i)
  BY DEF Outstanding, Announces, OnSlot, StateWritten, UserWritten, Passed
<1>2. lost' \in BOOLEAN /\ (lost => lost')
  BY DEF MirrorInv, Real
<1> QED BY <1>1, <1>2, Recede

LEMMA FaultsCounted == ioErrors \in Nat /\ [Next]_vars => (ioErrors \in Nat)'
<1> SUFFICES ASSUME ioErrors \in Nat, [Next]_vars PROVE ioErrors' \in Nat
  OBVIOUS
<1>0. ASSUME IoError \/ UNCHANGED ioErrors PROVE ioErrors' \in Nat
  BY <1>0 DEF IoError
<1>1. ASSUME NEW r \in Requests, RequestStep(r) PROVE ioErrors' \in Nat
  BY <1>0, <1>1 DEF RequestStep, CreateSession, CloseSession, AutoCloseSession, AnnounceCheckIn,
     AnnounceCheckOut, Announce, ReadStart, StoreFix, RecordLocation, RecordLocationBatch,
     EnqueueLocationUpdate, NoIoError
<1>2. ASSUME NEW k \in Slots, SlotStep(k) PROVE ioErrors' \in Nat
  BY <1>0, <1>2 DEF SlotStep, WriteState, WriteActiveUser, ReadTotals, WriteTotals, FinishJob, Statement,
     NoIoError
<1>3. CASE \/ \E w \in late : Land(w)
           \/ \E r \in Requests : BeginCheckIn(r) \/ BeginCheckOut(r) \/ BeginDeactivation(r)
           \/ \E r \in Requests : \E s \in Sessions : \E p \in Points : BeginFix(r, s, p)
           \/ \E k \in Slots : \E j \in DOMAIN job : RunJob(k, j)
           \/ \E j \in filing : FileDeadLetter(j)
           \/ \E s \in Sessions : DistanceComputed(s)
           \/ DailyMetricsWritten \/ Reconcile \/ Crash
           \/ UNCHANGED vars
  BY <1>0, <1>3 DEF Land, BeginCheckIn, BeginCheckOut, BeginDeactivation, BeginFix, RunJob, FileDeadLetter,
                    DistanceComputed, DailyMetricsWritten, Reconcile, Crash, vars, NoIoError
<1> QED
  BY <1>1, <1>2, <1>3 DEF Next

LEMMA MirrorsStep ==
  AttendanceInv /\ QueueShape /\ MirrorInv /\ ioErrors \in Nat /\ [Next]_vars => MirrorInv'
<1> SUFFICES ASSUME AttendanceInv, QueueShape, MirrorInv, ioErrors \in Nat, [Next]_vars
             PROVE  MirrorInv'
  OBVIOUS
<1>0. AttendanceInv' /\ QueueShape'
  BY AttendanceStepInv, ShapeStep
<1>1. ASSUME NEW r \in Requests, RequestStep(r) PROVE MirrorInv'
  <2>1. CASE CreateSession(r)
    BY <1>0, <2>1, MirrorCreate
  <2>2. CASE CloseSession(r) \/ AutoCloseSession(r)
    BY <1>0, <2>2, MirrorClose
  <2>3. CASE AnnounceCheckIn(r)
    BY <2>3, MirrorAnnounce DEF AnnounceCheckIn
  <2>4. CASE AnnounceCheckOut(r)
    BY <2>4, MirrorAnnounce DEF AnnounceCheckOut
  <2>5. CASE ReadStart(r) \/ StoreFix(r)
    BY <2>5, QuietRequests
  <2> QED BY <1>1, <2>1, <2>2, <2>3, <2>4, <2>5 DEF RequestStep
<1>2. ASSUME NEW r \in Requests,
             \/ BeginCheckIn(r) \/ BeginCheckOut(r) \/ BeginDeactivation(r)
             \/ \E s \in Sessions : \E p \in Points : BeginFix(r, s, p)
      PROVE  MirrorInv'
  BY <1>2, QuietRequests
<1>3. CASE \/ \E w \in late : Land(w)
           \/ \E s \in Sessions : DistanceComputed(s)
           \/ \E j \in filing : FileDeadLetter(j)
           \/ DailyMetricsWritten
           \/ UNCHANGED vars
  <2>1. UNCHANGED <<opened, closed, req, job, slot, taken, ordered, lost, lastState, activeUser>>
    BY <1>3 DEF Land, DistanceComputed, FileDeadLetter, File, FileFails, DailyMetricsWritten, vars,
       rows, queue, mirrors, history
  <2> QED BY <2>1, MirrorAside
<1> QED
  BY <1>1, <1>2, <1>3, MirrorRun, MirrorSlot, MirrorReconcile, MirrorCrash DEF Next

LEMMA QuietMirrors == AttendanceInv /\ QueueShape /\ MirrorInv => MirrorsFollow
<1> SUFFICES ASSUME AttendanceInv, QueueShape, MirrorInv, Quiet, ordered, ~lost, opened > 0
             PROVE  /\ lastState.session = opened
                    /\ AdminProfile.is_checked_in = ~AdminProfile.recentSessions[1].closed
                    /\ activeUser = IF Open THEN opened ELSE 0
                    /\ ~staleWrite => MapMarkers \subseteq {lastState.session}
  BY DEF MirrorsFollow
<1>1. \A i \in AttendanceJobs : ~Outstanding(i) /\ job[i] = "none"
  <2>1. Idle.step = "idle"
    BY DEF Idle
  <2> QED BY <2>1, AttendanceJobParts DEF Quiet, Outstanding, Announces
<1>2. Regular
  BY <1>1 DEF Regular, Overtaken
<1>3. opened \in 1..opened /\ opened \in Sessions /\ opened \in Nat
  BY SessionsThere
<1>4. taken = Due
  <2>1. taken \in Nat /\ taken <= Due
    BY DEF MirrorInv, Real
  <2>2. CASE Open
    <3>1. taken >= 2 * opened - 1
      BY <1>1, <1>3, JobOfSession DEF MirrorInv, Covered
    <3> QED BY <1>3, <2>1, <2>2, <3>1 DEF Due
  <2>3. CASE ~Open
    <3>1. opened \in closed
      BY <2>3 DEF Open
    <3>2. taken >= 2 * opened
      BY <1>1, <1>3, <3>1, JobOfSession DEF MirrorInv, Covered
    <3> QED BY <1>3, <2>1, <2>3, <3>2 DEF Due
  <2> QED BY <2>2, <2>3
<1>5. PICK j \in AttendanceJobs : Rank(j) = Due
  <2>1. CASE Open
    BY <1>3, <2>1, JobOfSession DEF Due
  <2>2. CASE ~Open
    BY <1>3, <2>2, JobOfSession DEF Due
  <2> QED BY <2>1, <2>2
<1>6. /\ lastState = [session |-> opened, in |-> Open]
      /\ activeUser = IF Open THEN opened ELSE 0
  <2>1. StateWritten(j) /\ UserWritten(j)
    BY <1>1 DEF StateWritten, UserWritten, Passed
  <2> QED BY <1>2, <1>4, <1>5, <2>1 DEF MirrorInv, Mirrored
<1>7. AdminProfile.is_checked_in = ~AdminProfile.recentSessions[1].closed
  <2>1. OwnSessions[1] = Row(opened + 1 - 1) /\ opened + 1 - 1 = opened
    BY <1>3 DEF OwnSessions
  <2>2. AdminProfile.is_checked_in = Open
    BY <1>6 DEF AdminProfile
  <2>3. AdminProfile.recentSessions[1].closed = (opened \in closed)
    BY <2>1 DEF AdminProfile, Row
  <2>4. Open = ~(opened \in closed)
    BY DEF Open
  <2> QED BY <2>2, <2>3, <2>4
<1>8. ~staleWrite => MapMarkers \subseteq {lastState.session}
  <2>1. ~staleWrite => latest = Row(opened)
    BY DEF AttendanceInv, LatestExact
  <2>2. Row(opened).session = opened
    BY DEF Row
  <2> QED BY <1>6, <2>1, <2>2 DEF MapMarkers, LatestPerEmployee
<1> QED BY <1>6, <1>7, <1>8

\* Once nothing is left to do, is_checked_in and the row of active_users are
\* those of the sessions: however many requests, slots and attempts there are, if
\* the jobs ran one at a time and in order and none was lost, it takes no
\* reconciliation.
THEOREM MirrorsFollowSessions == SafetySpec => []MirrorsFollow
<1>1. Init => AttendanceInv /\ QueueShape /\ MirrorInv /\ ioErrors \in Nat
  BY AttendanceInitInv, InitMirrors DEF Init
<1> QED
  BY <1>1, AttendanceStepInv, ShapeStep, FaultsCounted, MirrorsStep, QuietMirrors, PTL DEF SafetySpec

=============================================================================
