------------------------------- MODULE Employees ------------------------------
(***************************************************************************)
(* The employees of one organisation as the administrators see and switch  *)
(* them: setStatus of employees.controller.ts, with the ban of the auth    *)
(* user nobody waits for, and the lists of employees.repository.ts over    *)
(* employees and employee_last_state.                                      *)
(*                                                                         *)
(* What the snapshot worker and the reconciliation write (Attendance) is   *)
(* any change of a row here.  Times are ages in ticks, up to one beyond    *)
(* the 24 hours.  Every employee here has an auth user; the session that a *)
(* deactivation closes is in Attendance.                                   *)
(***************************************************************************)
EXTENDS Integers, FiniteSets

CONSTANTS
  Employed,          \* the number of employees, here 1..Employed in the order of their codes
  Admins,            \* concurrent setStatus requests
  Recent,            \* RECENT_WINDOW_MS, in ticks
  PageSizes,         \* values of query.limit
  MaxSwitches        \* bound: setStatus requests

ASSUME EmployeesConstants ==
  /\ Employed \in Nat /\ Recent \in Nat \ {0} /\ PageSizes \subseteq Nat \ {0} /\ MaxSwitches \in Nat

VARIABLES
  active,            \* employees.is_active
  banned,            \* the auth user of an employee
  switch,            \* admin -> NoSwitch, or [of, to]: found, not yet written
  bans,              \* updateUserById calls on their way: [of, to]
  row,               \* employee_last_state: employee -> NoRow, or [in, out]
  crossed,           \* history: employees two switches of which overlapped, or whose ban failed
  switches

employeesVars == <<active, banned, switch, bans, row, crossed, switches>>

Staff == 1..Employed
NoSwitch == [of |-> 0]
NoRow == [out |-> -2]
Never == -1
Ages == Never..(Recent + 1)
StateRows == [in : BOOLEAN, out : Ages]

EmployeesTypeOK ==
  /\ active \in [Staff -> BOOLEAN] /\ banned \in [Staff -> BOOLEAN]
  /\ switch \in [Admins -> {NoSwitch} \cup [of : Staff, to : BOOLEAN]]
  /\ bans \subseteq [of : Staff, to : BOOLEAN]
  /\ row \in [Staff -> {NoRow} \cup StateRows]
  /\ crossed \subseteq Staff /\ switches \in 0..MaxSwitches

EmployeesInit ==
  /\ active = [e \in Staff |-> TRUE] /\ banned = [e \in Staff |-> FALSE]
  /\ switch = [a \in Admins |-> NoSwitch] /\ bans = {}
  /\ row = [e \in Staff |-> NoRow]
  /\ crossed = {} /\ switches = 0

-----------------------------------------------------------------------------
(* Switching an employee on and off.                                       *)

Busy(e) == (\E a \in Admins : switch[a].of = e) \/ (\E b \in bans : b.of = e)

\* findById, for the user_id.
FindEmployee(a, e, to) ==
  /\ switch[a] = NoSwitch /\ switches < MaxSwitches
  /\ switch' = [switch EXCEPT ![a] = [of |-> e, to |-> to]]
  /\ crossed' = IF Busy(e) THEN crossed \cup {e} ELSE crossed
  /\ switches' = switches + 1
  /\ UNCHANGED <<active, banned, bans, row>>

\* Mutant: the auth user is only ever banned.
SetActiveStatusNoUnban(a) ==
  /\ switch[a] # NoSwitch
  /\ active' = [active EXCEPT ![switch[a].of] = switch[a].to]
  /\ bans' = bans \cup IF switch[a].to THEN {} ELSE {[of |-> switch[a].of, to |-> TRUE]}
  /\ switch' = [switch EXCEPT ![a] = NoSwitch]
  /\ UNCHANGED <<banned, row, crossed, switches>>

\* setActiveStatus, then a ban or its end, sent without waiting ...
SetActiveStatus(a) ==
  /\ switch[a] # NoSwitch
  /\ active' = [active EXCEPT ![switch[a].of] = switch[a].to]
  /\ bans' = bans \cup {[of |-> switch[a].of, to |-> ~switch[a].to]}
  /\ switch' = [switch EXCEPT ![a] = NoSwitch]
  /\ UNCHANGED <<banned, row, crossed, switches>>

\* ... an error of the update ends the request ...
SetActiveStatusFails(a) ==
  /\ switch[a] # NoSwitch
  /\ switch' = [switch EXCEPT ![a] = NoSwitch]
  /\ UNCHANGED <<active, banned, bans, row, crossed, switches>>

\* ... and an error of the ban is logged.
UpdateUserById(b) ==
  /\ b \in bans
  /\ bans' = bans \ {b}
  /\ \/ banned' = [banned EXCEPT ![b.of] = b.to] /\ UNCHANGED crossed
     \/ crossed' = crossed \cup {b.of} /\ UNCHANGED banned
  /\ UNCHANGED <<active, switch, row, switches>>

\* The rows of employee_last_state, as anything may leave them.
SnapshotChanges(e) ==
  /\ row' \in {[row EXCEPT ![e] = [in |-> TRUE, out |-> IF row[e] = NoRow THEN Never ELSE @.out]],
               [row EXCEPT ![e] = [in |-> FALSE, out |-> 0]],
               [row EXCEPT ![e] = [in |-> FALSE, out |-> IF row[e] = NoRow THEN Never ELSE @.out]]}
  /\ UNCHANGED <<active, banned, switch, bans, crossed, switches>>

Aged(age) == IF age \in {Never, Recent + 1} THEN age ELSE age + 1

HoursPass ==
  /\ row' = [e \in Staff |-> IF row[e] = NoRow THEN NoRow ELSE [row[e] EXCEPT !.out = Aged(@)]]
  /\ UNCHANGED <<active, banned, switch, bans, crossed, switches>>

EmployeesNext ==
  \/ \E a \in Admins : \E e \in Staff : \E to \in BOOLEAN : FindEmployee(a, e, to)
  \/ \E a \in Admins : SetActiveStatus(a) \/ SetActiveStatusFails(a)
  \/ \E b \in bans : UpdateUserById(b)
  \/ \E e \in Staff : SnapshotChanges(e)
  \/ HoursPass

EmployeesSpec == EmployeesInit /\ [][EmployeesNext]_employeesVars

-----------------------------------------------------------------------------
(* The lists of GET /admin/employees.                                      *)

\* query.active: "any", TRUE or FALSE.
Wanted(e, filter) == filter = "any" \/ active[e] = (filter = "true")

\* computeActivityStatus, in TypeScript.
Label(e) ==
  IF row[e] = NoRow THEN "INACTIVE"
  ELSE IF row[e].in THEN "ACTIVE"
  ELSE IF row[e].out # Never /\ row[e].out < Recent THEN "RECENT"
  ELSE "INACTIVE"

\* last_check_out_at >= now() - 24 hours, in SQL.
CheckedOutRecently(e) == row[e].out # Never /\ row[e].out <= Recent

IsActive(e) == row[e] # NoRow /\ row[e].in
IsRecent(e) == row[e] # NoRow /\ ~row[e].in /\ CheckedOutRecently(e)

\* The orders a query may return rows in: employee -> place.
Orders == {o \in [Staff -> Staff] : \A d, e \in Staff : o[d] = o[e] => d = e}

ByCode == [e \in Staff |-> e]

\* OFFSET and LIMIT over a set in an order.
Page(S, order, page, limit) ==
  {e \in S : LET before == Cardinality({d \in S : order[d] < order[e]})
             IN  before >= (page - 1) * limit /\ before < page * limit}

\* Mutant: at exactly 24 hours, both recent and inactive.
InactiveFromRecent(filter) ==
  {e \in Staff :
     /\ ~(row[e] # NoRow /\ (row[e].in \/ (row[e].out # Never /\ row[e].out < Recent)))
     /\ Wanted(e, filter)}

\* list_inactive_employees: NOT EXISTS, so that no row counts as inactive.
Inactive(filter) ==
  {e \in Staff :
     /\ ~(row[e] # NoRow /\ (row[e].in \/ CheckedOutRecently(e)))
     /\ Wanted(e, filter)}

\* A page of the snapshot's segments and the total it reports: cut before
\* query.active is applied.  It is ordered by last_check_in_at alone: where that is
\* NULL or the same in two rows, each query may order them anew.
SnapshotPage(segment, filter, order, page, limit) ==
  LET rows == {e \in Staff : IF segment = "active" THEN IsActive(e) ELSE IsRecent(e)} IN
  [shown |-> {e \in Page(rows, order, page, limit) : Wanted(e, filter)}, total |-> Cardinality(rows)]

InactivePage(filter, page, limit) ==
  [shown |-> Page(Inactive(filter), ByCode, page, limit), total |-> Cardinality(Inactive(filter))]

\* listWithLastStateBySegment.
ListBySegment(segment, filter, order, page, limit) ==
  IF segment = "inactive" THEN InactivePage(filter, page, limit)
  ELSE SnapshotPage(segment, filter, order, page, limit)

ListEmployees(filter, page, limit) ==
  LET rows == {e \in Staff : Wanted(e, filter)}
  IN  [shown |-> Page(rows, ByCode, page, limit), total |-> Cardinality(rows)]

\* listWithLastState without a segment: an outer join, so that the employees are
\* those of ListEmployees, which it falls back to.
ListWithLastState(filter, page, limit) == ListEmployees(filter, page, limit)

\* What a client has after the pages a total asks for.
Walk(List(_), limit) ==
  LET pages == (List(1).total + limit - 1) \div limit
  IN  UNION {List(p).shown : p \in 1..pages}

-----------------------------------------------------------------------------
(* Properties.                                                             *)

\* "NOT (ACTIVE OR RECENT), includes no-snapshot employees" (activity.ts): under
\* any filter, the pages of the three segments, asked for by three queries of two
\* kinds, show every employee of the whole list exactly once, under the label of
\* the segment; but for the tick of the 24 hours, on which SQL and TypeScript
\* differ.  In whatever order the rows of a segment come, as long as it is the
\* same for every page (ties and NULLs of last_check_in_at may not be, and then a
\* row can be shown twice and another not at all, though never under another label).
SegmentsPartition ==
  \A filter \in {"any", "true", "false"} : \A limit \in PageSizes : \A order \in Orders :
    LET Segment(segment) == Walk(LAMBDA p : ListBySegment(segment, filter, order, p, limit), limit)
        a == Segment("active")
        r == Segment("recent")
        i == Segment("inactive")
    IN  /\ a \cup r \cup i = Walk(LAMBDA p : ListWithLastState(filter, p, limit), limit)
        /\ a \cap r = {} /\ i \cap (a \cup r) = {}
        /\ \A e \in a : Label(e) = "ACTIVE"
        /\ \A e \in r : Label(e) = "RECENT" \/ row[e].out = Recent
        /\ \A e \in i : Label(e) = "INACTIVE"

\* An employee who is switched off cannot log in, and one who is switched on can,
\* once the calls have landed; unless two switches overlapped or a call failed.
BanFollows == \A e \in Staff \ crossed : ~Busy(e) => banned[e] = ~active[e]

=============================================================================
