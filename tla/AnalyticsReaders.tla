--------------------------- MODULE AnalyticsReaders ---------------------------
(***************************************************************************)
(* What the analytics API answers of the day: the organisation's summary   *)
(* and trend, a user's summary and the leaderboard are read from the daily *)
(* rows, the top performers from the sessions themselves.  Ranges of dates *)
(* are left out: every one here is the day.                                *)
(***************************************************************************)
EXTENDS Analytics, Integers, Sums

CONSTANTS
  Km, Seconds        \* session -> what it measures

ASSUME ReadersConstants ==
  /\ Sessions \subseteq Nat           \* in the order of their check-in
  /\ Employees \subseteq Nat          \* ids are ordered
  /\ IsFiniteSet(Employees)
  /\ Km \in [Sessions -> Nat] /\ Seconds \in [Sessions -> Nat]

Metrics == {"sessions", "distance", "duration"}

\* A session without a distance measures nothing yet.
Amount(metric) ==
  [s \in Sessions |->
     CASE metric = "sessions" -> 1
       [] metric = "distance" -> IF edition[s] = 0 THEN 0 ELSE Km[s]
       [] metric = "duration" -> IF edition[s] = 0 THEN 0 ELSE Seconds[s]]

Total(metric, S) == SumOver(Amount(metric), S)

\* getOrgDailyMetrics: the row of the organisation.
OrgDailyMetrics == [m \in Metrics |-> Total(m, InRow(Counted(orgDay)))]

\* getEmployeeMetricsForUser: that of an employee, zeros without.
EmployeeMetrics(e) == [m \in Metrics |-> Total(m, InRow(empDay[e]))]

\* getEmployeeMetricsAggregated: the employees with a row.
AggregatedEmployees == {e \in Employees : empDay[e] # {}}

OrgSummary == OrgDailyMetrics

\* One point of the trend, or none.
SessionTrend == IF Counted(orgDay) = {} THEN <<>> ELSE <<OrgDailyMetrics>>

HasSessions(e) == \E s \in Sessions : owner[s] = e

UserSummary(e) == IF HasSessions(e) THEN EmployeeMetrics(e) ELSE [m \in Metrics |-> 0]

\* GET /dashboard/my-summary, of a week that has this day only.
MySummary(e) == EmployeeMetrics(e)

\* GET /admin/dashboard, today's part.
AdminDashboard == [m \in {"sessions", "distance"} |-> Total(m, InRow(Counted(board)))]

\* How many members of S come before e: by total, then by the smaller key.
Place(S, total, key, e) ==
  Cardinality({a \in S : total[a] > total[e] \/ (total[a] = total[e] /\ key[a] < key[e])})

\* The first n of them, with their totals.
Ranking(S, total, key, n) ==
  [i \in 1..(IF n < Cardinality(S) THEN n ELSE Cardinality(S)) |->
     LET e == CHOOSE e \in S : Place(S, total, key, e) = i - 1
     IN [employee |-> e, total |-> total[e]]]

RowTotals(metric) == [e \in Employees |-> EmployeeMetrics(e)[metric]]
ById == [e \in Employees |-> e]

\* Mutant: of every employee, with a row or not.
LeaderboardOfAll(metric, n) == Ranking(Employees, RowTotals(metric), ById, n)

\* Those with a row of the day, ties by id.
Leaderboard(metric, n) == Ranking(AggregatedEmployees, RowTotals(metric), ById, n)

\* getSessionsWithEmployeeNames, grouped by employee.
SessionsOf(e) == {s \in Sessions : owner[s] = e}

Latest(e) == CHOOSE s \in SessionsOf(e) : \A t \in SessionsOf(e) : t <= s

\* Those with a session, open ones too; ties in the order of the rows, the
\* latest check-in first.
TopPerformers(metric, n) ==
  LET those == {e \in Employees : HasSessions(e)}
  IN Ranking(those, [e \in those |-> Total(metric, SessionsOf(e))], [e \in those |-> -Latest(e)], n)

\* Sessions that no row counts.
Missed == {s \in Sessions : ~IsCounted(s)}

\* Of a day that is settled, the readers of the rows tell the same: the summary of
\* the organisation is the sum of its users' summaries, a user's summary is what
\* the user's own dashboard says, and the administrators' dashboard says it too.
\* Those who read the sessions tell more by exactly the sessions that no row
\* counts, and a deactivation closed every one of these.  Where there are none,
\* both rankings have the same totals at every place.
ReadersAgree ==
  Settled /\ ~overlapped /\ Final = Sessions =>
    /\ \A m \in Metrics :
         OrgSummary[m] = SumOver([e \in Employees |-> UserSummary(e)[m]], Employees)
    /\ \A e \in Employees : MySummary(e) = UserSummary(e)
    /\ boardFailed \/ \A m \in DOMAIN AdminDashboard : AdminDashboard[m] = OrgSummary[m]
    /\ Missed \subseteq AutoClosed
    /\ \A m \in Metrics : \A e \in Employees :
         Total(m, SessionsOf(e)) = UserSummary(e)[m] + Total(m, SessionsOf(e) \cap Missed)
    /\ Missed = {} =>
         /\ \A m \in Metrics : \A n \in 1..Cardinality(Employees) :
              LET rows == Leaderboard(m, n)
                  sessions == TopPerformers(m, n)
              IN /\ DOMAIN rows = DOMAIN sessions
                 /\ \A i \in DOMAIN rows : rows[i].total = sessions[i].total
         /\ Sessions # {} => SessionTrend = <<OrgSummary>>

=============================================================================
