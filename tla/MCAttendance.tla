----------------------------- MODULE MCAttendance -----------------------------
(* Instances of Attendance for TLC. *)
EXTENDS Attendance, TLC

MCSymmetry == Permutations(Requests) \cup Permutations(Slots)

\* The columns of employee_daily_metrics (baseline schema).
MCDailyColumns ==
  {"sessions", "distance_km", "duration_seconds", "expenses_count", "expenses_amount", "date"}

=============================================================================
