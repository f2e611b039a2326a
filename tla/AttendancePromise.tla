--------------------------- MODULE AttendancePromise ---------------------------
(***************************************************************************)
(* What checking in and out promises an employee: one is in or out, a      *)
(* check-in opens the next session only for somebody who is out, and a     *)
(* check-out closes the session that is open.                              *)
(***************************************************************************)
EXTENDS Naturals

VARIABLES
  sessions,          \* sessions opened so far
  checkedIn          \* the last of them is open

promiseVars == <<sessions, checkedIn>>

PromiseInit == sessions = 0 /\ checkedIn = FALSE

PromiseCheckIn ==
  /\ ~checkedIn
  /\ checkedIn' = TRUE
  /\ sessions' = sessions + 1

PromiseCheckOut ==
  /\ checkedIn
  /\ checkedIn' = FALSE
  /\ UNCHANGED sessions

Promise == PromiseInit /\ [][PromiseCheckIn \/ PromiseCheckOut]_promiseVars

=============================================================================
