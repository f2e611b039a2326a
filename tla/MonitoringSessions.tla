-------------------------- MODULE MonitoringSessions --------------------------
(***************************************************************************)
(* startMonitoring and stopMonitoring of one administrator                 *)
(* (admin/monitoring.service.ts): a read, an insert under the unique index *)
(* one_active_monitoring_session, and a second read should it refuse.      *)
(***************************************************************************)
EXTENDS Naturals

CONSTANTS
  Calls,             \* startMonitoring calls, each made once
  MaxSessions        \* bound: sessions started

ASSUME MonitoringConstants == MaxSessions \in Nat

VARIABLES
  open,              \* the session with ended_at NULL, 0 if none
  started,           \* sessions so far
  call,              \* call -> "read", "insert", "reread", "done", "error"
  answer,            \* call -> the session it returned, 0 if none
  began,             \* history: call -> stops before its first read
  stops              \* history: how often a session was stopped

monitoringVars == <<open, started, call, answer, began, stops>>

MonitoringTypeOK ==
  /\ open \in 0..MaxSessions /\ started \in 0..MaxSessions /\ open <= started
  /\ call \in [Calls -> {"read", "insert", "reread", "done", "error"}]
  /\ answer \in [Calls -> 0..MaxSessions]
  /\ began \in [Calls -> 0..MaxSessions] /\ stops \in 0..MaxSessions

MonitoringInit ==
  /\ open = 0 /\ started = 0 /\ stops = 0
  /\ call = [c \in Calls |-> "read"]
  /\ answer = [c \in Calls |-> 0] /\ began = [c \in Calls |-> 0]

Answer(c, s) == call' = [call EXCEPT ![c] = "done"] /\ answer' = [answer EXCEPT ![c] = s]
GoTo(c, step) == call' = [call EXCEPT ![c] = step] /\ UNCHANGED answer

\* getActiveSession: "return existing active session if any".
GetActive(c) ==
  /\ call[c] = "read"
  /\ began' = [began EXCEPT ![c] = stops]
  /\ IF open # 0 THEN Answer(c, open) ELSE GoTo(c, "insert")
  /\ UNCHANGED <<open, started, stops>>

\* Mutant: the refusal of the index is surfaced.
StartSessionOrFail(c) ==
  /\ call[c] = "insert" /\ started < MaxSessions
  /\ IF open = 0
     THEN open' = started + 1 /\ started' = started + 1 /\ Answer(c, started + 1)
     ELSE GoTo(c, "error") /\ UNCHANGED <<open, started>>
  /\ UNCHANGED <<began, stops>>

StartSession(c) ==
  /\ call[c] = "insert" /\ started < MaxSessions
  /\ IF open = 0
     THEN open' = started + 1 /\ started' = started + 1 /\ Answer(c, started + 1)
     ELSE GoTo(c, "reread") /\ UNCHANGED <<open, started>>
  /\ UNCHANGED <<began, stops>>

\* "If a concurrent request already created the active row, return that row";
\* a 400 if it is gone by now.
GetActiveAgain(c) ==
  /\ call[c] = "reread"
  /\ IF open # 0 THEN Answer(c, open) ELSE GoTo(c, "error")
  /\ UNCHANGED <<open, started, began, stops>>

StopSession ==
  /\ open # 0 /\ open' = 0 /\ stops' = stops + 1
  /\ UNCHANGED <<started, call, answer, began>>

MonitoringNext ==
  \/ \E c \in Calls : GetActive(c) \/ StartSession(c) \/ GetActiveAgain(c)
  \/ StopSession

MonitoringSpec == MonitoringInit /\ [][MonitoringNext]_monitoringVars

-----------------------------------------------------------------------------
\* "Race-safe idempotency" (monitoring.service.ts): calls that overlap return one
\* session, and fail only if it was stopped between their two reads.
StartsAgree ==
  /\ \A c \in Calls : call[c] = "error" => stops > began[c]
  /\ \A c, d \in Calls :
       call[c] = "done" /\ call[d] = "done" /\ began[c] = stops /\ began[d] = stops
         => answer[c] = answer[d]

=============================================================================
