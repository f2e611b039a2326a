------------------------ MODULE DistancePipelineProofs ------------------------
(***************************************************************************)
(* Proofs about DistancePipeline: type correctness; a job that is given up *)
(* leaves its mark; and a session that is checked out is up to date, on    *)
(* its way or on record as failed, for any number of sessions, slots,      *)
(* requests, attempts, crashes and replays.                                *)
(***************************************************************************)
EXTENDS DistancePipeline, TLAPS

\* A job that waits or runs has an attempt left; the slot that runs it is the
\* only one that does; a request has no job to finish.
JobsAreOwned ==
  /\ \A s \in Sessions : job[s] \in {"queued", "active"} => made[s] < MaxAttempts
  /\ \A k \in Slots : calc[k] # Idle => job[calc[k].session] = "active"
  /\ \A k, l \in Slots :
       k # l /\ calc[k] # Idle /\ calc[l] # Idle => calc[k].session # calc[l].session
  /\ \A c \in Recalcs : calc[c].step # "finish"

\* A replay of dead letters removes no more entries than there are.
ReplayIsBacked ==
  /\ \A s \in Sessions : rtodo[s] <= dlq[s]
  /\ rpc = "wait" => call[OfReplay] # Idle /\ rtodo[call[OfReplay].session] > 0

TypeInv == TypeOK /\ JobsAreOwned /\ ReplayIsBacked

\* Whatever works for a session, its recalculation apart, began after the close.
StartsAfterClose ==
  /\ \A s \in Sessions : job[s] # "none" \/ intent[s] = "pending" \/ dlq[s] + lateDlq[s] > 0
                           => Closed(s)
  /\ \A s \in itodo : Closed(s)
  /\ \A c \in Callers : call[c] # Idle => Closed(call[c].session)
  /\ \A r \in Closers : closer[r].step \in {"enqueue", "intent"} => Closed(closer[r].session)

\* An enqueue under way is that of the session its caller means.
CallsMatch ==
  /\ \A r \in Closers : closer[r].step = "enqueue" =>
       call[OfCloser(r)] # Idle /\ call[OfCloser(r)].session = closer[r].session
  /\ \A s \in Sessions : call[OfRecovery(s)] # Idle => call[OfRecovery(s)].session = s

\* What a calculation is based on; a result of an open session is a midway one.
BasisIsRead ==
  /\ \A c \in Calculators : calc[c].step \in {"summary", "row"} =>
       /\ calc[c].basis <= edition[calc[c].session]
       /\ calc[c].basis = 1 => calc[c].session \in midway
  /\ \A s \in Sessions : ~Closed(s) /\ s \notin midway => status[s] # "done"

Plain(s) == ClosedOnce(s) /\ s \notin midway

Carried(s) == Fresh(s) \/ job[s] # "none" \/ status[s] = "failed"

\* As long as no call fails, "done" is true, and an enqueue that returned
\* without an error has left a job or a result.
DoneIsFresh ==
  ioErrors = 0 =>
    /\ \A s \in Sessions : Plain(s) /\ status[s] = "done" => Fresh(s)
    /\ \A c \in Calculators :
         calc[c].step = "row" /\ Plain(calc[c].session) =>
           summary[calc[c].session] = edition[calc[c].session]
    /\ \A k \in Slots :
         calc[k].step = "finish" /\ Plain(calc[k].session) => status[calc[k].session] # "pending"
    /\ \A c \in Callers :
         call[c].step = "ok" /\ Plain(call[c].session) => Carried(call[c].session)

CoverInv == StartsAfterClose /\ CallsMatch /\ BasisIsRead /\ DoneIsFresh /\ ClosedIsCovered

-----------------------------------------------------------------------------
(* What the helpers on calls and calculations do.                          *)

LEMMA CallerKinds ==
  /\ OfIntents \in Callers /\ OfReplay \in Callers
  /\ \A r \in Closers : OfCloser(r) \in Callers
  /\ \A s \in Sessions : OfRecovery(s) \in Callers
  /\ OfIntents # OfReplay
  /\ \A r \in Closers : OfCloser(r) # OfReplay /\ OfCloser(r) # OfIntents
  /\ \A s \in Sessions : OfRecovery(s) # OfReplay /\ OfRecovery(s) # OfIntents
  /\ \A r \in Closers, s \in Sessions : OfCloser(r) # OfRecovery(s)
  /\ \A r, q \in Closers : r # q => OfCloser(r) # OfCloser(q)
  /\ \A s, t \in Sessions : s # t => OfRecovery(s) # OfRecovery(t)
BY DEF Callers, OfIntents, OfReplay, OfCloser, OfRecovery

\* A step other than "idle" is that of a record with a session.
LEMMA Busy ==
  ASSUME TypeOK
  PROVE  /\ \A c \in Callers : call[c] # Idle \/ call[c].step # "idle" =>
              call[c] \in Calls /\ call[c].session \in Sessions
         /\ \A c \in Calculators : calc[c] # Idle \/ calc[c].step # "idle" =>
              calc[c] \in Calcs /\ calc[c].session \in Sessions
         /\ \A r \in Closers : closer[r] # Idle \/ closer[r].step # "idle" =>
              closer[r] \in Closing /\ closer[r].session \in Sessions
         /\ Idle.step = "idle"
         /\ \A c \in Callers : call[c] # Idle => call[c].step # "idle"
         /\ \A c \in Calculators : calc[c] # Idle => calc[c].step # "idle"
         /\ \A r \in Closers : closer[r] # Idle => closer[r].step # "idle"
BY DEF TypeOK, Idle, Calls, Calcs, Closing

LEMMA ProceedEffect ==
  ASSUME TypeOK, NEW c \in Callers, call[c].step # "idle",
         NEW step \in {"depth", "add", "ok", "error"}, Proceed(c, step)
  PROVE  /\ call' \in [Callers -> Calls \cup {Idle}]
         /\ call'[c] # Idle /\ call'[c].step = step /\ call'[c].session = call[c].session
         /\ \A d \in Callers : d # c => call'[d] = call[d]
<1>1. call[c] \in Calls
  BY Busy
<1>2. call' = [call EXCEPT ![c] = [call[c] EXCEPT !.step = step]]
  BY DEF Proceed, TypeOK
<1>3. [call[c] EXCEPT !.step = step] = [step |-> step, session |-> call[c].session]
  BY <1>1 DEF Calls
<1>4. [step |-> step, session |-> call[c].session] \in Calls
  BY <1>1 DEF Calls
<1>5. [step |-> step, session |-> call[c].session] # Idle
  BY DEF Idle
<1> QED BY <1>2, <1>3, <1>4, <1>5 DEF TypeOK

LEMMA EnqueueEffect ==
  ASSUME TypeOK, NEW c \in Callers, NEW s \in Sessions, Enqueue(c, s)
  PROVE  /\ call' \in [Callers -> Calls \cup {Idle}]
         /\ call'[c] # Idle /\ call'[c].step = "depth" /\ call'[c].session = s
         /\ \A d \in Callers : d # c => call'[d] = call[d]
BY DEF Enqueue, TypeOK, Calls, Idle

LEMMA ReturnEffect ==
  ASSUME TypeOK, NEW c \in Callers, Return(c)
  PROVE  /\ call' \in [Callers -> Calls \cup {Idle}]
         /\ call'[c] = Idle
         /\ \A d \in Callers : d # c => call'[d] = call[d]
BY DEF Return, TypeOK

LEMMA GotoEffect ==
  ASSUME TypeOK, NEW c \in Calculators, calc[c].step # "idle",
         NEW step \in {"read", "summary", "row", "finish"}, Goto(c, step)
  PROVE  /\ calc' \in [Calculators -> Calcs \cup {Idle}]
         /\ calc'[c] # Idle /\ calc'[c].step = step
         /\ calc'[c].session = calc[c].session /\ calc'[c].basis = calc[c].basis
         /\ \A d \in Calculators : d # c => calc'[d] = calc[d]
<1>1. calc[c] \in Calcs
  BY Busy
<1>2. calc' = [calc EXCEPT ![c] = [calc[c] EXCEPT !.step = step]]
  BY DEF Goto, TypeOK
<1>3. [calc[c] EXCEPT !.step = step]
        = [step |-> step, session |-> calc[c].session, basis |-> calc[c].basis]
  BY <1>1 DEF Calcs
<1>4. [step |-> step, session |-> calc[c].session, basis |-> calc[c].basis] \in Calcs
  BY <1>1 DEF Calcs
<1>5. [step |-> step, session |-> calc[c].session, basis |-> calc[c].basis] # Idle
  BY DEF Idle
<1> QED BY <1>2, <1>3, <1>4, <1>5 DEF TypeOK

LEMMA LeaveEffect ==
  ASSUME TypeOK, NEW c \in Calculators, Leave(c)
  PROVE  /\ calc' \in [Calculators -> Calcs \cup {Idle}]
         /\ calc'[c] = Idle
         /\ \A d \in Calculators : d # c => calc'[d] = calc[d]
BY DEF Leave, TypeOK

LEMMA StartEffect ==
  ASSUME TypeOK, NEW c \in Calculators, NEW s \in Sessions, Start(c, s)
  PROVE  /\ calc' \in [Calculators -> Calcs \cup {Idle}]
         /\ calc'[c] # Idle /\ calc'[c].step = "read" /\ calc'[c].session = s
         /\ \A d \in Calculators : d # c => calc'[d] = calc[d]
BY DEF Start, TypeOK, Calcs, Idle

-----------------------------------------------------------------------------
(* Type correctness.                                                       *)

LEMMA InitType == Init => TypeInv
<1> SUFFICES ASSUME Init PROVE TypeInv
  OBVIOUS
<1>1. 1 \in Edition /\ 0 \in 0..MaxAttempts
  BY DistanceConstants DEF Edition
<1>2. Zero \in [Sessions -> Nat] /\ Zero \in [Sessions -> 0..MaxAttempts]
        /\ Zero \in [Sessions -> Edition \cup {0}]
  BY <1>1 DEF Zero
<1>3. TypeOK
  <2>1. /\ call \in [Callers -> Calls \cup {Idle}]
        /\ calc \in [Calculators -> Calcs \cup {Idle}]
        /\ closer \in [Closers -> Closing \cup {Idle}]
    BY DEF Init
  <2>2. /\ edition \in [Sessions -> Edition]
        /\ status \in [Sessions -> {"pending", "done", "failed"}]
        /\ job \in [Sessions -> {"none", "queued", "active", "failed"}]
        /\ intent \in [Sessions -> {"none", "pending", "resolved", "dead"}]
    BY <1>1 DEF Init
  <2>3. /\ closes \in 0..MaxCloses /\ recalcs \in 0..MaxRecalcs /\ replays \in 0..MaxReplays
        /\ crashes \in 0..MaxCrashes /\ ioErrors \in 0..MaxIoErrors
    BY DistanceConstants DEF Init
  <2> QED BY <1>2, <2>1, <2>2, <2>3 DEF Init, TypeOK
<1>4. JobsAreOwned
  BY DEF Init, JobsAreOwned, Calculators, Idle
<1>5. ReplayIsBacked
  BY <1>2 DEF Init, ReplayIsBacked
<1> QED BY <1>3, <1>4, <1>5 DEF TypeInv

\* The parts of TypeInv that speak of calls, of jobs and calculations, and of
\* the replay of dead letters.
CallType == call \in [Callers -> Calls \cup {Idle}]

JobType ==
  /\ job \in [Sessions -> {"none", "queued", "active", "failed"}]
  /\ made \in [Sessions -> 0..MaxAttempts]
  /\ calc \in [Calculators -> Calcs \cup {Idle}]
  /\ lateDlq \in [Sessions -> Nat]
  /\ lateMark \in [Sessions -> Nat]
  /\ JobsAreOwned

\* What is neither.
RestType ==
  /\ edition \in [Sessions -> Edition]
  /\ status \in [Sessions -> {"pending", "done", "failed"}]
  /\ summary \in [Sessions -> Edition \cup {0}]
  /\ duration \in [Sessions -> Edition \cup {0}]
  /\ broken \subseteq Sessions /\ stalledOnce \subseteq Sessions
  /\ dlq \in [Sessions -> Nat]
  /\ intent \in [Sessions -> {"none", "pending", "resolved", "dead"}]
  /\ retries \in [Sessions -> Nat]
  /\ closer \in [Closers -> Closing \cup {Idle}]
  /\ boot \in BOOLEAN
  /\ ipc \in {"idle", "load", "next", "wait"} /\ itodo \subseteq Sessions
  /\ rpc \in {"idle", "next", "wait"} /\ rtodo \in [Sessions -> Nat]
  /\ dropped \subseteq Sessions /\ midway \subseteq Sessions
  /\ closes \in 0..MaxCloses /\ recalcs \in 0..MaxRecalcs /\ replays \in 0..MaxReplays
  /\ crashes \in 0..MaxCrashes /\ ioErrors \in 0..MaxIoErrors

LEMMA TypeParts == TypeInv <=> CallType /\ JobType /\ RestType /\ ReplayIsBacked
BY DEF TypeInv, TypeOK, CallType, JobType, RestType

LEMMA TypeBack == CallType' /\ JobType' /\ RestType' /\ ReplayIsBacked' => TypeInv'
BY DEF TypeInv, TypeOK, CallType, JobType, RestType

LEMMA IoErrorType ==
  ASSUME TypeInv, IoError \/ NoIoError PROVE ioErrors' \in 0..MaxIoErrors
BY DistanceConstants DEF TypeInv, TypeOK, IoError, NoIoError

LEMMA JobKept ==
  ASSUME TypeInv, UNCHANGED <<job, made, calc, lateDlq, lateMark>> PROVE JobType'
BY DEF TypeInv, TypeOK, JobType, JobsAreOwned

LEMMA RequestsUnfinished ==
  ASSUME TypeInv, NEW c \in Calculators, \A d \in Calculators : d # c => calc'[d] = calc[d],
         c \in Recalcs => calc'[c].step # "finish"
  PROVE  \A r \in Recalcs : calc'[r].step # "finish"
BY DEF TypeInv, JobsAreOwned, Calculators

LEMMA ReplayKept ==
  ASSUME TypeInv, UNCHANGED <<rtodo, dlq, rpc>>,
         \/ call'[OfReplay] = call[OfReplay]
         \/ call'[OfReplay] # Idle /\ call'[OfReplay].session = call[OfReplay].session
  PROVE  ReplayIsBacked'
BY DEF TypeInv, ReplayIsBacked

\* Fail, in a slot or for a request.
LEMMA FailType ==
  ASSUME TypeInv, NEW c \in Calculators, calc[c].step # "idle", Fail(c)
  PROVE  JobType'
<1> USE DEF JobType, JobsAreOwned
<1>1. calc[c] # Idle /\ calc[c].session \in Sessions
  BY Busy DEF TypeInv, Idle
<1>2. /\ calc' \in [Calculators -> Calcs \cup {Idle}]
      /\ calc'[c] = Idle
      /\ \A d \in Calculators : d # c => calc'[d] = calc[d]
  BY LeaveEffect DEF TypeInv, Fail
<1>3. Slots \subseteq Calculators /\ Slots \cap Recalcs = {}
  BY DistanceConstants DEF Calculators
<1>0. \A r \in Recalcs : calc'[r].step # "finish"
  BY <1>2, RequestsUnfinished, Busy DEF TypeInv
<1>4. CASE c \in Recalcs
  BY <1>0, <1>1, <1>2, <1>3, <1>4 DEF Fail, TypeInv, TypeOK
<1>5. CASE c \notin Recalcs
  <2> DEFINE s == calc[c].session
  <2>1. c \in Slots /\ job[s] = "active" /\ made[s] < MaxAttempts
    BY <1>1, <1>5 DEF Calculators, TypeInv
  <2>2. /\ made' = [made EXCEPT ![s] = @ + 1]
        /\ job' = [job EXCEPT ![s] = IF made'[s] < MaxAttempts THEN "queued" ELSE "failed"]
        /\ lateDlq' = [lateDlq EXCEPT ![s] = @ + 1]
        /\ lateMark' = [lateMark EXCEPT ![s] = @ + 1]
    BY <1>5 DEF Fail
  <2>3. made'[s] = made[s] + 1 /\ made'[s] \in 0..MaxAttempts
    BY <1>1, <2>1, <2>2, DistanceConstants DEF TypeInv, TypeOK
  <2>4. /\ made' \in [Sessions -> 0..MaxAttempts]
        /\ job' \in [Sessions -> {"none", "queued", "active", "failed"}]
        /\ lateDlq' \in [Sessions -> Nat] /\ lateMark' \in [Sessions -> Nat]
    BY <1>1, <2>2, <2>3 DEF TypeInv, TypeOK
  <2>5. \A t \in Sessions : job'[t] \in {"queued", "active"} => made'[t] < MaxAttempts
    BY <1>1, <2>2, <2>3 DEF TypeInv, TypeOK
  <2>6. \A k \in Slots : calc'[k] # Idle => k # c /\ calc'[k] = calc[k] /\ calc[k].session # s
    BY <1>1, <1>2, <1>3, <2>1 DEF TypeInv
  <2>7. \A k \in Slots : calc'[k] # Idle => job'[calc'[k].session] = "active"
    BY <1>3, <2>2, <2>6, Busy DEF TypeInv, TypeOK
  <2>8. \A k, l \in Slots :
          k # l /\ calc'[k] # Idle /\ calc'[l] # Idle => calc'[k].session # calc'[l].session
    BY <2>6 DEF TypeInv
  <2> HIDE DEF s
  <2> QED BY <1>0, <1>2, <2>4, <2>5, <2>7, <2>8
<1> QED BY <1>4, <1>5

-----------------------------------------------------------------------------
(* One lemma for each group of actions.                                    *)

LEMMA CallerType ==
  ASSUME TypeInv, NEW c \in Callers, ReadDepth(c) \/ AddJob(c) PROVE TypeInv'
<1> USE DEF rows, queueVars, failures, intents, calcVars, iVars, rVars, bounds
<1>1. CASE ReadDepth(c)
  <2>1. \E step \in {"depth", "add", "ok", "error"} : Proceed(c, step)
    BY <1>1 DEF ReadDepth
  <2>2. CallType' /\ (\A d \in Callers : d # c => call'[d] = call[d])
          /\ call'[c] # Idle /\ call'[c].session = call[c].session
    BY <1>1, <2>1, ProceedEffect DEF ReadDepth, CallType, TypeInv
  <2>3. JobType' /\ ReplayIsBacked'
    BY <1>1, <2>2, JobKept, ReplayKept, CallerKinds DEF ReadDepth
  <2>4. RestType'
    BY <1>1, IoErrorType, TypeParts DEF ReadDepth, RestType
  <2> QED BY <2>2, <2>3, <2>4, TypeParts, TypeBack
<1>2. CASE AddJob(c)
  <2> DEFINE s == call[c].session
  <2>1. \E step \in {"depth", "add", "ok", "error"} : Proceed(c, step)
    BY <1>2 DEF AddJob
  <2>2. CallType' /\ (\A d \in Callers : d # c => call'[d] = call[d])
          /\ call'[c] # Idle /\ call'[c].session = call[c].session
    BY <1>2, <2>1, ProceedEffect DEF AddJob, CallType, TypeInv
  <2>3. s \in Sessions
    BY <1>2, Busy DEF AddJob, TypeInv
  <2>4. JobType'
    <3>1. CASE UNCHANGED <<job, made>>
      BY <1>2, <3>1, JobKept DEF AddJob
    <3>2. CASE job[s] = "none" /\ job' = [job EXCEPT ![s] = "queued"]
                 /\ made' = [made EXCEPT ![s] = 0]
      BY <1>2, <2>3, <3>2, DistanceConstants, Busy
         DEF AddJob, TypeInv, TypeOK, JobType, JobsAreOwned, Calculators
    <3> QED BY <1>2, <3>1, <3>2 DEF AddJob
  <2>5. ReplayIsBacked'
    BY <1>2, <2>2, ReplayKept, CallerKinds DEF AddJob
  <2>6. RestType'
    BY <1>2, IoErrorType, TypeParts DEF AddJob, RestType
  <2> QED BY <2>2, <2>4, <2>5, <2>6, TypeParts, TypeBack
<1> QED BY <1>1, <1>2

LEMMA CloserType ==
  ASSUME TypeInv, NEW r \in Closers,
         \/ CloserStep(r)
         \/ \E s \in Sessions, by \in {"employee", "admin"} : FindOpenSession(r, s, by)
  PROVE  TypeInv'
<1> USE DEF rows, queueVars, failures, intents, calcVars, iVars, rVars, bounds
<1>1. OfCloser(r) \in Callers /\ OfCloser(r) # OfReplay /\ OfReplay \in Callers
  BY CallerKinds
<1>2. ASSUME NEW s \in Sessions, NEW by \in {"employee", "admin"}, FindOpenSession(r, s, by)
      PROVE  TypeInv'
  <2>1. [step |-> "close", session |-> s, by |-> by] \in Closing
    BY DEF Closing
  <2>2. RestType'
    BY <1>2, <2>1, TypeParts, DistanceConstants DEF FindOpenSession, RestType
  <2> QED BY <1>2, <2>2, JobKept, ReplayKept, TypeParts, TypeBack DEF FindOpenSession, CallType
<1>3. CASE CloseSession(r)
  <2>1. closer[r] \in Closing /\ closer[r].session \in Sessions
    BY <1>3, Busy DEF CloseSession, TypeInv
  <2>2. CallType' /\ call'[OfReplay] = call[OfReplay]
    BY <1>1, <1>3, <2>1, EnqueueEffect, TypeParts DEF CloseSession, CallType, TypeInv
  <2>3. [closer[r] EXCEPT !.step = "enqueue"] \in Closing
    BY <2>1 DEF Closing
  <2>4. closer' \in [Closers -> Closing \cup {Idle}]
    BY <1>3, <2>3, TypeParts DEF CloseSession, RestType
  <2>5. edition' \in [Sessions -> Edition] /\ broken' \subseteq Sessions
    BY <1>3, <2>1, TypeParts DEF CloseSession, RestType, Edition
  <2>6. RestType'
    BY <1>3, <2>4, <2>5, IoErrorType, TypeParts DEF CloseSession, RestType
  <2> QED BY <1>3, <2>2, <2>6, JobKept, ReplayKept, TypeParts, TypeBack DEF CloseSession
<1>4. CASE Enqueued(r)
  <2>1. closer[r] \in Closing /\ closer[r].session \in Sessions
    BY <1>4, Busy DEF Enqueued, TypeInv
  <2>2. CallType' /\ call'[OfReplay] = call[OfReplay]
    BY <1>1, <1>4, ReturnEffect DEF Enqueued, CallType, TypeInv
  <2>3. [closer[r] EXCEPT !.step = "intent"] \in Closing
    BY <2>1 DEF Closing
  <2>4. closer' \in [Closers -> Closing \cup {Idle}]
    BY <1>4, <2>3, TypeParts DEF Enqueued, RestType
  <2>5. RestType'
    BY <1>4, <2>1, <2>4, TypeParts DEF Enqueued, RestType
  <2> QED BY <1>4, <2>2, <2>5, JobKept, ReplayKept, TypeParts, TypeBack DEF Enqueued
<1>5. CASE PersistRetryIntent(r)
  <2>1. closer[r].session \in Sessions
    BY <1>5, Busy DEF PersistRetryIntent, TypeInv
  <2>2. RestType'
    BY <1>5, <2>1, IoErrorType, TypeParts DEF PersistRetryIntent, RestType
  <2> QED BY <1>5, <2>2, JobKept, ReplayKept, TypeParts, TypeBack DEF PersistRetryIntent, CallType
<1> QED BY <1>2, <1>3, <1>4, <1>5 DEF CloserStep

LEMMA CalculatorType ==
  ASSUME TypeInv, NEW c \in Calculators,
         \/ c \in Slots /\ \E s \in Sessions : Take(c, s)
         \/ c \in Recalcs /\ \E s \in Sessions : Recalculate(c, s)
         \/ CalculatorStep(c)
  PROVE  TypeInv'
<1> USE DEF rows, queueVars, failures, intents, calcVars, iVars, rVars, bounds
<1>0. Slots \subseteq Calculators /\ Slots \cap Recalcs = {}
  BY DistanceConstants DEF Calculators
<1>1. ASSUME c \in Slots, NEW s \in Sessions, Take(c, s) PROVE TypeInv'
  <2> USE DEF JobType, JobsAreOwned
  <2>1. /\ calc' \in [Calculators -> Calcs \cup {Idle}]
        /\ calc'[c].session = s /\ calc'[c].step = "read"
        /\ \A d \in Calculators : d # c => calc'[d] = calc[d]
    BY <1>1, StartEffect DEF Take, TypeInv
  <2>2. \A k \in Slots : k # c /\ calc[k] # Idle =>
          calc[k].session # s /\ calc[k].session \in Sessions
    BY <1>0, <1>1, Busy DEF Take, TypeInv
  <2>3. /\ job' \in [Sessions -> {"none", "queued", "active", "failed"}]
        /\ job'[s] = "active" /\ \A t \in Sessions : t # s => job'[t] = job[t]
    BY <1>1 DEF Take, TypeInv, TypeOK
  <2>4. \A t \in Sessions : job'[t] \in {"queued", "active"} => made'[t] < MaxAttempts
    BY <1>1, <2>3 DEF Take, TypeInv
  <2>5. \A k \in Slots : calc'[k] # Idle => job'[calc'[k].session] = "active"
    BY <1>0, <2>1, <2>2, <2>3 DEF TypeInv
  <2>6. \A k, l \in Slots :
          k # l /\ calc'[k] # Idle /\ calc'[l] # Idle => calc'[k].session # calc'[l].session
    BY <1>0, <2>1, <2>2 DEF TypeInv
  <2>7. JobType'
    BY <1>1, <2>1, <2>3, <2>4, <2>5, <2>6, RequestsUnfinished DEF Take, TypeInv, TypeOK
  <2> QED BY <1>1, <2>7, ReplayKept, TypeParts, TypeBack DEF Take, RestType, CallType
<1>2. ASSUME c \in Recalcs, NEW s \in Sessions, Recalculate(c, s) PROVE TypeInv'
  <2>1. JobType'
    BY <1>0, <1>2, StartEffect, RequestsUnfinished
       DEF Recalculate, JobType, JobsAreOwned, TypeInv, TypeOK
  <2>2. RestType'
    BY <1>2, TypeParts, DistanceConstants DEF Recalculate, RestType
  <2> QED BY <1>2, <2>1, <2>2, ReplayKept, TypeParts, TypeBack DEF Recalculate, CallType
<1>3. CASE ReadSession(c)
  <2>1. c \in Calculators /\ calc[c] \in Calcs /\ calc[c].session \in Sessions
    BY <1>3, Busy DEF ReadSession, TypeInv
  <2>2. JobType'
    <3>1. CASE Fail(c)
      BY <1>3, <3>1, FailType DEF ReadSession
    <3>2. CASE /\ calc' = [calc EXCEPT ![c] =
                             [step |-> "summary", session |-> @.session,
                              basis |-> edition[@.session]]]
               /\ UNCHANGED <<job, made, lateDlq, lateMark>>
      <4> DEFINE new == [step |-> "summary", session |-> calc[c].session,
                         basis |-> edition[calc[c].session]]
      <4>1. calc' = [calc EXCEPT ![c] = new]
        BY <2>1, <3>2 DEF TypeInv, TypeOK
      <4>2. /\ new \in Calcs /\ new # Idle /\ new.step # "finish"
            /\ new.session = calc[c].session /\ calc[c] # Idle
        BY <1>3, <2>1 DEF TypeInv, TypeOK, Calcs, Idle, ReadSession
      <4> HIDE DEF new
      <4>3. /\ calc' \in [Calculators -> Calcs \cup {Idle}]
            /\ \A k \in Slots : calc'[k] # Idle <=> calc[k] # Idle
            /\ \A k \in Slots : calc'[k].session = calc[k].session
        BY <1>0, <2>1, <4>1, <4>2 DEF TypeInv, TypeOK
      <4>4. \A r \in Recalcs : calc'[r].step # "finish"
        BY <2>1, <4>1, <4>2, RequestsUnfinished DEF TypeInv, TypeOK
      <4> QED BY <1>0, <3>2, <4>3, <4>4 DEF JobType, JobsAreOwned, TypeInv, TypeOK
    <3> QED BY <1>3, <3>1, <3>2 DEF ReadSession
  <2>3. RestType'
    BY <1>3, <2>1, IoErrorType, TypeParts DEF ReadSession, RestType
  <2> QED BY <1>3, <2>2, <2>3, ReplayKept, TypeParts, TypeBack DEF ReadSession, CallType
<1>4. CASE SaveSummary(c)
  <2>1. calc[c] \in Calcs /\ calc[c].session \in Sessions /\ calc[c].basis \in Edition
    BY <1>4, Busy DEF SaveSummary, TypeInv, Calcs
  <2>2. JobType'
    <3>1. CASE Fail(c)
      BY <1>4, <3>1, FailType DEF SaveSummary
    <3>2. CASE Goto(c, "row") /\ UNCHANGED <<job, made, lateDlq, lateMark>>
      BY <1>0, <1>4, <3>2, GotoEffect, Busy, RequestsUnfinished
         DEF SaveSummary, JobType, JobsAreOwned, TypeInv, TypeOK
    <3> QED BY <1>4, <3>1, <3>2 DEF SaveSummary
  <2>3. RestType'
    BY <1>4, <2>1, IoErrorType, TypeParts DEF SaveSummary, RestType
  <2> QED BY <1>4, <2>2, <2>3, ReplayKept, TypeParts, TypeBack DEF SaveSummary, CallType
<1>5. CASE SaveRow(c)
  <2>1. calc[c] \in Calcs /\ calc[c].session \in Sessions /\ calc[c].basis \in Edition
    BY <1>5, Busy DEF SaveRow, TypeInv, Calcs
  <2>2. JobType'
    BY <1>0, <1>5, GotoEffect, LeaveEffect, Busy, RequestsUnfinished
       DEF SaveRow, JobType, JobsAreOwned, TypeInv, TypeOK
  <2>3. RestType'
    BY <1>5, <2>1, IoErrorType, TypeParts DEF SaveRow, RestType
  <2> QED BY <1>5, <2>2, <2>3, ReplayKept, TypeParts, TypeBack DEF SaveRow, CallType
<1>6. CASE FinishJob(c)
  <2> DEFINE s == calc[c].session
  <2> USE DEF JobType, JobsAreOwned
  <2>1. calc[c] # Idle /\ s \in Sessions
    BY <1>6, Busy DEF FinishJob, TypeInv, Idle
  <2>2. /\ calc' \in [Calculators -> Calcs \cup {Idle}]
        /\ calc'[c] = Idle
        /\ \A d \in Calculators : d # c => calc'[d] = calc[d]
    BY <1>6, LeaveEffect DEF FinishJob, TypeInv
  <2>3. /\ job' \in [Sessions -> {"none", "queued", "active", "failed"}]
        /\ \A t \in Sessions : job'[t] \in {"queued", "active"} => job'[t] = job[t]
        /\ \A t \in Sessions : t # s => job'[t] = job[t]
    BY <1>6, <2>1 DEF FinishJob, TypeInv, TypeOK
  <2>4. c \in Slots /\ \A k \in Slots : k # c /\ calc[k] # Idle =>
          calc[k].session # s /\ calc[k].session \in Sessions
    BY <1>0, <1>6, <2>1, Busy DEF TypeInv, FinishJob, Calculators
  <2>5. JobType'
    BY <1>0, <1>6, <2>2, <2>3, <2>4, RequestsUnfinished DEF FinishJob, TypeInv, TypeOK
  <2> QED BY <1>6, <2>5, ReplayKept, TypeParts, TypeBack DEF FinishJob, RestType, CallType
<1> QED BY <1>1, <1>2, <1>3, <1>4, <1>5, <1>6 DEF CalculatorStep

LEMMA HandlerType ==
  ASSUME TypeInv, NEW s \in Sessions, DeadLetter(s) \/ MarkFailed(s) PROVE TypeInv'
<1> USE DEF rows, queueVars, failures, intents, calcVars, iVars, rVars, bounds
<1>1. CASE DeadLetter(s)
  <2>1. lateDlq' \in [Sessions -> Nat] /\ dlq' \in [Sessions -> Nat]
          /\ \A t \in Sessions : dlq'[t] >= dlq[t]
    BY <1>1, TypeParts DEF DeadLetter, JobType, RestType
  <2>2. JobType'
    BY <1>1, <2>1, TypeParts DEF DeadLetter, JobType, JobsAreOwned
  <2>3. RestType'
    BY <1>1, <2>1, IoErrorType, TypeParts DEF DeadLetter, RestType
  <2>4. ReplayIsBacked'
    BY <1>1, <2>1, TypeParts DEF DeadLetter, ReplayIsBacked, RestType
  <2> QED BY <1>1, <2>2, <2>3, <2>4, TypeParts, TypeBack DEF DeadLetter, CallType
<1>2. CASE MarkFailed(s)
  <2>1. lateMark' \in [Sessions -> Nat]
    BY <1>2, TypeParts DEF MarkFailed, JobType
  <2>2. JobType'
    BY <1>2, <2>1, TypeParts DEF MarkFailed, JobType, JobsAreOwned
  <2>3. RestType'
    BY <1>2, IoErrorType, TypeParts DEF MarkFailed, RestType
  <2> QED BY <1>2, <2>2, <2>3, ReplayKept, TypeParts, TypeBack DEF MarkFailed, CallType
<1> QED BY <1>1, <1>2

\* The scan starts the calls of the sessions it found, and no other.
LEMMA ScanEffect ==
  ASSUME TypeInv, RecoveryScan
  PROVE  /\ call' \in [Callers -> Calls \cup {Idle}]
         /\ \A c \in Callers :
              \/ call'[c] = call[c]
              \/ \E s \in Sessions : /\ NeedsRecalculation(s) /\ c = OfRecovery(s)
                                     /\ call'[c] = [step |-> "depth", session |-> s]
         /\ ioErrors' = ioErrors => \A s \in Sessions : NeedsRecalculation(s) =>
              call'[OfRecovery(s)] = [step |-> "depth", session |-> s]
<1>1. CASE IoError /\ UNCHANGED call
  BY <1>1 DEF IoError, TypeInv, TypeOK
<1>2. CASE NoIoError
  <2> DEFINE found == {OfRecovery(s) : s \in {x \in Sessions : NeedsRecalculation(x)}}
  <2>1. call' = [c \in Callers |->
                  IF c \in found THEN [step |-> "depth", session |-> c[2]] ELSE call[c]]
    BY <1>2 DEF RecoveryScan, IoError, NoIoError, TypeInv, TypeOK
  <2>2. \A s \in Sessions : OfRecovery(s)[2] = s
    BY DEF OfRecovery
  <2>3. \A s \in Sessions : [step |-> "depth", session |-> s] \in Calls
    BY DEF Calls
  <2> QED BY <2>1, <2>2, <2>3, CallerKinds DEF TypeInv, TypeOK
<1> QED BY <1>1, <1>2 DEF RecoveryScan

LEMMA RecoveryType ==
  ASSUME TypeInv, RecoveryScan \/ \E s \in Sessions : RecoveryReturn(s) PROVE TypeInv'
<1> USE DEF rows, queueVars, failures, intents, calcVars, iVars, rVars, bounds
<1>1. CASE RecoveryScan
  <2>1. call' \in [Callers -> Calls \cup {Idle}] /\ call'[OfReplay] = call[OfReplay]
    BY <1>1, ScanEffect, CallerKinds
  <2>2. RestType'
    BY <1>1, IoErrorType, TypeParts DEF RecoveryScan, RestType
  <2> QED BY <1>1, <2>1, <2>2, JobKept, ReplayKept, TypeParts, TypeBack
          DEF RecoveryScan, CallType
<1>2. ASSUME NEW s \in Sessions, RecoveryReturn(s) PROVE TypeInv'
  <2>1. call' \in [Callers -> Calls \cup {Idle}] /\ call'[OfReplay] = call[OfReplay]
    BY <1>2, ReturnEffect, CallerKinds DEF RecoveryReturn, TypeInv
  <2>2. RestType'
    BY <1>2, TypeParts DEF RecoveryReturn, RestType
  <2> QED BY <1>2, <2>1, <2>2, JobKept, ReplayKept, TypeParts, TypeBack
          DEF RecoveryReturn, CallType
<1> QED BY <1>1, <1>2

LEMMA IntentType ==
  ASSUME TypeInv,
         \/ LoadIntents
         \/ IntentReplayed
         \/ \E s \in Sessions : NextIntent(s) \/ CleanupIntent(s)
  PROVE  TypeInv'
<1> USE DEF rows, queueVars, failures, intents, calcVars, iVars, rVars, bounds
<1>1. CASE LoadIntents
  <2>1. RestType'
    BY <1>1, IoErrorType, TypeParts DEF LoadIntents, RestType
  <2> QED BY <1>1, <2>1, JobKept, ReplayKept, TypeParts, TypeBack DEF LoadIntents, CallType
<1>2. CASE IntentReplayed
  <2>1. call' \in [Callers -> Calls \cup {Idle}] /\ call'[OfReplay] = call[OfReplay]
    BY <1>2, ReturnEffect, CallerKinds DEF IntentReplayed, TypeInv
  <2>2. call[OfIntents].session \in Sessions
    BY <1>2, Busy, CallerKinds DEF IntentReplayed, TypeInv
  <2>3. intent' \in [Sessions -> {"none", "pending", "resolved", "dead"}]
          /\ retries' \in [Sessions -> Nat]
    BY <1>2, <2>2, TypeParts DEF IntentReplayed, RestType
  <2>4. RestType'
    BY <1>2, <2>3, IoErrorType, TypeParts DEF IntentReplayed, RestType
  <2> QED BY <1>2, <2>1, <2>4, JobKept, ReplayKept, TypeParts, TypeBack
          DEF IntentReplayed, CallType
<1>3. ASSUME NEW s \in Sessions, NextIntent(s) PROVE TypeInv'
  <2>1. call' \in [Callers -> Calls \cup {Idle}] /\ call'[OfReplay] = call[OfReplay]
    BY <1>3, EnqueueEffect, CallerKinds DEF NextIntent, TypeInv
  <2>2. RestType'
    BY <1>3, TypeParts DEF NextIntent, RestType
  <2> QED BY <1>3, <2>1, <2>2, JobKept, ReplayKept, TypeParts, TypeBack DEF NextIntent, CallType
<1>4. ASSUME NEW s \in Sessions, CleanupIntent(s) PROVE TypeInv'
  <2>1. RestType'
    BY <1>4, TypeParts DEF CleanupIntent, RestType
  <2> QED BY <1>4, <2>1, JobKept, ReplayKept, TypeParts, TypeBack DEF CleanupIntent, CallType
<1> QED BY <1>1, <1>2, <1>3, <1>4

LEMMA ReplayType ==
  ASSUME TypeInv, StartReplay \/ EntryReplayed \/ \E s \in Sessions : NextEntry(s)
  PROVE  TypeInv'
<1> USE DEF rows, queueVars, failures, intents, calcVars, iVars, rVars, bounds
<1>1. CASE StartReplay
  <2>1. RestType'
    BY <1>1, TypeParts, DistanceConstants DEF StartReplay, RestType
  <2>2. ReplayIsBacked'
    BY <1>1, TypeParts DEF StartReplay, ReplayIsBacked, RestType
  <2> QED BY <1>1, <2>1, <2>2, JobKept, TypeParts, TypeBack DEF StartReplay, CallType
<1>2. ASSUME NEW s \in Sessions, NextEntry(s) PROVE TypeInv'
  <2>1. /\ call' \in [Callers -> Calls \cup {Idle}]
        /\ call'[OfReplay] # Idle /\ call'[OfReplay].session = s
    BY <1>2, EnqueueEffect, CallerKinds DEF NextEntry, TypeInv
  <2>2. RestType'
    BY <1>2, TypeParts DEF NextEntry, RestType
  <2>3. ReplayIsBacked'
    BY <1>2, <2>1, TypeParts DEF NextEntry, ReplayIsBacked
  <2> QED BY <1>2, <2>1, <2>2, <2>3, JobKept, TypeParts, TypeBack DEF NextEntry, CallType
<1>3. CASE EntryReplayed
  <2> DEFINE s == call[OfReplay].session
  <2>1. s \in Sessions /\ rtodo[s] > 0 /\ rtodo[s] <= dlq[s]
    BY <1>3, Busy, CallerKinds DEF EntryReplayed, TypeInv, ReplayIsBacked
  <2>2. call' \in [Callers -> Calls \cup {Idle}]
    BY <1>3, ReturnEffect, CallerKinds DEF EntryReplayed, TypeInv
  <2>3. /\ dlq' \in [Sessions -> Nat] /\ rtodo' \in [Sessions -> Nat]
        /\ \A t \in Sessions : rtodo'[t] <= dlq'[t]
    BY <1>3, <2>1, TypeParts DEF EntryReplayed, RestType, ReplayIsBacked
  <2>4. RestType'
    BY <1>3, <2>3, IoErrorType, TypeParts DEF EntryReplayed, RestType
  <2>5. ReplayIsBacked'
    BY <1>3, <2>3 DEF EntryReplayed, ReplayIsBacked
  <2> QED BY <1>3, <2>2, <2>4, <2>5, JobKept, TypeParts, TypeBack DEF EntryReplayed, CallType
<1> QED BY <1>1, <1>2, <1>3

LEMMA CrashType == TypeInv /\ Crash => TypeInv'
<1> SUFFICES ASSUME TypeInv, Crash PROVE TypeInv'
  OBVIOUS
<1> USE DEF rows, queueVars, failures, intents, calcVars, iVars, rVars, bounds
<1>1. CallType'
  BY DEF Crash, CallType
<1>2. /\ job' \in [Sessions -> {"none", "queued", "active", "failed"}]
      /\ \A s \in Sessions : job'[s] \in {"queued", "active"} => job[s] \in {"queued", "active"}
      /\ lateDlq' \in [Sessions -> Nat] /\ lateMark' \in [Sessions -> Nat]
  BY TypeParts DEF Crash, JobType
<1>3. JobType'
  BY <1>2, TypeParts, Busy DEF Crash, JobType, JobsAreOwned, Calculators, TypeInv
<1>4. RestType'
  BY TypeParts, DistanceConstants DEF Crash, RestType, Zero
<1>5. ReplayIsBacked'
  BY TypeParts DEF Crash, ReplayIsBacked, Zero, RestType
<1> QED BY <1>1, <1>3, <1>4, <1>5, TypeBack

LEMMA StepType == TypeInv /\ [Next]_vars => TypeInv'
<1> SUFFICES ASSUME TypeInv, [Next]_vars PROVE TypeInv'
  OBVIOUS
<1>1. CASE UNCHANGED vars
  BY <1>1 DEF vars, rows, queueVars, failures, intents, calcVars, iVars, rVars, bounds,
     TypeInv, TypeOK, JobsAreOwned, ReplayIsBacked
<1>2. CASE Next
  BY <1>2, CallerType, CloserType, CalculatorType, HandlerType, RecoveryType, IntentType,
     ReplayType, CrashType DEF Next, Calculators
<1> QED BY <1>1, <1>2

LEMMA TypeAlways == SafetySpec => []TypeInv
BY InitType, StepType, PTL DEF SafetySpec

\* Every variable keeps its type; in particular a job makes no more attempts
\* than the queue grants it, whatever crashes and replays come between, and a
\* replay removes no dead letter that is not there.
THEOREM TypeCorrect == SafetySpec => []TypeOK
<1>1. TypeInv => TypeOK
  BY DEF TypeInv
<1> QED BY <1>1, TypeAlways, PTL

-----------------------------------------------------------------------------
(* What never goes back.                                                   *)

LEMMA Monotone ==
  ASSUME TypeInv, [Next]_vars
  PROVE  /\ \A s \in Sessions : edition[s] <= edition'[s]
         /\ \A s \in Sessions : Closed(s) => Closed(s)'
         /\ midway \subseteq midway' /\ dropped \subseteq dropped'
         /\ ioErrors' = 0 => ioErrors = 0
         /\ crashes' = 0 => crashes = 0
         /\ recalcs' = 0 => recalcs = 0
<1> USE DEF rows, queueVars, failures, intents, calcVars, iVars, rVars, bounds
<1>0. edition \in [Sessions -> Nat] /\ ioErrors \in Nat /\ crashes \in Nat /\ recalcs \in Nat
  BY DistanceConstants DEF TypeInv, TypeOK, Edition
<1>1. ioErrors' = ioErrors \/ ioErrors' = ioErrors + 1
  BY DEF Next, vars, IoError, NoIoError, ReadDepth, AddJob, FindOpenSession, CloserStep,
     CloseSession, Enqueued, PersistRetryIntent, Take, Recalculate, CalculatorStep,
     ReadSession, SaveSummary, SaveRow, FinishJob, DeadLetter, MarkFailed, RecoveryScan,
     RecoveryReturn, LoadIntents, IntentReplayed, NextIntent, CleanupIntent, StartReplay,
     EntryReplayed, NextEntry, Crash
<1>2. /\ crashes' = crashes \/ crashes' = crashes + 1
      /\ recalcs' = recalcs \/ recalcs' = recalcs + 1
  BY DEF Next, vars, ReadDepth, AddJob, FindOpenSession, CloserStep,
     CloseSession, Enqueued, PersistRetryIntent, Take, Recalculate, CalculatorStep,
     ReadSession, SaveSummary, SaveRow, FinishJob, DeadLetter, MarkFailed, RecoveryScan,
     RecoveryReturn, LoadIntents, IntentReplayed, NextIntent, CleanupIntent, StartReplay,
     EntryReplayed, NextEntry, Crash
<1>3. midway \subseteq midway' /\ dropped \subseteq dropped'
  BY DEF Next, vars, ReadDepth, AddJob, FindOpenSession, CloserStep,
     CloseSession, Enqueued, PersistRetryIntent, Take, Recalculate, CalculatorStep,
     ReadSession, SaveSummary, SaveRow, FinishJob, DeadLetter, MarkFailed, RecoveryScan,
     RecoveryReturn, LoadIntents, IntentReplayed, NextIntent, CleanupIntent, StartReplay,
     EntryReplayed, NextEntry, Crash
<1>4. \/ UNCHANGED edition
      \/ \E r \in Closers : edition' = [edition EXCEPT ![closer[r].session] = @ + 1]
  BY DEF Next, vars, ReadDepth, AddJob, FindOpenSession, CloserStep,
     CloseSession, Enqueued, PersistRetryIntent, Take, Recalculate, CalculatorStep,
     ReadSession, SaveSummary, SaveRow, FinishJob, DeadLetter, MarkFailed, RecoveryScan,
     RecoveryReturn, LoadIntents, IntentReplayed, NextIntent, CleanupIntent, StartReplay,
     EntryReplayed, NextEntry, Crash
<1>5. \A s \in Sessions : edition'[s] = edition[s] \/ edition'[s] = edition[s] + 1
  BY <1>0, <1>4
<1> QED BY <1>0, <1>1, <1>2, <1>3, <1>5 DEF Closed

-----------------------------------------------------------------------------
(* A job that is given up leaves its mark.                                 *)

MarkInv ==
  /\ recalcs = 0 => \A c \in Recalcs : calc[c] = Idle
  /\ PermanentFailureIsMarked

LEMMA MarkKept ==
  ASSUME TypeInv, [Next]_vars, MarkInv, UNCHANGED <<calc, job, status, lateMark>>
  PROVE  MarkInv'
BY Monotone DEF MarkInv, PermanentFailureIsMarked

LEMMA StepMark ==
  ASSUME TypeInv, [Next]_vars, MarkInv PROVE MarkInv'
<1> USE DEF rows, queueVars, failures, intents, calcVars, iVars, rVars, bounds
<1> USE DEF MarkInv, PermanentFailureIsMarked
<1>0. Slots \subseteq Calculators /\ Recalcs \subseteq Calculators /\ Slots \cap Recalcs = {}
  BY DistanceConstants DEF Calculators
<1>1. ASSUME NEW c \in Callers, AddJob(c) PROVE MarkInv'
  BY <1>1, Monotone DEF AddJob, TypeInv, TypeOK
<1>2. ASSUME NEW k \in Slots, NEW s \in Sessions, Take(k, s) PROVE MarkInv'
  BY <1>0, <1>2, StartEffect, Monotone DEF Take, TypeInv, TypeOK
<1>3. ASSUME NEW c \in Recalcs, NEW s \in Sessions, Recalculate(c, s) PROVE MarkInv'
  BY <1>3, Monotone, DistanceConstants DEF Recalculate, TypeInv, TypeOK
<1>4. ASSUME NEW c \in Calculators, CalculatorStep(c) PROVE MarkInv'
  <2> DEFINE s == calc[c].session
  <2>1. s \in Sessions /\ calc[c] # Idle
    BY <1>4, Busy
       DEF CalculatorStep, ReadSession, SaveSummary, SaveRow, FinishJob, TypeInv, Idle
  <2>2. \A d \in Calculators : d # c => calc'[d] = calc[d]
    BY <1>4, GotoEffect, LeaveEffect
       DEF CalculatorStep, ReadSession, SaveSummary, SaveRow, FinishJob, Fail, TypeInv, TypeOK
  <2>3. recalcs' = 0 => recalcs = 0 /\ c \in Slots /\ \A d \in Recalcs : calc'[d] = Idle
    BY <1>0, <2>1, <2>2, Monotone DEF Calculators
  <2>4. c \in Slots => job[s] = "active"
    BY <2>1 DEF TypeInv, JobsAreOwned
  <2>5. CASE ReadSession(c) \/ SaveSummary(c)
    BY <2>1, <2>3, <2>4, <2>5, <1>0, Monotone DEF ReadSession, SaveSummary, Fail, TypeInv, TypeOK
  <2>6. CASE SaveRow(c)
    BY <2>1, <2>3, <2>4, <2>6, Monotone DEF SaveRow, TypeInv, TypeOK
  <2>7. CASE FinishJob(c)
    BY <2>1, <2>3, <2>4, <2>7, Monotone DEF FinishJob, TypeInv, TypeOK
  <2> QED BY <1>4, <2>5, <2>6, <2>7 DEF CalculatorStep
<1>5. ASSUME NEW s \in Sessions, MarkFailed(s) PROVE MarkInv'
  BY <1>5, Monotone DEF MarkFailed, TypeInv, TypeOK, IoError
<1>6. CASE Crash
  BY <1>0, <1>6, DistanceConstants DEF Crash, TypeInv, TypeOK
<1>7. CASE UNCHANGED <<calc, job, status, lateMark>>
  BY <1>7, MarkKept
<1>8. \/ UNCHANGED <<calc, job, status, lateMark>>
      \/ \E c \in Callers : AddJob(c)
      \/ \E k \in Slots, s \in Sessions : Take(k, s)
      \/ \E c \in Recalcs, s \in Sessions : Recalculate(c, s)
      \/ \E c \in Calculators : CalculatorStep(c)
      \/ \E s \in Sessions : MarkFailed(s)
      \/ Crash
  BY DEF Next, vars, ReadDepth, FindOpenSession, CloserStep, CloseSession, Enqueued,
     PersistRetryIntent, DeadLetter, RecoveryScan, RecoveryReturn, LoadIntents, IntentReplayed,
     NextIntent, CleanupIntent, StartReplay, EntryReplayed, NextEntry
<1> QED BY <1>1, <1>2, <1>3, <1>4, <1>5, <1>6, <1>7, <1>8

\* A job kept as failed has its mark in the session's row, or the handler that
\* writes it is pending, as long as no crash, failed call or recalculation
\* interferes; late handlers of earlier attempts do not take it away.
THEOREM FailureIsMarked == SafetySpec => []PermanentFailureIsMarked
<1>1. Init => MarkInv
  BY DEF Init, MarkInv, PermanentFailureIsMarked, Calculators
<1>2. TypeInv /\ MarkInv /\ [Next]_vars => MarkInv'
  BY StepMark
<1>3. MarkInv => PermanentFailureIsMarked
  BY DEF MarkInv
<1> QED BY <1>1, <1>2, <1>3, TypeAlways, PTL DEF SafetySpec

-----------------------------------------------------------------------------
(* A session that is checked out is covered.                               *)

Covered(s) == Fresh(s) \/ Underway(s) \/ KnownAsFailed(s)

LEMMA InitCover == Init => CoverInv
<1> SUFFICES ASSUME Init PROVE CoverInv
  OBVIOUS
<1>1. /\ \A s \in Sessions : ~Closed(s) /\ ~ClosedOnce(s) /\ ~Plain(s)
      /\ \A s \in Sessions : job[s] = "none" /\ intent[s] = "none" /\ status[s] = "pending"
                              /\ dlq[s] = 0 /\ lateDlq[s] = 0
  BY DEF Init, Closed, ClosedOnce, Plain, Zero
<1>2. /\ \A c \in Callers : call[c] = Idle
      /\ \A c \in Calculators : calc[c] = Idle
      /\ \A r \in Closers : closer[r] = Idle
      /\ Idle.step = "idle" /\ itodo = {}
  BY DEF Init, Idle
<1>3. Slots \subseteq Calculators
  BY DEF Calculators
<1> QED
  BY <1>1, <1>2, <1>3, CallerKinds
     DEF CoverInv, StartsAfterClose, CallsMatch, BasisIsRead, DoneIsFresh, ClosedIsCovered

\* Each part is kept by a step that changes nothing it speaks of.
LEMMA BasisKept ==
  ASSUME TypeInv, [Next]_vars, BasisIsRead, UNCHANGED <<edition, calc>>,
         \A s \in Sessions : status'[s] = "done" => status[s] = "done"
  PROVE  BasisIsRead'
BY Monotone DEF BasisIsRead, Closed

LEMMA StartsKept ==
  ASSUME TypeInv, [Next]_vars, StartsAfterClose,
         \A s \in Sessions :
           job'[s] # "none" \/ intent'[s] = "pending" \/ dlq'[s] + lateDlq'[s] > 0 =>
             \/ job[s] # "none" \/ intent[s] = "pending" \/ dlq[s] + lateDlq[s] > 0
             \/ Closed(s)',
         \A s \in itodo' : s \in itodo \/ Closed(s)',
         \A c \in Callers :
           call'[c] # Idle => \/ call[c] # Idle /\ call'[c].session = call[c].session
                             \/ Closed(call[c].session)',
         \A r \in Closers :
           closer'[r].step \in {"enqueue", "intent"} =>
             \/ closer'[r] = closer[r]
             \/ Closed(closer[r].session)'
  PROVE  StartsAfterClose'
<1>1. \A s \in Sessions : Closed(s) => Closed(s)'
  BY Monotone
<1>2. \A c \in Callers : call[c] # Idle => call[c].session \in Sessions
  BY Busy DEF TypeInv
<1> QED BY <1>1, <1>2, Busy DEF StartsAfterClose, TypeInv, TypeOK

LEMMA FreshKept ==
  ASSUME TypeInv, [Next]_vars, DoneIsFresh, UNCHANGED <<rows, job, calc>>,
         \A c \in Callers : call'[c].step = "ok" =>
           call[c].step = "ok" /\ call'[c].session = call[c].session
  PROVE  DoneIsFresh'
<1>1. \A s \in Sessions : /\ Plain(s)' => Plain(s)
                          /\ Fresh(s)' <=> Fresh(s)
                          /\ Carried(s)' <=> Carried(s)
  BY Monotone DEF Plain, Fresh, Carried, ClosedOnce, rows
<1>2. \A c \in Callers : call[c].step = "ok" => call[c].session \in Sessions
  BY Busy DEF TypeInv
<1>3. \A c \in Calculators : calc[c].step \in {"row", "finish"} => calc[c].session \in Sessions
  BY Busy DEF TypeInv
<1>4. Slots \subseteq Calculators
  BY DEF Calculators
<1> QED BY <1>1, <1>2, <1>3, <1>4, Monotone DEF DoneIsFresh, rows

LEMMA CoverKept ==
  ASSUME TypeInv, [Next]_vars, ClosedIsCovered, UNCHANGED <<rows, job, boot, lateMark>>,
         \A r \in Closers : closer[r].step \in {"enqueue", "intent"} => closer'[r] = closer[r],
         \A s \in Sessions : intent[s] \in {"pending", "dead"} =>
           intent'[s] \in {"pending", "dead"},
         \A s \in Sessions : call[OfRecovery(s)].step \in {"depth", "add", "error"} =>
           call'[OfRecovery(s)].step \in {"depth", "add", "error"}
  PROVE  ClosedIsCovered'
<1>1. \A s \in Sessions : /\ ClosedOnce(s)' <=> ClosedOnce(s)
                          /\ Fresh(s)' <=> Fresh(s)
  BY DEF ClosedOnce, Fresh, rows
<1>2. \A s \in Sessions : Underway(s) => Underway(s)'
  BY DEF Underway
<1>3. \A s \in Sessions : KnownAsFailed(s) => KnownAsFailed(s)'
  BY Monotone DEF KnownAsFailed, rows
<1> QED BY <1>1, <1>2, <1>3, Monotone DEF ClosedIsCovered

\* The closers' and the recovery's calls, when no other is touched.
LEMMA MatchKept ==
  ASSUME TypeInv, CallsMatch, UNCHANGED closer,
         \A c \in Callers : \/ call'[c] = call[c]
                            \/ call'[c] # Idle /\ call'[c].session = call[c].session
                                 /\ call[c] # Idle
                            \/ c = OfIntents \/ c = OfReplay
  PROVE  CallsMatch'
BY CallerKinds DEF CallsMatch

LEMMA CallerCover ==
  ASSUME TypeInv, [Next]_vars, CoverInv, NEW c \in Callers, ReadDepth(c) \/ AddJob(c)
  PROVE  CoverInv'
<1> USE DEF rows, queueVars, failures, intents, calcVars, iVars, rVars, bounds
<1>0. PICK s \in Sessions : s = call[c].session
  BY Busy DEF ReadDepth, AddJob, TypeInv
<1>1. /\ s = call[c].session /\ call[c] # Idle
      /\ \A d \in Callers : d # c => call'[d] = call[d]
      /\ call'[c] # Idle /\ call'[c].session = s
      /\ call'[c].step \in {"add", "ok", "error"}
  BY <1>0, Busy, ProceedEffect DEF ReadDepth, AddJob, TypeInv, Idle
<1>2. Closed(s) /\ Closed(s)'
  BY <1>1, Monotone DEF CoverInv, StartsAfterClose
<1>3. \A t \in Sessions : job'[t] # job[t] => t = s /\ job[t] = "none" /\ job'[t] = "queued"
  BY <1>1 DEF ReadDepth, AddJob, TypeInv, TypeOK
<1>4. StartsAfterClose'
  BY <1>1, <1>2, <1>3, StartsKept DEF ReadDepth, AddJob, CoverInv
<1>5. CallsMatch'
  BY <1>1, MatchKept DEF ReadDepth, AddJob, CoverInv
<1>6. BasisIsRead'
  BY BasisKept DEF ReadDepth, AddJob, CoverInv
<1>7. CASE ReadDepth(c)
  <2>1. call'[c].step # "ok"
    BY <1>7, <1>1, ProceedEffect DEF ReadDepth, TypeInv
  <2>2. DoneIsFresh'
    BY <1>7, <1>1, <2>1, FreshKept DEF ReadDepth, CoverInv
  <2>3. ClosedIsCovered'
    BY <1>7, <1>1, <2>1, CoverKept, CallerKinds DEF ReadDepth, CoverInv
  <2> QED BY <1>4, <1>5, <1>6, <2>2, <2>3 DEF CoverInv
<1>8. CASE AddJob(c)
  <2>1. \A t \in Sessions : /\ Plain(t)' <=> Plain(t)
                            /\ Fresh(t)' <=> Fresh(t)
                            /\ Carried(t) => Carried(t)'
    BY <1>8, <1>3 DEF AddJob, Plain, ClosedOnce, Fresh, Carried
  <2>2. ioErrors' = 0 => call'[c].step = "ok" /\ job'[s] # "none"
    BY <1>8, <1>1, ProceedEffect, Monotone DEF AddJob, IoError, TypeInv, TypeOK
  <2>3. Slots \subseteq Calculators
    BY DEF Calculators
  <2>4. DoneIsFresh'
    <3> SUFFICES ASSUME ioErrors' = 0 PROVE DoneIsFresh'
      BY DEF DoneIsFresh
    <3>1. ioErrors = 0 /\ Carried(s)'
      BY <2>2, Monotone DEF Carried
    <3>2. \A d \in Callers : call[d].step = "ok" => call[d].session \in Sessions
      BY Busy DEF TypeInv
    <3>3. \A d \in Calculators : calc[d].step \in {"row", "finish"} => calc[d].session \in Sessions
      BY Busy DEF TypeInv
    <3> QED BY <1>1, <1>8, <2>1, <2>3, <3>1, <3>2, <3>3 DEF DoneIsFresh, CoverInv, AddJob
  <2>5. ClosedIsCovered'
    <3> SUFFICES ASSUME ioErrors' = 0, NEW t \in Sessions, Plain(t)' PROVE Covered(t)'
      BY DEF ClosedIsCovered, Plain, Covered
    <3>1. Covered(t)
      BY <2>1, Monotone DEF CoverInv, ClosedIsCovered, Plain, Covered
    <3>2. CASE Fresh(t) \/ KnownAsFailed(t)
      BY <1>8, <1>3, <2>1, <3>2 DEF AddJob, Covered, KnownAsFailed
    <3>3. CASE job'[t] \in {"queued", "active", "failed"}
      BY <3>3 DEF Covered, Underway, KnownAsFailed
    <3>4. CASE Underway(t) /\ job'[t] \notin {"queued", "active", "failed"}
      <4>1. job[t] \notin {"queued", "active"}
        BY <1>3, <3>4
      <4>2. OfRecovery(t) # c
        BY <1>1, <2>2, <3>4, StepType DEF CoverInv, CallsMatch, TypeInv, TypeOK
      <4>3. call'[OfRecovery(t)] = call[OfRecovery(t)]
        BY <1>1, <4>2, CallerKinds
      <4> QED BY <1>8, <3>4, <4>1, <4>3 DEF AddJob, Underway, Covered
    <3> QED BY <3>1, <3>2, <3>3, <3>4 DEF Covered
  <2> QED BY <1>4, <1>5, <1>6, <2>4, <2>5 DEF CoverInv
<1> QED BY <1>7, <1>8

LEMMA CloseCover ==
  ASSUME TypeInv, [Next]_vars, CoverInv, NEW r \in Closers, CloseSession(r)
  PROVE  CoverInv'
<1> USE DEF rows, queueVars, failures, intents, calcVars, iVars, rVars, bounds
<1>0. PICK s \in Sessions : s = closer[r].session
  BY Busy DEF CloseSession, TypeInv
<1>1. CASE IoError
  <2>1. /\ ioErrors' # 0 /\ UNCHANGED <<edition, status, midway, call, calc>>
        /\ closer' = [closer EXCEPT ![r] = Idle]
    BY <1>1, DistanceConstants DEF IoError, NoIoError, CloseSession, TypeInv, TypeOK
  <2>2. StartsAfterClose' /\ CallsMatch'
    BY <2>1, StartsKept, Busy DEF CloseSession, CoverInv, CallsMatch, TypeInv, TypeOK
  <2>3. BasisIsRead'
    BY <2>1, BasisKept DEF CoverInv
  <2> QED BY <2>1, <2>2, <2>3 DEF CoverInv, DoneIsFresh, ClosedIsCovered
<1>2. CASE ~IoError
  <2>1. /\ edition' = [edition EXCEPT ![s] = @ + 1]
        /\ closer' = [closer EXCEPT ![r] = [closer[r] EXCEPT !.step = "enqueue"]]
        /\ Enqueue(OfCloser(r), s)
    BY <1>0, <1>2 DEF CloseSession, TypeInv, TypeOK
  <2>2. /\ call'[OfCloser(r)] # Idle /\ call'[OfCloser(r)].session = s
        /\ call'[OfCloser(r)].step = "depth"
        /\ \A d \in Callers : d # OfCloser(r) => call'[d] = call[d]
    BY <2>1, EnqueueEffect, CallerKinds DEF TypeInv
  <2>3. [closer[r] EXCEPT !.step = "enqueue"]
          = [step |-> "enqueue", session |-> s, by |-> closer[r].by]
    BY <1>0, Busy DEF CloseSession, TypeInv, Closing
  <2>4. /\ closer'[r].step = "enqueue" /\ closer'[r].session = s
        /\ \A q \in Closers : q # r => closer'[q] = closer[q]
    BY <2>1, <2>3 DEF TypeInv, TypeOK
  <2>5. /\ edition'[s] = edition[s] + 1 /\ edition[s] \in Nat \ {0}
        /\ \A t \in Sessions : t # s => edition'[t] = edition[t]
    BY <2>1 DEF TypeInv, TypeOK, Edition
  <2>6. Closed(s)'
    BY <2>5 DEF Closed
  <2>7. StartsAfterClose'
    BY <2>2, <2>4, <2>6, <1>0, StartsKept DEF CloseSession, CoverInv
  <2>8. CallsMatch'
    BY <2>2, <2>4, CallerKinds DEF CoverInv, CallsMatch
  <2>9. \A c \in Calculators : calc[c].step \in {"summary", "row"} =>
          calc[c].session \in Sessions /\ calc[c].basis \in Nat \ {0}
    BY Busy DEF TypeInv, Calcs, Edition
  <2>10. BasisIsRead'
    BY <2>5, <2>9 DEF CloseSession, CoverInv, BasisIsRead, Closed, TypeInv, TypeOK, Edition
  <2>11. Plain(s)' => ~Closed(s) /\ s \notin midway
    BY <2>5 DEF Plain, ClosedOnce, Closed, CloseSession
  <2>12. \A t \in Sessions : t # s => /\ Plain(t)' <=> Plain(t)
                                      /\ Fresh(t)' <=> Fresh(t)
                                      /\ Carried(t)' <=> Carried(t)
    BY <2>5 DEF CloseSession, Plain, ClosedOnce, Fresh, Carried
  <2>13. DoneIsFresh'
    <3>1. Plain(s)' => /\ status[s] # "done"
                       /\ \A c \in Calculators : calc[c].step = "row" => calc[c].session # s
                       /\ \A k \in Slots : calc[k].step = "finish" => calc[k].session # s
                       /\ \A c \in Callers : call[c].step = "ok" => call[c].session # s
      <4> SUFFICES ASSUME Plain(s)'
                   PROVE  /\ status[s] # "done"
                          /\ \A c \in Calculators : calc[c].step = "row" => calc[c].session # s
                          /\ \A k \in Slots : calc[k].step = "finish" => calc[k].session # s
                          /\ \A c \in Callers : call[c].step = "ok" => call[c].session # s
        OBVIOUS
      <4>1. edition[s] = 1 /\ s \notin midway /\ ~Closed(s)
        BY <2>5, <2>11 DEF Closed
      <4>2. status[s] # "done"
              /\ \A c \in Calculators : calc[c].step = "row" => calc[c].session # s
        BY <2>9, <4>1 DEF CoverInv, BasisIsRead
      <4>3. \A k \in Slots : calc[k].step = "finish" => calc[k].session # s
        BY <4>1, Busy DEF CoverInv, StartsAfterClose, TypeInv, JobsAreOwned
      <4>4. \A c \in Callers : call[c].step = "ok" => call[c].session # s
        BY <4>1, Busy DEF CoverInv, StartsAfterClose, TypeInv
      <4> QED BY <4>2, <4>3, <4>4
    <3>2. \A c \in Callers : call'[c].step = "ok" =>
            call'[c] = call[c] /\ call[c].session \in Sessions
      BY <2>2, Busy DEF TypeInv
    <3>3. \A c \in Calculators : calc[c].step \in {"row", "finish"} =>
            calc[c].session \in Sessions
      BY Busy DEF TypeInv
    <3>4. Slots \subseteq Calculators
      BY DEF Calculators
    <3>5. UNCHANGED <<status, summary, calc>> /\ (ioErrors' = 0 => ioErrors = 0)
      BY Monotone DEF CloseSession
    <3>6. \A t \in Sessions : t # s => edition'[t] = edition[t]
      BY <2>5
    <3> QED BY <2>12, <3>1, <3>2, <3>3, <3>4, <3>5, <3>6 DEF DoneIsFresh, CoverInv
  <2>14. ClosedIsCovered'
    <3> SUFFICES ASSUME ioErrors' = 0, NEW t \in Sessions, Plain(t)' PROVE Covered(t)'
      BY DEF ClosedIsCovered, Plain, Covered
    <3>1. CASE t = s
      BY <2>4, <3>1 DEF Covered, Underway
    <3>2. CASE t # s
      <4>1. Covered(t)
        BY <2>12, <3>2, Monotone DEF CoverInv, ClosedIsCovered, Plain, Covered
      <4>2. call'[OfRecovery(t)] = call[OfRecovery(t)]
        BY <2>2, CallerKinds
      <4>3. Underway(t) => Underway(t)'
        BY <2>4, <4>2, <3>2, <1>0 DEF Underway, CloseSession
      <4>4. KnownAsFailed(t) => KnownAsFailed(t)'
        BY DEF KnownAsFailed, CloseSession
      <4> QED BY <2>12, <3>2, <4>1, <4>3, <4>4 DEF Covered
    <3> QED BY <3>1, <3>2
  <2> QED BY <2>7, <2>8, <2>10, <2>13, <2>14 DEF CoverInv
<1> QED BY <1>1, <1>2

LEMMA CloserCover ==
  ASSUME TypeInv, [Next]_vars, CoverInv, NEW r \in Closers,
         \/ \E s \in Sessions, by \in {"employee", "admin"} : FindOpenSession(r, s, by)
         \/ Enqueued(r)
         \/ PersistRetryIntent(r)
  PROVE  CoverInv'
<1> USE DEF rows, queueVars, failures, intents, calcVars, iVars, rVars, bounds
<1>1. ASSUME NEW s \in Sessions, NEW by \in {"employee", "admin"}, FindOpenSession(r, s, by)
      PROVE  CoverInv'
  <2>1. /\ closer'[r].step = "close" /\ closer[r].step = "idle"
        /\ \A q \in Closers : q # r => closer'[q] = closer[q]
    BY <1>1, Busy DEF FindOpenSession, TypeInv, TypeOK
  <2>2. StartsAfterClose' /\ CallsMatch'
    BY <1>1, <2>1, StartsKept DEF FindOpenSession, CoverInv, CallsMatch
  <2>3. BasisIsRead' /\ DoneIsFresh'
    BY <1>1, BasisKept, FreshKept DEF FindOpenSession, CoverInv
  <2>4. ClosedIsCovered'
    BY <1>1, <2>1, CoverKept DEF FindOpenSession, CoverInv
  <2> QED BY <2>2, <2>3, <2>4 DEF CoverInv
<1>2. CASE Enqueued(r)
  <2>0. PICK s \in Sessions : s = closer[r].session
    BY <1>2, Busy DEF Enqueued, TypeInv
  <2>1. /\ call'[OfCloser(r)] = Idle
        /\ \A d \in Callers : d # OfCloser(r) => call'[d] = call[d]
    BY <1>2, ReturnEffect, CallerKinds DEF Enqueued, TypeInv
  <2>2. /\ closer[r].by \in {"employee", "admin"}
        /\ [closer[r] EXCEPT !.step = "intent"]
             = [step |-> "intent", session |-> s, by |-> closer[r].by]
    BY <1>2, <2>0, Busy DEF Enqueued, TypeInv, Closing
  <2>3. /\ \A q \in Closers : q # r => closer'[q] = closer[q]
        /\ \/ closer'[r] = Idle
           \/ closer'[r].step = "intent" /\ closer'[r].session = s
    BY <1>2, <2>2 DEF Enqueued, TypeInv, TypeOK
  <2>4. Closed(s) /\ Closed(s)' /\ s = call[OfCloser(r)].session
    BY <1>2, <2>0, Monotone DEF Enqueued, CoverInv, StartsAfterClose, CallsMatch
  <2>5. StartsAfterClose'
    BY <1>2, <2>0, <2>1, <2>3, <2>4, StartsKept, Busy, CallerKinds DEF Enqueued, CoverInv, TypeInv
  <2>6. CallsMatch'
    BY <1>2, <2>1, <2>3, Busy, CallerKinds DEF Enqueued, CoverInv, CallsMatch, TypeInv
  <2>7. BasisIsRead' /\ DoneIsFresh'
    BY <1>2, <2>1, BasisKept, FreshKept, Busy, CallerKinds DEF Enqueued, CoverInv, TypeInv
  <2>8. ClosedIsCovered'
    <3> SUFFICES ASSUME ioErrors' = 0, NEW t \in Sessions, Plain(t)' PROVE Covered(t)'
      BY DEF ClosedIsCovered, Plain, Covered
    <3>1. Plain(t) /\ ioErrors = 0 /\ (Fresh(t)' <=> Fresh(t))
      BY <1>2, Monotone DEF Enqueued, Plain, ClosedOnce, Fresh
    <3>2. Covered(t)
      BY <3>1 DEF CoverInv, ClosedIsCovered, Plain, Covered
    <3>3. KnownAsFailed(t) => KnownAsFailed(t)'
      BY <1>2, Monotone DEF Enqueued, KnownAsFailed
    <3>4. CASE t # s
      <4>1. call'[OfRecovery(t)] = call[OfRecovery(t)]
        BY <2>1, CallerKinds
      <4>2. Underway(t) => Underway(t)'
        BY <1>2, <2>0, <2>3, <3>4, <4>1 DEF Enqueued, Underway
      <4> QED BY <3>1, <3>2, <3>3, <4>2 DEF Covered
    <3>5. CASE t = s /\ call[OfCloser(r)].step = "ok"
      <4>1. Carried(s)
        BY <2>4, <3>1, <3>5, CallerKinds DEF CoverInv, DoneIsFresh
      <4>2. UNCHANGED <<job, status>>
        BY <1>2 DEF Enqueued
      <4>3. job[s] # "none" => job[s] \in {"queued", "active", "failed"}
        BY DEF TypeInv, TypeOK
      <4> QED BY <3>1, <3>5, <4>1, <4>2, <4>3 DEF Carried, Covered, Underway, KnownAsFailed
    <3>6. CASE t = s /\ call[OfCloser(r)].step = "error"
      <4>1. \/ closer'[r].step = "intent" /\ closer'[r].session = s
            \/ s \in dropped'
        BY <1>2, <2>0, <2>2, <3>6 DEF Enqueued, TypeInv, TypeOK
      <4> QED BY <3>6, <4>1 DEF Covered, Underway, KnownAsFailed
    <3> QED BY <1>2, <3>4, <3>5, <3>6 DEF Enqueued
  <2> QED BY <2>5, <2>6, <2>7, <2>8 DEF CoverInv
<1>3. CASE PersistRetryIntent(r)
  <2>0. PICK s \in Sessions : s = closer[r].session
    BY <1>3, Busy DEF PersistRetryIntent, TypeInv
  <2>1. /\ closer'[r] = Idle
        /\ \A q \in Closers : q # r => closer'[q] = closer[q]
        /\ \A t \in Sessions : t # s => intent'[t] = intent[t]
    BY <1>3, <2>0 DEF PersistRetryIntent, TypeInv, TypeOK
  <2>2. Closed(s) /\ Closed(s)'
    BY <1>3, <2>0, Monotone DEF PersistRetryIntent, CoverInv, StartsAfterClose
  <2>3. StartsAfterClose'
    BY <1>3, <2>1, <2>2, StartsKept, Busy DEF PersistRetryIntent, CoverInv, TypeInv
  <2>4. CallsMatch'
    BY <1>3, <2>1, Busy DEF PersistRetryIntent, CoverInv, CallsMatch, TypeInv
  <2>5. BasisIsRead' /\ DoneIsFresh'
    BY <1>3, BasisKept, FreshKept DEF PersistRetryIntent, CoverInv
  <2>6. ClosedIsCovered'
    <3> SUFFICES ASSUME ioErrors' = 0, NEW t \in Sessions, Plain(t)' PROVE Covered(t)'
      BY DEF ClosedIsCovered, Plain, Covered
    <3>1. Plain(t) /\ ioErrors = 0 /\ (Fresh(t)' <=> Fresh(t))
      BY <1>3, Monotone DEF PersistRetryIntent, Plain, ClosedOnce, Fresh
    <3>2. Covered(t)
      BY <3>1 DEF CoverInv, ClosedIsCovered, Plain, Covered
    <3>3. CASE t = s
      <4>1. intent'[s] = "pending" \/ s \in dropped'
        BY <1>3, <2>0 DEF PersistRetryIntent, TypeInv, TypeOK
      <4> QED BY <3>3, <4>1 DEF Covered, KnownAsFailed
    <3>4. CASE t # s
      <4>1. KnownAsFailed(t) => KnownAsFailed(t)'
        BY <1>3, <2>1, <3>4, Monotone DEF PersistRetryIntent, KnownAsFailed
      <4>2. Underway(t) => Underway(t)'
        BY <1>3, <2>0, <2>1, <3>4 DEF PersistRetryIntent, Underway
      <4> QED BY <3>1, <3>2, <4>1, <4>2 DEF Covered
    <3> QED BY <3>3, <3>4
  <2> QED BY <2>3, <2>4, <2>5, <2>6 DEF CoverInv
<1> QED BY <1>1, <1>2, <1>3

\* A step of calculation c for session s: what it has to respect.
Disturbs(c, s) ==
  /\ UNCHANGED <<edition, call, closer, boot, intent, dlq, itodo>>
  /\ \A d \in Calculators : d # c => calc'[d] = calc[d]
  /\ calc'[c] # Idle => calc'[c].session = s
  /\ \A t \in Sessions : t # s =>
       /\ status'[t] = status[t] /\ summary'[t] = summary[t] /\ duration'[t] = duration[t]
       /\ job'[t] = job[t] /\ lateMark'[t] = lateMark[t] /\ lateDlq'[t] = lateDlq[t]
       /\ t \in midway' <=> t \in midway
  /\ job'[s] # "none" => job[s] # "none"
  /\ lateDlq'[s] = lateDlq[s] \/ Closed(s)

Respects(c, s) ==
  /\ calc'[c].step \in {"summary", "row"} =>
       calc'[c].basis <= edition[s] /\ (calc'[c].basis = 1 => s \in midway')
  /\ status'[s] = "done" /\ ~Closed(s) => status[s] = "done" \/ s \in midway'
  /\ ioErrors' = 0 /\ Plain(s)' =>
       /\ status'[s] = "done" => Fresh(s)'
       /\ summary'[s] = summary[s] \/ summary'[s] = edition[s]
       /\ calc'[c].step = "row" => summary'[s] = edition[s]
       /\ status'[s] = status[s] \/ status'[s] # "pending"
       /\ calc'[c].step = "finish" => status'[s] # "pending"
       /\ Carried(s) => Carried(s)'
       /\ Covered(s) => Covered(s)'

LEMMA CalculationCover ==
  ASSUME TypeInv, [Next]_vars, CoverInv, NEW c \in Calculators, NEW s \in Sessions,
         Disturbs(c, s), Respects(c, s)
  PROVE  CoverInv'
<1> USE DEF Disturbs
<1>0. /\ \A d \in Calculators : d # c /\ calc'[d].step # "idle" =>
           calc[d].session \in Sessions
      /\ Slots \subseteq Calculators
      /\ \A d \in Callers : call[d].step # "idle" => call[d].session \in Sessions
      /\ calc'[c].step # "idle" => calc'[c].session = s
  BY Busy DEF TypeInv, Calculators
<1>1. StartsAfterClose'
  BY StartsKept DEF CoverInv, Closed
<1>2. CallsMatch'
  BY MatchKept DEF CoverInv
<1>3. midway \subseteq midway' /\ (ioErrors' = 0 => ioErrors = 0)
  BY Monotone
<1>4. BasisIsRead'
  <2>1. \A d \in Calculators : calc'[d].step \in {"summary", "row"} =>
          /\ calc'[d].basis <= edition'[calc'[d].session]
          /\ calc'[d].basis = 1 => calc'[d].session \in midway'
    BY <1>0, <1>3 DEF CoverInv, BasisIsRead, Respects
  <2>2. \A t \in Sessions : ~Closed(t)' /\ t \notin midway' => status'[t] # "done"
    BY <1>3 DEF CoverInv, BasisIsRead, Respects, Closed
  <2> QED BY <2>1, <2>2 DEF BasisIsRead
<1>5. \A t \in Sessions : Plain(t)' => Plain(t)
  BY <1>3 DEF Plain, ClosedOnce
<1>6. \A t \in Sessions : t # s => /\ Fresh(t)' <=> Fresh(t)
                                   /\ Carried(t)' <=> Carried(t)
                                   /\ Covered(t) => Covered(t)'
  <2> SUFFICES ASSUME NEW t \in Sessions, t # s
               PROVE  /\ Fresh(t)' <=> Fresh(t)
                      /\ Carried(t)' <=> Carried(t)
                      /\ Covered(t) => Covered(t)'
    OBVIOUS
  <2>1. (Fresh(t)' <=> Fresh(t)) /\ (Carried(t)' <=> Carried(t))
    BY DEF Fresh, Carried
  <2>2. Underway(t) => Underway(t)'
    BY DEF Underway
  <2>3. KnownAsFailed(t) => KnownAsFailed(t)'
    BY Monotone DEF KnownAsFailed
  <2> QED BY <2>1, <2>2, <2>3 DEF Covered
<1>7. ClosedIsCovered'
  BY <1>3, <1>5, <1>6 DEF CoverInv, ClosedIsCovered, Covered, Plain, Respects
<1>8. DoneIsFresh'
  <2> SUFFICES ASSUME ioErrors' = 0
               PROVE  /\ \A t \in Sessions : Plain(t)' /\ status'[t] = "done" => Fresh(t)'
                      /\ \A d \in Calculators :
                           calc'[d].step = "row" /\ Plain(calc[d].session)' =>
                             summary'[calc'[d].session] = edition'[calc'[d].session]
                      /\ \A k \in Slots :
                           calc'[k].step = "finish" /\ Plain(calc[k].session)' =>
                             status'[calc'[k].session] # "pending"
                      /\ \A d \in Callers :
                           call'[d].step = "ok" /\ Plain(call[d].session)' =>
                             Carried(call[d].session)'
    BY DEF DoneIsFresh
  <2>1. ASSUME NEW t \in Sessions, Plain(t)', status'[t] = "done" PROVE Fresh(t)'
    BY <1>3, <1>5, <1>6, <2>1 DEF CoverInv, DoneIsFresh, Respects
  <2>2. ASSUME NEW d \in Calculators, calc'[d].step = "row", Plain(calc[d].session)'
        PROVE  summary'[calc'[d].session] = edition'[calc'[d].session]
    <3>1. CASE d = c
      BY <1>0, <2>2, <3>1 DEF Respects
    <3>2. CASE d # c
      <4>1. /\ calc'[d] = calc[d] /\ calc[d].session \in Sessions
            /\ Plain(calc[d].session)
        BY <1>0, <1>5, <2>2, <3>2
      <4>2. summary[calc[d].session] = edition[calc[d].session]
        BY <1>3, <2>2, <4>1 DEF CoverInv, DoneIsFresh
      <4> QED BY <2>2, <4>1, <4>2 DEF Respects
    <3> QED BY <3>1, <3>2
  <2>3. ASSUME NEW k \in Slots, calc'[k].step = "finish", Plain(calc[k].session)'
        PROVE  status'[calc'[k].session] # "pending"
    <3>1. CASE k = c
      BY <1>0, <2>3, <3>1 DEF Respects
    <3>2. CASE k # c
      <4>1. /\ calc'[k] = calc[k] /\ calc[k].session \in Sessions
            /\ Plain(calc[k].session)
        BY <1>0, <1>5, <2>3, <3>2
      <4>2. status[calc[k].session] # "pending"
        BY <1>3, <2>3, <4>1 DEF CoverInv, DoneIsFresh
      <4> QED BY <2>3, <4>1, <4>2 DEF Respects
    <3> QED BY <3>1, <3>2
  <2>4. ASSUME NEW d \in Callers, call'[d].step = "ok", Plain(call[d].session)'
        PROVE  Carried(call[d].session)'
    <3>1. call'[d] = call[d] /\ call[d].session \in Sessions /\ Plain(call[d].session)
      BY <1>0, <1>5, <2>4
    <3>2. Carried(call[d].session)
      BY <1>3, <2>4, <3>1 DEF CoverInv, DoneIsFresh
    <3> QED BY <1>6, <2>4, <3>1, <3>2 DEF Respects
  <2> QED BY <2>1, <2>2, <2>3, <2>4
<1> QED BY <1>1, <1>2, <1>4, <1>7, <1>8 DEF CoverInv

LEMMA StartCover ==
  ASSUME TypeInv, [Next]_vars, CoverInv, NEW c \in Calculators, NEW s \in Sessions,
         Take(c, s) \/ Recalculate(c, s)
  PROVE  CoverInv'
<1> USE DEF rows, queueVars, failures, intents, calcVars, iVars, rVars, bounds
<1>1. /\ calc'[c].session = s /\ calc'[c].step = "read"
      /\ \A d \in Calculators : d # c => calc'[d] = calc[d]
  BY StartEffect DEF Take, Recalculate, TypeInv
<1>2. /\ \/ job'[s] = job[s]
         \/ job[s] = "queued" /\ job'[s] = "active"
      /\ \A t \in Sessions : t # s => job'[t] = job[t]
  BY DEF Take, Recalculate, TypeInv, TypeOK
<1>3. Disturbs(c, s)
  BY <1>1, <1>2 DEF Take, Recalculate, Disturbs
<1>4. /\ Fresh(s)' <=> Fresh(s)
      /\ Carried(s)' <=> Carried(s)
      /\ Covered(s) => Covered(s)'
  BY <1>2 DEF Take, Recalculate, Fresh, Carried, Covered, Underway, KnownAsFailed
<1>5. Plain(s)' => Plain(s)
  BY DEF Take, Recalculate, Plain, ClosedOnce
<1>6. Respects(c, s)
  BY <1>1, <1>4, <1>5, Monotone DEF Take, Recalculate, Respects, CoverInv, DoneIsFresh
<1> QED BY <1>3, <1>6, CalculationCover

\* A calculation that throws leaves its job queued or kept.
LEMMA FailCover ==
  ASSUME TypeInv, [Next]_vars, CoverInv, NEW c \in Calculators, calc[c].step # "idle", Fail(c),
         UNCHANGED <<rows, midway, call, closer, boot, intents, dlq, itodo, dropped>>
  PROVE  CoverInv'
<1> USE DEF rows, intents
<1>0. PICK s \in Sessions : s = calc[c].session
  BY Busy DEF TypeInv
<1>1. calc'[c] = Idle /\ Idle.step = "idle" /\ \A d \in Calculators : d # c => calc'[d] = calc[d]
  BY LeaveEffect, Busy DEF Fail, TypeInv
<1>2. /\ \A t \in Sessions : t # s => job'[t] = job[t] /\ lateMark'[t] = lateMark[t]
                                        /\ lateDlq'[t] = lateDlq[t]
      /\ \/ UNCHANGED <<job, lateMark, lateDlq>>
         \/ /\ job[s] = "active" /\ job'[s] \in {"queued", "failed"}
  BY <1>0, Busy DEF Fail, TypeInv, TypeOK, JobsAreOwned, Calculators
<1>3. Disturbs(c, s)
  BY <1>1, <1>2 DEF Disturbs, CoverInv, StartsAfterClose
<1>4. /\ Fresh(s)' <=> Fresh(s)
      /\ Carried(s)' <=> Carried(s)
      /\ Covered(s) => Covered(s)'
  BY <1>2 DEF Fresh, Carried, Covered, Underway, KnownAsFailed
<1>5. Plain(s)' => Plain(s)
  BY DEF Plain, ClosedOnce
<1>6. Respects(c, s)
  BY <1>1, <1>4, <1>5, Monotone DEF Respects, CoverInv, DoneIsFresh
<1> QED BY <1>3, <1>6, CalculationCover

LEMMA ReadCover ==
  ASSUME TypeInv, [Next]_vars, CoverInv, NEW c \in Calculators, ReadSession(c) PROVE CoverInv'
<1> USE DEF rows, queueVars, failures, intents, calcVars, iVars, rVars, bounds
<1>0. PICK s \in Sessions : s = calc[c].session
  BY Busy DEF ReadSession, TypeInv
<1>1. CASE Fail(c) /\ UNCHANGED midway
  BY <1>1, FailCover DEF ReadSession
<1>2. CASE ~(Fail(c) /\ UNCHANGED midway)
  <2>1. /\ midway' = midway \cup (IF edition[s] = 1 THEN {s} ELSE {})
        /\ calc' = [calc EXCEPT ![c] = [step |-> "summary", session |-> s,
                                       basis |-> edition[s]]]
        /\ UNCHANGED <<job, lateDlq, lateMark>>
    BY <1>0, <1>2 DEF ReadSession, TypeInv, TypeOK
  <2>2. /\ calc'[c].step = "summary" /\ calc'[c].session = s /\ calc'[c].basis = edition[s]
        /\ \A d \in Calculators : d # c => calc'[d] = calc[d]
    BY <2>1 DEF TypeInv, TypeOK
  <2>3. Disturbs(c, s)
    BY <2>1, <2>2 DEF ReadSession, Disturbs
  <2>4. /\ Fresh(s)' <=> Fresh(s)
        /\ Carried(s)' <=> Carried(s)
        /\ Covered(s) => Covered(s)'
    BY <2>1 DEF ReadSession, Fresh, Carried, Covered, Underway, KnownAsFailed
  <2>5. Plain(s)' => Plain(s)
    BY <2>1 DEF ReadSession, Plain, ClosedOnce
  <2>6. edition[s] \in Nat
    BY DEF TypeInv, TypeOK, Edition
  <2>7. Respects(c, s)
    BY <2>1, <2>2, <2>4, <2>5, <2>6, Monotone
       DEF ReadSession, Respects, CoverInv, DoneIsFresh, BasisIsRead
  <2> QED BY <2>3, <2>7, CalculationCover
<1> QED BY <1>1, <1>2

LEMMA SummaryCover ==
  ASSUME TypeInv, [Next]_vars, CoverInv, NEW c \in Calculators, SaveSummary(c) PROVE CoverInv'
<1> USE DEF rows, queueVars, failures, intents, calcVars, iVars, rVars, bounds
<1>0. PICK s \in Sessions : s = calc[c].session
  BY Busy DEF SaveSummary, TypeInv
<1>1. CASE Fail(c) /\ UNCHANGED summary
  BY <1>1, FailCover DEF SaveSummary
<1>2. CASE ~(Fail(c) /\ UNCHANGED summary)
  <2>1. /\ summary' = [summary EXCEPT ![s] = calc[c].basis]
        /\ Goto(c, "row")
        /\ UNCHANGED <<job, lateDlq, lateMark>>
    BY <1>0, <1>2 DEF SaveSummary
  <2>2. /\ calc'[c].step = "row" /\ calc'[c].session = s /\ calc'[c].basis = calc[c].basis
        /\ \A d \in Calculators : d # c => calc'[d] = calc[d]
    BY <1>0, <2>1, GotoEffect DEF SaveSummary, TypeInv
  <2>3. summary'[s] = calc[c].basis /\ \A t \in Sessions : t # s => summary'[t] = summary[t]
    BY <2>1 DEF TypeInv, TypeOK
  <2>4. Disturbs(c, s)
    BY <2>1, <2>2, <2>3 DEF SaveSummary, Disturbs
  <2>5. /\ calc[c].basis \in Nat \ {0} /\ calc[c].basis <= edition[s]
        /\ calc[c].basis = 1 => s \in midway
    BY <1>0, Busy DEF SaveSummary, CoverInv, BasisIsRead, TypeInv, Calcs, Edition
  <2>6. Plain(s)' => Plain(s) /\ summary'[s] = edition[s]
    BY <2>3, <2>5 DEF SaveSummary, Plain, ClosedOnce
  <2>7. Plain(s)' => /\ Fresh(s) => Fresh(s)'
                     /\ Carried(s) => Carried(s)'
                     /\ Covered(s) => Covered(s)'
    BY <2>1, <2>6 DEF SaveSummary, Fresh, Carried, Covered, Underway, KnownAsFailed
  <2>8. Respects(c, s)
    BY <2>2, <2>5, <2>6, <2>7, Monotone
       DEF SaveSummary, Respects, CoverInv, DoneIsFresh, BasisIsRead
  <2> QED BY <2>4, <2>8, CalculationCover
<1> QED BY <1>1, <1>2

LEMMA RowCover ==
  ASSUME TypeInv, [Next]_vars, CoverInv, NEW c \in Calculators, SaveRow(c) PROVE CoverInv'
<1> USE DEF rows, queueVars, failures, intents, calcVars, iVars, rVars, bounds
<1>0. PICK s \in Sessions : s = calc[c].session
  BY Busy DEF SaveRow, TypeInv
<1>1. /\ calc'[c].step \in {"idle", "finish"}
      /\ calc'[c] # Idle => calc'[c].session = s
      /\ \A d \in Calculators : d # c => calc'[d] = calc[d]
  BY <1>0, GotoEffect, LeaveEffect, Busy DEF SaveRow, TypeInv
<1>2. /\ calc[c].basis \in Nat \ {0} /\ calc[c].basis <= edition[s]
      /\ calc[c].basis = 1 => s \in midway
  BY <1>0, Busy DEF SaveRow, CoverInv, BasisIsRead, TypeInv, Calcs, Edition
<1>3. \A t \in Sessions : t # s => status'[t] = status[t] /\ duration'[t] = duration[t]
  BY <1>0 DEF SaveRow, TypeInv, TypeOK
<1>4. Disturbs(c, s)
  BY <1>1, <1>3 DEF SaveRow, Disturbs
<1>5. status'[s] = "done" /\ ~Closed(s) => status[s] = "done" \/ s \in midway'
  <2>1. edition[s] \in Nat
    BY DEF TypeInv, TypeOK, Edition
  <2>2. ~Closed(s) => s \in midway
    BY <1>2, <2>1 DEF Closed
  <2> QED BY <2>2 DEF SaveRow
<1>6. ASSUME ioErrors' = 0, Plain(s)' PROVE Fresh(s)'
  <2>1. ioErrors = 0 /\ Plain(s) /\ edition'[s] = edition[s]
    BY <1>6, Monotone DEF SaveRow, Plain, ClosedOnce
  <2>2. status'[s] = "done" /\ duration'[s] = calc[c].basis
    BY <1>0, <1>6, <2>1, DistanceConstants DEF SaveRow, IoError, NoIoError, TypeInv, TypeOK
  <2>3. summary'[s] = edition[s]
    BY <1>0, <2>1 DEF SaveRow, CoverInv, DoneIsFresh
  <2>4. calc[c].basis = edition[s]
    BY <1>2, <2>1 DEF Plain, ClosedOnce
  <2> QED BY <2>1, <2>2, <2>3, <2>4 DEF Fresh
<1>7. Respects(c, s)
  BY <1>1, <1>5, <1>6 DEF SaveRow, Respects, Fresh, Carried, Covered
<1> QED BY <1>4, <1>7, CalculationCover

LEMMA FinishCover ==
  ASSUME TypeInv, [Next]_vars, CoverInv, NEW c \in Calculators, FinishJob(c) PROVE CoverInv'
<1> USE DEF rows, queueVars, failures, intents, calcVars, iVars, rVars, bounds
<1>0. PICK s \in Sessions : s = calc[c].session
  BY Busy DEF FinishJob, TypeInv
<1>1. calc'[c] = Idle /\ Idle.step = "idle" /\ \A d \in Calculators : d # c => calc'[d] = calc[d]
  BY LeaveEffect, Busy DEF FinishJob, TypeInv
<1>2. c \in Slots /\ job[s] = "active"
  BY <1>0, Busy DEF FinishJob, TypeInv, JobsAreOwned, Calculators
<1>3. job'[s] = "none" /\ \A t \in Sessions : t # s => job'[t] = job[t]
  BY <1>0 DEF FinishJob, TypeInv, TypeOK
<1>4. Disturbs(c, s)
  BY <1>1, <1>3 DEF FinishJob, Disturbs
<1>5. ASSUME ioErrors' = 0, Plain(s)' PROVE Fresh(s)' \/ status[s] = "failed"
  <2>1. ioErrors = 0 /\ Plain(s) /\ (Fresh(s)' <=> Fresh(s))
    BY <1>5, Monotone DEF FinishJob, Plain, ClosedOnce, Fresh
  <2>2. status[s] # "pending"
    BY <1>0, <1>2, <2>1 DEF FinishJob, CoverInv, DoneIsFresh
  <2>3. status[s] \in {"done", "failed"}
    BY <2>2 DEF TypeInv, TypeOK
  <2> QED BY <2>1, <2>3 DEF CoverInv, DoneIsFresh
<1>6. ioErrors' = 0 /\ Plain(s)' => Carried(s)' /\ Covered(s)' /\ (status[s] = "done" => Fresh(s)')
  BY <1>5 DEF FinishJob, Carried, Covered, KnownAsFailed
<1>7. Respects(c, s)
  BY <1>1, <1>6 DEF FinishJob, Respects
<1> QED BY <1>4, <1>7, CalculationCover

LEMMA HandlerCover ==
  ASSUME TypeInv, [Next]_vars, CoverInv, NEW s \in Sessions, DeadLetter(s) \/ MarkFailed(s)
  PROVE  CoverInv'
<1> USE DEF rows, queueVars, failures, intents, calcVars, iVars, rVars, bounds
<1>1. CASE DeadLetter(s)
  <2>1. \A t \in Sessions : dlq'[t] + lateDlq'[t] > 0 => dlq[t] + lateDlq[t] > 0
    BY <1>1 DEF DeadLetter, TypeInv, TypeOK
  <2>2. StartsAfterClose'
    BY <1>1, <2>1, StartsKept DEF DeadLetter, CoverInv
  <2>3. CallsMatch' /\ BasisIsRead' /\ DoneIsFresh'
    BY <1>1, MatchKept, BasisKept, FreshKept DEF DeadLetter, CoverInv
  <2>4. ClosedIsCovered'
    BY <1>1, CoverKept DEF DeadLetter, CoverInv
  <2> QED BY <2>2, <2>3, <2>4 DEF CoverInv
<1>2. CASE MarkFailed(s)
  <2>1. /\ \A t \in Sessions : t # s => status'[t] = status[t] /\ lateMark'[t] = lateMark[t]
        /\ status'[s] = "failed" \/ status'[s] = status[s]
        /\ ioErrors' = 0 => status'[s] = "failed"
    BY <1>2, DistanceConstants DEF MarkFailed, IoError, NoIoError, TypeInv, TypeOK
  <2>2. StartsAfterClose' /\ CallsMatch'
    BY <1>2, StartsKept, MatchKept DEF MarkFailed, CoverInv
  <2>3. BasisIsRead'
    BY <1>2, <2>1, BasisKept DEF MarkFailed, CoverInv
  <2>4. \A t \in Sessions : /\ Plain(t)' <=> Plain(t)
                            /\ Carried(t) => Carried(t)'
                            /\ t # s => (Fresh(t)' <=> Fresh(t))
    BY <1>2, <2>1 DEF MarkFailed, Plain, ClosedOnce, Carried, Fresh
  <2>5. DoneIsFresh'
    <3>1. \A c \in Callers : call[c].step = "ok" => call[c].session \in Sessions
      BY Busy DEF TypeInv
    <3>2. \A c \in Calculators : calc[c].step \in {"row", "finish"} => calc[c].session \in Sessions
      BY Busy DEF TypeInv
    <3>3. Slots \subseteq Calculators
      BY DEF Calculators
    <3> QED BY <1>2, <2>1, <2>4, <3>1, <3>2, <3>3, Monotone DEF MarkFailed, DoneIsFresh, CoverInv
  <2>6. ClosedIsCovered'
    <3> SUFFICES ASSUME ioErrors' = 0, NEW t \in Sessions, Plain(t)' PROVE Covered(t)'
      BY DEF ClosedIsCovered, Plain, Covered
    <3>1. CASE t = s
      BY <2>1, <3>1 DEF Covered, KnownAsFailed
    <3>2. CASE t # s
      <4>1. Covered(t)
        BY <2>4, Monotone DEF CoverInv, ClosedIsCovered, Plain, Covered
      <4>2. Underway(t)' <=> Underway(t)
        BY <1>2 DEF MarkFailed, Underway
      <4>3. KnownAsFailed(t) => KnownAsFailed(t)'
        BY <1>2, <2>1, <3>2 DEF MarkFailed, KnownAsFailed
      <4> QED BY <2>4, <3>2, <4>1, <4>2, <4>3 DEF Covered
    <3> QED BY <3>1, <3>2
  <2> QED BY <2>2, <2>3, <2>5, <2>6 DEF CoverInv
<1> QED BY <1>1, <1>2

LEMMA RecoveryCover ==
  ASSUME TypeInv, [Next]_vars, CoverInv,
         RecoveryScan \/ \E s \in Sessions : RecoveryReturn(s)
  PROVE  CoverInv'
<1> USE DEF rows, queueVars, failures, intents, calcVars, iVars, rVars, bounds
<1>1. CASE RecoveryScan
  <2>1. \A c \in Callers :
          \/ call'[c] = call[c]
          \/ \E s \in Sessions : /\ Closed(s) /\ c = OfRecovery(s)
                                 /\ call'[c] # Idle
                                 /\ call'[c].step = "depth" /\ call'[c].session = s
    BY <1>1, ScanEffect DEF NeedsRecalculation, Idle
  <2>2. \A s \in Sessions : Closed(s) => Closed(s)'
    BY Monotone
  <2>3. StartsAfterClose'
    BY <1>1, <2>1, <2>2, StartsKept DEF RecoveryScan, CoverInv
  <2>4. CallsMatch'
    BY <1>1, <2>1, CallerKinds DEF RecoveryScan, CoverInv, CallsMatch
  <2>5. BasisIsRead' /\ DoneIsFresh'
    BY <1>1, <2>1, BasisKept, FreshKept DEF RecoveryScan, CoverInv
  <2>6. ClosedIsCovered'
    <3> SUFFICES ASSUME ioErrors' = 0, NEW t \in Sessions, Plain(t)' PROVE Covered(t)'
      BY DEF ClosedIsCovered, Plain, Covered
    <3>1. ioErrors = 0 /\ ioErrors' = ioErrors /\ Plain(t) /\ (Fresh(t)' <=> Fresh(t))
      BY <1>1, Monotone DEF RecoveryScan, Plain, ClosedOnce, Fresh
    <3>2. CASE status[t] = "done"
      BY <3>1, <3>2 DEF CoverInv, DoneIsFresh, Covered
    <3>3. CASE status[t] # "done"
      <4>1. status[t] \in {"pending", "failed"} /\ Closed(t)
        BY <3>1, <3>3 DEF TypeInv, TypeOK, Plain, ClosedOnce, Closed
      <4>2. call'[OfRecovery(t)].step = "depth"
        <5>1. NeedsRecalculation(t)
          BY <4>1 DEF NeedsRecalculation
        <5>2. call'[OfRecovery(t)] = [step |-> "depth", session |-> t]
          BY <1>1, <3>1, <5>1, ScanEffect
        <5> QED BY <5>2
      <4> QED BY <4>2 DEF Covered, Underway
    <3> QED BY <3>2, <3>3
  <2> QED BY <2>3, <2>4, <2>5, <2>6 DEF CoverInv
<1>2. ASSUME NEW s \in Sessions, RecoveryReturn(s) PROVE CoverInv'
  <2>1. /\ call'[OfRecovery(s)] = Idle /\ Idle.step = "idle"
        /\ \A d \in Callers : d # OfRecovery(s) => call'[d] = call[d]
        /\ call[OfRecovery(s)] # Idle
    BY <1>2, ReturnEffect, CallerKinds, Busy DEF RecoveryReturn, TypeInv
  <2>2. StartsAfterClose' /\ CallsMatch'
    BY <1>2, <2>1, StartsKept, CallerKinds DEF RecoveryReturn, CoverInv, CallsMatch
  <2>3. BasisIsRead' /\ DoneIsFresh'
    BY <1>2, <2>1, BasisKept, FreshKept DEF RecoveryReturn, CoverInv
  <2>4. ClosedIsCovered'
    <3> SUFFICES ASSUME ioErrors' = 0, NEW t \in Sessions, Plain(t)' PROVE Covered(t)'
      BY DEF ClosedIsCovered, Plain, Covered
    <3>1. Plain(t) /\ ioErrors = 0 /\ (Fresh(t)' <=> Fresh(t))
      BY <1>2, Monotone DEF RecoveryReturn, Plain, ClosedOnce, Fresh
    <3>2. Covered(t)
      BY <3>1 DEF CoverInv, ClosedIsCovered, Plain, Covered
    <3>3. KnownAsFailed(t) => KnownAsFailed(t)'
      BY <1>2, Monotone DEF RecoveryReturn, KnownAsFailed
    <3>4. CASE t # s
      <4>1. call'[OfRecovery(t)] = call[OfRecovery(t)]
        BY <2>1, <3>4, CallerKinds
      <4>2. Underway(t)' <=> Underway(t)
        BY <1>2, <4>1 DEF RecoveryReturn, Underway
      <4> QED BY <3>1, <3>2, <3>3, <4>2 DEF Covered
    <3>5. CASE t = s /\ call[OfRecovery(s)].step = "ok"
      <4>1. Carried(s)
        BY <2>1, <3>1, <3>5, CallerKinds DEF CoverInv, DoneIsFresh, CallsMatch
      <4>2. UNCHANGED <<job, status>> /\ (job[s] # "none" => job[s] \in {"queued", "active", "failed"})
        BY <1>2 DEF RecoveryReturn, TypeInv, TypeOK
      <4> QED BY <3>1, <3>5, <4>1, <4>2 DEF Carried, Covered, Underway, KnownAsFailed
    <3>6. CASE t = s /\ call[OfRecovery(s)].step = "error"
      BY <1>2, <3>6 DEF RecoveryReturn, Covered, KnownAsFailed
    <3> QED BY <1>2, <3>4, <3>5, <3>6 DEF RecoveryReturn
  <2> QED BY <2>2, <2>3, <2>4 DEF CoverInv
<1> QED BY <1>1, <1>2

LEMMA IntentCover ==
  ASSUME TypeInv, [Next]_vars, CoverInv,
         \/ LoadIntents
         \/ IntentReplayed
         \/ \E s \in Sessions : NextIntent(s) \/ CleanupIntent(s)
  PROVE  CoverInv'
<1> USE DEF rows, queueVars, failures, intents, calcVars, iVars, rVars, bounds
<1>0. \A s \in Sessions : Closed(s) => Closed(s)'
  BY Monotone
<1>1. CASE LoadIntents
  <2>1. \A s \in itodo' : s \in itodo \/ (s \in Sessions /\ Closed(s))
    BY <1>1 DEF LoadIntents, CoverInv, StartsAfterClose
  <2>2. StartsAfterClose'
    BY <1>0, <1>1, <2>1, StartsKept DEF LoadIntents, CoverInv
  <2>3. CallsMatch' /\ BasisIsRead' /\ DoneIsFresh'
    BY <1>1, MatchKept, BasisKept, FreshKept DEF LoadIntents, CoverInv
  <2>4. ClosedIsCovered'
    BY <1>1, CoverKept DEF LoadIntents, CoverInv
  <2> QED BY <2>2, <2>3, <2>4 DEF CoverInv
<1>2. CASE IntentReplayed
  <2>0. PICK s \in Sessions : s = call[OfIntents].session
    BY <1>2, Busy, CallerKinds DEF IntentReplayed, TypeInv
  <2>1. /\ call'[OfIntents] = Idle /\ Idle.step = "idle"
        /\ \A d \in Callers : d # OfIntents => call'[d] = call[d]
    BY <1>2, ReturnEffect, CallerKinds, Busy DEF IntentReplayed, TypeInv
  <2>2. /\ \A t \in Sessions : t # s => intent'[t] = intent[t]
        /\ intent'[s] \in {"resolved", "dead", intent[s]}
    BY <1>2, <2>0 DEF IntentReplayed, TypeInv, TypeOK
  <2>3. StartsAfterClose'
    BY <1>2, <2>1, <2>2, StartsKept DEF IntentReplayed, CoverInv
  <2>4. CallsMatch' /\ BasisIsRead' /\ DoneIsFresh'
    BY <1>2, <2>1, MatchKept, BasisKept, FreshKept DEF IntentReplayed, CoverInv
  <2>5. ClosedIsCovered'
    <3> SUFFICES ASSUME ioErrors' = 0, NEW t \in Sessions, Plain(t)' PROVE Covered(t)'
      BY DEF ClosedIsCovered, Plain, Covered
    <3>1. Plain(t) /\ ioErrors = 0 /\ (Fresh(t)' <=> Fresh(t))
      BY <1>2, Monotone DEF IntentReplayed, Plain, ClosedOnce, Fresh
    <3>2. Covered(t)
      BY <3>1 DEF CoverInv, ClosedIsCovered, Plain, Covered
    <3>3. Underway(t)' <=> Underway(t)
      BY <1>2, <2>1, CallerKinds DEF IntentReplayed, Underway
    <3>4. CASE t # s \/ intent'[s] = "dead" \/ intent'[s] = intent[s]
      <4>1. KnownAsFailed(t) => KnownAsFailed(t)'
        BY <1>2, <2>2, <3>4 DEF IntentReplayed, KnownAsFailed
      <4> QED BY <3>1, <3>2, <3>3, <4>1 DEF Covered
    <3>5. CASE t = s /\ intent'[s] = "resolved" /\ intent'[s] # intent[s]
      <4>1. call[OfIntents].step = "ok"
        BY <1>2, <2>0, <3>5 DEF IntentReplayed, TypeInv, TypeOK
      <4>2. Carried(s)
        BY <2>0, <3>1, <3>5, <4>1, CallerKinds DEF CoverInv, DoneIsFresh
      <4>3. UNCHANGED <<job, status>> /\ (job[s] # "none" => job[s] \in {"queued", "active", "failed"})
        BY <1>2 DEF IntentReplayed, TypeInv, TypeOK
      <4> QED BY <3>1, <3>5, <4>2, <4>3 DEF Carried, Covered, Underway, KnownAsFailed
    <3> QED BY <2>2, <3>4, <3>5
  <2> QED BY <2>3, <2>4, <2>5 DEF CoverInv
<1>3. ASSUME NEW s \in Sessions, NextIntent(s) PROVE CoverInv'
  <2>1. /\ call'[OfIntents] # Idle /\ call'[OfIntents].step = "depth"
        /\ call'[OfIntents].session = s
        /\ \A d \in Callers : d # OfIntents => call'[d] = call[d]
    BY <1>3, EnqueueEffect, CallerKinds DEF NextIntent, TypeInv
  <2>2. StartsAfterClose'
    BY <1>0, <1>3, <2>1, StartsKept DEF NextIntent, CoverInv, StartsAfterClose
  <2>3. CallsMatch' /\ BasisIsRead' /\ DoneIsFresh'
    BY <1>3, <2>1, MatchKept, BasisKept, FreshKept DEF NextIntent, CoverInv
  <2>4. ClosedIsCovered'
    BY <1>3, <2>1, CoverKept, CallerKinds DEF NextIntent, CoverInv
  <2> QED BY <2>2, <2>3, <2>4 DEF CoverInv
<1>4. ASSUME NEW s \in Sessions, CleanupIntent(s) PROVE CoverInv'
  <2>1. /\ intent'[s] = "none" /\ \A t \in Sessions : t # s => intent'[t] = intent[t]
        /\ intent[s] = "dead" => s \in dropped'
        /\ intent[s] # "pending"
    BY <1>4 DEF CleanupIntent, TypeInv, TypeOK
  <2>2. StartsAfterClose'
    BY <1>4, <2>1, StartsKept DEF CleanupIntent, CoverInv
  <2>3. CallsMatch' /\ BasisIsRead' /\ DoneIsFresh'
    BY <1>4, MatchKept, BasisKept, FreshKept DEF CleanupIntent, CoverInv
  <2>4. \A t \in Sessions : /\ Plain(t)' <=> Plain(t)
                            /\ Covered(t) => Covered(t)'
    BY <1>4, <2>1, Monotone
       DEF CleanupIntent, Plain, ClosedOnce, Covered, Fresh, Underway, KnownAsFailed
  <2>5. ClosedIsCovered'
    BY <2>4, Monotone DEF CoverInv, ClosedIsCovered, Plain, Covered
  <2> QED BY <2>2, <2>3, <2>5 DEF CoverInv
<1> QED BY <1>1, <1>2, <1>3, <1>4

LEMMA ReplayCover ==
  ASSUME TypeInv, [Next]_vars, CoverInv,
         StartReplay \/ EntryReplayed \/ \E s \in Sessions : NextEntry(s)
  PROVE  CoverInv'
<1> USE DEF rows, queueVars, failures, intents, calcVars, iVars, rVars, bounds
<1>1. CASE StartReplay
  <2>1. StartsAfterClose'
    BY <1>1, StartsKept DEF StartReplay, CoverInv
  <2>2. CallsMatch' /\ BasisIsRead' /\ DoneIsFresh' /\ ClosedIsCovered'
    BY <1>1, MatchKept, BasisKept, FreshKept, CoverKept DEF StartReplay, CoverInv
  <2> QED BY <2>1, <2>2 DEF CoverInv
<1>2. ASSUME NEW s \in Sessions, NextEntry(s) PROVE CoverInv'
  <2>1. /\ call'[OfReplay] # Idle /\ call'[OfReplay].step = "depth"
        /\ call'[OfReplay].session = s
        /\ \A d \in Callers : d # OfReplay => call'[d] = call[d]
    BY <1>2, EnqueueEffect, CallerKinds DEF NextEntry, TypeInv
  <2>2. dlq[s] + lateDlq[s] > 0
    BY <1>2 DEF NextEntry, TypeInv, TypeOK, ReplayIsBacked
  <2>3. Closed(s)'
    BY <2>2, Monotone DEF CoverInv, StartsAfterClose
  <2>4. StartsAfterClose'
    BY <1>2, <2>1, <2>3, StartsKept DEF NextEntry, CoverInv
  <2>5. CallsMatch' /\ BasisIsRead' /\ DoneIsFresh'
    BY <1>2, <2>1, MatchKept, BasisKept, FreshKept DEF NextEntry, CoverInv
  <2>6. ClosedIsCovered'
    BY <1>2, <2>1, CoverKept, CallerKinds DEF NextEntry, CoverInv
  <2> QED BY <2>4, <2>5, <2>6 DEF CoverInv
<1>3. CASE EntryReplayed
  <2>1. /\ call'[OfReplay] = Idle /\ Idle.step = "idle"
        /\ \A d \in Callers : d # OfReplay => call'[d] = call[d]
    BY <1>3, ReturnEffect, CallerKinds, Busy DEF EntryReplayed, TypeInv
  <2>2. call[OfReplay].session \in Sessions
    BY <1>3, Busy, CallerKinds DEF EntryReplayed, TypeInv
  <2>3. \A t \in Sessions : dlq'[t] + lateDlq'[t] > 0 => dlq[t] + lateDlq[t] > 0
    BY <1>3, <2>2 DEF EntryReplayed, TypeInv, TypeOK
  <2>4. StartsAfterClose'
    BY <1>3, <2>1, <2>3, StartsKept DEF EntryReplayed, CoverInv
  <2>5. CallsMatch' /\ BasisIsRead' /\ DoneIsFresh'
    BY <1>3, <2>1, MatchKept, BasisKept, FreshKept DEF EntryReplayed, CoverInv
  <2>6. ClosedIsCovered'
    BY <1>3, <2>1, CoverKept, CallerKinds DEF EntryReplayed, CoverInv
  <2> QED BY <2>4, <2>5, <2>6 DEF CoverInv
<1> QED BY <1>1, <1>2, <1>3

LEMMA CrashCover ==
  ASSUME TypeInv, [Next]_vars, CoverInv, Crash PROVE CoverInv'
<1> USE DEF rows, queueVars, failures, intents, calcVars, iVars, rVars, bounds
<1>1. /\ \A c \in Callers : call'[c] = Idle
      /\ \A c \in Calculators : calc'[c] = Idle
      /\ \A r \in Closers : closer'[r] = Idle
      /\ Idle.step = "idle" /\ itodo' = {} /\ boot'
      /\ Slots \subseteq Calculators
  BY Busy DEF Crash, TypeInv, Calculators
<1>2. \A s \in Sessions : /\ job'[s] # "none" => job[s] # "none"
                          /\ lateDlq'[s] > 0 => job[s] # "none"
  BY DEF Crash
<1>3. \A s \in Sessions : dlq'[s] + lateDlq'[s] > 0 =>
                            job[s] # "none" \/ dlq[s] + lateDlq[s] > 0
  BY <1>2, StepType DEF Crash, TypeInv, TypeOK
<1>4. StartsAfterClose'
  BY <1>1, <1>2, <1>3, StartsKept DEF Crash, CoverInv
<1>5. CallsMatch'
  BY <1>1, CallerKinds DEF CallsMatch
<1>6. BasisIsRead'
  BY <1>1 DEF Crash, CoverInv, BasisIsRead, Closed
<1>7. DoneIsFresh'
  BY <1>1 DEF Crash, CoverInv, DoneIsFresh, Plain, ClosedOnce, Fresh
<1>8. ClosedIsCovered'
  BY <1>1 DEF ClosedIsCovered, Underway
<1> QED BY <1>4, <1>5, <1>6, <1>7, <1>8 DEF CoverInv

LEMMA StepCover == TypeInv /\ CoverInv /\ [Next]_vars => CoverInv'
<1> SUFFICES ASSUME TypeInv, CoverInv, [Next]_vars PROVE CoverInv'
  OBVIOUS
<1>1. CASE UNCHANGED vars
  <2>1. StartsAfterClose' /\ CallsMatch'
    BY <1>1, StartsKept, MatchKept DEF vars, CoverInv, rows, queueVars, failures, intents, iVars
  <2>2. BasisIsRead' /\ DoneIsFresh' /\ ClosedIsCovered'
    BY <1>1, BasisKept, FreshKept, CoverKept
       DEF vars, CoverInv, rows, queueVars, failures, intents, calcVars
  <2> QED BY <2>1, <2>2 DEF CoverInv
<1>2. ASSUME NEW c \in Calculators, CalculatorStep(c) PROVE CoverInv'
  BY <1>2, ReadCover, SummaryCover, RowCover, FinishCover DEF CalculatorStep
<1>3. ASSUME NEW r \in Closers, CloserStep(r) PROVE CoverInv'
  BY <1>3, CloseCover, CloserCover DEF CloserStep
<1>4. Slots \subseteq Calculators /\ Recalcs \subseteq Calculators
  BY DEF Calculators
<1>5. CASE Next
  BY <1>2, <1>3, <1>4, <1>5, CallerCover, CloserCover, StartCover, HandlerCover,
     RecoveryCover, IntentCover, ReplayCover, CrashCover DEF Next
<1> QED BY <1>1, <1>5

\* A session that is checked out once, and was not recalculated while open, is
\* up to date, on its way or on record as failed, in every state without a
\* failed call: through any number of crashes, refusals, retries and replays.
THEOREM ClosedAlwaysCovered == SafetySpec => []ClosedIsCovered
<1>1. CoverInv => ClosedIsCovered
  BY DEF CoverInv
<1> QED BY <1>1, InitCover, StepCover, TypeAlways, PTL DEF SafetySpec

===============================================================================
