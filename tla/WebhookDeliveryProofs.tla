------------------------ MODULE WebhookDeliveryProofs ------------------------
(***************************************************************************)
(* Proofs about WebhookDelivery, for every set of events, webhooks, worker *)
(* slots and administrators and every value of the bounds.                 *)
(***************************************************************************)
EXTENDS WebhookDelivery, TLAPS

USE ConstantsOK

\* The attempt numbers in use, wherever they are held, stay within the ceiling.
WithinCeiling(n) == n <= MaxAttempts + adminOps

Ceiling ==
  /\ \A d \in Delivery : attempts[d] \in Nat /\ WithinCeiling(attempts[d])
  /\ \A j \in Job : queue[j] # "none" \/ sent[j] > 0 => WithinCeiling(j[2])
  /\ \A k \in Workers : wpc[k] # "idle" => WithinCeiling(wjob[k][2])
  /\ \A a \in Admins : apc[a] # "idle" => WithinCeiling(ajob[a][2])
  /\ \A k \in Workers : wpc[k] \in {"depth", "add", "reject"} => wjob[k][2] < MaxAttempts

TypeInv == TypeOK /\ Ceiling

LEMMA JobParts ==
  ASSUME NEW j \in Job
  PROVE  /\ j[1] \in Delivery /\ j[2] \in Attempt /\ j = <<j[1], j[2]>>
         /\ j[1][1] \in Events /\ j[1][2] \in Webhooks /\ j[2] \in Nat
BY DEF Job, Delivery, Attempt

LEMMA FirstJob ==
  ASSUME NEW d \in Delivery
  PROVE  <<d, 1>> \in Job
BY DEF Job, Attempt, ConstantsOK

\* Adding a job whose number is within the ceiling keeps the queue's part of
\* TypeOK and of Ceiling; an id that is no job changes nothing.
LEMMA AddJobInv ==
  ASSUME TypeInv, NEW j, AddJob(j), j \in Job => WithinCeiling(j[2])
  PROVE  /\ queue' \in [Job -> {"none", "queued", "active", "failed"}]
         /\ \A i \in Job : queue'[i] # "none" => queue[i] # "none" \/ WithinCeiling(i[2])
         /\ stalledOnce' = stalledOnce
BY DEF AddJob, TypeInv, TypeOK

LEMMA InitTypeInv == Init => TypeInv
<1> SUFFICES ASSUME Init PROVE TypeInv
  OBVIOUS
<1>1. TypeOK
  BY DEF Init, TypeOK, FanPC, AdminPC, WorkerPC
<1>2. Ceiling
  BY JobParts DEF Init, Ceiling, WithinCeiling
<1> QED BY <1>1, <1>2 DEF TypeInv

LEMMA FanTypeInv ==
  ASSUME TypeInv, NEW d \in Delivery, FanStep(d)
  PROVE  TypeInv'
<1> USE DEF TypeInv, vars, fanVars, rowVars, queueVars, workerVars, adminVars, history, environment
<1>1. CASE FanInsert(d)
  <2>1. TypeOK'
    BY <1>1 DEF FanInsert, TypeOK, FanPC, InsertRow, IoError
  <2>2. Ceiling'
    BY <1>1 DEF FanInsert, TypeOK, Ceiling, WithinCeiling, InsertRow, IoError
  <2> QED BY <2>1, <2>2
<1>2. CASE FanDepth(d)
  BY <1>2 DEF FanDepth, TypeOK, FanPC, IoError, Ceiling, WithinCeiling
<1>3. CASE FanAdd(d)
  <2>1. TypeOK'
    BY <1>3 DEF FanAdd, AddJob, TypeOK, FanPC, IoError
  <2>2. Ceiling'
    <3>1. CASE AddJob(<<d, 1>>) /\ UNCHANGED ioErrors
      <4>1. WithinCeiling(<<d, 1>>[2])
        BY DEF WithinCeiling, TypeOK, ConstantsOK
      <4>2. \A i \in Job : queue'[i] # "none" => queue[i] # "none" \/ WithinCeiling(i[2])
        BY <3>1, <4>1, AddJobInv
      <4> QED BY <1>3, <4>2 DEF FanAdd, Ceiling, WithinCeiling
    <3>2. CASE IoError /\ UNCHANGED queueVars
      BY <1>3, <3>2 DEF FanAdd, Ceiling, WithinCeiling
    <3> QED BY <1>3, <3>1, <3>2 DEF FanAdd
  <2> QED BY <2>1, <2>2
<1>4. CASE FanReject(d)
  BY <1>4 DEF FanReject, UpdateRow, TypeOK, FanPC, IoError, Ceiling, WithinCeiling
<1> QED BY <1>1, <1>2, <1>3, <1>4 DEF FanStep

LEMMA EventTypeInv ==
  ASSUME TypeInv, NEW e \in Events,
         Emit(e) \/ PersistEvent(e) \/ SelectWebhooks(e)
  PROVE  TypeInv'
<1> USE DEF TypeInv, fanVars, rowVars, queueVars, workerVars, adminVars, history, environment
<1>1. CASE Emit(e)
  BY <1>1 DEF Emit, TypeOK, Ceiling, WithinCeiling
<1>2. CASE PersistEvent(e)
  BY <1>2 DEF PersistEvent, IoError, TypeOK, Ceiling, WithinCeiling
<1>3. CASE SelectWebhooks(e)
  BY <1>3 DEF SelectWebhooks, IoError, TypeOK, FanPC, Ceiling, WithinCeiling
<1> QED BY <1>1, <1>2, <1>3

LEMMA TakeTypeInv ==
  ASSUME TypeInv, NEW k \in Workers, NEW j \in Job, Take(k, j)
  PROVE  TypeInv'
<1> USE DEF TypeInv, fanVars, rowVars, queueVars, workerVars, adminVars, history, environment
<1>1. TypeOK'
  BY DEF Take, TypeOK, WorkerPC
<1>2. Ceiling'
  BY DEF Take, TypeOK, Ceiling, WithinCeiling
<1> QED BY <1>1, <1>2

LEMMA WorkerTypeInv ==
  ASSUME TypeInv, NEW k \in Workers, WorkerStep(k)
  PROVE  TypeInv'
<1> USE DEF TypeInv, fanVars, rowVars, queueVars, workerVars, adminVars, history, environment
<1>0. wpc[k] # "idle" => /\ wjob[k] \in Job
                         /\ wjob[k][1] \in Delivery
                         /\ wjob[k][2] \in Nat
                         /\ wjob[k][1][2] \in Webhooks
                         /\ WithinCeiling(wjob[k][2])
  BY JobParts DEF TypeOK, Ceiling
<1>1. CASE CheckStatus(k)
  BY <1>1 DEF CheckStatus, Goto, IoError, TypeOK, WorkerPC, Ceiling, WithinCeiling
<1>2. CASE FetchEvent(k)
  <2>1. \E pc \in {"noevent", "oversize", "post"} : Goto(k, pc)
    BY <1>2 DEF FetchEvent
  <2> QED
    BY <1>2, <2>1 DEF FetchEvent, Goto, IoError, TypeOK, WorkerPC, Ceiling, WithinCeiling
<1>3. CASE MarkNoEvent(k)
  BY <1>0, <1>3 DEF MarkNoEvent, UpdateRow, Goto, IoError, TypeOK, WorkerPC, Ceiling, WithinCeiling
<1>4. CASE MarkOversize(k)
  BY <1>0, <1>4 DEF MarkOversize, UpdateRow, Goto, IoError, TypeOK, WorkerPC, Ceiling, WithinCeiling
<1>5. CASE Post(k)
  <2>1. TypeOK'
    BY <1>0, <1>5 DEF Post, Goto, TypeOK, WorkerPC
  <2>2. Ceiling'
    BY <1>0, <1>5 DEF Post, Goto, TypeOK, Ceiling, WithinCeiling
  <2> QED BY <2>1, <2>2
<1>6. CASE MarkSuccess(k)
  BY <1>0, <1>6 DEF MarkSuccess, UpdateRow, Goto, IoError, TypeOK, WorkerPC, Ceiling, WithinCeiling
<1>7. CASE ScheduleRetryOrFail(k)
  BY <1>0, <1>7 DEF ScheduleRetryOrFail, CanRetry, ConstantsOK, UpdateRow, Goto, IoError, TypeOK, WorkerPC, Ceiling, WithinCeiling
<1>8. CASE RetryDepth(k)
  BY <1>8 DEF RetryDepth, Goto, IoError, TypeOK, WorkerPC, Ceiling, WithinCeiling
<1>9. CASE RetryAdd(k)
  <2> DEFINE j == <<wjob[k][1], wjob[k][2] + 1>>
  <2>0. CASE AddJob(j) /\ Goto(k, "finish") /\ UNCHANGED ioErrors
    <3>1. queue' \in [Job -> {"none", "queued", "active", "failed"}]
      BY <2>0 DEF AddJob, TypeOK
    <3>2. \A i \in Job : queue'[i] # "none" => queue[i] # "none" \/ WithinCeiling(i[2])
      <4>1. WithinCeiling(j[2])
        BY <1>0, <1>9 DEF RetryAdd, TypeOK, Ceiling, WithinCeiling, ConstantsOK
      <4> QED BY <2>0, <4>1, AddJobInv
    <3>3. TypeOK'
      BY <1>9, <2>0, <3>1 DEF RetryAdd, Goto, AddJob, TypeOK, WorkerPC
    <3>4. Ceiling'
      BY <1>9, <2>0, <3>2 DEF RetryAdd, Goto, TypeOK, Ceiling, WithinCeiling
    <3> QED BY <3>3, <3>4
  <2>1. CASE IoError /\ Goto(k, "reject") /\ UNCHANGED queueVars
    BY <1>9, <2>1 DEF RetryAdd, Goto, IoError, TypeOK, WorkerPC, Ceiling, WithinCeiling
  <2> QED BY <1>9, <2>0, <2>1 DEF RetryAdd
<1>10. CASE RetryReject(k)
  BY <1>0, <1>10 DEF RetryReject, UpdateRow, Goto, IoError, TypeOK, WorkerPC, Ceiling, WithinCeiling
<1>11. CASE MoveToDlq(k)
  BY <1>0, <1>11 DEF MoveToDlq, Goto, IoError, TypeOK, WorkerPC, Ceiling, WithinCeiling
<1>12. CASE FinishJob(k)
  BY <1>0, <1>12 DEF FinishJob, Goto, TypeOK, WorkerPC, Ceiling, WithinCeiling
<1> QED
  BY <1>1, <1>2, <1>3, <1>4, <1>5, <1>6, <1>7, <1>8, <1>9, <1>10, <1>11, <1>12
  DEF WorkerStep

LEMMA AdminTypeInv ==
  ASSUME TypeInv, NEW a \in Admins,
         AdminStep(a) \/ \E d \in Delivery : RetryRead(a, d) \/ TestCreateEvent(a, d)
  PROVE  TypeInv'
<1> USE DEF TypeInv, fanVars, rowVars, queueVars, workerVars, adminVars, history, environment
<1>0. apc[a] # "idle" => /\ ajob[a] \in Job
                         /\ ajob[a][1] \in Delivery
                         /\ WithinCeiling(ajob[a][2])
  BY JobParts DEF TypeOK, Ceiling
<1>1. ASSUME NEW d \in Delivery, RetryRead(a, d) PROVE TypeInv'
  <2>1. <<d, attempts[d] + 1>> \in Job /\ attempts[d] + 1 <= MaxAttempts + adminOps'
    BY <1>1 DEF RetryRead, TypeOK, Ceiling, WithinCeiling, Job, Attempt, ConstantsOK
  <2>2. TypeOK'
    BY <1>1, <2>1 DEF RetryRead, TypeOK, AdminPC, ConstantsOK
  <2>3. Ceiling'
    <3>1. \A j \in Job : j[2] \in Nat
      BY JobParts
    <3>2. /\ \A k \in Workers : wpc[k] # "idle" => wjob[k][2] \in Nat
          /\ \A b \in Admins : apc[b] # "idle" => ajob[b][2] \in Nat
          /\ adminOps \in Nat /\ adminOps' = adminOps + 1 /\ MaxAttempts \in Nat
      BY <1>1, <3>1 DEF RetryRead, TypeOK, ConstantsOK
    <3>3. \A b \in Admins : apc'[b] # "idle" =>
             IF b = a THEN WithinCeiling(ajob[b][2])' ELSE apc[b] # "idle" /\ ajob'[b] = ajob[b]
      BY <1>1, <2>1 DEF RetryRead, TypeOK, WithinCeiling
    <3> QED
      BY <1>1, <3>1, <3>2, <3>3 DEF RetryRead, TypeOK, Ceiling, WithinCeiling
  <2> QED BY <2>2, <2>3
<1>2. ASSUME NEW d \in Delivery, TestCreateEvent(a, d) PROVE TypeInv'
  <2>1. <<d, 1>> \in Job /\ 1 <= MaxAttempts + adminOps' /\ d[1] \in Events
    BY <1>2, FirstJob DEF TestCreateEvent, TypeOK, Delivery, ConstantsOK
  <2>2. TypeOK'
    BY <1>2, <2>1 DEF TestCreateEvent, TypeOK, AdminPC, ConstantsOK
  <2>3. Ceiling'
    <3>1. \A j \in Job : j[2] \in Nat
      BY JobParts
    <3>2. /\ \A k \in Workers : wpc[k] # "idle" => wjob[k][2] \in Nat
          /\ \A b \in Admins : apc[b] # "idle" => ajob[b][2] \in Nat
          /\ adminOps \in Nat /\ adminOps' = adminOps + 1 /\ MaxAttempts \in Nat
      BY <1>2, <3>1 DEF TestCreateEvent, TypeOK, ConstantsOK
    <3>3. \A b \in Admins : apc'[b] # "idle" =>
             IF b = a THEN WithinCeiling(ajob[b][2])' ELSE apc[b] # "idle" /\ ajob'[b] = ajob[b]
      BY <1>2, <2>1 DEF TestCreateEvent, TypeOK, WithinCeiling
    <3> QED
      BY <1>2, <3>1, <3>2, <3>3 DEF TestCreateEvent, TypeOK, Ceiling, WithinCeiling
  <2> QED BY <2>2, <2>3
<1>3. CASE RetryReset(a)
  BY <1>0, <1>3 DEF RetryReset, IoError, TypeOK, AdminPC, Ceiling, WithinCeiling
<1>4. CASE TestCreateDelivery(a)
  BY <1>0, <1>4 DEF TestCreateDelivery, InsertRow, IoError, TypeOK, AdminPC, Ceiling, WithinCeiling, ConstantsOK
<1>5. CASE AdminDepth(a)
  BY <1>0, <1>5 DEF AdminDepth, IoError, TypeOK, AdminPC, Ceiling, WithinCeiling
<1>6. CASE AdminAdd(a)
  <2>1. CASE AddJob(ajob[a]) /\ UNCHANGED ioErrors
    <3>0. /\ queue' \in [Job -> {"none", "queued", "active", "failed"}]
          /\ \A i \in Job : queue'[i] # "none" => queue[i] # "none" \/ WithinCeiling(i[2])
          /\ stalledOnce' = stalledOnce
      BY <1>0, <1>6, <2>1, AddJobInv DEF AdminAdd
    <3>1. TypeOK'
      BY <1>6, <2>1, <3>0 DEF AdminAdd, TypeOK, AdminPC
    <3>2. Ceiling'
      BY <1>6, <2>1, <3>0 DEF AdminAdd, TypeOK, Ceiling, WithinCeiling
    <3> QED BY <3>1, <3>2
  <2>2. CASE IoError /\ UNCHANGED queueVars
    BY <1>6, <2>2 DEF AdminAdd, IoError, TypeOK, AdminPC, Ceiling, WithinCeiling
  <2> QED BY <1>6, <2>1, <2>2 DEF AdminAdd
<1> QED BY <1>1, <1>2, <1>3, <1>4, <1>5, <1>6 DEF AdminStep

LEMMA EnvTypeInv ==
  ASSUME TypeInv,
         \/ \E w \in Webhooks : SetActive(w) \/ DeleteWebhook(w)
         \/ \E k \in Workers : Stall(k)
         \/ Crash
  PROVE  TypeInv'
<1> USE DEF TypeInv, fanVars, rowVars, queueVars, workerVars, adminVars, history, environment
<1>1. ASSUME NEW w \in Webhooks, SetActive(w) PROVE TypeInv'
  BY <1>1 DEF SetActive, TypeOK, Ceiling, WithinCeiling
<1>2. ASSUME NEW w \in Webhooks, DeleteWebhook(w) PROVE TypeInv'
  BY <1>2 DEF DeleteWebhook, TypeOK, Ceiling, WithinCeiling
<1>3. ASSUME NEW k \in Workers, Stall(k) PROVE TypeInv'
  BY <1>3 DEF Stall, AfterStall, TypeOK, Ceiling, WithinCeiling, ConstantsOK
<1>4. CASE Crash
  <2>1. TypeOK'
    BY <1>4 DEF Crash, AfterStall, TypeOK, FanPC, AdminPC, WorkerPC, ConstantsOK
  <2>2. Ceiling'
    BY <1>4 DEF Crash, AfterStall, TypeOK, Ceiling, WithinCeiling
  <2> QED BY <2>1, <2>2
<1> QED BY <1>1, <1>2, <1>3, <1>4

LEMMA StutterTypeInv == TypeInv /\ UNCHANGED vars => TypeInv'
BY DEF TypeInv, TypeOK, Ceiling, WithinCeiling, vars, fanVars, rowVars, queueVars,
       workerVars, adminVars, history, environment

LEMMA StepTypeInv == TypeInv /\ [Next]_vars => TypeInv'
<1> SUFFICES ASSUME TypeInv, [Next]_vars PROVE TypeInv'
  OBVIOUS
<1> QED
  BY EventTypeInv, FanTypeInv, TakeTypeInv, WorkerTypeInv, AdminTypeInv, EnvTypeInv,
     StutterTypeInv DEF Next

LEMMA TypeAlways == SafetySpec => []TypeInv
BY InitTypeInv, StepTypeInv, PTL DEF SafetySpec

\* Every variable keeps its type, and no attempt number in use leaves its range,
\* whatever the deployment's size and the faults it meets.
THEOREM TypeCorrect == SafetySpec => []TypeOK
<1>1. TypeInv => TypeOK
  BY DEF TypeInv
<1> QED BY <1>1, TypeAlways, PTL

\* The automatic retry chain never goes past MaxAttempts, and each request of
\* an administrator adds one attempt at most, through any number of crashes,
\* stalls, failed calls and concurrent requests.
THEOREM AttemptsBounded == SafetySpec => []AttemptCeiling
<1>1. TypeInv => AttemptCeiling
  BY DEF TypeInv, Ceiling, WithinCeiling, AttemptCeiling
<1> QED BY <1>1, TypeAlways, PTL

-----------------------------------------------------------------------------
(* While nothing fails and no administrator intervenes, a delivery has one *)
(* carrier at a time and a pending row always has one.  PendingIsCarried is *)
(* not inductive: RetryAdd could meet a job that holds its id already, and *)
(* the chain would end there.  SingleChain excludes that, together with the *)
(* ceiling on job numbers of TypeInv.                                      *)

Chain ==
  NoIntruder /\ SlotsOwnTheirJobs /\ FanComesFirst /\ QueuedIsNewest /\ SlotIsNewest

AllCarried == \A d \in Delivery : status[d] = "pending" => Carried(d)

CalmInv == Chain /\ AllCarried

IInv == TypeInv /\ (Calm => CalmInv)

LEMMA InitCalmInv == Init => CalmInv
<1> SUFFICES ASSUME Init PROVE CalmInv
  OBVIOUS
<1>1. NoIntruder /\ SlotsOwnTheirJobs /\ FanComesFirst
  BY DEF Init, NoIntruder, SlotsOwnTheirJobs, FanComesFirst, Quiet
<1>2. QueuedIsNewest /\ SlotIsNewest
  BY DEF Init, QueuedIsNewest, SlotIsNewest, LivePC
<1>3. AllCarried
  BY DEF Init, AllCarried
<1> QED BY <1>1, <1>2, <1>3 DEF CalmInv, Chain

\* The counters of faults and interventions only grow.
LEMMA CalmBefore ==
  ASSUME TypeInv, [Next]_vars, Calm'
  PROVE  Calm
<1> USE DEF Calm, NoFaults, TypeInv, TypeOK
<1>1. ASSUME NEW e \in Events, Emit(e) \/ PersistEvent(e) \/ SelectWebhooks(e) PROVE Calm
  BY <1>1 DEF Emit, PersistEvent, SelectWebhooks, IoError, environment, adminVars
<1>2. ASSUME NEW d \in Delivery, FanStep(d) PROVE Calm
  BY <1>2 DEF FanStep, FanInsert, FanDepth, FanAdd, FanReject, UpdateRow, IoError, environment, adminVars
<1>3. ASSUME NEW k \in Workers, NEW j \in Job, Take(k, j) PROVE Calm
  BY <1>3 DEF Take, environment, adminVars
<1>4. ASSUME NEW k \in Workers, WorkerStep(k) PROVE Calm
  BY <1>4 DEF WorkerStep, CheckStatus, FetchEvent, MarkNoEvent, MarkOversize, Post,
     MarkSuccess, ScheduleRetryOrFail, RetryDepth, RetryAdd, RetryReject, MoveToDlq,
     FinishJob, UpdateRow, IoError, environment, adminVars
<1>5. ASSUME NEW a \in Admins, NEW d \in Delivery, RetryRead(a, d) \/ TestCreateEvent(a, d)
      PROVE Calm
  BY <1>5 DEF RetryRead, TestCreateEvent, environment
<1>6. ASSUME NEW a \in Admins, AdminStep(a) PROVE Calm
  BY <1>6 DEF AdminStep, RetryReset, TestCreateDelivery, AdminDepth, AdminAdd, IoError, environment
<1>7. ASSUME NEW w \in Webhooks, SetActive(w) \/ DeleteWebhook(w) PROVE Calm
  BY <1>7 DEF SetActive, DeleteWebhook, environment, adminVars
<1>8. ASSUME NEW k \in Workers, Stall(k) PROVE Calm
  BY <1>8 DEF Stall
<1>9. CASE Crash
  BY <1>9 DEF Crash
<1>10. CASE UNCHANGED vars
  BY <1>10 DEF vars, environment, adminVars
<1> QED
  BY <1>1, <1>2, <1>3, <1>4, <1>5, <1>6, <1>7, <1>8, <1>9, <1>10 DEF Next

LEMMA EventCalm ==
  ASSUME TypeInv, CalmInv, Calm', NEW e \in Events,
         Emit(e) \/ PersistEvent(e) \/ SelectWebhooks(e)
  PROVE  CalmInv'
<1> USE DEF CalmInv, Chain, TypeInv
<1>1. UNCHANGED <<rowVars, queueVars, workerVars, adminVars>>
  BY DEF Emit, PersistEvent, SelectWebhooks
<1>2. NoIntruder' /\ SlotsOwnTheirJobs' /\ QueuedIsNewest' /\ SlotIsNewest'
  BY <1>1 DEF NoIntruder, SlotsOwnTheirJobs, QueuedIsNewest, SlotIsNewest, Newest,
     rowVars, queueVars, workerVars, adminVars
<1>3. /\ \A d \in Delivery : bus'[d[1]] # "done" => bus[d[1]] # "done" /\ fan'[d] = fan[d]
      /\ \A d \in Delivery : fan'[d] # "idle" => fan[d] # "idle" \/ bus[d[1]] # "done"
      /\ \A d \in Delivery : fan'[d] \in {"depth", "add", "reject"} <=>
                             fan[d] \in {"depth", "add", "reject"}
      /\ \A d \in Delivery : fan'[d] = "insert" => status[d] = "absent"
  <2>1. \A d \in Delivery : d[1] \in Events
    BY DEF Delivery
  <2>2. CASE Emit(e)
    BY <2>1, <2>2 DEF Emit, TypeOK, FanComesFirst
  <2>3. CASE PersistEvent(e)
    BY <2>1, <2>3 DEF PersistEvent, TypeOK, FanComesFirst
  <2>4. CASE SelectWebhooks(e)
    BY <2>1, <2>4 DEF SelectWebhooks, TypeOK, FanComesFirst, IoError, Calm, NoFaults
  <2> QED BY <2>2, <2>3, <2>4
<1>4. FanComesFirst'
  BY <1>1, <1>3 DEF FanComesFirst, Quiet, rowVars, queueVars
<1>5. AllCarried'
  BY <1>1, <1>3 DEF AllCarried, Carried, rowVars, queueVars, workerVars, adminVars
<1> QED BY <1>2, <1>4, <1>5

LEMMA FanCalm ==
  ASSUME TypeInv, CalmInv, Calm', NEW d \in Delivery, FanStep(d)
  PROVE  CalmInv'
<1> USE DEF CalmInv, Chain, TypeInv
<1>0. fan[d] # "idle" /\ bus[d[1]] = "done" /\ Quiet(d)
  BY DEF FanStep, FanInsert, FanDepth, FanAdd, FanReject, FanComesFirst
<1>1. UNCHANGED <<bus, workerVars, adminVars>>
  BY DEF FanStep, FanInsert, FanDepth, FanAdd, FanReject
<1>2. ~IoError
  BY DEF IoError, Calm, NoFaults, TypeOK
\* A step that leaves the queue alone and either keeps d's row carried by the
\* fan-out or makes it something other than pending.
<1>3. ASSUME UNCHANGED queueVars,
             \E pc \in FanPC \ {"insert"} : fan' = [fan EXCEPT ![d] = pc],
             \A c \in Delivery : c # d => status'[c] = status[c],
             status'[d] = "pending" => fan'[d] \in {"depth", "add", "reject"}
      PROVE  CalmInv'
  <2>1. NoIntruder' /\ SlotsOwnTheirJobs' /\ QueuedIsNewest' /\ SlotIsNewest'
    BY <1>1, <1>3 DEF NoIntruder, SlotsOwnTheirJobs, QueuedIsNewest, SlotIsNewest, Newest,
       queueVars, workerVars, adminVars
  <2>2. FanComesFirst'
    BY <1>0, <1>1, <1>3 DEF FanComesFirst, Quiet, queueVars, TypeOK
  <2>3. AllCarried'
    BY <1>1, <1>3 DEF AllCarried, Carried, queueVars, workerVars, adminVars, TypeOK
  <2> QED BY <2>1, <2>2, <2>3
<1>4. CASE FanInsert(d)
  <2>1. UNCHANGED queueVars
    BY <1>4 DEF FanInsert
  <2>2. CASE CanInsert(d) /\ InsertRow(d) /\ fan' = [fan EXCEPT ![d] = "depth"]
    BY <1>3, <2>1, <2>2 DEF InsertRow, FanPC, TypeOK
  <2>3. CASE fan' = [fan EXCEPT ![d] = "idle"] /\ UNCHANGED rowVars
    BY <1>3, <1>4, <2>1, <2>3 DEF FanInsert, FanComesFirst, FanPC, rowVars
  <2> QED BY <1>2, <1>4, <2>2, <2>3 DEF FanInsert
<1>5. CASE FanDepth(d)
  BY <1>2, <1>3, <1>5 DEF FanDepth, FanPC, rowVars, TypeOK
<1>6. CASE FanReject(d)
  <2>1. \A c \in Delivery : c # d => status'[c] = status[c]
    BY <1>6 DEF FanReject, UpdateRow, rowVars, TypeOK
  <2>2. status'[d] # "pending"
    BY <1>2, <1>6 DEF FanReject, UpdateRow, rowVars, TypeOK
  <2> QED BY <1>3, <1>6, <2>1, <2>2 DEF FanReject, FanPC
<1>7. CASE FanAdd(d)
  <2> DEFINE j == <<d, 1>>
  <2>1. j \in Job /\ j[1] = d /\ queue[j] = "none"
    BY <1>0, FirstJob DEF Quiet
  <2>2. /\ queue' = [queue EXCEPT ![j] = "queued"]
        /\ fan' = [fan EXCEPT ![d] = "idle"]
        /\ UNCHANGED rowVars
    BY <1>2, <1>7, <2>1 DEF FanAdd, AddJob
  <2> HIDE DEF j
  <2>3. NoIntruder'
    BY <1>1, <2>2 DEF NoIntruder, adminVars, TypeOK
  <2>4. \A k \in Workers : wpc[k] # "idle" => wjob[k] \in Job /\ wjob[k][1] # d
    BY <1>0 DEF SlotsOwnTheirJobs, Quiet, TypeOK
  <2>5. SlotsOwnTheirJobs'
    BY <1>1, <2>1, <2>2, <2>4 DEF SlotsOwnTheirJobs, workerVars, TypeOK
  <2>6. FanComesFirst'
    BY <1>0, <1>1, <2>1, <2>2 DEF FanComesFirst, Quiet, rowVars, TypeOK
  <2>7. \A i \in Job : i[1] # d => (Newest(i) => Newest(i)')
    BY <2>1, <2>2 DEF Newest, TypeOK
  <2>8. Newest(j)'
    BY <1>0, <2>1, <2>2 DEF Newest, Quiet, TypeOK
  <2>9. \A i \in Job : queue'[i] = "queued" => i = j \/ (queue[i] = "queued" /\ i[1] # d)
    BY <1>0, <2>2 DEF Quiet, TypeOK
  <2>10. QueuedIsNewest'
    BY <1>1, <2>1, <2>4, <2>7, <2>8, <2>9 DEF QueuedIsNewest, workerVars, LivePC
  <2>11. SlotIsNewest'
    BY <1>1, <2>4, <2>7 DEF SlotIsNewest, workerVars, LivePC
  <2>12. AllCarried'
    BY <1>1, <2>1, <2>2 DEF AllCarried, Carried, rowVars, workerVars, adminVars, TypeOK
  <2> QED BY <2>3, <2>5, <2>6, <2>10, <2>11, <2>12
<1> QED BY <1>4, <1>5, <1>6, <1>7 DEF FanStep

LEMMA TakeCalm ==
  ASSUME TypeInv, CalmInv, NEW k \in Workers, NEW j \in Job, Take(k, j)
  PROVE  CalmInv'
<1> USE DEF CalmInv, Chain, TypeInv
<1>1. /\ queue[j] = "queued" /\ queue' = [queue EXCEPT ![j] = "active"]
      /\ wpc[k] = "idle" /\ wpc' = [wpc EXCEPT ![k] = "check"]
      /\ wjob' = [wjob EXCEPT ![k] = j] /\ wlock' = [wlock EXCEPT ![k] = TRUE]
      /\ UNCHANGED <<fanVars, rowVars, adminVars>>
  BY DEF Take
<1>2. NoIntruder'
  BY <1>1 DEF NoIntruder, adminVars, TypeOK
<1>3. SlotsOwnTheirJobs'
  BY <1>1 DEF SlotsOwnTheirJobs, TypeOK
<1>4. FanComesFirst'
  BY <1>1 DEF FanComesFirst, Quiet, fanVars, rowVars, TypeOK
<1>5. \A i \in Job : Newest(i) => Newest(i)'
  BY <1>1 DEF Newest, TypeOK
<1>6. Newest(j) /\ \A c \in Workers : wpc[c] \in LivePC => wjob[c][1] # j[1]
  BY <1>1 DEF QueuedIsNewest
<1>7. \A i \in Job : queue'[i] = "queued" => queue[i] = "queued" /\ i[1] # j[1]
  BY <1>1 DEF QueuedIsNewest, Newest, TypeOK
<1>8. QueuedIsNewest'
  BY <1>1, <1>5, <1>7 DEF QueuedIsNewest, TypeOK, LivePC
<1>9. SlotIsNewest'
  BY <1>1, <1>5, <1>6 DEF SlotIsNewest, TypeOK, LivePC
<1>10. AllCarried'
  <2> SUFFICES ASSUME NEW d \in Delivery, status[d] = "pending" PROVE Carried(d)'
    BY <1>1 DEF AllCarried, rowVars
  <2>1. CASE d = j[1]
    BY <1>1, <2>1 DEF Carried, TypeOK, LivePC, WorkerPC
  <2>2. CASE d # j[1]
    BY <1>1, <2>2 DEF AllCarried, Carried, fanVars, adminVars, TypeOK, LivePC
  <2> QED BY <2>1, <2>2
<1> QED BY <1>2, <1>3, <1>4, <1>8, <1>9, <1>10

\* A worker step that leaves the queue alone: the slot stays live, or the row
\* it delivers is not pending afterwards, or it was through with it before.
LEMMA SlotCalm ==
  ASSUME TypeInv, CalmInv, NEW k \in Workers, NEW pc \in WorkerPC \ {"idle"},
         wpc[k] # "idle", Goto(k, pc), pc \in LivePC => wpc[k] \in LivePC,
         UNCHANGED <<fanVars, queueVars, wjob, wlock, adminVars>>,
         \A c \in Delivery : c # wjob[k][1] => status'[c] = status[c],
         \/ pc \in LivePC
         \/ status'[wjob[k][1]] # "pending"
         \/ wpc[k] \notin LivePC /\ status'[wjob[k][1]] = status[wjob[k][1]]
  PROVE  CalmInv'
<1> USE DEF CalmInv, Chain, TypeInv, Goto, fanVars, queueVars, adminVars
<1>1. NoIntruder' /\ SlotsOwnTheirJobs'
  BY DEF NoIntruder, SlotsOwnTheirJobs, TypeOK
<1>2. wjob[k] \in Job /\ queue[wjob[k]] = "active" /\ ~Quiet(wjob[k][1])
  BY DEF SlotsOwnTheirJobs, Quiet, TypeOK
<1>3. FanComesFirst'
  BY <1>2 DEF FanComesFirst, Quiet
<1>4. QueuedIsNewest' /\ SlotIsNewest'
  BY DEF QueuedIsNewest, SlotIsNewest, Newest, TypeOK
<1>5. AllCarried'
  <2> SUFFICES ASSUME NEW d \in Delivery, status'[d] = "pending" PROVE Carried(d)'
    BY DEF AllCarried
  <2>1. CASE d # wjob[k][1] \/ pc \notin LivePC
    BY <2>1 DEF AllCarried, Carried, TypeOK
  <2>2. CASE d = wjob[k][1] /\ pc \in LivePC
    BY <2>2 DEF Carried, TypeOK
  <2> QED BY <2>1, <2>2
<1> QED BY <1>1, <1>3, <1>4, <1>5

LEMMA WorkerCalm ==
  ASSUME TypeInv, CalmInv, Calm', NEW k \in Workers, WorkerStep(k)
  PROVE  CalmInv'
<1> USE DEF TypeInv
<1>0. ~IoError
  BY DEF IoError, Calm, NoFaults, TypeOK
<1>1. CASE CheckStatus(k)
  <2>1. \E pc \in {"finish", "fetch"} :
          Goto(k, pc) /\ (pc = "finish" => status[wjob[k][1]] = "success")
    BY <1>0, <1>1 DEF CheckStatus
  <2> QED BY <1>1, <2>1, SlotCalm DEF CheckStatus, rowVars, WorkerPC, LivePC
<1>2. CASE FetchEvent(k)
  <2>1. \E pc \in {"noevent", "oversize", "post"} : Goto(k, pc)
    BY <1>2 DEF FetchEvent
  <2> QED BY <1>2, <2>1, SlotCalm DEF FetchEvent, rowVars, WorkerPC, LivePC
\* The steps that write the row: it keeps its status when it has no row.
<1>3. ASSUME NEW s \in {"pending", "success", "failed"}, NEW n, NEW d \in Delivery,
             UpdateRow(d, s, n)
      PROVE  /\ \A c \in Delivery : c # d => status'[c] = status[c]
             /\ status'[d] = s \/ status'[d] = "absent"
  BY <1>0, <1>3 DEF UpdateRow, rowVars, TypeOK
<1>4. wpc[k] # "idle" => wjob[k][1] \in Delivery
  BY JobParts DEF TypeOK
<1>5. CASE MarkNoEvent(k)
  BY <1>3, <1>4, <1>5, SlotCalm DEF MarkNoEvent, WorkerPC, LivePC
<1>6. CASE MarkOversize(k)
  BY <1>3, <1>4, <1>6, SlotCalm DEF MarkOversize, WorkerPC, LivePC
<1>7. CASE Post(k)
  <2>1. \E pc \in {"succeed", "retry"} : Goto(k, pc)
    BY <1>7 DEF Post
  <2> QED BY <1>7, <2>1, SlotCalm DEF Post, rowVars, WorkerPC, LivePC
<1>8. CASE MarkSuccess(k)
  BY <1>3, <1>4, <1>8, SlotCalm DEF MarkSuccess, WorkerPC, LivePC
<1>9. CASE ScheduleRetryOrFail(k)
  <2>1. CASE CanRetry(wjob[k][2])
    BY <1>3, <1>4, <1>9, <2>1, SlotCalm DEF ScheduleRetryOrFail, WorkerPC, LivePC
  <2>2. CASE ~CanRetry(wjob[k][2])
    BY <1>3, <1>4, <1>9, <2>2, SlotCalm DEF ScheduleRetryOrFail, WorkerPC, LivePC
  <2> QED BY <2>1, <2>2
<1>10. CASE RetryDepth(k)
  <2>1. \E pc \in {"add", "reject"} : Goto(k, pc)
    BY <1>10 DEF RetryDepth
  <2> QED BY <1>10, <2>1, SlotCalm DEF RetryDepth, rowVars, WorkerPC, LivePC
<1>11. CASE RetryAdd(k)
  <2> DEFINE d == wjob[k][1]
             j == <<d, wjob[k][2] + 1>>
  <2> USE DEF CalmInv, Chain
  <2>1. /\ wpc[k] \in LivePC /\ wjob[k] \in Job /\ queue[wjob[k]] = "active"
        /\ d \in Delivery /\ wjob[k][2] \in Nat /\ ~Quiet(d)
    BY <1>11, JobParts DEF RetryAdd, LivePC, WorkerPC, SlotsOwnTheirJobs, Quiet, TypeOK
  <2>2. j \in Job /\ j[1] = d /\ j[2] = wjob[k][2] + 1 /\ j # wjob[k]
    <3>1. wjob[k][2] < MaxAttempts
      BY <1>11 DEF RetryAdd, Ceiling
    <3>2. wjob[k][2] + 1 \in Attempt
      BY <2>1, <3>1 DEF Attempt
    <3>3. j \in Job
      BY <2>1, <3>2 DEF Job
    <3>4. wjob[k][2] + 1 # wjob[k][2]
      BY <2>1
    <3> QED BY <3>3, <3>4
  <2> HIDE DEF j
  <2>3. Newest(wjob[k]) /\ queue[j] = "none"
    <3>1. Newest(wjob[k])
      BY <2>1 DEF SlotIsNewest
    <3> QED BY <2>1, <2>2, <3>1 DEF Newest
  <2>4. /\ queue' = [queue EXCEPT ![j] = "queued"] /\ wpc' = [wpc EXCEPT ![k] = "finish"]
        /\ UNCHANGED <<fanVars, rowVars, wjob, wlock, adminVars>> /\ j' = j
    BY <1>0, <1>11, <2>3 DEF RetryAdd, AddJob, Goto, j
  <2>5. NoIntruder'
    BY <2>4 DEF NoIntruder, adminVars, TypeOK
  <2>6. SlotsOwnTheirJobs'
    BY <2>1, <2>2, <2>3, <2>4 DEF SlotsOwnTheirJobs, LivePC, TypeOK
  <2>7. FanComesFirst'
    BY <2>1, <2>2, <2>3, <2>4 DEF FanComesFirst, Quiet, fanVars, rowVars, TypeOK
  <2>8. \A i \in Job : i[1] # d => (Newest(i) => Newest(i)')
    BY <2>2, <2>4 DEF Newest, TypeOK
  <2>9. \A c \in Workers : c # k /\ wpc[c] \in LivePC => wjob[c][1] # d
    BY <2>1 DEF SlotIsNewest
  <2>10. Newest(j)'
    <3> SUFFICES ASSUME NEW i \in Job, i[1] = d, i # j
                 PROVE  queue[i] # "queued" /\ (i[2] > j[2] => queue[i] = "none")
      BY <2>2, <2>4 DEF Newest, TypeOK
    <3>1. i[2] \in Nat
      BY JobParts
    <3>2. CASE i = wjob[k]
      BY <2>1, <2>2, <3>1, <3>2
    <3>3. CASE i # wjob[k]
      <4>1. queue[i] # "queued" /\ (i[2] > wjob[k][2] => queue[i] = "none")
        BY <2>3, <3>3 DEF Newest
      <4>2. i[2] > j[2] => i[2] > wjob[k][2]
        BY <2>1, <2>2, <3>1
      <4> QED BY <4>1, <4>2
    <3> QED BY <3>2, <3>3
  <2>11. QueuedIsNewest'
    <3> SUFFICES ASSUME NEW i \in Job, queue'[i] = "queued"
                 PROVE  Newest(i)' /\ \A c \in Workers : wpc'[c] \in LivePC => wjob[c][1] # i[1]
      BY <2>4 DEF QueuedIsNewest
    <3>1. wpc'[k] \notin LivePC /\ \A c \in Workers : c # k => wpc'[c] = wpc[c]
      BY <2>4 DEF LivePC, TypeOK
    <3>2. CASE i = j
      <4>1. Newest(i)'
        BY <2>4, <2>10, <3>2 DEF Newest
      <4> QED BY <2>2, <2>9, <3>1, <3>2, <4>1
    <3>3. CASE i # j
      <4>1. queue[i] = "queued"
        BY <2>2, <2>4, <3>3 DEF TypeOK
      <4>2. Newest(i) /\ \A c \in Workers : wpc[c] \in LivePC => wjob[c][1] # i[1]
        BY <4>1 DEF QueuedIsNewest
      <4>3. i[1] # d
        BY <2>1, <4>2
      <4> QED BY <2>8, <3>1, <4>2, <4>3
    <3> QED BY <3>2, <3>3
  <2>12. SlotIsNewest'
    BY <2>1, <2>4, <2>8, <2>9 DEF SlotIsNewest, LivePC, TypeOK
  <2>13. AllCarried'
    <3> SUFFICES ASSUME NEW c \in Delivery, status[c] = "pending" PROVE Carried(c)'
      BY <2>4 DEF AllCarried, rowVars
    <3>1. CASE c = d
      BY <2>2, <2>4, <3>1 DEF Carried, TypeOK
    <3>2. CASE c # d
      BY <2>2, <2>4, <3>2 DEF AllCarried, Carried, fanVars, adminVars, TypeOK, LivePC
    <3> QED BY <3>1, <3>2
  <2> QED BY <2>5, <2>6, <2>7, <2>11, <2>12, <2>13
<1>12. CASE RetryReject(k)
  BY <1>3, <1>4, <1>12, SlotCalm DEF RetryReject, WorkerPC, LivePC
<1>13. CASE MoveToDlq(k)
  BY <1>13, SlotCalm DEF MoveToDlq, rowVars, WorkerPC, LivePC
<1>14. CASE FinishJob(k)
  <2> USE DEF CalmInv, Chain
  <2>1. /\ wpc[k] = "finish" /\ wpc' = [wpc EXCEPT ![k] = "idle"]
        /\ queue' = [queue EXCEPT ![wjob[k]] = "none"] /\ queue[wjob[k]] = "active"
        /\ wlock' = [wlock EXCEPT ![k] = FALSE]
        /\ UNCHANGED <<fanVars, rowVars, wjob, adminVars>>
    BY <1>14 DEF FinishJob, Goto, SlotsOwnTheirJobs
  <2>2. wjob[k] \in Job
    BY <2>1 DEF TypeOK
  <2>3. NoIntruder'
    BY <2>1 DEF NoIntruder, adminVars, TypeOK
  <2>4. SlotsOwnTheirJobs'
    BY <2>1, <2>2 DEF SlotsOwnTheirJobs, TypeOK
  <2>5. FanComesFirst'
    BY <2>1, <2>2 DEF FanComesFirst, Quiet, fanVars, rowVars, TypeOK
  <2>6. \A i \in Job : Newest(i) => Newest(i)'
    BY <2>1, <2>2 DEF Newest, TypeOK
  <2>7. QueuedIsNewest' /\ SlotIsNewest'
    BY <2>1, <2>2, <2>6 DEF QueuedIsNewest, SlotIsNewest, LivePC, TypeOK
  <2>8. AllCarried'
    BY <2>1, <2>2 DEF AllCarried, Carried, fanVars, rowVars, adminVars, LivePC, TypeOK
  <2> QED BY <2>3, <2>4, <2>5, <2>7, <2>8
<1> QED
  BY <1>1, <1>2, <1>5, <1>6, <1>7, <1>8, <1>9, <1>10, <1>11, <1>12, <1>13, <1>14
  DEF WorkerStep

\* Nothing an administrator does, and no fault, leaves the calm intact; what
\* is left to look at is a change of the webhook itself.
LEMMA EnvCalm ==
  ASSUME TypeInv, CalmInv, NEW w \in Webhooks, SetActive(w) \/ DeleteWebhook(w)
  PROVE  CalmInv'
<1> USE DEF CalmInv, Chain, TypeInv, fanVars, queueVars, workerVars, adminVars
<1>1. /\ UNCHANGED <<fanVars, queueVars, workerVars, adminVars>>
      /\ \A d \in Delivery : status'[d] = status[d] \/ status'[d] = "absent"
  BY DEF SetActive, DeleteWebhook, rowVars
<1>2. NoIntruder' /\ SlotsOwnTheirJobs' /\ QueuedIsNewest' /\ SlotIsNewest'
  BY <1>1 DEF NoIntruder, SlotsOwnTheirJobs, QueuedIsNewest, SlotIsNewest, Newest
<1>3. FanComesFirst'
  BY <1>1 DEF FanComesFirst, Quiet
<1>4. AllCarried'
  BY <1>1 DEF AllCarried, Carried
<1> QED BY <1>2, <1>3, <1>4

LEMMA InterventionEndsCalm ==
  ASSUME TypeInv, CalmInv, Calm',
         \/ \E a \in Admins : AdminStep(a)
         \/ \E a \in Admins : \E d \in Delivery : RetryRead(a, d) \/ TestCreateEvent(a, d)
         \/ \E k \in Workers : Stall(k)
         \/ Crash
  PROVE  FALSE
<1> USE DEF TypeInv, TypeOK, Calm, NoFaults
<1>1. ASSUME NEW a \in Admins, AdminStep(a) PROVE FALSE
  BY <1>1 DEF AdminStep, RetryReset, TestCreateDelivery, AdminDepth, AdminAdd,
     CalmInv, Chain, NoIntruder
<1>2. ASSUME NEW a \in Admins, NEW d \in Delivery, RetryRead(a, d) \/ TestCreateEvent(a, d)
      PROVE  FALSE
  BY <1>2 DEF RetryRead, TestCreateEvent
<1>3. ASSUME NEW k \in Workers, Stall(k) PROVE FALSE
  BY <1>3 DEF Stall
<1>4. CASE Crash
  BY <1>4 DEF Crash
<1> QED BY <1>1, <1>2, <1>3, <1>4

LEMMA StepIInv == IInv /\ [Next]_vars => IInv'
<1> SUFFICES ASSUME IInv, [Next]_vars PROVE IInv'
  OBVIOUS
<1>1. TypeInv'
  BY StepTypeInv DEF IInv
<1>2. ASSUME Calm' PROVE CalmInv'
  <2>1. CalmInv /\ TypeInv
    BY <1>2, CalmBefore DEF IInv
  <2>2. CASE UNCHANGED vars
    BY <2>1, <2>2 DEF vars, fanVars, rowVars, queueVars, workerVars, adminVars, CalmInv,
       Chain, NoIntruder, SlotsOwnTheirJobs, FanComesFirst, Quiet, QueuedIsNewest,
       SlotIsNewest, Newest, AllCarried, Carried
  <2> QED
    BY <1>2, <2>1, <2>2, EventCalm, FanCalm, TakeCalm, WorkerCalm, EnvCalm,
       InterventionEndsCalm DEF Next
<1> QED BY <1>1, <1>2 DEF IInv

LEMMA Inductive == SafetySpec => []IInv
<1>1. Init => IInv
  BY InitTypeInv, InitCalmInv DEF IInv
<1> QED BY <1>1, StepIInv, PTL DEF SafetySpec

\* While nothing fails and nobody intervenes, no two jobs or worker slots carry
\* the same delivery, for any number of events, webhooks and worker slots.
THEOREM ChainIsSingle == SafetySpec => []SingleChain
<1>1. IInv => SingleChain
  BY DEF IInv, CalmInv, Chain, SingleChain
<1> QED BY <1>1, Inductive, PTL

\* A pending row is never lost then, whatever the queue's depth limit and
\* whichever fan-outs and retries it turns away.
THEOREM PendingAlwaysCarried == SafetySpec => []PendingIsCarried
<1>1. IInv => PendingIsCarried
  BY DEF IInv, CalmInv, AllCarried, PendingIsCarried
<1> QED BY <1>1, Inductive, PTL

-----------------------------------------------------------------------------
(* Administrators intervene and calls fail, but no process dies and no job *)
(* stalls: a delivery still has one carrier at a time, because a row in    *)
(* success or failed has none and only such a row can be retried.  Two     *)
(* requests at once can fork its chain: both read the row before either    *)
(* resets it, and the slower adds its job to the running chain of the      *)
(* other.  Such a delivery is contested, and the others are not concerned. *)

Undisturbed == crashes = 0 /\ stalls = 0

NoneQueued(d) == \A j \in Job : j[1] = d => queue[j] # "queued"
NoSlot(d)     == \A k \in Workers : wpc[k] \in LivePC => wjob[k][1] # d
NoAdmin(d)    == \A a \in Admins : apc[a] # "idle" => ajob[a][1] # d

\* Before its event went through the bus a delivery has no row and no carrier.
Unstarted(d) ==
  bus[d[1]] # "done" =>
    status[d] = "absent" /\ fan[d] = "idle" /\ NoneQueued(d) /\ NoSlot(d) /\ NoAdmin(d)

\* The carriers of a delivery exclude one another.
OneCarrier(d) ==
  /\ fan[d] # "idle" => NoneQueued(d) /\ NoSlot(d) /\ NoAdmin(d)
  /\ ~NoneQueued(d) => NoSlot(d) /\ NoAdmin(d)
  /\ ~NoSlot(d) => NoAdmin(d)
  /\ \A i, j \in Job :
       queue[i] = "queued" /\ queue[j] = "queued" /\ i[1] = d /\ j[1] = d => i = j
  /\ \A k, c \in Workers :
       wpc[k] \in LivePC /\ wpc[c] \in LivePC /\ wjob[k][1] = d /\ wjob[c][1] = d => k = c
  /\ \A a, b \in Admins :
       apc[a] # "idle" /\ apc[b] # "idle" /\ ajob[a][1] = d /\ ajob[b][1] = d => a = b

\* A settled row has none, but for an administrator about to reset it.
Unattended(d) ==
  status[d] \in {"success", "failed"} =>
    /\ fan[d] = "idle" /\ NoneQueued(d) /\ NoSlot(d)
    /\ \A a \in Admins : apc[a] # "idle" /\ ajob[a][1] = d => apc[a] = "reset"

Thread(d) == Unstarted(d) /\ (d \notin contested => OneCarrier(d) /\ Unattended(d))

ThreadInv == SlotsOwnTheirJobs /\ \A d \in Delivery : Thread(d)

LEMMA InitThread == Init => ThreadInv
BY DEF Init, ThreadInv, SlotsOwnTheirJobs, Thread, Unstarted, OneCarrier, Unattended,
       NoneQueued, NoSlot, NoAdmin, LivePC

LEMMA EventThread ==
  ASSUME TypeInv, ThreadInv, NEW e \in Events,
         Emit(e) \/ PersistEvent(e) \/ SelectWebhooks(e)
  PROVE  ThreadInv'
<1>1. UNCHANGED <<rowVars, queueVars, workerVars, adminVars>>
  BY DEF Emit, PersistEvent, SelectWebhooks
<1>2. SlotsOwnTheirJobs'
  BY <1>1 DEF ThreadInv, SlotsOwnTheirJobs, queueVars, workerVars
<1>3. ASSUME NEW d \in Delivery PROVE Thread(d)'
  <2>1. /\ bus'[d[1]] # "done" => bus[d[1]] # "done" /\ fan'[d] = fan[d]
        /\ fan'[d] # fan[d] => bus[d[1]] # "done"
    <3>1. d[1] \in Events
      BY DEF Delivery
    <3> QED
      BY <3>1 DEF Emit, PersistEvent, SelectWebhooks, TypeInv, TypeOK, IoError
  <2>2. Thread(d)
    BY DEF ThreadInv
  <2> QED
    BY <1>1, <2>1, <2>2 DEF Thread, Unstarted, OneCarrier, Unattended, NoneQueued, NoSlot,
       NoAdmin, rowVars, queueVars, workerVars, adminVars
<1> QED BY <1>2, <1>3 DEF ThreadInv

LEMMA FanThread ==
  ASSUME TypeInv, ThreadInv, NEW d \in Delivery, FanStep(d)
  PROVE  ThreadInv'
<1>1. /\ UNCHANGED <<bus, workerVars, adminVars>>
      /\ fan[d] # "idle"
  BY DEF FanStep, FanInsert, FanDepth, FanAdd, FanReject
<1>2. /\ Thread(d) /\ bus[d[1]] = "done"
      /\ d \notin contested => NoneQueued(d) /\ NoSlot(d) /\ NoAdmin(d)
  BY <1>1 DEF ThreadInv, Thread, Unstarted, OneCarrier
\* The row stays unsettled while the fan-out goes on.
<1>3. \E pc \in FanPC : /\ fan' = [fan EXCEPT ![d] = pc]
                        /\ d \notin contested /\ status'[d] \in {"success", "failed"} =>
                             pc = "idle" /\ UNCHANGED queueVars
  <2> USE DEF TypeInv, TypeOK, FanPC
  <2>1. d \notin contested => status[d] \notin {"success", "failed"}
    BY <1>1, <1>2 DEF Thread, Unattended
  <2>2. CASE FanInsert(d)
    BY <2>1, <2>2 DEF FanInsert, InsertRow, rowVars
  <2>3. CASE FanDepth(d)
    BY <2>1, <2>3 DEF FanDepth, rowVars
  <2>4. CASE FanAdd(d)
    BY <2>1, <2>4 DEF FanAdd, rowVars
  <2>5. CASE FanReject(d)
    BY <2>5 DEF FanReject
  <2> QED BY <2>2, <2>3, <2>4, <2>5 DEF FanStep
<1>4. /\ \A c \in Delivery : c # d => status'[c] = status[c]
      /\ \A j \in Job : queue'[j] # queue[j] =>
           j = <<d, 1>> /\ queue[j] = "none" /\ queue'[j] = "queued" /\ fan'[d] = "idle"
  <2> USE DEF TypeInv, TypeOK
  <2>1. CASE FanInsert(d)
    BY <2>1 DEF FanInsert, InsertRow, rowVars, queueVars
  <2>2. CASE FanDepth(d)
    BY <2>2 DEF FanDepth, rowVars, queueVars
  <2>3. CASE FanAdd(d)
    BY <2>3 DEF FanAdd, AddJob, rowVars, queueVars
  <2>4. CASE FanReject(d)
    BY <2>4 DEF FanReject, UpdateRow, rowVars, queueVars
  <2> QED BY <2>1, <2>2, <2>3, <2>4 DEF FanStep
<1>5. SlotsOwnTheirJobs'
  BY <1>1, <1>4 DEF ThreadInv, SlotsOwnTheirJobs, workerVars, TypeInv, TypeOK
<1>6. ASSUME NEW c \in Delivery PROVE Thread(c)'
  <2>0. Thread(c)
    BY DEF ThreadInv
  <2>1. CASE c = d
    <3>1. Unstarted(c)'
      BY <1>1, <1>2, <2>1 DEF Unstarted
    <3> SUFFICES ASSUME d \notin contested PROVE Thread(c)'
      BY <1>1, <2>1, <3>1 DEF Thread, adminVars
    <3>2. NoSlot(c)' /\ NoAdmin(c)' /\ (fan'[c] # "idle" => NoneQueued(c)')
      BY <1>1, <1>2, <1>4, <2>1 DEF NoSlot, NoAdmin, NoneQueued, workerVars, adminVars
    <3>3. \A i, j \in Job :
            queue'[i] = "queued" /\ queue'[j] = "queued" /\ i[1] = d /\ j[1] = d => i = j
      BY <1>2, <1>4 DEF NoneQueued
    <3>4. OneCarrier(c)'
      BY <2>1, <3>2, <3>3 DEF OneCarrier, NoSlot, NoAdmin
    <3>5. Unattended(c)'
      <4>1. CASE status'[c] \notin {"success", "failed"}
        BY <4>1 DEF Unattended
      <4>2. CASE status'[c] \in {"success", "failed"}
        BY <1>2, <1>3, <2>1, <3>2, <4>2 DEF Unattended, NoneQueued, NoAdmin, queueVars, TypeInv, TypeOK
      <4> QED BY <4>1, <4>2
    <3> QED BY <3>1, <3>4, <3>5 DEF Thread
  <2>2. CASE c # d
    <3>1. /\ status'[c] = status[c] /\ fan'[c] = fan[c]
          /\ \A j \in Job : j[1] = c => queue'[j] = queue[j]
      BY <1>3, <1>4, <2>2 DEF TypeInv, TypeOK
    <3> QED
      BY <1>1, <2>0, <3>1 DEF Thread, Unstarted, OneCarrier, Unattended, NoneQueued, NoSlot,
         NoAdmin, workerVars, adminVars
  <2> QED BY <2>1, <2>2
<1> QED BY <1>5, <1>6 DEF ThreadInv

LEMMA TakeThread ==
  ASSUME TypeInv, ThreadInv, NEW k \in Workers, NEW j \in Job, Take(k, j)
  PROVE  ThreadInv'
<1>1. /\ queue[j] = "queued" /\ queue' = [queue EXCEPT ![j] = "active"]
      /\ wpc[k] = "idle" /\ wpc' = [wpc EXCEPT ![k] = "check"]
      /\ wjob' = [wjob EXCEPT ![k] = j] /\ wlock' = [wlock EXCEPT ![k] = TRUE]
      /\ UNCHANGED <<fanVars, rowVars, adminVars>>
  BY DEF Take
<1>2. SlotsOwnTheirJobs'
  BY <1>1 DEF ThreadInv, SlotsOwnTheirJobs, TypeInv, TypeOK
<1>3. ASSUME NEW d \in Delivery PROVE Thread(d)'
  <2>0. Thread(d)
    BY DEF ThreadInv
  <2> USE DEF TypeInv, TypeOK
  <2>1. CASE j[1] = d
    <3>0. Unstarted(d)'
      BY <1>1, <2>0, <2>1 DEF Thread, Unstarted, NoneQueued, fanVars
    <3> SUFFICES ASSUME d \notin contested PROVE Thread(d)'
      BY <1>1, <3>0 DEF Thread, adminVars
    <3>1. ~NoneQueued(d) /\ NoSlot(d) /\ NoAdmin(d) /\ fan[d] = "idle"
      BY <1>1, <2>0, <2>1 DEF Thread, OneCarrier, NoneQueued
    <3>2. NoneQueued(d)'
      BY <1>1, <2>0, <2>1 DEF Thread, OneCarrier, NoneQueued
    <3>3. NoAdmin(d)' /\ fan'[d] = "idle"
      BY <1>1, <3>1 DEF NoAdmin, adminVars, fanVars
    <3>4. \A c \in Workers : wpc'[c] \in LivePC /\ wjob'[c][1] = d => c = k
      BY <1>1, <3>1 DEF NoSlot
    <3>5. OneCarrier(d)'
      BY <3>2, <3>3, <3>4 DEF OneCarrier, NoneQueued, NoAdmin
    <3>6. bus'[d[1]] = "done" /\ status'[d] \notin {"success", "failed"}
      BY <1>1, <2>0, <3>1 DEF Thread, Unstarted, Unattended, fanVars, rowVars
    <3> QED BY <3>5, <3>6 DEF Thread, Unstarted, Unattended
  <2>2. CASE j[1] # d
    <3>1. /\ \A i \in Job : i[1] = d => queue'[i] = queue[i]
          /\ \A c \in Workers : wpc'[c] \in LivePC /\ wjob'[c][1] = d
                              <=> wpc[c] \in LivePC /\ wjob[c][1] = d
      BY <1>1, <2>2 DEF LivePC, WorkerPC
    <3> QED
      BY <1>1, <2>0, <3>1 DEF Thread, Unstarted, OneCarrier, Unattended, NoneQueued, NoSlot,
         NoAdmin, fanVars, rowVars, adminVars
  <2> QED BY <2>1, <2>2
<1> QED BY <1>2, <1>3 DEF ThreadInv

\* A worker step that leaves the queue alone: a live slot stays live only while
\* it leaves the row unsettled.
LEMMA SlotThread ==
  ASSUME TypeInv, ThreadInv, NEW k \in Workers, NEW pc \in WorkerPC \ {"idle"},
         wpc[k] # "idle", Goto(k, pc), pc \in LivePC => wpc[k] \in LivePC,
         UNCHANGED <<fanVars, queueVars, wjob, wlock, adminVars>>,
         \/ status' = status
         \/ /\ wpc[k] \in LivePC
            /\ \A c \in Delivery : c # wjob[k][1] => status'[c] = status[c]
            /\ pc \in LivePC => status'[wjob[k][1]] \notin {"success", "failed"}
  PROVE  ThreadInv'
<1> USE DEF TypeInv, TypeOK, Goto
<1>1. SlotsOwnTheirJobs'
  BY DEF ThreadInv, SlotsOwnTheirJobs, queueVars
<1>2. ASSUME NEW d \in Delivery PROVE Thread(d)'
  <2>0. Thread(d)
    BY DEF ThreadInv
  <2>1. /\ \A c \in Workers : wpc'[c] \in LivePC => wpc[c] \in LivePC
        /\ \A c \in Workers : c # k => wpc'[c] = wpc[c]
        /\ wpc'[k] = pc
    OBVIOUS
  <2>2. d \notin contested => OneCarrier(d)'
    BY <2>0, <2>1 DEF Thread, OneCarrier, NoneQueued, NoSlot, NoAdmin, fanVars, queueVars, adminVars
  <2>3. CASE status' = status
    BY <2>0, <2>1, <2>2, <2>3 DEF Thread, Unstarted, Unattended, NoneQueued, NoSlot, NoAdmin,
       fanVars, queueVars, adminVars
  <2>4. CASE d # wjob[k][1] /\ status'[d] = status[d]
    BY <2>0, <2>1, <2>2, <2>4 DEF Thread, Unstarted, Unattended, NoneQueued, NoSlot, NoAdmin,
       fanVars, queueVars, adminVars
  <2>5. CASE /\ d = wjob[k][1] /\ wpc[k] \in LivePC
             /\ pc \in LivePC => status'[d] \notin {"success", "failed"}
    <3>1. ~NoSlot(d)
      BY <2>5 DEF NoSlot
    <3>0. Unstarted(d)'
      BY <2>0, <3>1 DEF Thread, Unstarted, fanVars
    <3> SUFFICES ASSUME d \notin contested PROVE Thread(d)'
      BY <3>0 DEF Thread, adminVars
    <3>2. bus[d[1]] = "done" /\ fan[d] = "idle" /\ NoneQueued(d) /\ NoAdmin(d)
      BY <2>0, <3>1 DEF Thread, Unstarted, OneCarrier
    <3>3. fan'[d] = "idle" /\ NoneQueued(d)' /\ NoAdmin(d)' /\ bus'[d[1]] = "done"
      BY <3>2 DEF NoneQueued, NoAdmin, fanVars, queueVars, adminVars
    <3>4. pc \notin LivePC => NoSlot(d)'
      BY <2>0, <2>1, <2>5 DEF Thread, OneCarrier, NoSlot
    <3> QED
      BY <2>2, <2>5, <3>3, <3>4 DEF Thread, Unstarted, Unattended, NoAdmin
  <2> QED BY <2>3, <2>4, <2>5
<1> QED BY <1>1, <1>2 DEF ThreadInv

LEMMA WorkerThread ==
  ASSUME TypeInv, ThreadInv, NEW k \in Workers, WorkerStep(k)
  PROVE  ThreadInv'
<1> USE DEF WorkerPC, LivePC
<1>0. /\ wpc[k] # "idle" => wjob[k][1] \in Delivery
      /\ status \in [Delivery -> {"absent", "pending", "success", "failed"}]
  BY JobParts DEF TypeInv, TypeOK
<1>1. CASE CheckStatus(k)
  <2>1. \E pc \in {"finish", "fetch"} : Goto(k, pc)
    BY <1>1 DEF CheckStatus
  <2> QED BY <1>1, <2>1, SlotThread DEF CheckStatus, rowVars
<1>2. CASE FetchEvent(k)
  <2>1. \E pc \in {"noevent", "oversize", "post"} : Goto(k, pc)
    BY <1>2 DEF FetchEvent
  <2> QED BY <1>2, <2>1, SlotThread DEF FetchEvent, rowVars
<1>3. ASSUME NEW s, NEW n, wpc[k] # "idle", UpdateRow(wjob[k][1], s, n)
      PROVE  \/ status' = status
             \/ /\ \A c \in Delivery : c # wjob[k][1] => status'[c] = status[c]
                /\ status'[wjob[k][1]] = s
  BY <1>0, <1>3 DEF UpdateRow, rowVars
<1>5. CASE MarkNoEvent(k)
  BY <1>3, <1>5, SlotThread DEF MarkNoEvent
<1>6. CASE MarkOversize(k)
  BY <1>3, <1>6, SlotThread DEF MarkOversize
<1>7. CASE Post(k)
  <2>1. \E pc \in {"succeed", "retry"} : Goto(k, pc)
    BY <1>7 DEF Post
  <2> QED BY <1>7, <2>1, SlotThread DEF Post, rowVars
<1>8. CASE MarkSuccess(k)
  BY <1>3, <1>8, SlotThread DEF MarkSuccess
<1>9. CASE ScheduleRetryOrFail(k)
  <2>1. CASE CanRetry(wjob[k][2])
    BY <1>3, <1>9, <2>1, SlotThread DEF ScheduleRetryOrFail
  <2>2. CASE ~CanRetry(wjob[k][2])
    BY <1>3, <1>9, <2>2, SlotThread DEF ScheduleRetryOrFail
  <2> QED BY <2>1, <2>2
<1>10. CASE RetryDepth(k)
  <2>1. \E pc \in {"add", "reject"} : Goto(k, pc)
    BY <1>10 DEF RetryDepth
  <2> QED BY <1>10, <2>1, SlotThread DEF RetryDepth, rowVars
<1>11. CASE RetryAdd(k)
  <2>1. CASE Goto(k, "reject") /\ UNCHANGED queueVars
    BY <1>11, <2>1, SlotThread DEF RetryAdd, rowVars
  <2>2. CASE AddJob(<<wjob[k][1], wjob[k][2] + 1>>) /\ Goto(k, "finish")
    <3> USE DEF TypeInv, TypeOK
    <3>1. PICK d \in Delivery : d = wjob[k][1]
      BY <1>0, <1>11 DEF RetryAdd
    <3>2. /\ \A j \in Job : queue'[j] # queue[j] =>
                j[1] = d /\ queue[j] = "none" /\ queue'[j] = "queued" /\ j = <<d, wjob[k][2] + 1>>
          /\ wpc[k] = "add" /\ wpc' = [wpc EXCEPT ![k] = "finish"]
          /\ UNCHANGED <<fanVars, rowVars, wjob, wlock, adminVars>>
      BY <1>11, <2>2, <3>1 DEF RetryAdd, AddJob, Goto
    <3>3. SlotsOwnTheirJobs'
      BY <3>2 DEF ThreadInv, SlotsOwnTheirJobs
    <3>4. Thread(d) /\ ~NoSlot(d)
      BY <3>1, <3>2 DEF ThreadInv, NoSlot
    <3>5. /\ bus[d[1]] = "done"
          /\ d \notin contested =>
               /\ fan[d] = "idle" /\ NoneQueued(d) /\ NoAdmin(d)
               /\ status[d] \notin {"success", "failed"}
      BY <3>4 DEF Thread, Unstarted, OneCarrier, Unattended
    <3>6. d \notin contested => NoSlot(d)' /\ NoAdmin(d)'
      BY <3>1, <3>2, <3>4, <3>5 DEF Thread, OneCarrier, NoSlot, NoAdmin, adminVars
    <3>7. d \notin contested => \A i, j \in Job :
            queue'[i] = "queued" /\ queue'[j] = "queued" /\ i[1] = d /\ j[1] = d => i = j
      BY <3>2, <3>5 DEF NoneQueued
    <3>8. d \notin contested => OneCarrier(d)'
      BY <3>2, <3>5, <3>6, <3>7 DEF OneCarrier, NoSlot, NoAdmin, fanVars
    <3>9. Thread(d)'
      BY <3>2, <3>5, <3>8 DEF Thread, Unstarted, Unattended, fanVars, rowVars, adminVars
    <3>10. ASSUME NEW c \in Delivery, c # d PROVE Thread(c)'
      <4>0. Thread(c)
        BY DEF ThreadInv
      <4>1. /\ \A j \in Job : j[1] = c => queue'[j] = queue[j]
            /\ \A x \in Workers : wpc'[x] \in LivePC /\ wjob'[x][1] = c
                               <=> wpc[x] \in LivePC /\ wjob[x][1] = c
        BY <3>1, <3>2, <3>10
      <4> QED
        BY <3>2, <4>0, <4>1 DEF Thread, Unstarted, OneCarrier, Unattended, NoneQueued, NoSlot,
           NoAdmin, fanVars, rowVars, adminVars
    <3> QED BY <3>3, <3>9, <3>10 DEF ThreadInv
  <2> QED BY <1>11, <2>1, <2>2 DEF RetryAdd
<1>12. CASE RetryReject(k)
  BY <1>3, <1>12, SlotThread DEF RetryReject
<1>13. CASE MoveToDlq(k)
  BY <1>13, SlotThread DEF MoveToDlq, rowVars
<1>14. CASE FinishJob(k)
  <2> USE DEF TypeInv, TypeOK
  <2>1. /\ wpc[k] = "finish" /\ wpc' = [wpc EXCEPT ![k] = "idle"]
        /\ queue' = [queue EXCEPT ![wjob[k]] = "none"] /\ queue[wjob[k]] = "active"
        /\ wlock' = [wlock EXCEPT ![k] = FALSE]
        /\ UNCHANGED <<fanVars, rowVars, wjob, adminVars>>
    BY <1>14 DEF FinishJob, Goto, ThreadInv, SlotsOwnTheirJobs
  <2>2. SlotsOwnTheirJobs'
    BY <2>1 DEF ThreadInv, SlotsOwnTheirJobs
  <2>3. /\ \A j \in Job : queue'[j] = "queued" <=> queue[j] = "queued"
        /\ \A x \in Workers : wpc'[x] \in LivePC <=> wpc[x] \in LivePC
    BY <2>1
  <2>4. ASSUME NEW d \in Delivery PROVE Thread(d)'
    BY <2>1, <2>3 DEF ThreadInv, Thread, Unstarted, OneCarrier, Unattended, NoneQueued, NoSlot,
       NoAdmin, fanVars, rowVars, adminVars
  <2> QED BY <2>2, <2>4 DEF ThreadInv
<1> QED
  BY <1>1, <1>2, <1>5, <1>6, <1>7, <1>8, <1>9, <1>10, <1>11, <1>12, <1>13, <1>14
  DEF WorkerStep

LEMMA AdminThread ==
  ASSUME TypeInv, ThreadInv, NEW a \in Admins,
         AdminStep(a) \/ \E d \in Delivery : RetryRead(a, d) \/ TestCreateEvent(a, d)
  PROVE  ThreadInv'
<1> USE DEF TypeInv, TypeOK
<1>0. /\ \A b \in Admins : b # a => apc'[b] = apc[b] /\ ajob'[b] = ajob[b]
      /\ apc[a] # "idle" => ajob[a] \in Job /\ ajob[a][1] \in Delivery
  BY JobParts DEF AdminStep, RetryReset, TestCreateDelivery, AdminDepth, AdminAdd, RetryRead,
     TestCreateEvent
<1>1. UNCHANGED <<fan, workerVars>>
  BY DEF AdminStep, RetryReset, TestCreateDelivery, AdminDepth, AdminAdd, RetryRead,
     TestCreateEvent, fanVars
\* The delivery d the administrator works on; to the others nothing happens.
<1>2. ASSUME NEW d \in Delivery,
             \A c \in Delivery : c # d =>
               /\ status'[c] = status[c]
               /\ apc[a] # "idle" => ajob[a][1] # c
               /\ apc'[a] # "idle" => ajob'[a][1] # c
               /\ bus'[c[1]] # "done" => bus[c[1]] # "done"
               /\ c \in contested' <=> c \in contested,
             \A j \in Job : queue'[j] # queue[j] => queue[j] = "none" /\ j[1] = d,
             Thread(d)'
      PROVE  ThreadInv'
  <2>1. SlotsOwnTheirJobs'
    BY <1>1, <1>2 DEF ThreadInv, SlotsOwnTheirJobs, workerVars
  <2>2. ASSUME NEW c \in Delivery, c # d PROVE Thread(c)'
    <3>1. Thread(c)
      BY DEF ThreadInv
    <3>2. \A j \in Job : j[1] = c => queue'[j] = queue[j]
      BY <1>2, <2>2
    <3>3. \A b \in Admins :
            /\ apc'[b] # "idle" /\ ajob'[b][1] = c <=> apc[b] # "idle" /\ ajob[b][1] = c
            /\ apc'[b] # "idle" /\ ajob'[b][1] = c => apc'[b] = apc[b]
      <4> SUFFICES ASSUME NEW b \in Admins
                   PROVE  /\ apc'[b] # "idle" /\ ajob'[b][1] = c
                             <=> apc[b] # "idle" /\ ajob[b][1] = c
                          /\ apc'[b] # "idle" /\ ajob'[b][1] = c => apc'[b] = apc[b]
        OBVIOUS
      <4>1. CASE b = a
        BY <1>2, <2>2, <4>1
      <4>2. CASE b # a
        BY <1>0, <4>2
      <4> QED BY <4>1, <4>2
    <3>4. /\ NoneQueued(c)' <=> NoneQueued(c)
          /\ NoSlot(c)' <=> NoSlot(c)
          /\ NoAdmin(c)' <=> NoAdmin(c)
          /\ fan'[c] = fan[c] /\ status'[c] = status[c]
          /\ bus'[c[1]] # "done" => bus[c[1]] # "done"
          /\ c \in contested' <=> c \in contested
      BY <1>1, <1>2, <2>2, <3>2, <3>3 DEF NoneQueued, NoSlot, NoAdmin, workerVars
    <3>5. OneCarrier(c) => OneCarrier(c)'
      BY <1>1, <3>2, <3>3, <3>4 DEF OneCarrier, workerVars
    <3>6. /\ Unstarted(c) => Unstarted(c)'
          /\ Unattended(c) => Unattended(c)'
      BY <3>3, <3>4 DEF Unstarted, Unattended
    <3> QED BY <3>1, <3>4, <3>5, <3>6 DEF Thread
  <2> QED BY <1>2, <2>1, <2>2 DEF ThreadInv
<1>3. ASSUME NEW d \in Delivery, RetryRead(a, d) PROVE ThreadInv'
  <2>1. bus[d[1]] = "done" /\ (d \notin contested => OneCarrier(d) /\ Unattended(d))
    BY <1>3 DEF RetryRead, ThreadInv, Thread, Unstarted
  <2>2. /\ apc[a] = "idle" /\ apc'[a] = "reset" /\ ajob'[a] = <<d, attempts[d] + 1>>
        /\ contested' = IF InHand(d) THEN contested \cup {d} ELSE contested
        /\ status[d] \in {"success", "failed"}
        /\ UNCHANGED <<fanVars, rowVars, queueVars>>
    BY <1>3 DEF RetryRead
  <2>3. Unstarted(d)'
    BY <2>1, <2>2 DEF Unstarted, fanVars
  <2>4. ASSUME d \notin contested' PROVE OneCarrier(d)' /\ Unattended(d)'
    <3>1. d \notin contested /\ NoAdmin(d)
      BY <2>2, <2>4 DEF InHand, NoAdmin
    <3>2. fan[d] = "idle" /\ NoneQueued(d) /\ NoSlot(d)
      BY <2>1, <2>2, <3>1 DEF Unattended
    <3>3. fan'[d] = "idle" /\ NoneQueued(d)' /\ NoSlot(d)'
      BY <1>1, <2>2, <3>2 DEF NoneQueued, NoSlot, fanVars, queueVars, workerVars
    <3>4. \A b \in Admins : apc'[b] # "idle" /\ ajob'[b][1] = d => b = a
      BY <1>0, <3>1 DEF NoAdmin
    <3> QED BY <2>2, <3>3, <3>4 DEF OneCarrier, Unattended, NoneQueued, NoSlot
  <2>5. Thread(d)'
    BY <2>3, <2>4 DEF Thread
  <2> QED BY <1>2, <2>2, <2>5 DEF fanVars, rowVars, queueVars
<1>4. ASSUME NEW d \in Delivery, TestCreateEvent(a, d) PROVE ThreadInv'
  <2>1. /\ status[d] = "absent" /\ fan[d] = "idle" /\ NoneQueued(d) /\ NoSlot(d) /\ NoAdmin(d)
        /\ d[1] \in Events
    BY <1>4 DEF TestCreateEvent, ThreadInv, Thread, Unstarted, Delivery
  <2>2. /\ apc[a] = "idle" /\ apc'[a] = "create" /\ ajob'[a] = <<d, 1>>
        /\ bus' = [bus EXCEPT ![d[1]] = "done"]
        /\ contested' = contested
        /\ UNCHANGED <<rowVars, queueVars>>
    BY <1>4 DEF TestCreateEvent
  <2>3. /\ fan'[d] = "idle" /\ NoneQueued(d)' /\ NoSlot(d)' /\ bus'[d[1]] = "done"
        /\ status'[d] = "absent"
    BY <1>1, <2>1, <2>2 DEF NoneQueued, NoSlot, rowVars, queueVars, workerVars
  <2>4. \A b \in Admins : apc'[b] # "idle" /\ ajob'[b][1] = d => b = a
    BY <1>0, <2>1 DEF NoAdmin
  <2>5. Thread(d)'
    BY <2>3, <2>4 DEF Thread, Unstarted, OneCarrier, Unattended, NoneQueued, NoSlot
  <2>6. \A c \in Delivery : bus'[c[1]] # "done" => bus[c[1]] # "done"
    BY <2>1, <2>2 DEF Delivery
  <2> QED BY <1>2, <2>2, <2>5, <2>6 DEF rowVars, queueVars
<1>5. ASSUME AdminStep(a) PROVE ThreadInv'
  <2>1. /\ apc[a] # "idle" /\ ajob' = ajob /\ bus' = bus /\ contested' = contested
    BY <1>5 DEF AdminStep, RetryReset, TestCreateDelivery, AdminDepth, AdminAdd, fanVars
  <2>2. PICK d \in Delivery : d = ajob[a][1]
    BY <1>0, <2>1
  <2>3. Thread(d) /\ ~NoAdmin(d)
    BY <2>1, <2>2 DEF ThreadInv, NoAdmin
  <2>4. /\ bus[d[1]] = "done"
        /\ d \notin contested =>
             /\ fan[d] = "idle" /\ NoneQueued(d) /\ NoSlot(d)
             /\ \A b \in Admins : apc[b] # "idle" /\ ajob[b][1] = d => b = a
    BY <2>1, <2>2, <2>3 DEF Thread, Unstarted, OneCarrier
  <2>5. /\ \A c \in Delivery : c # d => status'[c] = status[c]
        /\ \A j \in Job : queue'[j] # queue[j] =>
             queue[j] = "none" /\ queue'[j] = "queued" /\ j = ajob[a] /\ apc'[a] = "idle"
        /\ d \notin contested /\ apc'[a] # "idle" => status'[d] \notin {"success", "failed"}
        /\ d \notin contested /\ status'[d] \in {"success", "failed"} => UNCHANGED queueVars
    <3>1. d \notin contested /\ apc[a] # "reset" => status[d] \notin {"success", "failed"}
      BY <2>1, <2>2, <2>3 DEF Thread, Unattended
    <3>2. CASE RetryReset(a)
      BY <2>2, <3>2 DEF RetryReset, rowVars, queueVars
    <3>3. CASE TestCreateDelivery(a)
      BY <2>2, <3>3 DEF TestCreateDelivery, InsertRow, rowVars, queueVars
    <3>4. CASE AdminDepth(a)
      BY <2>2, <3>1, <3>4 DEF AdminDepth, rowVars, queueVars
    <3>5. CASE AdminAdd(a)
      BY <2>1, <2>2, <3>1, <3>5 DEF AdminAdd, AddJob, rowVars, queueVars
    <3> QED BY <1>5, <3>2, <3>3, <3>4, <3>5 DEF AdminStep
  <2>6. Unstarted(d)'
    BY <2>1, <2>4 DEF Unstarted
  <2>7. ASSUME d \notin contested PROVE OneCarrier(d)' /\ Unattended(d)'
    <3>1. fan'[d] = "idle" /\ NoSlot(d)'
      BY <1>1, <2>4, <2>7 DEF NoSlot, workerVars
    <3>2. \A b \in Admins : apc'[b] # "idle" /\ ajob'[b][1] = d => b = a
      BY <1>0, <2>1, <2>4, <2>7
    <3>3. /\ apc'[a] # "idle" => NoneQueued(d)'
          /\ apc'[a] = "idle" => NoAdmin(d)'
          /\ status'[d] \in {"success", "failed"} => NoneQueued(d)'
      BY <2>4, <2>5, <2>7, <3>2 DEF NoneQueued, NoAdmin, queueVars
    <3>4. \A i, j \in Job :
            queue'[i] = "queued" /\ queue'[j] = "queued" /\ i[1] = d /\ j[1] = d => i = j
      BY <2>4, <2>5, <2>7 DEF NoneQueued
    <3>5. OneCarrier(d)'
      BY <3>1, <3>2, <3>3, <3>4 DEF OneCarrier, NoSlot
    <3>6. Unattended(d)'
      BY <2>5, <2>7, <3>1, <3>2, <3>3 DEF Unattended
    <3> QED BY <3>5, <3>6
  <2>8. Thread(d)'
    BY <2>1, <2>6, <2>7 DEF Thread
  <2> QED BY <1>2, <2>1, <2>2, <2>5, <2>8
<1> QED BY <1>3, <1>4, <1>5

LEMMA EnvThread ==
  ASSUME TypeInv, ThreadInv, NEW w \in Webhooks, SetActive(w) \/ DeleteWebhook(w)
  PROVE  ThreadInv'
<1>1. /\ UNCHANGED <<fanVars, queueVars, workerVars, adminVars>>
      /\ \A d \in Delivery : status'[d] = status[d] \/ status'[d] = "absent"
  BY DEF SetActive, DeleteWebhook, rowVars
<1> QED
  BY <1>1 DEF ThreadInv, SlotsOwnTheirJobs, Thread, Unstarted, OneCarrier, Unattended, NoneQueued,
     NoSlot, NoAdmin, fanVars, queueVars, workerVars, adminVars

LEMMA StutterThread == ThreadInv /\ UNCHANGED vars => ThreadInv'
BY DEF ThreadInv, SlotsOwnTheirJobs, Thread, Unstarted, OneCarrier, Unattended, NoneQueued,
       NoSlot, NoAdmin, vars, fanVars, rowVars, queueVars, workerVars, adminVars

\* Crashes and stalls are counted, and the counters only grow.
LEMMA UndisturbedBefore ==
  ASSUME TypeInv, [Next]_vars, Undisturbed'
  PROVE  /\ Undisturbed
         /\ ~Crash
         /\ \A k \in Workers : ~Stall(k)
<1> USE DEF Undisturbed, TypeInv, TypeOK
<1>1. crashes' >= crashes /\ stalls' >= stalls
  <2>1. CASE UNCHANGED <<crashes, stalls>>
    BY <2>1
  <2>2. CASE \E k \in Workers : Stall(k)
    BY <2>2 DEF Stall
  <2>3. CASE Crash
    BY <2>3 DEF Crash
  <2>4. ASSUME NEW e \in Events, Emit(e) \/ PersistEvent(e) \/ SelectWebhooks(e)
        PROVE UNCHANGED <<crashes, stalls>>
    BY <2>4 DEF Emit, PersistEvent, SelectWebhooks, environment
  <2>5. ASSUME NEW d \in Delivery, FanStep(d) PROVE UNCHANGED <<crashes, stalls>>
    BY <2>5 DEF FanStep, FanInsert, FanDepth, FanAdd, FanReject, environment
  <2>6. ASSUME NEW k \in Workers, NEW j \in Job, Take(k, j) PROVE UNCHANGED <<crashes, stalls>>
    BY <2>6 DEF Take, environment
  <2>7. ASSUME NEW k \in Workers, WorkerStep(k) PROVE UNCHANGED <<crashes, stalls>>
    BY <2>7 DEF WorkerStep, CheckStatus, FetchEvent, MarkNoEvent, MarkOversize, Post,
       MarkSuccess, ScheduleRetryOrFail, RetryDepth, RetryAdd, RetryReject, MoveToDlq,
       FinishJob, environment
  <2>8. ASSUME NEW a \in Admins,
               AdminStep(a) \/ \E d \in Delivery : RetryRead(a, d) \/ TestCreateEvent(a, d)
        PROVE  UNCHANGED <<crashes, stalls>>
    BY <2>8 DEF AdminStep, RetryReset, TestCreateDelivery, AdminDepth, AdminAdd, RetryRead,
       TestCreateEvent, environment
  <2>9. ASSUME NEW w \in Webhooks, SetActive(w) \/ DeleteWebhook(w)
        PROVE  UNCHANGED <<crashes, stalls>>
    BY <2>9 DEF SetActive, DeleteWebhook, environment
  <2>10. UNCHANGED vars => UNCHANGED <<crashes, stalls>>
    BY DEF vars, environment
  <2> QED
    BY <2>1, <2>2, <2>3, <2>4, <2>5, <2>6, <2>7, <2>8, <2>9, <2>10 DEF Next
<1>2. Undisturbed
  BY <1>1
<1>3. ~Crash
  BY <1>2 DEF Crash
<1>4. \A k \in Workers : ~Stall(k)
  BY <1>2 DEF Stall
<1> QED BY <1>2, <1>3, <1>4

ForkInv == TypeInv /\ (Undisturbed => ThreadInv)

LEMMA StepForkInv ==
  ASSUME ForkInv, [Next]_vars
  PROVE  ForkInv'
<1>1. TypeInv'
  BY StepTypeInv DEF ForkInv
<1>2. ASSUME Undisturbed' PROVE ThreadInv'
  <2>1. /\ TypeInv /\ ThreadInv /\ ~Crash
        /\ \A k \in Workers : ~Stall(k)
    BY <1>2, UndisturbedBefore DEF ForkInv
  <2> QED
    BY <2>1, EventThread, FanThread, TakeThread, WorkerThread, AdminThread, EnvThread,
       StutterThread DEF Next
<1> QED BY <1>1, <1>2 DEF ForkInv

-----------------------------------------------------------------------------
(* What attempt_count says while no call fails either.                     *)

\* A payload is there for whoever delivers, so that no row is failed for the
\* want of one with the count of an earlier chain.
PayloadsKept ==
  /\ \A e \in Events : bus[e] \in {"persisted", "done"} => e \in eventRow
  /\ \A k \in Workers : wpc[k] # "noevent"

\* Who may give a delivery up has the number of its row in hand.
CountsInHand ==
  /\ \A d \in Delivery :
       fan[d] \in {"depth", "add", "reject"} =>
         status[d] = "absent" \/ attempts[d] = 0 \/ d \in contested
  /\ \A k \in Workers :
       wpc[k] \in {"depth", "add", "reject"} =>
         \/ status[wjob[k][1]] = "absent"
         \/ attempts[wjob[k][1]] = wjob[k][2]
         \/ wjob[k][1] \in contested

Kept(d) == d \in deadLettered \/ \E k \in Workers : wpc[k] = "dlq" /\ wjob[k][1] = d

ExhaustedKept ==
  \A d \in Delivery \ contested : status[d] = "failed" /\ attempts[d] >= MaxAttempts => Kept(d)

CountInv == PayloadsKept /\ CountsInHand /\ ExhaustedKept

\* Once two requests had a delivery in hand it stays contested.
LEMMA ContestedGrows == [Next]_vars => contested \subseteq contested'
<1> SUFFICES ASSUME [Next]_vars PROVE contested \subseteq contested'
  OBVIOUS
<1>1. ASSUME NEW e \in Events, Emit(e) \/ PersistEvent(e) \/ SelectWebhooks(e)
      PROVE  contested' = contested
  BY <1>1 DEF Emit, PersistEvent, SelectWebhooks, adminVars
<1>2. ASSUME NEW d \in Delivery, FanStep(d) PROVE contested' = contested
  BY <1>2 DEF FanStep, FanInsert, FanDepth, FanAdd, FanReject, adminVars
<1>3. ASSUME NEW k \in Workers, NEW j \in Job, Take(k, j) PROVE contested' = contested
  BY <1>3 DEF Take, adminVars
<1>4. ASSUME NEW k \in Workers, WorkerStep(k) PROVE contested' = contested
  BY <1>4 DEF WorkerStep, CheckStatus, FetchEvent, MarkNoEvent, MarkOversize, Post,
     MarkSuccess, ScheduleRetryOrFail, RetryDepth, RetryAdd, RetryReject, MoveToDlq,
     FinishJob, adminVars
<1>5. ASSUME NEW a \in Admins,
             AdminStep(a) \/ \E d \in Delivery : RetryRead(a, d) \/ TestCreateEvent(a, d)
      PROVE  contested \subseteq contested'
  BY <1>5 DEF AdminStep, RetryReset, TestCreateDelivery, AdminDepth, AdminAdd, RetryRead,
     TestCreateEvent
<1>6. ASSUME NEW w \in Webhooks, SetActive(w) \/ DeleteWebhook(w) PROVE contested' = contested
  BY <1>6 DEF SetActive, DeleteWebhook, adminVars
<1>7. ASSUME NEW k \in Workers, Stall(k) PROVE contested' = contested
  BY <1>7 DEF Stall, adminVars
<1>8. Crash \/ UNCHANGED vars => contested' = contested
  BY DEF Crash, vars, adminVars
<1> QED BY <1>1, <1>2, <1>3, <1>4, <1>5, <1>6, <1>7, <1>8 DEF Next

LEMMA InitCount == Init => CountInv
BY DEF Init, CountInv, PayloadsKept, CountsInHand, ExhaustedKept

LEMMA NoFaultsBefore ==
  ASSUME TypeInv, [Next]_vars, NoFaults'
  PROVE  NoFaults /\ ~IoError
<1>1. Undisturbed
  BY UndisturbedBefore DEF NoFaults, Undisturbed
<1>2. IoError \/ ioErrors' = ioErrors
  <2>1. ASSUME NEW e \in Events, Emit(e) \/ PersistEvent(e) \/ SelectWebhooks(e)
        PROVE  IoError \/ ioErrors' = ioErrors
    BY <2>1 DEF Emit, PersistEvent, SelectWebhooks
  <2>2. ASSUME NEW d \in Delivery, FanStep(d) PROVE IoError \/ ioErrors' = ioErrors
    BY <2>2 DEF FanStep, FanInsert, FanDepth, FanAdd, FanReject, UpdateRow
  <2>3. ASSUME NEW k \in Workers, NEW j \in Job, Take(k, j) PROVE ioErrors' = ioErrors
    BY <2>3 DEF Take
  <2>4. ASSUME NEW k \in Workers, WorkerStep(k) PROVE IoError \/ ioErrors' = ioErrors
    BY <2>4 DEF WorkerStep, CheckStatus, FetchEvent, MarkNoEvent, MarkOversize, Post,
       MarkSuccess, ScheduleRetryOrFail, RetryDepth, RetryAdd, RetryReject, MoveToDlq,
       FinishJob, UpdateRow
  <2>5. ASSUME NEW a \in Admins,
               AdminStep(a) \/ \E d \in Delivery : RetryRead(a, d) \/ TestCreateEvent(a, d)
        PROVE  IoError \/ ioErrors' = ioErrors
    BY <2>5 DEF AdminStep, RetryReset, TestCreateDelivery, AdminDepth, AdminAdd, RetryRead,
       TestCreateEvent
  <2>6. ASSUME NEW w \in Webhooks, SetActive(w) \/ DeleteWebhook(w)
        PROVE  ioErrors' = ioErrors
    BY <2>6 DEF SetActive, DeleteWebhook
  <2>7. ASSUME NEW k \in Workers, Stall(k) PROVE ioErrors' = ioErrors
    BY <2>7 DEF Stall
  <2>8. Crash => ioErrors' = ioErrors
    BY DEF Crash
  <2>9. UNCHANGED vars => ioErrors' = ioErrors
    BY DEF vars
  <2> QED BY <2>1, <2>2, <2>3, <2>4, <2>5, <2>6, <2>7, <2>8, <2>9 DEF Next
<1>3. ~IoError
  BY DEF IoError, NoFaults, TypeInv, TypeOK
<1> QED BY <1>1, <1>2, <1>3 DEF NoFaults, Undisturbed

LEMMA EventCount ==
  ASSUME TypeInv, ThreadInv, CountInv, ~IoError, NEW e \in Events,
         Emit(e) \/ PersistEvent(e) \/ SelectWebhooks(e)
  PROVE  CountInv'
<1>1. UNCHANGED <<rowVars, workerVars, history>> /\ contested' = contested
  BY DEF Emit, PersistEvent, SelectWebhooks, adminVars
<1>2. PayloadsKept'
  BY <1>1 DEF Emit, PersistEvent, SelectWebhooks, CountInv, PayloadsKept, workerVars, TypeInv, TypeOK
<1>3. \A d \in Delivery : fan'[d] \in {"depth", "add", "reject"} => fan'[d] = fan[d]
  BY DEF Emit, PersistEvent, SelectWebhooks, TypeInv, TypeOK
<1>4. CountsInHand' /\ ExhaustedKept'
  BY <1>1, <1>3 DEF CountInv, CountsInHand, ExhaustedKept, Kept, rowVars, workerVars, history
<1> QED BY <1>2, <1>4 DEF CountInv

LEMMA FanCount ==
  ASSUME TypeInv, ThreadInv, CountInv, ~IoError, NEW d \in Delivery, FanStep(d)
  PROVE  CountInv'
<1> USE DEF TypeInv, TypeOK
<1>1. /\ UNCHANGED <<bus, eventRow, workerVars, history>>
      /\ fan[d] # "idle" /\ contested' = contested
  BY DEF FanStep, FanInsert, FanDepth, FanAdd, FanReject, adminVars
<1>2. NoSlot(d) \/ d \in contested
  BY <1>1 DEF ThreadInv, Thread, OneCarrier
<1>3. PayloadsKept'
  BY <1>1 DEF CountInv, PayloadsKept, workerVars
<1>4. \A c \in Delivery : c # d => status'[c] = status[c] /\ attempts'[c] = attempts[c] /\ fan'[c] = fan[c]
  BY DEF FanStep, FanInsert, InsertRow, FanDepth, FanAdd, FanReject, UpdateRow, rowVars
<1>5. /\ fan'[d] \in {"depth", "add", "reject"} =>
           status'[d] = "absent" \/ attempts'[d] = 0 \/ d \in contested
      /\ status'[d] = "failed" =>
           \/ status[d] = "failed" /\ attempts'[d] = attempts[d]
           \/ attempts'[d] = 0
           \/ d \in contested
  <2>1. CASE FanInsert(d)
    BY <2>1 DEF FanInsert, InsertRow, rowVars
  <2>2. CASE FanDepth(d)
    BY <2>2 DEF FanDepth, rowVars, CountInv, CountsInHand
  <2>3. CASE FanAdd(d)
    BY <2>3 DEF FanAdd, rowVars, CountInv, CountsInHand
  <2>4. CASE FanReject(d)
    BY <2>4 DEF FanReject, UpdateRow, rowVars, CountInv, CountsInHand
  <2> QED BY <2>1, <2>2, <2>3, <2>4 DEF FanStep
<1>6. CountsInHand'
  <2>1. \A c \in Delivery :
          fan'[c] \in {"depth", "add", "reject"} =>
            status'[c] = "absent" \/ attempts'[c] = 0 \/ c \in contested'
    BY <1>1, <1>4, <1>5 DEF CountInv, CountsInHand
  <2>2. ASSUME NEW k \in Workers, wpc'[k] \in {"depth", "add", "reject"}
        PROVE  \/ status'[wjob'[k][1]] = "absent"
               \/ attempts'[wjob'[k][1]] = wjob'[k][2]
               \/ wjob'[k][1] \in contested'
    <3>1. wpc' = wpc /\ wjob' = wjob
      BY <1>1 DEF workerVars
    <3>2. wjob[k][1] \in Delivery /\ (wjob[k][1] # d \/ d \in contested)
      BY <1>2, <2>2, <3>1, JobParts DEF NoSlot, LivePC, WorkerPC
    <3>3. \/ status[wjob[k][1]] = "absent" \/ attempts[wjob[k][1]] = wjob[k][2]
          \/ wjob[k][1] \in contested
      BY <2>2, <3>1 DEF CountInv, CountsInHand
    <3> QED BY <1>1, <1>4, <3>1, <3>2, <3>3
  <2> QED BY <2>1, <2>2 DEF CountsInHand
<1>7. ExhaustedKept'
  BY <1>1, <1>4, <1>5, ConstantsOK DEF CountInv, ExhaustedKept, Kept, workerVars, history
<1> QED BY <1>3, <1>6, <1>7 DEF CountInv

\* A worker step that changes no other row than that of its job.
LEMMA SlotCount ==
  ASSUME TypeInv, ThreadInv, CountInv, NEW k \in Workers, NEW pc \in WorkerPC,
         wpc[k] # "idle", Goto(k, pc), UNCHANGED <<fanVars, wjob, contested>>,
         wpc[k] \in LivePC \/ UNCHANGED rowVars, attempts' \in [Delivery -> Nat],
         \A c \in Delivery :
           c # wjob[k][1] => status'[c] = status[c] /\ attempts'[c] = attempts[c],
         deadLettered \subseteq deadLettered',
         wpc[k] = "dlq" => wjob[k][1] \in deadLettered',
         pc # "noevent",
         pc \in {"depth", "add", "reject"} =>
           \/ status'[wjob[k][1]] = "absent"
           \/ attempts'[wjob[k][1]] = wjob[k][2]
           \/ wjob[k][1] \in contested,
         \/ UNCHANGED rowVars
         \/ status'[wjob[k][1]] # "failed"
         \/ attempts'[wjob[k][1]] < MaxAttempts
         \/ pc = "dlq"
         \/ wjob[k][1] \in contested
  PROVE  CountInv'
<1> USE DEF TypeInv, TypeOK, Goto
<1>1. PayloadsKept'
  BY DEF CountInv, PayloadsKept, fanVars
<1>2. /\ wpc'[k] = pc /\ wjob' = wjob
      /\ \A c \in Workers : c # k => wpc'[c] = wpc[c]
      /\ wjob[k][1] \in Delivery
  BY JobParts
<1>3. wpc[k] \in LivePC /\ wjob[k][1] \notin contested =>
        /\ fan[wjob[k][1]] = "idle"
        /\ \A c \in Workers : wpc[c] \in LivePC /\ wjob[c][1] = wjob[k][1] => c = k
  BY <1>2 DEF ThreadInv, Thread, OneCarrier, NoSlot
<1>4. CountsInHand'
  <2>1. ASSUME NEW d \in Delivery, fan'[d] \in {"depth", "add", "reject"}
        PROVE  status'[d] = "absent" \/ attempts'[d] = 0 \/ d \in contested
    BY <1>3, <2>1 DEF CountInv, CountsInHand, fanVars, rowVars
  <2>2. ASSUME NEW c \in Workers, wpc'[c] \in {"depth", "add", "reject"}
        PROVE  \/ status'[wjob'[c][1]] = "absent"
               \/ attempts'[wjob'[c][1]] = wjob'[c][2]
               \/ wjob'[c][1] \in contested
    <3>1. CASE c = k
      BY <1>2, <2>2, <3>1
    <3>2. CASE c # k
      <4>1. wpc[c] \in LivePC /\ wjob[c][1] \in Delivery
        BY <1>2, <2>2, <3>2, JobParts DEF LivePC, WorkerPC
      <4>2. \/ status[wjob[c][1]] = "absent" \/ attempts[wjob[c][1]] = wjob[c][2]
            \/ wjob[c][1] \in contested
        BY <1>2, <2>2, <3>2 DEF CountInv, CountsInHand
      <4> QED BY <1>2, <1>3, <3>2, <4>1, <4>2 DEF rowVars
    <3> QED BY <3>1, <3>2
  <2> QED BY <2>1, <2>2 DEF CountsInHand
<1>5. ASSUME NEW d \in Delivery \ contested, status'[d] = "failed", attempts'[d] >= MaxAttempts
      PROVE  Kept(d)'
  <2>1. Kept(d) => Kept(d)'
    BY <1>2 DEF Kept
  <2>2. CASE status[d] = "failed" /\ attempts'[d] = attempts[d]
    BY <1>5, <2>1, <2>2 DEF CountInv, ExhaustedKept
  <2>3. CASE d = wjob[k][1] /\ pc = "dlq"
    BY <1>2, <2>3 DEF Kept
  <2>4. d # wjob[k][1] \/ UNCHANGED rowVars => status[d] = "failed" /\ attempts'[d] = attempts[d]
    BY <1>5 DEF rowVars
  <2>5. ~(attempts'[d] < MaxAttempts)
    <3>1. attempts'[d] \in Nat
      BY <1>5
    <3> QED BY <1>5, <3>1, ConstantsOK
  <2> QED BY <1>5, <2>2, <2>3, <2>4, <2>5
<1> QED BY <1>1, <1>4, <1>5 DEF CountInv, ExhaustedKept

LEMMA WorkerCount ==
  ASSUME TypeInv, ThreadInv, CountInv, ~IoError, NEW k \in Workers, WorkerStep(k)
  PROVE  CountInv'
<1> USE DEF WorkerPC, LivePC
<1>0. /\ wpc[k] # "idle" => wjob[k][1] \in Delivery /\ wjob[k][2] \in Nat
      /\ status \in [Delivery -> {"absent", "pending", "success", "failed"}]
      /\ attempts \in [Delivery -> Nat]
  BY JobParts DEF TypeInv, TypeOK
<1>1. CASE CheckStatus(k)
  <2>1. \E pc \in {"finish", "fetch"} : Goto(k, pc)
    BY <1>1 DEF CheckStatus
  <2> QED BY <1>0, <1>1, <2>1, SlotCount DEF CheckStatus, rowVars, history, adminVars
<1>2. CASE FetchEvent(k)
  <2>1. wjob[k][1][1] \in eventRow
    <3>1. bus[wjob[k][1][1]] = "done"
      BY <1>0, <1>2 DEF FetchEvent, ThreadInv, Thread, Unstarted, NoSlot
    <3>2. wjob[k][1][1] \in Events
      BY <1>0, <1>2 DEF FetchEvent, Delivery
    <3> QED BY <3>1, <3>2 DEF CountInv, PayloadsKept
  <2>2. \E pc \in {"oversize", "post"} : Goto(k, pc)
    BY <1>2, <2>1 DEF FetchEvent
  <2> QED BY <1>0, <1>2, <2>2, SlotCount DEF FetchEvent, rowVars, history, adminVars
<1>3. ASSUME NEW s \in {"pending", "success", "failed"}, NEW n \in Nat, wpc[k] # "idle",
             UpdateRow(wjob[k][1], s, n)
      PROVE  /\ attempts' \in [Delivery -> Nat]
             /\ \A c \in Delivery :
                  c # wjob[k][1] => status'[c] = status[c] /\ attempts'[c] = attempts[c]
             /\ \/ status'[wjob[k][1]] = "absent"
                \/ status'[wjob[k][1]] = s /\ attempts'[wjob[k][1]] = n
  BY <1>0, <1>3 DEF UpdateRow, rowVars
<1>4. CASE MarkNoEvent(k)
  BY <1>4 DEF MarkNoEvent, CountInv, PayloadsKept
<1>5. CASE MarkOversize(k)
  BY <1>0, <1>3, <1>5, SlotCount DEF MarkOversize, history, adminVars
<1>6. CASE Post(k)
  <2>1. \E pc \in {"succeed", "retry"} : Goto(k, pc)
    BY <1>6 DEF Post
  <2> QED BY <1>0, <1>6, <2>1, SlotCount DEF Post, rowVars, adminVars
<1>7. CASE MarkSuccess(k)
  BY <1>0, <1>3, <1>7, SlotCount DEF MarkSuccess, history, adminVars
<1>8. CASE ScheduleRetryOrFail(k)
  <2>1. CASE CanRetry(wjob[k][2])
    BY <1>0, <1>3, <1>8, <2>1, SlotCount DEF ScheduleRetryOrFail, history, adminVars
  <2>2. CASE ~CanRetry(wjob[k][2])
    BY <1>0, <1>3, <1>8, <2>2, SlotCount DEF ScheduleRetryOrFail, history, adminVars
  <2> QED BY <2>1, <2>2
<1>9. CASE RetryDepth(k)
  <2>1. \E pc \in {"add", "reject"} : Goto(k, pc)
    BY <1>9 DEF RetryDepth
  <2>2. \/ status[wjob[k][1]] = "absent" \/ attempts[wjob[k][1]] = wjob[k][2]
        \/ wjob[k][1] \in contested
    BY <1>9 DEF RetryDepth, CountInv, CountsInHand
  <2> QED BY <1>0, <1>9, <2>1, <2>2, SlotCount DEF RetryDepth, rowVars, history, adminVars
<1>10. CASE RetryAdd(k)
  <2>1. Goto(k, "finish")
    BY <1>10 DEF RetryAdd
  <2> QED BY <1>0, <1>10, <2>1, SlotCount DEF RetryAdd, rowVars, history, adminVars
<1>11. CASE RetryReject(k)
  <2>1. \/ status[wjob[k][1]] = "absent" \/ attempts[wjob[k][1]] = wjob[k][2]
        \/ wjob[k][1] \in contested
    BY <1>11 DEF RetryReject, CountInv, CountsInHand
  <2>2. wjob[k][2] < MaxAttempts
    BY <1>11 DEF RetryReject, TypeInv, Ceiling
  <2>3. /\ attempts' \in [Delivery -> Nat]
        /\ \A c \in Delivery :
             c # wjob[k][1] => status'[c] = status[c] /\ attempts'[c] = attempts[c]
        /\ \/ status'[wjob[k][1]] # "failed" \/ attempts'[wjob[k][1]] < MaxAttempts
           \/ wjob[k][1] \in contested
    BY <1>0, <1>11, <2>1, <2>2 DEF RetryReject, UpdateRow, rowVars
  <2> QED BY <1>0, <1>11, <2>3, SlotCount DEF RetryReject, history, adminVars
<1>12. CASE MoveToDlq(k)
  BY <1>0, <1>12, SlotCount DEF MoveToDlq, rowVars, adminVars
<1>13. CASE FinishJob(k)
  <2>1. Goto(k, "idle")
    BY <1>13 DEF FinishJob
  <2> QED BY <1>0, <1>13, <2>1, SlotCount DEF FinishJob, rowVars, history, adminVars
<1> QED
  BY <1>1, <1>2, <1>4, <1>5, <1>6, <1>7, <1>8, <1>9, <1>10, <1>11, <1>12, <1>13
  DEF WorkerStep

LEMMA TakeCount ==
  ASSUME TypeInv, CountInv, NEW k \in Workers, NEW j \in Job, Take(k, j)
  PROVE  CountInv'
<1> USE DEF TypeInv, TypeOK
<1>1. /\ wpc[k] = "idle" /\ wpc' = [wpc EXCEPT ![k] = "check"]
      /\ wjob' = [wjob EXCEPT ![k] = j]
      /\ UNCHANGED <<fanVars, rowVars, history, contested>>
  BY DEF Take, adminVars
<1>2. PayloadsKept'
  BY <1>1 DEF CountInv, PayloadsKept, fanVars
<1>3. CountsInHand'
  BY <1>1 DEF CountInv, CountsInHand, fanVars, rowVars
<1>4. \A d \in Delivery : Kept(d) => Kept(d)'
  BY <1>1 DEF Kept, history
<1>5. ExhaustedKept'
  BY <1>1, <1>4 DEF CountInv, ExhaustedKept, rowVars
<1> QED BY <1>2, <1>3, <1>5 DEF CountInv

\* An administrator touches a row nobody else is concerned with, unless it is
\* contested, and makes it pending.
LEMMA AdminCount ==
  ASSUME TypeInv, ThreadInv, CountInv, ~IoError, NEW a \in Admins,
         AdminStep(a) \/ \E d \in Delivery : RetryRead(a, d) \/ TestCreateEvent(a, d)
  PROVE  CountInv'
<1> USE DEF TypeInv, TypeOK
<1>1. UNCHANGED <<fan, workerVars, history>> /\ contested \subseteq contested'
  BY DEF AdminStep, RetryReset, TestCreateDelivery, AdminDepth, AdminAdd, RetryRead,
     TestCreateEvent, fanVars
<1>2. PayloadsKept'
  <2>1. CASE UNCHANGED <<bus, eventRow>>
    BY <1>1, <2>1 DEF CountInv, PayloadsKept, workerVars
  <2>2. ASSUME NEW d \in Delivery, TestCreateEvent(a, d) PROVE PayloadsKept'
    BY <1>1, <2>2 DEF TestCreateEvent, CountInv, PayloadsKept, workerVars, Delivery
  <2> QED
    BY <2>1, <2>2 DEF AdminStep, RetryReset, TestCreateDelivery, AdminDepth, AdminAdd, RetryRead,
       fanVars
<1>3. ASSUME NEW d \in Delivery
      PROVE  \/ status'[d] = status[d] /\ attempts'[d] = attempts[d]
             \/ apc[a] # "idle" /\ ajob[a][1] = d /\ status'[d] = "pending"
  BY DEF AdminStep, RetryReset, TestCreateDelivery, InsertRow, AdminDepth, AdminAdd, RetryRead,
     TestCreateEvent, rowVars
<1>4. ASSUME NEW d \in Delivery \ contested, apc[a] # "idle", ajob[a][1] = d
      PROVE  fan[d] = "idle" /\ NoSlot(d)
  BY <1>4 DEF ThreadInv, Thread, OneCarrier, NoAdmin
<1>5. CountsInHand'
  <2>1. \A d \in Delivery :
          fan'[d] \in {"depth", "add", "reject"} =>
            status'[d] = "absent" \/ attempts'[d] = 0 \/ d \in contested'
    BY <1>1, <1>3, <1>4 DEF CountInv, CountsInHand
  <2>2. ASSUME NEW k \in Workers, wpc'[k] \in {"depth", "add", "reject"}
        PROVE  \/ status'[wjob'[k][1]] = "absent"
               \/ attempts'[wjob'[k][1]] = wjob'[k][2]
               \/ wjob'[k][1] \in contested'
    <3>1. wpc' = wpc /\ wjob' = wjob
      BY <1>1 DEF workerVars
    <3>2. wjob[k][1] \in Delivery /\ ~NoSlot(wjob[k][1])
      BY <2>2, <3>1, JobParts DEF NoSlot, LivePC, WorkerPC
    <3>3. \/ status[wjob[k][1]] = "absent" \/ attempts[wjob[k][1]] = wjob[k][2]
          \/ wjob[k][1] \in contested
      BY <2>2, <3>1 DEF CountInv, CountsInHand
    <3> QED BY <1>1, <1>3, <1>4, <3>1, <3>2, <3>3
  <2> QED BY <2>1, <2>2 DEF CountsInHand
<1>6. ExhaustedKept'
  BY <1>1, <1>3 DEF CountInv, ExhaustedKept, Kept, workerVars, history
<1> QED BY <1>2, <1>5, <1>6 DEF CountInv

LEMMA EnvCount ==
  ASSUME TypeInv, CountInv, NEW w \in Webhooks, SetActive(w) \/ DeleteWebhook(w)
  PROVE  CountInv'
<1>1. /\ UNCHANGED <<fanVars, attempts, workerVars, history, contested>>
      /\ \A d \in Delivery : status'[d] = status[d] \/ status'[d] = "absent"
  BY DEF SetActive, DeleteWebhook, rowVars, adminVars
<1>2. PayloadsKept' /\ ExhaustedKept'
  BY <1>1 DEF CountInv, PayloadsKept, ExhaustedKept, Kept, fanVars, workerVars, history
<1>3. \A k \in Workers : wpc[k] # "idle" => wjob[k][1] \in Delivery
  BY JobParts DEF TypeInv, TypeOK
<1>4. CountsInHand'
  BY <1>1, <1>3 DEF CountInv, CountsInHand, fanVars, workerVars
<1> QED BY <1>2, <1>4 DEF CountInv

LEMMA StutterCount == CountInv /\ UNCHANGED vars => CountInv'
BY DEF CountInv, PayloadsKept, CountsInHand, ExhaustedKept, Kept, vars, fanVars, rowVars,
       workerVars, adminVars, history

RecordInv == ForkInv /\ (NoFaults => CountInv)

LEMMA StepRecordInv ==
  ASSUME RecordInv, [Next]_vars
  PROVE  RecordInv'
<1>1. ForkInv'
  BY StepForkInv DEF RecordInv
<1>2. ASSUME NoFaults' PROVE CountInv'
  <2>1. TypeInv /\ NoFaults /\ ~IoError
    BY <1>2, NoFaultsBefore DEF RecordInv, ForkInv
  <2>2. /\ ThreadInv /\ CountInv /\ ~Crash
        /\ \A k \in Workers : ~Stall(k)
    BY <1>2, <2>1, UndisturbedBefore DEF RecordInv, ForkInv, NoFaults, Undisturbed
  <2> QED
    BY <2>1, <2>2, EventCount, FanCount, TakeCount, WorkerCount, AdminCount, EnvCount,
       StutterCount DEF Next
<1> QED BY <1>1, <1>2 DEF RecordInv

LEMMA InitRecordInv == Init => RecordInv
BY InitTypeInv, InitThread, InitCount DEF RecordInv, ForkInv

LEMMA Recorded == SafetySpec => []RecordInv
<1>1. RecordInv /\ [Next]_vars => RecordInv'
  BY StepRecordInv
<1> QED BY <1>1, InitRecordInv, PTL DEF SafetySpec

\* Through any number of administrators' requests and failed calls no two worker
\* slots deliver the same row at the same time while no process dies and no job
\* stalls, unless two requests had that very delivery in hand at once.
THEOREM ChainNeverForks == SafetySpec => []OneChainPerDelivery
<1>1. RecordInv => OneChainPerDelivery
  <2> SUFFICES ASSUME RecordInv, Undisturbed,
                      NEW k1 \in Workers, NEW k2 \in Workers,
                      wpc[k1] \in LivePC, wpc[k2] \in LivePC, wjob[k1][1] = wjob[k2][1],
                      wjob[k1][1] \notin contested
               PROVE  k1 = k2
    BY DEF OneChainPerDelivery, Undisturbed
  <2>1. wjob[k1][1] \in Delivery
    BY JobParts DEF RecordInv, ForkInv, TypeInv, TypeOK, LivePC
  <2> QED
    BY <2>1 DEF RecordInv, ForkInv, ThreadInv, Thread, OneCarrier
<1> QED BY <1>1, Recorded, PTL

\* While nothing fails a row in failed that used up its attempts is in the
\* dead-letter queue or a worker is putting it there, whatever administrators ask
\* for, unless two of them had this delivery in hand at once: the give-ups that
\* only write the row are all of rows with attempts left.
THEOREM ExhaustedReachDlq == SafetySpec => []ExhaustedIsDeadLettered
<1>1. RecordInv => ExhaustedIsDeadLettered
  BY DEF RecordInv, CountInv, ExhaustedKept, Kept, ExhaustedIsDeadLettered
<1> QED BY <1>1, Recorded, PTL

\* Only a reset, or the deletion of the webhook, takes a row out of success while
\* no process dies and no job stalls, unless two requests had this delivery in hand
\* at once: no late write of a slot or of a fan-out reaches it.
THEOREM SuccessStays == SafetySpec => SuccessIsKept
<1> DEFINE Out(d) == status[d] = "success" /\ status'[d] # "success"
           Excused(d) ==
             \/ crashes > 0 \/ stalls > 0
             \/ hook'[d[2]] = "deleted"
             \/ \E a \in Admins : apc[a] = "reset" /\ apc'[a] = "depth" /\ ajob[a][1] = d
<1>1. ASSUME RecordInv, [Next]_vars, NEW d \in Delivery \ contested, Out(d) PROVE Excused(d)
  <2> SUFFICES ASSUME Undisturbed PROVE Excused(d)
    BY <1>1 DEF Undisturbed, RecordInv, ForkInv, TypeInv, TypeOK
  <2>1. /\ fan[d] = "idle" /\ NoSlot(d)
        /\ \A a \in Admins : apc[a] # "idle" /\ ajob[a][1] = d => apc[a] = "reset"
        /\ status \in [Delivery -> {"absent", "pending", "success", "failed"}]
    BY <1>1 DEF RecordInv, ForkInv, TypeInv, TypeOK, ThreadInv, Thread, Unattended
  <2>2. CASE \E e \in Events : Emit(e) \/ PersistEvent(e) \/ SelectWebhooks(e)
    BY <1>1, <2>2 DEF Emit, PersistEvent, SelectWebhooks, rowVars
  <2>3. ASSUME NEW c \in Delivery, FanStep(c) PROVE Excused(d)
    BY <1>1, <2>1, <2>3 DEF FanStep, FanInsert, InsertRow, FanDepth, FanAdd, FanReject, UpdateRow, rowVars
  <2>4. CASE \E k \in Workers : \E j \in Job : Take(k, j)
    BY <1>1, <2>4 DEF Take, rowVars
  <2>5. ASSUME NEW k \in Workers, WorkerStep(k) PROVE Excused(d)
    BY <1>1, <2>1, <2>5 DEF NoSlot, LivePC, WorkerPC, WorkerStep, CheckStatus, FetchEvent,
       MarkNoEvent, MarkOversize, Post, MarkSuccess, ScheduleRetryOrFail, RetryDepth, RetryAdd,
       RetryReject, MoveToDlq, FinishJob, UpdateRow, rowVars
  <2>6. ASSUME NEW a \in Admins, AdminStep(a) PROVE Excused(d)
    <3>1. CASE RetryReset(a)
      BY <1>1, <2>1, <3>1 DEF RetryReset, RecordInv, ForkInv, TypeInv, TypeOK
    <3>2. CASE TestCreateDelivery(a)
      BY <1>1, <2>1, <3>2 DEF TestCreateDelivery, InsertRow, rowVars
    <3>3. CASE AdminDepth(a) \/ AdminAdd(a)
      BY <1>1, <3>3 DEF AdminDepth, AdminAdd, rowVars
    <3> QED BY <2>6, <3>1, <3>2, <3>3 DEF AdminStep
  <2>7. CASE \E a \in Admins : \E c \in Delivery : RetryRead(a, c) \/ TestCreateEvent(a, c)
    BY <1>1, <2>7 DEF RetryRead, TestCreateEvent, rowVars
  <2>8. ASSUME NEW w \in Webhooks, SetActive(w) \/ DeleteWebhook(w) PROVE Excused(d)
    BY <1>1, <2>8 DEF SetActive, DeleteWebhook, rowVars, RecordInv, ForkInv, TypeInv, TypeOK
  <2>9. CASE (\E k \in Workers : Stall(k)) \/ Crash \/ UNCHANGED vars
    BY <1>1, <2>9 DEF Stall, Crash, vars, rowVars
  <2> QED
    BY <1>1, <2>2, <2>3, <2>4, <2>5, <2>6, <2>7, <2>8, <2>9 DEF Next
<1>2. RecordInv /\ [Next]_vars => [\A d \in Delivery \ contested : Out(d) => Excused(d)]_vars
  BY <1>1
<1> QED BY <1>2, Recorded, PTL DEF SafetySpec, SuccessIsKept

-----------------------------------------------------------------------------
(* The life of a row.                                                      *)

Uncounted == {"check", "fetch", "noevent", "oversize", "post", "succeed", "retry"}
Counted   == {"depth", "add", "reject"}

\* Whoever has delivery d in hand has a number past the attempts of its row, or,
\* once the attempt is counted, none below it.
Ahead(d) ==
  /\ fan[d] \in Counted => attempts[d] = 0
  /\ \A j \in Job : queue[j] = "queued" /\ j[1] = d => attempts[d] < j[2]
  /\ \A k \in Workers : wpc[k] \in Uncounted /\ wjob[k][1] = d => attempts[d] < wjob[k][2]
  /\ \A k \in Workers : wpc[k] \in Counted /\ wjob[k][1] = d => attempts[d] <= wjob[k][2]
  /\ \A a \in Admins : apc[a] \in {"reset", "depth", "add"} /\ ajob[a][1] = d => attempts[d] < ajob[a][2]

AheadInv == \A d \in Delivery \ contested : Ahead(d)

LEMMA InitAhead == Init => AheadInv
BY DEF Init, AheadInv, Ahead, Uncounted, Counted

\* The numbers in hand stay, the row's does not grow.
LEMMA AheadKept ==
  ASSUME TypeInv, TypeInv', NEW d \in Delivery, Ahead(d), attempts'[d] <= attempts[d],
         fan'[d] \in Counted => fan[d] \in Counted \/ attempts'[d] = 0,
         \A j \in Job : queue'[j] = "queued" /\ j[1] = d => queue[j] = "queued" \/ attempts'[d] < j[2],
         UNCHANGED workerVars, UNCHANGED adminVars
  PROVE  Ahead(d)'
<1>1. attempts[d] \in Nat /\ attempts'[d] \in Nat
  BY DEF TypeInv, TypeOK
<1>2. /\ \A j \in Job : j[2] \in Nat
      /\ \A k \in Workers : wpc[k] # "idle" => wjob[k][2] \in Nat
      /\ \A a \in Admins : apc[a] # "idle" => ajob[a][2] \in Nat
  BY JobParts DEF TypeInv, TypeOK
<1>3. fan'[d] \in Counted => attempts'[d] = 0
  BY <1>1 DEF Ahead
<1>4. \A j \in Job : queue'[j] = "queued" /\ j[1] = d => attempts'[d] < j[2]
  BY <1>1, <1>2 DEF Ahead
<1>5. wpc' = wpc /\ wjob' = wjob /\ apc' = apc /\ ajob' = ajob
  BY DEF workerVars, adminVars
<1>6. ASSUME NEW k \in Workers, wjob[k][1] = d
      PROVE  /\ wpc[k] \in Uncounted => attempts'[d] < wjob[k][2]
             /\ wpc[k] \in Counted => attempts'[d] <= wjob[k][2]
  BY <1>1, <1>2, <1>6 DEF Ahead, Uncounted, Counted
<1>7. ASSUME NEW a \in Admins, apc[a] \in {"reset", "depth", "add"}, ajob[a][1] = d
      PROVE  attempts'[d] < ajob[a][2]
  BY <1>1, <1>2, <1>7 DEF Ahead
<1> QED BY <1>3, <1>4, <1>5, <1>6, <1>7 DEF Ahead

LEMMA EventAhead ==
  ASSUME TypeInv, TypeInv', AheadInv, NEW e \in Events, Emit(e) \/ PersistEvent(e) \/ SelectWebhooks(e)
  PROVE  AheadInv'
<1>1. UNCHANGED <<rowVars, queueVars, workerVars, adminVars>>
  BY DEF Emit, PersistEvent, SelectWebhooks
<1>2. \A d \in Delivery : fan'[d] \in Counted => fan[d] \in Counted
  BY DEF Emit, PersistEvent, SelectWebhooks, Counted, TypeInv, TypeOK
<1>3. \A d \in Delivery : attempts'[d] <= attempts[d]
  BY <1>1 DEF rowVars, TypeInv, TypeOK
<1> QED BY <1>1, <1>2, <1>3, AheadKept DEF AheadInv, queueVars, adminVars

LEMMA FanAhead ==
  ASSUME TypeInv, TypeInv', AheadInv, NEW c \in Delivery, FanStep(c)
  PROVE  AheadInv'
<1> USE DEF TypeInv, TypeOK
<1>1. UNCHANGED <<workerVars, adminVars>>
  BY DEF FanStep, FanInsert, FanDepth, FanAdd, FanReject
<1>2. \A d \in Delivery : attempts'[d] = attempts[d] \/ attempts'[d] = 0
  <2>1. CASE FanInsert(c)
    BY <2>1 DEF FanInsert, InsertRow, rowVars
  <2>2. CASE FanDepth(c) \/ FanAdd(c)
    BY <2>2 DEF FanDepth, FanAdd, rowVars
  <2>3. CASE FanReject(c)
    BY <2>3 DEF FanReject, UpdateRow, rowVars
  <2> QED BY <2>1, <2>2, <2>3 DEF FanStep
<1>3. \A d \in Delivery : fan'[d] \in Counted => fan[d] \in Counted \/ attempts'[d] = 0
  BY DEF FanStep, FanInsert, InsertRow, FanDepth, FanAdd, FanReject, Counted, rowVars
<1>4. \A d \in Delivery \ contested : \A j \in Job :
        queue'[j] = "queued" /\ j[1] = d => queue[j] = "queued" \/ attempts'[d] < j[2]
  <2>1. CASE FanAdd(c)
    <3>1. c \notin contested => attempts'[c] = 0
      BY <2>1 DEF FanAdd, AheadInv, Ahead, Counted, rowVars
    <3>2. \A j \in Job : queue'[j] = "queued" => queue[j] = "queued" \/ j = <<c, 1>>
      BY <2>1 DEF FanAdd, AddJob, queueVars
    <3> QED BY <3>1, <3>2
  <2>2. CASE ~FanAdd(c)
    BY <2>2 DEF FanStep, FanInsert, FanDepth, FanReject, queueVars
  <2> QED BY <2>1, <2>2
<1>5. \A d \in Delivery : attempts'[d] <= attempts[d]
  BY <1>2
<1> QED BY <1>1, <1>3, <1>4, <1>5, AheadKept DEF AheadInv, adminVars

LEMMA TakeAhead ==
  ASSUME TypeInv, AheadInv, NEW k \in Workers, NEW j \in Job, Take(k, j)
  PROVE  AheadInv'
<1> SUFFICES ASSUME NEW d \in Delivery \ contested PROVE Ahead(d)'
  BY DEF AheadInv, Take, adminVars
<1>1. /\ queue[j] = "queued" /\ queue' = [queue EXCEPT ![j] = "active"]
      /\ wpc' = [wpc EXCEPT ![k] = "check"] /\ wjob' = [wjob EXCEPT ![k] = j]
      /\ fan' = fan /\ attempts' = attempts /\ apc' = apc /\ ajob' = ajob
  BY DEF Take, fanVars, rowVars, adminVars
<1>2. Ahead(d) /\ (j[1] = d => attempts[d] < j[2])
  BY <1>1 DEF AheadInv, Ahead
<1>3. \A i \in Job : queue'[i] = "queued" => queue[i] = "queued"
  BY <1>1 DEF TypeInv, TypeOK
<1>4. /\ wpc'[k] = "check" /\ wjob'[k] = j
      /\ \A l \in Workers : l # k => wpc'[l] = wpc[l] /\ wjob'[l] = wjob[l]
  BY <1>1 DEF TypeInv, TypeOK
<1>5. ASSUME NEW l \in Workers, wjob'[l][1] = d
      PROVE  /\ wpc'[l] \in Uncounted => attempts[d] < wjob'[l][2]
             /\ wpc'[l] \in Counted => attempts[d] <= wjob'[l][2]
  <2>1. CASE l = k
    BY <1>2, <1>4, <1>5, <2>1 DEF Counted
  <2>2. CASE l # k
    BY <1>2, <1>4, <1>5, <2>2 DEF Ahead
  <2> QED BY <2>1, <2>2
<1> QED BY <1>1, <1>2, <1>3, <1>5 DEF Ahead

LEMMA WorkerAhead ==
  ASSUME TypeInv, TypeInv', ThreadInv, AheadInv, NEW k \in Workers, WorkerStep(k)
  PROVE  AheadInv'
<1> DEFINE w == wjob[k]
<1>0. /\ wpc[k] # "idle" /\ w \in Job /\ w[1] \in Delivery /\ w[2] \in Nat
      /\ wjob' = wjob /\ fan' = fan /\ apc' = apc /\ ajob' = ajob /\ contested' = contested
      /\ \A l \in Workers : l # k => wpc'[l] = wpc[l]
  BY JobParts DEF WorkerStep, CheckStatus, FetchEvent, MarkNoEvent, MarkOversize, Post,
     MarkSuccess, ScheduleRetryOrFail, RetryDepth, RetryAdd, RetryReject, MoveToDlq,
     FinishJob, Goto, TypeInv, TypeOK, fanVars, adminVars
\* The number of the job is the row's from the verdict on.
<1>1. /\ \/ attempts' = attempts
         \/ wpc[k] \in Uncounted /\ wpc'[k] \notin Uncounted /\ attempts' = [attempts EXCEPT ![w[1]] = w[2]]
      /\ wpc'[k] \in Uncounted => wpc[k] \in Uncounted
      /\ wpc'[k] \in Counted => wpc[k] \in Uncounted \cup Counted
  <2> USE DEF TypeInv, TypeOK, Uncounted, Counted
  <2>1. CASE CheckStatus(k) \/ FetchEvent(k) \/ Post(k)
    <3>1. wpc[k] \in Uncounted /\ wpc'[k] \notin Counted /\ attempts' = attempts
      BY <2>1 DEF CheckStatus, FetchEvent, Post, Goto, rowVars
    <3> QED BY <3>1
  <2>2. CASE MarkNoEvent(k)
    <3>1. wpc[k] = "noevent" /\ wpc'[k] = "finish" /\ attempts' = attempts
      BY <1>0, <2>2 DEF MarkNoEvent, Goto, UpdateRow, rowVars
    <3> QED BY <3>1
  <2>3. CASE MarkOversize(k)
    BY <2>3 DEF MarkOversize, Goto, UpdateRow, rowVars
  <2>4. CASE MarkSuccess(k)
    BY <2>4 DEF MarkSuccess, Goto, UpdateRow, rowVars
  <2>5. CASE ScheduleRetryOrFail(k)
    BY <2>5 DEF ScheduleRetryOrFail, Goto, UpdateRow, rowVars
  <2>6. CASE RetryDepth(k) \/ RetryAdd(k)
    BY <2>6 DEF RetryDepth, RetryAdd, Goto, rowVars
  <2>7. CASE RetryReject(k)
    <3>1. wpc[k] = "reject" /\ wpc'[k] = "finish" /\ attempts' = attempts
      BY <1>0, <2>7 DEF RetryReject, Goto, UpdateRow, rowVars
    <3> QED BY <3>1
  <2>8. CASE MoveToDlq(k) \/ FinishJob(k)
    BY <2>8 DEF MoveToDlq, FinishJob, Goto, rowVars
  <2> QED BY <2>1, <2>2, <2>3, <2>4, <2>5, <2>6, <2>7, <2>8 DEF WorkerStep
<1>2. \A j \in Job : queue'[j] = "queued" =>
        \/ queue[j] = "queued"
        \/ wpc[k] \in Counted /\ attempts' = attempts /\ j = <<w[1], w[2] + 1>>
  <2>1. CASE queue' = queue
    BY <2>1
  <2>2. CASE RetryAdd(k)
    <3>1. wpc[k] = "add" /\ attempts' = attempts
      BY <2>2 DEF RetryAdd, rowVars
    <3>2. queue' = queue \/ queue' = [queue EXCEPT ![<<w[1], w[2] + 1>>] = "queued"]
      BY <2>2 DEF RetryAdd, AddJob, queueVars
    <3> QED BY <3>1, <3>2 DEF Counted, TypeInv, TypeOK
  <2>3. CASE FinishJob(k)
    <3>1. queue' = queue \/ queue' = [queue EXCEPT ![w] = "none"]
      BY <2>3 DEF FinishJob, queueVars
    <3> QED BY <3>1 DEF TypeInv, TypeOK
  <2> QED
    BY <2>1, <2>2, <2>3 DEF WorkerStep, CheckStatus, FetchEvent, MarkNoEvent, MarkOversize, Post,
       MarkSuccess, ScheduleRetryOrFail, RetryDepth, RetryReject, MoveToDlq, queueVars
<1> SUFFICES ASSUME NEW d \in Delivery \ contested PROVE Ahead(d)'
  BY <1>0 DEF AheadInv
<1>3. attempts[d] \in Nat /\ attempts'[d] \in Nat /\ Ahead(d)
  BY DEF TypeInv, TypeOK, AheadInv
<1>4. CASE attempts'[d] = attempts[d]
  <2>1. \A j \in Job : queue'[j] = "queued" /\ j[1] = d => attempts[d] < j[2]
    <3> SUFFICES ASSUME NEW j \in Job, queue'[j] = "queued", j[1] = d PROVE attempts[d] < j[2]
      OBVIOUS
    <3>1. CASE queue[j] = "queued"
      BY <1>3, <3>1 DEF Ahead
    <3>2. CASE queue[j] # "queued"
      BY <1>0, <1>2, <1>3, <3>2 DEF Ahead
    <3> QED BY <3>1, <3>2
  <2>2. ASSUME NEW l \in Workers, wjob[l][1] = d
        PROVE  /\ wpc'[l] \in Uncounted => attempts[d] < wjob[l][2]
               /\ wpc'[l] \in Counted => attempts[d] <= wjob[l][2]
    <3>1. CASE l = k
      BY <1>0, <1>1, <1>3, <2>2, <3>1 DEF Ahead
    <3>2. CASE l # k
      BY <1>0, <1>3, <2>2, <3>2 DEF Ahead
    <3> QED BY <3>1, <3>2
  <2> QED BY <1>0, <1>3, <1>4, <2>1, <2>2 DEF Ahead
<1>5. CASE attempts'[d] # attempts[d]
  <2>1. /\ d = w[1] /\ attempts'[d] = w[2] /\ attempts' # attempts
        /\ wpc[k] \in Uncounted /\ wpc'[k] \notin Uncounted
    BY <1>0, <1>1, <1>5 DEF TypeInv, TypeOK
  <2>2. wpc[k] \in LivePC
    BY <2>1 DEF Uncounted, LivePC, WorkerPC
  <2>3. /\ fan[d] = "idle" /\ NoneQueued(d) /\ NoAdmin(d)
        /\ \A l \in Workers : wpc[l] \in LivePC /\ wjob[l][1] = d => l = k
    BY <2>1, <2>2 DEF ThreadInv, Thread, OneCarrier, NoSlot
  <2>4. \A j \in Job : ~(queue'[j] = "queued" /\ j[1] = d)
    BY <1>2, <2>1, <2>3 DEF NoneQueued
  <2>5. ASSUME NEW l \in Workers, wjob[l][1] = d
        PROVE  /\ wpc'[l] \notin Uncounted
               /\ wpc'[l] \in Counted => attempts'[d] <= wjob[l][2]
    <3>1. CASE l = k
      BY <1>0, <2>1, <3>1
    <3>2. CASE l # k
      BY <1>0, <2>3, <2>5, <3>2 DEF Uncounted, Counted, LivePC, WorkerPC
    <3> QED BY <3>1, <3>2
  <2>6. \A a \in Admins : ~(apc[a] \in {"reset", "depth", "add"} /\ ajob[a][1] = d)
    BY <2>3 DEF NoAdmin
  <2> QED BY <1>0, <2>3, <2>4, <2>5, <2>6 DEF Ahead, Counted
<1> QED BY <1>4, <1>5

LEMMA AdminAhead ==
  ASSUME TypeInv, TypeInv', AheadInv, NEW a \in Admins,
         AdminStep(a) \/ \E d \in Delivery : RetryRead(a, d) \/ TestCreateEvent(a, d)
  PROVE  AheadInv'
<1> USE DEF TypeInv, TypeOK
<1> SUFFICES ASSUME NEW d \in Delivery \ contested' PROVE Ahead(d)'
  BY DEF AheadInv
<1>0. /\ \A b \in Admins : b # a => apc'[b] = apc[b] /\ ajob'[b] = ajob[b]
      /\ UNCHANGED <<fan, workerVars>>
      /\ attempts[d] \in Nat /\ attempts'[d] \in Nat /\ Ahead(d)
  BY DEF AdminStep, RetryReset, TestCreateDelivery, AdminDepth, AdminAdd, RetryRead,
     TestCreateEvent, fanVars, AheadInv
<1>1. attempts'[d] = attempts[d] \/ attempts'[d] = 0
  BY DEF AdminStep, RetryReset, TestCreateDelivery, InsertRow, AdminDepth, AdminAdd, RetryRead,
     TestCreateEvent, rowVars
<1>2. \A j \in Job : j[2] \in Nat \ {0}
  BY DEF Job, Attempt
\* The number that is handed on: read with the row, or the first of a new one.
<1>3. apc'[a] \in {"reset", "depth", "add"} /\ ajob'[a][1] = d => attempts'[d] < ajob'[a][2]
  <2>1. ASSUME NEW c \in Delivery, RetryRead(a, c)
        PROVE  ajob'[a] = <<c, attempts[c] + 1>> /\ attempts' = attempts
    BY <2>1 DEF RetryRead, rowVars
  <2>2. ASSUME NEW c \in Delivery, TestCreateEvent(a, c) PROVE apc'[a] = "create"
    BY <2>2 DEF TestCreateEvent
  <2>3. CASE TestCreateDelivery(a)
    <3>1. ajob'[a] = ajob[a] /\ ajob[a] \in Job
      BY <2>3 DEF TestCreateDelivery
    <3>2. apc'[a] # "idle" /\ ajob[a][1] = d => attempts'[d] = 0
      BY <2>3 DEF TestCreateDelivery, InsertRow
    <3> QED BY <1>2, <3>1, <3>2
  <2>4. CASE RetryReset(a) \/ AdminDepth(a) \/ AdminAdd(a)
    <3>1. /\ ajob' = ajob /\ attempts' = attempts
          /\ apc'[a] # "idle" => apc[a] \in {"reset", "depth", "add"}
      BY <2>4 DEF RetryReset, AdminDepth, AdminAdd, rowVars
    <3> QED BY <1>0, <3>1 DEF Ahead
  <2> QED BY <1>0, <2>1, <2>2, <2>3, <2>4 DEF AdminStep
<1>4. \A j \in Job : queue'[j] = "queued" /\ j[1] = d => attempts'[d] < j[2]
  <2> SUFFICES ASSUME NEW j \in Job, queue'[j] = "queued", j[1] = d PROVE attempts'[d] < j[2]
    OBVIOUS
  <2>1. CASE queue[j] = "queued"
    BY <1>0, <1>1, <1>2, <2>1 DEF Ahead
  <2>2. CASE queue[j] # "queued"
    <3>1. j = ajob[a] /\ apc[a] = "add" /\ attempts' = attempts
      BY <2>2 DEF AdminStep, RetryReset, TestCreateDelivery, AdminDepth, AdminAdd, AddJob, RetryRead,
         TestCreateEvent, queueVars, rowVars
    <3> QED BY <1>0, <3>1 DEF Ahead
  <2> QED BY <2>1, <2>2
<1>5. ASSUME NEW k \in Workers, wjob[k][1] = d
      PROVE  /\ wpc[k] \in Uncounted => attempts'[d] < wjob[k][2]
             /\ wpc[k] \in Counted => attempts'[d] <= wjob[k][2]
  <2>1. wpc[k] # "idle" => wjob[k][2] \in Nat \ {0}
    BY <1>2
  <2> QED BY <1>0, <1>1, <1>5, <2>1 DEF Ahead, Uncounted, Counted
<1>6. ASSUME NEW b \in Admins, b # a, apc[b] \in {"reset", "depth", "add"}, ajob[b][1] = d
      PROVE  attempts'[d] < ajob[b][2]
  <2>1. ajob[b][2] \in Nat \ {0}
    BY <1>2, <1>6
  <2> QED BY <1>0, <1>1, <1>6, <2>1 DEF Ahead
<1>7. \A b \in Admins :
        apc'[b] \in {"reset", "depth", "add"} /\ ajob'[b][1] = d => attempts'[d] < ajob'[b][2]
  BY <1>0, <1>3, <1>6
<1> QED BY <1>0, <1>1, <1>4, <1>5, <1>7 DEF Ahead, workerVars

\* The count, until the process dies or a job stalls.
CountedInv == ForkInv /\ (Undisturbed => AheadInv)

LEMMA StepCountedInv ==
  ASSUME CountedInv, [Next]_vars
  PROVE  CountedInv'
<1>1. ForkInv' /\ TypeInv /\ TypeInv'
  BY StepForkInv DEF CountedInv, ForkInv
<1>2. ASSUME Undisturbed' PROVE AheadInv'
  <2>1. /\ ThreadInv /\ AheadInv /\ ~Crash
        /\ \A k \in Workers : ~Stall(k)
    BY <1>1, <1>2, UndisturbedBefore DEF CountedInv, ForkInv
  <2>2. CASE (\E w \in Webhooks : SetActive(w) \/ DeleteWebhook(w)) \/ UNCHANGED vars
    BY <2>1, <2>2 DEF SetActive, DeleteWebhook, vars, AheadInv, Ahead, fanVars, rowVars, queueVars,
       workerVars, adminVars
  <2> QED
    BY <1>1, <2>1, <2>2, EventAhead, FanAhead, TakeAhead, WorkerAhead, AdminAhead DEF Next
<1> QED BY <1>1, <1>2 DEF CountedInv

\* The promise is given while no process dies, no job stalls and no two requests
\* have one delivery in hand.
Undivided == Undisturbed /\ contested = {}

\* What a slot, or the fan-out, that has the delivery in hand may do to its row.
LEMMA VerdictIsGiven ==
  ASSUME TypeInv, NEW d \in Delivery, status[d] \in {"absent", "pending"},
         NEW s \in {"pending", "success", "failed"}, NEW n \in Nat, UpdateRow(d, s, n),
         UNCHANGED <<crashes, stalls, contested>>,
         \/ n = attempts[d] /\ s = "failed"
         \/ attempts[d] < n /\ (s = "pending" => n < MaxAttempts)
  PROVE  Promised!Attempt(d) \/ Promised!GiveUp(d) \/ UNCHANGED Promised!promiseVars
<1> USE DEF TypeInv, TypeOK
<1>0. UNCHANGED (~(crashes = 0 /\ stalls = 0 /\ contested = {}))
  OBVIOUS
<1>1. CASE UNCHANGED rowVars
  BY <1>0, <1>1 DEF Promised!promiseVars, rowVars
<1>2. CASE /\ status[d] = "pending"
           /\ status' = [status EXCEPT ![d] = s] /\ attempts' = [attempts EXCEPT ![d] = n]
  <2>1. attempts'[d] = n /\ attempts' = [attempts EXCEPT ![d] = attempts'[d]]
    BY <1>2
  <2>2. CASE n = attempts[d] /\ s = "failed"
    BY <1>0, <1>2, <2>2 DEF Promised!GiveUp, Promised!Becomes
  <2>3. CASE attempts[d] < n /\ s = "pending" /\ n < MaxAttempts
    <3>1. status' = status
      BY <1>2, <2>3
    <3> QED BY <1>0, <1>2, <2>1, <2>3, <3>1 DEF Promised!Attempt
  <2>4. CASE attempts[d] < n /\ s # "pending"
    BY <1>0, <1>2, <2>1, <2>4 DEF Promised!Attempt, Promised!Becomes
  <2> QED BY <2>2, <2>3, <2>4
<1> QED BY <1>1, <1>2 DEF UpdateRow

LEMMA WorkerKeepsPromise ==
  ASSUME TypeInv, ThreadInv, AheadInv, contested = {}, NEW k \in Workers, WorkerStep(k)
  PROVE  [Promised!PromiseNext]_(Promised!promiseVars)
<1> DEFINE d == wjob[k][1]
           n == wjob[k][2]
<1>0. UNCHANGED <<crashes, stalls, contested>>
  BY DEF WorkerStep, CheckStatus, FetchEvent, MarkNoEvent, MarkOversize, Post,
     MarkSuccess, ScheduleRetryOrFail, RetryDepth, RetryAdd, RetryReject, MoveToDlq,
     FinishJob, environment, adminVars
<1>1. CASE UNCHANGED rowVars
  BY <1>0, <1>1 DEF Promised!promiseVars, rowVars
<1>2. CASE wpc[k] \in Uncounted \cup {"reject"}
  <2>1. d \in Delivery /\ n \in Nat /\ attempts[d] \in Nat
    BY <1>2, JobParts DEF TypeInv, TypeOK, Uncounted
  <2>2. status[d] \in {"absent", "pending"}
    <3>1. ~NoSlot(d)
      BY <1>2 DEF NoSlot, Uncounted, LivePC, WorkerPC
    <3> QED BY <2>1, <3>1 DEF ThreadInv, Thread, Unattended, TypeInv, TypeOK
  <2>3. wpc[k] \in Uncounted => attempts[d] < n
    BY <2>1 DEF AheadInv, Ahead
  <2>4. ASSUME NEW s \in {"pending", "success", "failed"}, NEW m \in Nat, UpdateRow(d, s, m),
               \/ m = attempts[d] /\ s = "failed"
               \/ attempts[d] < m /\ (s = "pending" => m < MaxAttempts)
        PROVE  [Promised!PromiseNext]_(Promised!promiseVars)
    BY <1>0, <2>1, <2>2, <2>4, VerdictIsGiven DEF Promised!PromiseNext
  <2>5. CASE MarkNoEvent(k) \/ RetryReject(k)
    BY <2>1, <2>4, <2>5 DEF MarkNoEvent, RetryReject
  <2>6. CASE MarkOversize(k) \/ MarkSuccess(k)
    BY <2>1, <2>3, <2>4, <2>6 DEF MarkOversize, MarkSuccess, Uncounted
  <2>7. CASE ScheduleRetryOrFail(k)
    <3>1. UpdateRow(d, IF CanRetry(n) THEN "pending" ELSE "failed", n) /\ attempts[d] < n
      BY <2>3, <2>7 DEF ScheduleRetryOrFail, Uncounted
    <3>2. CASE CanRetry(n)
      <4>1. n < MaxAttempts
        BY <2>1, <3>2, ConstantsOK DEF CanRetry
      <4> QED BY <2>1, <2>4, <3>1, <3>2, <4>1
    <3>3. CASE ~CanRetry(n)
      BY <2>1, <2>4, <3>1, <3>3
    <3> QED BY <3>2, <3>3
  <2> QED
    BY <1>1, <2>5, <2>6, <2>7 DEF WorkerStep, CheckStatus, FetchEvent, Post, RetryDepth, RetryAdd,
       MoveToDlq, FinishJob
<1>3. CASE wpc[k] \notin Uncounted \cup {"reject"}
  BY <1>1, <1>3 DEF WorkerStep, CheckStatus, FetchEvent, MarkNoEvent, MarkOversize, Post,
     MarkSuccess, ScheduleRetryOrFail, RetryDepth, RetryAdd, RetryReject, MoveToDlq,
     FinishJob, Uncounted
<1> QED BY <1>2, <1>3

LEMMA RowIsCreated ==
  ASSUME NEW d \in Delivery, CanInsert(d), InsertRow(d), UNCHANGED <<crashes, stalls, contested>>
  PROVE  [Promised!PromiseNext]_(Promised!promiseVars)
BY DEF CanInsert, InsertRow, Promised!PromiseNext, Promised!Create, Promised!Becomes

LEMMA RowsAreRemoved ==
  ASSUME TypeInv, NEW w \in Webhooks, DeleteWebhook(w)
  PROVE  [Promised!PromiseNext]_(Promised!promiseVars)
<1> DEFINE D == {d \in Delivery : d[2] = w}
<1>1. /\ status' = [d \in Delivery |-> IF d[2] = w THEN "absent" ELSE status[d]]
      /\ attempts' = attempts /\ UNCHANGED <<crashes, stalls, contested>>
  BY DEF DeleteWebhook, environment, adminVars
<1>2. status' = [d \in Delivery |-> IF d \in D THEN "absent" ELSE status[d]]
  BY <1>1
<1>3. Promised!Remove(D)
  BY <1>1, <1>2 DEF Promised!Remove
<1> QED BY <1>3 DEF Promised!PromiseNext

LEMMA StepKeepsPromise ==
  ASSUME CountedInv, [Next]_vars
  PROVE  [Promised!PromiseNext]_(Promised!promiseVars)
<1>1. CASE ~Undivided'
  BY <1>1 DEF Undivided, Undisturbed, Promised!PromiseNext, Promised!Disturb
<1>2. CASE Undivided'
  <2>0. contested = {} /\ contested' = {}
    BY <1>2, ContestedGrows DEF Undivided
  <2>1. /\ TypeInv /\ ThreadInv /\ AheadInv /\ ~Crash /\ \A k \in Workers : ~Stall(k)
        /\ UNCHANGED <<crashes, stalls, contested>>
    BY <1>2, <2>0, UndisturbedBefore DEF CountedInv, ForkInv, Undivided, Undisturbed
  <2>2. CASE UNCHANGED rowVars
    BY <2>1, <2>2 DEF Promised!promiseVars, rowVars
  <2>3. ASSUME NEW d \in Delivery, FanStep(d), ~UNCHANGED rowVars
        PROVE  [Promised!PromiseNext]_(Promised!promiseVars)
    <3>1. CASE FanInsert(d)
      BY <2>1, <2>3, <3>1, RowIsCreated DEF FanInsert
    <3>2. CASE FanReject(d)
      <4>1. status[d] \in {"absent", "pending"} /\ attempts[d] \in Nat
        BY <2>0, <2>1, <3>2 DEF FanReject, ThreadInv, Thread, Unattended, TypeInv, TypeOK
      <4>2. UpdateRow(d, "failed", attempts[d])
        BY <3>2 DEF FanReject
      <4> QED BY <2>1, <4>1, <4>2, VerdictIsGiven DEF Promised!PromiseNext
    <3> QED BY <2>3, <3>1, <3>2 DEF FanStep, FanDepth, FanAdd
  <2>4. ASSUME NEW a \in Admins, AdminStep(a), ~UNCHANGED rowVars
        PROVE  [Promised!PromiseNext]_(Promised!promiseVars)
    <3>1. apc[a] # "idle" /\ ajob[a][1] \in Delivery
      BY <2>1, <2>4, JobParts DEF AdminStep, RetryReset, TestCreateDelivery, AdminDepth, AdminAdd,
         TypeInv, TypeOK
    <3>2. CASE RetryReset(a)
      <4> DEFINE d == ajob[a][1]
      <4>1. /\ status[d] # "absent" /\ status' = [status EXCEPT ![d] = "pending"]
            /\ attempts' = attempts
        BY <2>4, <3>2 DEF RetryReset, rowVars
      <4>2. status[d] # "pending"
        BY <2>1, <2>4, <3>1, <4>1 DEF rowVars, TypeInv, TypeOK
      <4>3. status[d] \in {"success", "failed"}
        BY <2>1, <3>1, <4>1, <4>2 DEF TypeInv, TypeOK
      <4> QED
        BY <2>1, <3>1, <4>1, <4>3 DEF Promised!PromiseNext, Promised!TryAgain, Promised!Becomes
    <3>3. CASE TestCreateDelivery(a)
      BY <2>1, <2>4, <3>1, <3>3, RowIsCreated DEF TestCreateDelivery
    <3> QED BY <2>4, <3>2, <3>3 DEF AdminStep, AdminDepth, AdminAdd
  <2>5. CASE UNCHANGED vars
    BY <2>2, <2>5 DEF vars
  <2>6. ASSUME NEW e \in Events, Emit(e) \/ PersistEvent(e) \/ SelectWebhooks(e)
        PROVE  UNCHANGED rowVars
    BY <2>6 DEF Emit, PersistEvent, SelectWebhooks
  <2>7. ASSUME NEW k \in Workers, NEW j \in Job, Take(k, j) PROVE UNCHANGED rowVars
    BY <2>7 DEF Take
  <2>8. ASSUME NEW a \in Admins, NEW d \in Delivery, RetryRead(a, d) \/ TestCreateEvent(a, d)
        PROVE  UNCHANGED rowVars
    BY <2>8 DEF RetryRead, TestCreateEvent
  <2>9. ASSUME NEW w \in Webhooks, SetActive(w) PROVE UNCHANGED rowVars
    BY <2>9 DEF SetActive
  <2> QED
    BY <2>0, <2>1, <2>2, <2>3, <2>4, <2>5, <2>6, <2>7, <2>8, <2>9, WorkerKeepsPromise, RowsAreRemoved
    DEF Next
<1> QED BY <1>1, <1>2

\* Until the process dies, a job stalls or two requests have one delivery in hand
\* the rows live the life the promise describes: every verdict is written over a
\* pending row, under a number past all that were counted, and stands until a retry
\* or the end of its webhook.
THEOREM RowsKeepPromise == SafetySpec => KeepsRowPromise
<1>1. Init => CountedInv
  BY InitRecordInv, InitAhead DEF RecordInv, CountedInv
<1>2. CountedInv /\ [Next]_vars => CountedInv'
  BY StepCountedInv
<1>3. Init => Promised!PromiseInit
  BY DEF Init, Promised!PromiseInit
<1>4. CountedInv /\ [Next]_vars => [Promised!PromiseNext]_(Promised!promiseVars)
  BY StepKeepsPromise
<1> QED BY <1>1, <1>2, <1>3, <1>4, PTL DEF SafetySpec, KeepsRowPromise, Promised!Promise

=============================================================================
