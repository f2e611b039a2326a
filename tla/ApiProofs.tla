------------------------------- MODULE ApiProofs ------------------------------
(***************************************************************************)
(* Proofs about the components of the API that keep little state: the      *)
(* counter of the event streams, the cache of an organisation, the         *)
(* monitoring sessions of an administrator, the bans of employees, the     *)
(* rate limits, the secrets of webhooks, API keys and the streamed         *)
(* distance; for every number of clients, processes, calls,                *)
(* administrators, requests, deliveries and points.  At the end, that the  *)
(* parts MCApi puts together stay in their types, the expenses too.        *)
(***************************************************************************)
EXTENDS MCApi, ExpensesProofs, FiniteSetTheorems

-----------------------------------------------------------------------------
(* SseConnections.  A client whose listener leaked does not come back, so  *)
(* that a handler which runs adds a listener that was not there.           *)

LeakedAreGone == \A c \in leaked : client[c] = "away"

SseInv == SseTypeOK /\ SlotsAreListeners /\ LeakedAreGone

LEMMA SseInitInv == SseInit => SseInv
<1> SUFFICES ASSUME SseInit PROVE SseInv
  OBVIOUS
<1>1. Cardinality({}) = 0
  BY FS_EmptySet
<1>2. {c \in Clients : client[c] = "streaming"} = {}
  BY DEF SseInit
<1> QED
  BY <1>1, <1>2, SseConstants DEF SseInit, SseInv, SseTypeOK, SlotsAreListeners, LeakedAreGone

LEMMA SseStepInv == SseInv /\ [SseNext]_sseVars => SseInv'
<1> SUFFICES ASSUME SseInv, [SseNext]_sseVars PROVE SseInv'
  OBVIOUS
<1> USE DEF SseInv, SseTypeOK, SlotsAreListeners, LeakedAreGone
<1>0. /\ IsFiniteSet(listening)
      /\ Cardinality(listening) \in Nat
      /\ Cardinality(listening) = 0 <=> listening = {}
  BY SseConstants, FS_Subset, FS_CardinalityType, FS_EmptySet
<1>1. ASSUME NEW c \in Clients, Connect(c) PROVE SseInv'
  BY <1>1 DEF Connect
<1>2. ASSUME NEW c \in Clients, LeaveEarly(c) PROVE SseInv'
  BY <1>2 DEF LeaveEarly
<1>3. ASSUME NEW c \in Clients, RefuseToken(c) PROVE SseInv'
  BY <1>3 DEF RefuseToken
<1>4. ASSUME NEW c \in Clients, Stream(c) PROVE SseInv'
  <2>1. CASE count >= MaxConnections
    BY <1>4, <2>1 DEF Stream
  <2>2. CASE ~(count >= MaxConnections)
    <3>1. c \notin listening
      BY <1>4 DEF Stream
    <3>2. Cardinality(listening \cup {c}) = Cardinality(listening) + 1
      BY <1>0, <3>1, FS_AddElement
    <3>3. count' = count + 1 /\ listening' = listening \cup {c} /\ count + 1 <= MaxConnections
      BY <1>4, <2>2, SseConstants DEF Stream
    <3>4. CASE client[c] = "left"
      BY <1>4, <2>2, <3>2, <3>3, <3>4 DEF Stream
    <3>5. CASE client[c] # "left"
      BY <1>4, <2>2, <3>1, <3>2, <3>3, <3>5 DEF Stream
    <3> QED BY <3>4, <3>5
  <2> QED BY <2>1, <2>2
<1>5. ASSUME NEW c \in Clients, Disconnect(c) PROVE SseInv'
  <2>1. c \in listening /\ c \notin leaked
    BY <1>5 DEF Disconnect
  <2>2. Cardinality(listening \ {c}) = Cardinality(listening) - 1
    BY <1>0, <2>1, FS_RemoveElement
  <2>3. count' = count - 1
    BY <1>0, <1>5, <2>1 DEF Disconnect
  <2>4. /\ client' = [client EXCEPT ![c] = "away"]
        /\ listening' = listening \ {c} /\ leaked' = leaked
    BY <1>5 DEF Disconnect
  <2>5. count - 1 \in Nat /\ count - 1 <= MaxConnections
    BY <1>0, <2>1, SseConstants
  <2>6. listening' = {d \in Clients : client'[d] = "streaming"} \cup leaked'
    BY <2>1, <2>4
  <2> QED
    BY <2>1, <2>2, <2>3, <2>4, <2>5, <2>6
<1>6. CASE RestartApi
  <2>1. {c \in Clients : client'[c] = "streaming"} = {}
    BY <1>6 DEF RestartApi
  <2> QED
    BY <1>6, <2>1, FS_EmptySet, SseConstants DEF RestartApi
<1>7. CASE UNCHANGED sseVars
  BY <1>7 DEF sseVars
<1> QED
  BY <1>1, <1>2, <1>3, <1>4, <1>5, <1>6, <1>7 DEF SseNext

\* Whatever order clients come and go in, the counter of an organisation is the
\* number of its listeners, never above the limit, and a slot without a client is
\* one whose client left before its handler ran.
THEOREM SlotsAreCounted == SseSpec => []SlotsAreListeners
<1>1. SseInv => SlotsAreListeners
  BY DEF SseInv
<1> QED
  BY <1>1, SseInitInv, SseStepInv, PTL DEF SseSpec

-----------------------------------------------------------------------------
(* OrgCache.  The age of an entry and the ticks it has left add up to no   *)
(* more than what it began with; a value taken over from Redis brings the  *)
(* age it has there.                                                       *)

L2Entries == {Nothing} \cup {x \in [val : Nat, age : Nat, left : 1..TTL] : x.age + x.left <= TTL}

L1Entries == {Nothing} \cup {x \in [val : Nat, age : Nat, left : 1..TTL] : x.age + x.left <= 2 * TTL}

AgesBounded ==
  /\ version \in Nat /\ l2 \in L2Entries
  /\ l1 \in [Processes -> L1Entries]
  /\ \A p \in Processes : reader[p].step \in {"l1", "l2"} => reader[p].val \in Nat
  /\ \E S : reader \in [Processes -> S]

LEMMA CacheInitInv == CacheInit => AgesBounded
<1> SUFFICES ASSUME CacheInit PROVE AgesBounded
  OBVIOUS
<1>1. reader \in [Processes -> {Asleep}]
  BY DEF CacheInit
<1> QED
  BY <1>1 DEF CacheInit, AgesBounded, L1Entries, L2Entries, Asleep

\* An entry as a read of the database leaves it.
LEMMA FreshEntry ==
  ASSUME NEW v \in Nat
  PROVE  [val |-> v, age |-> 0, left |-> TTL] \in L2Entries \cap L1Entries
BY CacheConstants DEF L1Entries, L2Entries

\* An entry of Redis, taken over into L1.
LEMMA TakenOver ==
  ASSUME NEW x \in L2Entries, Holds(x)
  PROVE  [val |-> x.val, age |-> x.age, left |-> TTL] \in L1Entries
BY CacheConstants DEF L1Entries, L2Entries, Holds, Nothing

LEMMA OlderL1 == ASSUME NEW x \in L1Entries PROVE Older(x) \in L1Entries
BY CacheConstants DEF L1Entries, Older, Nothing

LEMMA OlderL2 == ASSUME NEW x \in L2Entries PROVE Older(x) \in L2Entries
BY CacheConstants DEF L2Entries, Older, Nothing

\* A reader moves on, with a version or without.
LEMMA ReaderMoves ==
  ASSUME AgesBounded, NEW p \in Processes, NEW x,
         x.step \in {"l1", "l2"} => x.val \in Nat,
         reader' = [reader EXCEPT ![p] = x]
  PROVE  /\ \A q \in Processes : reader'[q].step \in {"l1", "l2"} => reader'[q].val \in Nat
         /\ \E S : reader' \in [Processes -> S]
<1>1. PICK S : reader \in [Processes -> S]
  BY DEF AgesBounded
<1>2. reader' \in [Processes -> S \cup {x}]
  BY <1>1
<1>3. \A q \in Processes : reader'[q] = IF q = p THEN x ELSE reader[q]
  BY <1>1
<1> QED BY <1>2, <1>3 DEF AgesBounded

LEMMA CacheStepInv == AgesBounded /\ [CacheNext]_cacheVars => AgesBounded'
<1> SUFFICES ASSUME AgesBounded, [CacheNext]_cacheVars PROVE AgesBounded'
  OBVIOUS
<1>1. ASSUME NEW p \in Processes, WriteRow(p) PROVE AgesBounded'
  BY <1>1 DEF WriteRow, AgesBounded
<1>2. ASSUME NEW p \in Processes, Miss(p) PROVE AgesBounded'
  BY <1>2, ReaderMoves DEF Miss, AgesBounded
<1>3. ASSUME NEW p \in Processes, RedisHit(p) PROVE AgesBounded'
  <2>1. l1' \in [Processes -> L1Entries]
    BY <1>3, TakenOver DEF RedisHit, AgesBounded
  <2> QED BY <1>3, <2>1, ReaderMoves DEF RedisHit, AgesBounded, Asleep
<1>4. ASSUME NEW p \in Processes, ReadSource(p) PROVE AgesBounded'
  <2>1. [step |-> "l1", val |-> version].val \in Nat
    BY DEF AgesBounded
  <2> QED BY <1>4, <2>1, ReaderMoves DEF ReadSource, AgesBounded
<1>5. ASSUME NEW p \in Processes, FillL1(p) PROVE AgesBounded'
  <2>1. reader[p].val \in Nat
    BY <1>5 DEF FillL1, AgesBounded
  <2>2. l1' \in [Processes -> L1Entries]
    BY <1>5, <2>1, FreshEntry DEF FillL1, AgesBounded
  <2> QED BY <1>5, <2>1, <2>2, ReaderMoves DEF FillL1, AgesBounded
<1>6. ASSUME NEW p \in Processes, FillL2(p) PROVE AgesBounded'
  <2>1. reader[p].val \in Nat
    BY <1>6 DEF FillL2, AgesBounded
  <2>2. l2' \in L2Entries
    BY <1>6, <2>1, FreshEntry DEF FillL2, AgesBounded
  <2> QED BY <1>6, <2>2, ReaderMoves DEF FillL2, AgesBounded, Asleep
<1>7. ASSUME NEW p \in Processes, Evict(p) PROVE AgesBounded'
  BY <1>7 DEF Evict, AgesBounded, L1Entries
<1>8. ASSUME NEW p \in Processes, SweepL1(p) PROVE AgesBounded'
  BY <1>8 DEF SweepL1, AgesBounded, L1Entries
<1>9. ASSUME NEW p \in Processes, SweepL2(p) PROVE AgesBounded'
  BY <1>9 DEF SweepL2, AgesBounded, L2Entries
<1>10. CASE Tick
  BY <1>10, OlderL1, OlderL2 DEF Tick, AgesBounded
<1>11. CASE UNCHANGED cacheVars
  BY <1>11 DEF cacheVars, AgesBounded
<1> QED
  BY <1>1, <1>2, <1>3, <1>4, <1>5, <1>6, <1>7, <1>8, <1>9, <1>10, <1>11 DEF CacheNext

\* However processes take answers over from each other through Redis, none of
\* them serves one that is older than twice the TTL.
THEOREM StalenessBounded == CacheSpec => []StaleAtMostTwoTTL
<1>1. AgesBounded => StaleAtMostTwoTTL
  BY CacheConstants DEF AgesBounded, StaleAtMostTwoTTL, L1Entries, L2Entries, Holds, Nothing
<1> QED
  BY <1>1, CacheInitInv, CacheStepInv, PTL DEF CacheSpec

\* After an invalidation that met no read: what its process may still be served,
\* from where it is or from where it is on its way, is at least as new.
Swept ==
  /\ AgesBounded
  /\ sweep \in [Processes -> {"none", "due", "redis"}]
  /\ sweptAt \in [Processes -> Nat]
  /\ \A p \in Processes \ raced :
       /\ sweptAt[p] <= version
       /\ Holds(l1[p]) => l1[p].val >= sweptAt[p]
       /\ sweep[p] # "redis" /\ Holds(l2) => l2.val >= sweptAt[p]
       /\ \A q \in Processes : reader[q].step \in {"l1", "l2"} => reader[q].val >= sweptAt[p]

\* An entry keeps its value while it ages.
LEMMA OlderKeepsValue ==
  ASSUME NEW x \in L1Entries \cup L2Entries, Holds(Older(x))
  PROVE  Holds(x) /\ Older(x).val = x.val
<1>1. ~(x.left <= 1)
  BY DEF Holds, Older, Nothing
<1>2. x.left \in Nat
  BY CacheConstants DEF L1Entries, L2Entries, Nothing
<1> QED BY <1>1, <1>2 DEF Holds, Older

LEMMA SweptStep == Swept /\ [CacheNext]_cacheVars => Swept'
<1> SUFFICES ASSUME Swept, [CacheNext]_cacheVars PROVE Swept'
  OBVIOUS
<1>0. AgesBounded /\ AgesBounded'
  BY CacheStepInv DEF Swept
<1> DEFINE Fresh(p) ==
      /\ sweptAt[p] <= version
      /\ Holds(l1[p]) => l1[p].val >= sweptAt[p]
      /\ sweep[p] # "redis" /\ Holds(l2) => l2.val >= sweptAt[p]
      /\ \A q \in Processes : reader[q].step \in {"l1", "l2"} => reader[q].val >= sweptAt[p]
<1>a. /\ sweep \in [Processes -> {"none", "due", "redis"}] /\ sweptAt \in [Processes -> Nat]
      /\ \A p \in Processes \ raced : Fresh(p)
      /\ version \in Nat /\ DOMAIN l1 = Processes /\ DOMAIN reader = Processes
  BY <1>0 DEF Swept, AgesBounded
<1>b. SUFFICES /\ sweep' \in [Processes -> {"none", "due", "redis"}]
               /\ sweptAt' \in [Processes -> Nat]
               /\ \A p \in Processes \ raced' : Fresh(p)'
  BY <1>0 DEF Swept
<1>1. ASSUME NEW p \in Processes, WriteRow(p) PROVE <1>b!1
  BY <1>a, <1>1 DEF WriteRow
<1>2. ASSUME NEW p \in Processes, Miss(p) PROVE <1>b!1
  BY <1>a, <1>2 DEF Miss
<1>3. ASSUME NEW p \in Processes, RedisHit(p) PROVE <1>b!1
  <2>1. \A q \in Processes : l1'[q] = IF q = p THEN [val |-> l2.val, age |-> l2.age, left |-> TTL] ELSE l1[q]
    BY <1>a, <1>3 DEF RedisHit
  <2>2. \A q \in Processes : reader'[q] = IF q = p THEN Asleep ELSE reader[q]
    BY <1>a, <1>3 DEF RedisHit
  <2>3. raced \subseteq raced' /\ (p \notin raced' => sweep[p] # "redis")
    BY <1>3 DEF RedisHit
  <2> QED BY <1>a, <1>3, <2>1, <2>2, <2>3 DEF RedisHit, Asleep
<1>4. ASSUME NEW p \in Processes, ReadSource(p) PROVE <1>b!1
  <2>1. \A q \in Processes : reader'[q] = IF q = p THEN [step |-> "l1", val |-> version] ELSE reader[q]
    BY <1>a, <1>4 DEF ReadSource
  <2> QED BY <1>a, <1>4, <2>1 DEF ReadSource
<1>5. ASSUME NEW p \in Processes, FillL1(p) PROVE <1>b!1
  <2>1. \A q \in Processes : l1'[q] = IF q = p THEN [val |-> reader[p].val, age |-> 0, left |-> TTL] ELSE l1[q]
    BY <1>a, <1>5 DEF FillL1
  <2>2. \A q \in Processes : reader'[q] = IF q = p THEN [step |-> "l2", val |-> reader[p].val] ELSE reader[q]
    BY <1>a, <1>5 DEF FillL1
  <2> QED BY <1>a, <1>5, <2>1, <2>2 DEF FillL1
<1>6. ASSUME NEW p \in Processes, FillL2(p) PROVE <1>b!1
  <2>1. \A q \in Processes : reader'[q] = IF q = p THEN Asleep ELSE reader[q]
    BY <1>a, <1>6 DEF FillL2
  <2>2. l2' = l2 \/ l2'.val = reader[p].val
    BY <1>6 DEF FillL2
  <2> QED BY <1>a, <1>6, <2>1, <2>2 DEF FillL2, Asleep
<1>7. ASSUME NEW p \in Processes, Evict(p) PROVE <1>b!1
  <2>1. \A q \in Processes : l1'[q] = IF q = p THEN Nothing ELSE l1[q]
    BY <1>a, <1>7 DEF Evict
  <2> QED BY <1>a, <1>7, <2>1 DEF Evict, Holds, Nothing
<1>8. ASSUME NEW p \in Processes, SweepL1(p) PROVE <1>b!1
  <2>1. \A q \in Processes : l1'[q] = IF q = p THEN Nothing ELSE l1[q]
    BY <1>a, <1>8 DEF SweepL1
  <2>2. \A q \in Processes : /\ sweptAt'[q] = IF q = p THEN version ELSE sweptAt[q]
                             /\ sweep'[q] = IF q = p THEN "redis" ELSE sweep[q]
    BY <1>a, <1>8 DEF SweepL1
  <2>3. /\ p \notin raced' => \A q \in Processes : reader[q].step \notin {"l1", "l2"}
        /\ \A q \in Processes : q # p /\ q \notin raced' => q \notin raced
    BY <1>8 DEF SweepL1
  <2>4. sweep' \in [Processes -> {"none", "due", "redis"}] /\ sweptAt' \in [Processes -> Nat]
    BY <1>a, <1>8 DEF SweepL1
  <2> QED BY <1>a, <1>8, <2>1, <2>2, <2>3, <2>4 DEF SweepL1, Holds, Nothing
<1>9. ASSUME NEW p \in Processes, SweepL2(p) PROVE <1>b!1
  <2>1. \A q \in Processes : sweep'[q] = IF q = p THEN "none" ELSE sweep[q]
    BY <1>a, <1>9 DEF SweepL2
  <2>2. UNCHANGED <<version, l1, reader, sweptAt>> /\ sweep' \in [Processes -> {"none", "due", "redis"}]
    BY <1>a, <1>9 DEF SweepL2
  <2>3. CASE l2' = Nothing /\ UNCHANGED raced
    BY <1>a, <2>1, <2>2, <2>3 DEF Holds, Nothing
  <2>4. CASE UNCHANGED l2 /\ raced' = raced \cup {p}
    BY <1>a, <2>1, <2>2, <2>4
  <2> QED BY <1>9, <2>3, <2>4 DEF SweepL2
<1>10. CASE Tick
  <2>1. \A q \in Processes : Holds(l1'[q]) => Holds(l1[q]) /\ l1'[q].val = l1[q].val
    BY <1>0, <1>10, OlderKeepsValue DEF Tick, AgesBounded
  <2>2. Holds(l2') => Holds(l2) /\ l2'.val = l2.val
    BY <1>0, <1>10, OlderKeepsValue DEF Tick, AgesBounded
  <2> QED BY <1>a, <1>10, <2>1, <2>2 DEF Tick
<1>11. CASE UNCHANGED cacheVars
  BY <1>a, <1>11 DEF cacheVars
<1> QED
  BY <1>1, <1>2, <1>3, <1>4, <1>5, <1>6, <1>7, <1>8, <1>9, <1>10, <1>11 DEF CacheNext

\* After an invalidation that no read of an older answer overlapped, its process
\* is not served one, by itself or by Redis, whatever the other processes fill.
THEOREM SweepsAreEffective == CacheSpec => []SweptIsFresh
<1>1. CacheInit => Swept
  BY CacheInitInv DEF CacheInit, Swept, Holds, Nothing, Asleep
<1>2. Swept => SweptIsFresh
  BY DEF Swept, SweptIsFresh
<1> QED
  BY <1>1, <1>2, SweptStep, PTL DEF CacheSpec

-----------------------------------------------------------------------------
(* MonitoringSessions.  While nobody stops the session, it is the one that *)
(* every call since the last stop has answered or been refused for.        *)

Numbers ==
  /\ open \in Nat /\ started \in Nat /\ stops \in Nat
  /\ call \in [Calls -> {"read", "insert", "reread", "done", "error"}]
  /\ answer \in [Calls -> Nat] /\ began \in [Calls -> Nat]

SinceStop ==
  \A c \in Calls :
    /\ began[c] <= stops
    /\ call[c] = "error" => began[c] < stops
    /\ call[c] = "reread" /\ began[c] = stops => open # 0
    /\ call[c] = "done" /\ began[c] = stops => open # 0 /\ answer[c] = open

MonitoringInv == Numbers /\ SinceStop

LEMMA MonitoringStepInv == MonitoringInv /\ [MonitoringNext]_monitoringVars => MonitoringInv'
<1> SUFFICES ASSUME MonitoringInv, [MonitoringNext]_monitoringVars PROVE MonitoringInv'
  OBVIOUS
<1> USE DEF MonitoringInv, Numbers
<1>1. ASSUME NEW c \in Calls, GetActive(c) PROVE MonitoringInv'
  <2>1. CASE open # 0
    <3>1. /\ call' = [call EXCEPT ![c] = "done"] /\ answer' = [answer EXCEPT ![c] = open]
          /\ began' = [began EXCEPT ![c] = stops] /\ UNCHANGED <<open, started, stops>>
      BY <1>1, <2>1 DEF GetActive, Answer
    <3>2. Numbers'
      BY <3>1
    <3> QED BY <2>1, <3>1, <3>2 DEF SinceStop
  <2>2. CASE open = 0
    <3>1. /\ call' = [call EXCEPT ![c] = "insert"]
          /\ began' = [began EXCEPT ![c] = stops] /\ UNCHANGED <<answer, open, started, stops>>
      BY <1>1, <2>2 DEF GetActive, GoTo
    <3>2. Numbers'
      BY <3>1
    <3> QED BY <2>2, <3>1, <3>2 DEF SinceStop
  <2> QED BY <2>1, <2>2
<1>2. ASSUME NEW c \in Calls, StartSession(c) PROVE MonitoringInv'
  <2>1. CASE open # 0
    <3>1. /\ call' = [call EXCEPT ![c] = "reread"]
          /\ UNCHANGED <<answer, began, open, started, stops>>
      BY <1>2, <2>1 DEF StartSession, GoTo
    <3>2. Numbers'
      BY <3>1
    <3> QED BY <2>1, <3>1, <3>2 DEF SinceStop
  <2>2. CASE open = 0
    <3>1. /\ call' = [call EXCEPT ![c] = "done"] /\ answer' = [answer EXCEPT ![c] = started + 1]
          /\ open' = started + 1 /\ started' = started + 1 /\ UNCHANGED <<began, stops>>
      BY <1>2, <2>2 DEF StartSession, Answer
    <3>2. Numbers'
      BY <3>1
    <3>3. \A d \in Calls : call[d] = "done" => began[d] # stops
      BY <2>2 DEF SinceStop
    <3> QED BY <2>2, <3>1, <3>2, <3>3 DEF SinceStop
  <2> QED BY <2>1, <2>2
<1>3. ASSUME NEW c \in Calls, GetActiveAgain(c) PROVE MonitoringInv'
  <2>1. CASE open # 0
    <3>1. /\ call' = [call EXCEPT ![c] = "done"] /\ answer' = [answer EXCEPT ![c] = open]
          /\ UNCHANGED <<began, open, started, stops>>
      BY <1>3, <2>1 DEF GetActiveAgain, Answer
    <3>2. Numbers'
      BY <3>1
    <3> QED BY <2>1, <3>1, <3>2 DEF SinceStop
  <2>2. CASE open = 0
    <3>1. call[c] = "reread" /\ call' = [call EXCEPT ![c] = "error"]
          /\ UNCHANGED <<answer, began, open, started, stops>>
      BY <1>3, <2>2 DEF GetActiveAgain, GoTo
    <3>2. Numbers'
      BY <3>1
    <3> QED BY <2>2, <3>1, <3>2 DEF SinceStop
  <2> QED BY <2>1, <2>2
<1>4. CASE StopSession
  BY <1>4 DEF StopSession, SinceStop
<1>5. CASE UNCHANGED monitoringVars
  BY <1>5 DEF monitoringVars, SinceStop
<1> QED
  BY <1>1, <1>2, <1>3, <1>4, <1>5 DEF MonitoringNext

\* However many startMonitoring calls overlap, those since the last stop answer
\* one session, and none of them fails.
THEOREM StartsAreIdempotent == MonitoringSpec => []StartsAgree
<1>1. MonitoringInit => MonitoringInv
  BY DEF MonitoringInit, MonitoringInv, Numbers, SinceStop
<1>2. MonitoringInv => StartsAgree
  BY DEF MonitoringInv, Numbers, SinceStop, StartsAgree
<1> QED
  BY <1>1, <1>2, MonitoringStepInv, PTL DEF MonitoringSpec

-----------------------------------------------------------------------------
(* Employees.  Of an employee whose switches did not cross there is one    *)
(* switch or one ban under way, and the ban is that of the row.            *)

Switches ==
  /\ active \in [Staff -> BOOLEAN] /\ banned \in [Staff -> BOOLEAN]
  /\ switch \in [Admins -> {NoSwitch} \cup [of : Staff, to : BOOLEAN]]
  /\ bans \subseteq [of : Staff, to : BOOLEAN]

OneAtATime ==
  \A e \in Staff \ crossed :
    /\ \A b \in bans : b.of = e => b.to = ~active[e]
    /\ (\A b \in bans : b.of # e) => banned[e] = ~active[e]
    /\ \A a \in Admins : switch[a].of = e =>
         /\ \A b \in bans : b.of # e
         /\ \A d \in Admins \ {a} : switch[d].of # e

SwitchInv == Switches /\ OneAtATime

LEMMA SwitchStepInv == SwitchInv /\ [EmployeesNext]_employeesVars => SwitchInv'
<1> SUFFICES ASSUME SwitchInv, [EmployeesNext]_employeesVars PROVE SwitchInv'
  OBVIOUS
<1> USE DEF SwitchInv, Switches, OneAtATime
<1>0. NoSwitch.of \notin Staff
  BY DEF NoSwitch, Staff
<1>1. ASSUME NEW a \in Admins, NEW e \in Staff, NEW to \in BOOLEAN, FindEmployee(a, e, to)
      PROVE SwitchInv'
  <2>1. Switches'
    BY <1>1 DEF FindEmployee
  <2>2. /\ switch' = [switch EXCEPT ![a] = [of |-> e, to |-> to]]
        /\ crossed' = IF Busy(e) THEN crossed \cup {e} ELSE crossed
        /\ UNCHANGED <<active, banned, bans>>
    BY <1>1 DEF FindEmployee
  <2>3. \A d \in Admins : switch'[d].of = IF d = a THEN e ELSE switch[d].of
    BY <2>2
  <2> QED BY <2>1, <2>2, <2>3 DEF Busy
<1>2. ASSUME NEW a \in Admins, SetActiveStatus(a) PROVE SwitchInv'
  <2> DEFINE e == switch[a].of
             on == switch[a].to
  <2>1. e \in Staff /\ on \in BOOLEAN
    BY <1>2 DEF SetActiveStatus
  <2>2. /\ active' = [active EXCEPT ![e] = on]
        /\ bans' = bans \cup {[of |-> e, to |-> ~on]}
        /\ switch' = [switch EXCEPT ![a] = NoSwitch]
        /\ UNCHANGED <<banned, crossed>>
    BY <1>2 DEF SetActiveStatus
  <2>3. Switches'
    <3>1. active' \in [Staff -> BOOLEAN]
      BY <2>1, <2>2
    <3>2. [of |-> e, to |-> ~on] \in [of : Staff, to : BOOLEAN]
      BY <2>1
    <3>3. bans' \subseteq [of : Staff, to : BOOLEAN]
      BY <2>2, <3>2
    <3> QED BY <2>2, <3>1, <3>3
  <2>4. \A d \in Admins : switch'[d].of = IF d = a THEN NoSwitch.of ELSE switch[d].of
    BY <2>2
  <2>5. switch[a].of = e
    OBVIOUS
  <2>6. [of |-> e, to |-> ~on].of = e /\ [of |-> e, to |-> ~on].to = ~on
    OBVIOUS
  <2> DEFINE ban == [of |-> e, to |-> ~on]
  <2> HIDE DEF e, on, ban
  <2>7. /\ active' = [active EXCEPT ![e] = on] /\ bans' = bans \cup {ban}
        /\ ban.of = e /\ ban.to = ~on
    BY <2>2, <2>6 DEF ban
  <2>8. ASSUME NEW f \in Staff \ crossed
        PROVE /\ \A b \in bans' : b.of = f => b.to = ~active'[f]
              /\ (\A b \in bans' : b.of # f) => banned'[f] = ~active'[f]
              /\ \A d \in Admins : switch'[d].of = f =>
                   /\ \A b \in bans' : b.of # f
                   /\ \A c \in Admins \ {d} : switch'[c].of # f
    <3>1. CASE f = e
      <4>1. /\ \A b \in bans : b.of # e
            /\ \A d \in Admins \ {a} : switch[d].of # e
        BY <2>5, <2>8, <3>1
      <4>2. active'[e] = on
        BY <2>1, <2>7
      <4> QED BY <1>0, <2>1, <2>4, <2>7, <3>1, <4>1, <4>2
    <3>2. CASE f # e
      BY <1>0, <2>1, <2>2, <2>4, <2>5, <2>7, <2>8, <3>2
    <3> QED BY <3>1, <3>2
  <2> QED BY <2>2, <2>3, <2>8
<1>3. ASSUME NEW a \in Admins, SetActiveStatusFails(a) PROVE SwitchInv'
  <2>1. Switches'
    BY <1>3 DEF SetActiveStatusFails
  <2>2. \A d \in Admins : switch'[d].of = IF d = a THEN NoSwitch.of ELSE switch[d].of
    BY <1>3 DEF SetActiveStatusFails
  <2> QED BY <1>0, <1>3, <2>1, <2>2 DEF SetActiveStatusFails
<1>4. ASSUME NEW b \in bans, UpdateUserById(b) PROVE SwitchInv'
  <2>1. CASE banned' = [banned EXCEPT ![b.of] = b.to] /\ UNCHANGED crossed
    BY <1>4, <2>1 DEF UpdateUserById
  <2>2. CASE crossed' = crossed \cup {b.of} /\ UNCHANGED banned
    BY <1>4, <2>2 DEF UpdateUserById
  <2> QED BY <1>4, <2>1, <2>2 DEF UpdateUserById
<1>5. ASSUME NEW e \in Staff, SnapshotChanges(e) PROVE SwitchInv'
  BY <1>5 DEF SnapshotChanges
<1>6. CASE HoursPass
  BY <1>6 DEF HoursPass
<1>7. CASE UNCHANGED employeesVars
  BY <1>7 DEF employeesVars
<1> QED
  BY <1>1, <1>2, <1>3, <1>4, <1>5, <1>6, <1>7 DEF EmployeesNext

\* Once the calls of an uncrossed switch have landed, an employee is banned if
\* and only if switched off.
THEOREM BansFollowSwitches == EmployeesSpec => []BanFollows
<1>1. EmployeesInit => SwitchInv
  <2> SUFFICES ASSUME EmployeesInit PROVE SwitchInv
    OBVIOUS
  <2>1. Switches
    BY DEF EmployeesInit, Switches
  <2>2. \A a \in Admins : switch[a].of \notin Staff
    BY EmployeesConstants DEF EmployeesInit, NoSwitch, Staff
  <2>3. OneAtATime
    BY <2>2 DEF EmployeesInit, OneAtATime
  <2> QED BY <2>1, <2>3 DEF SwitchInv
<1>2. SwitchInv => BanFollows
  BY DEF SwitchInv, OneAtATime, BanFollows, Busy
<1> QED
  BY <1>1, <1>2, SwitchStepInv, PTL DEF EmployeesSpec

\* Dividing, as the number of pages is computed.
LEMMA Quotient ==
  ASSUME NEW x \in Nat, NEW m \in Nat \ {0}
  PROVE  (x \div m) \in Nat /\ (x \div m) * m <= x /\ x < (x \div m + 1) * m
OBVIOUS

\* The page of an offset is among those that a size asks for.
LEMMA PageExists ==
  ASSUME NEW size \in Nat, NEW before \in Nat, before < size, NEW limit \in Nat \ {0}
  PROVE  \E p \in 1..((size + limit - 1) \div limit) :
           before >= (p - 1) * limit /\ before < p * limit
<1> DEFINE q == before \div limit
           pages == (size + limit - 1) \div limit
<1>1. q \in Nat /\ q * limit <= before /\ before < (q + 1) * limit
  BY Quotient
<1>2. size + limit - 1 \in Nat
  OBVIOUS
<1>3. pages \in Nat /\ size + limit - 1 < (pages + 1) * limit
  BY <1>2, Quotient
<1> HIDE DEF q, pages
<1>4. q < pages
  <2>1. (pages + 1) * limit = pages * limit + limit /\ pages * limit \in Nat /\ q * limit \in Nat
    BY <1>1, <1>3
  <2>2. q * limit < pages * limit
    BY <1>1, <1>3, <2>1
  <2>3. ASSUME pages <= q PROVE pages * limit <= q * limit
    BY <1>1, <1>3, <2>3
  <2> QED BY <1>1, <1>3, <2>1, <2>2, <2>3
<1>5. q + 1 \in 1..pages /\ (q + 1) - 1 = q
  BY <1>1, <1>3, <1>4
<1> QED BY <1>1, <1>5 DEF pages

\* The pages of a list, as many as its total asks for, show all of it if they are
\* cut from one order.
LEMMA PagesCover ==
  ASSUME NEW S \in SUBSET Staff, NEW ranks \in Orders, NEW limit \in Nat \ {0}
  PROVE  \A e : e \in S <=>
           \E p \in 1..((Cardinality(S) + limit - 1) \div limit) : e \in Page(S, ranks, p, limit)
<1>1. IsFiniteSet(Staff)
  BY EmployeesConstants, FS_Interval DEF Staff
<1>2. IsFiniteSet(S) /\ Cardinality(S) \in Nat
  BY <1>1, FS_Subset, FS_CardinalityType
<1>3. ASSUME NEW e \in S
      PROVE  \E p \in 1..((Cardinality(S) + limit - 1) \div limit) : e \in Page(S, ranks, p, limit)
  <2> DEFINE T == {d \in S : ranks[d] < ranks[e]}
  <2>1. T \in SUBSET S /\ T # S
    <3>1. ranks[e] \in Int
      BY DEF Orders, Staff
    <3> QED BY <3>1
  <2>2. IsFiniteSet(T) /\ Cardinality(T) \in Nat /\ Cardinality(T) < Cardinality(S)
    <3>1. IsFiniteSet(T) /\ Cardinality(T) <= Cardinality(S) /\ Cardinality(T) # Cardinality(S)
      BY <1>2, <2>1, FS_Subset
    <3>2. Cardinality(T) \in Nat
      BY <3>1, FS_CardinalityType
    <3> QED BY <1>2, <3>1, <3>2
  <2>3. PICK p \in 1..((Cardinality(S) + limit - 1) \div limit) :
          Cardinality(T) >= (p - 1) * limit /\ Cardinality(T) < p * limit
    BY <1>2, <2>2, PageExists
  <2>4. e \in Page(S, ranks, p, limit)
    BY <2>3 DEF Page
  <2> QED BY <2>4
<1>4. \A e, p : e \in Page(S, ranks, p, limit) => e \in S
  BY DEF Page
<1> QED BY <1>3, <1>4

\* So that a walk through them shows what passes the filter, and nothing else.
LEMMA WalksShow ==
  ASSUME NEW filter, NEW limit \in Nat \ {0}, NEW ranks \in Orders
  PROVE  /\ Walk(LAMBDA p : ListBySegment("active", filter, ranks, p, limit), limit)
              = {e \in Staff : IsActive(e) /\ Wanted(e, filter)}
         /\ Walk(LAMBDA p : ListBySegment("recent", filter, ranks, p, limit), limit)
              = {e \in Staff : IsRecent(e) /\ Wanted(e, filter)}
         /\ Walk(LAMBDA p : ListBySegment("inactive", filter, ranks, p, limit), limit) = Inactive(filter)
         /\ Walk(LAMBDA p : ListWithLastState(filter, p, limit), limit)
              = {e \in Staff : Wanted(e, filter)}
<1> DEFINE Pages(S) == 1..((Cardinality(S) + limit - 1) \div limit)
           here == {e \in Staff : IsActive(e)}
           recent == {e \in Staff : IsRecent(e)}
           all == {e \in Staff : Wanted(e, filter)}
           rest == Inactive(filter)
<1>1. /\ \A e : e \in here <=> \E p \in Pages(here) : e \in Page(here, ranks, p, limit)
      /\ \A e : e \in recent <=> \E p \in Pages(recent) : e \in Page(recent, ranks, p, limit)
      /\ \A e : e \in all <=> \E p \in Pages(all) : e \in Page(all, ByCode, p, limit)
      /\ \A e : e \in rest <=> \E p \in Pages(rest) : e \in Page(rest, ByCode, p, limit)
  <2>1. rest \subseteq Staff /\ ByCode \in Orders
    BY DEF Inactive, ByCode, Orders
  <2> QED BY <2>1, PagesCover
<1>2. Walk(LAMBDA p : ListBySegment("active", filter, ranks, p, limit), limit)
        = UNION {{e \in Page(here, ranks, p, limit) : Wanted(e, filter)} : p \in Pages(here)}
  BY DEF Walk, ListBySegment, SnapshotPage
<1>3. Walk(LAMBDA p : ListBySegment("recent", filter, ranks, p, limit), limit)
        = UNION {{e \in Page(recent, ranks, p, limit) : Wanted(e, filter)} : p \in Pages(recent)}
  BY DEF Walk, ListBySegment, SnapshotPage
<1>4. Walk(LAMBDA p : ListBySegment("inactive", filter, ranks, p, limit), limit)
        = UNION {Page(rest, ByCode, p, limit) : p \in Pages(rest)}
  BY DEF Walk, ListBySegment, InactivePage
<1>5. Walk(LAMBDA p : ListWithLastState(filter, p, limit), limit)
        = UNION {Page(all, ByCode, p, limit) : p \in Pages(all)}
  BY DEF Walk, ListWithLastState, ListEmployees
<1> HIDE DEF Pages, rest
<1>6. /\ UNION {{e \in Page(here, ranks, p, limit) : Wanted(e, filter)} : p \in Pages(here)}
           = {e \in here : Wanted(e, filter)}
      /\ UNION {{e \in Page(recent, ranks, p, limit) : Wanted(e, filter)} : p \in Pages(recent)}
           = {e \in recent : Wanted(e, filter)}
  <2> HIDE DEF here, recent
  <2> QED BY <1>1
<1>7. UNION {Page(rest, ByCode, p, limit) : p \in Pages(rest)} = rest
      /\ UNION {Page(all, ByCode, p, limit) : p \in Pages(all)} = all
  <2> HIDE DEF all
  <2> QED BY <1>1
<1> QED BY <1>2, <1>3, <1>4, <1>5, <1>6, <1>7 DEF rest

LEMMA AgesStay == ASSUME NEW age \in Ages PROVE Aged(age) \in Ages
BY EmployeesConstants DEF Ages, Aged, Never

\* What is written to a row of employee_last_state is a row.
RowsTyped == row \in [Staff -> {NoRow} \cup StateRows]

LEMMA RowsStay == RowsTyped /\ [EmployeesNext]_employeesVars => RowsTyped'
<1> SUFFICES ASSUME row \in [Staff -> {NoRow} \cup StateRows], [EmployeesNext]_employeesVars
             PROVE  row' \in [Staff -> {NoRow} \cup StateRows]
  BY DEF RowsTyped
<1>1. ASSUME NEW e \in Staff, SnapshotChanges(e)
      PROVE  row' \in [Staff -> {NoRow} \cup StateRows]
  <2>1. Never \in Ages /\ 0 \in Ages
    BY EmployeesConstants DEF Never, Ages
  <2>2. row[e] # NoRow => row[e].out \in Ages
    BY DEF StateRows
  <2>3. PICK new \in StateRows : row' = [row EXCEPT ![e] = new]
    BY <1>1, <2>1, <2>2 DEF SnapshotChanges, StateRows
  <2> QED BY <2>3
<1>2. CASE HoursPass
  <2>1. \A e \in Staff : row[e] # NoRow => [row[e] EXCEPT !.out = Aged(@)] \in StateRows
    BY AgesStay DEF StateRows
  <2> QED BY <1>2, <2>1 DEF HoursPass
<1>3. CASE UNCHANGED row
  BY <1>3
<1> QED
  BY <1>1, <1>2, <1>3 DEF EmployeesNext, FindEmployee, SetActiveStatus, SetActiveStatusFails,
                          UpdateUserById, employeesVars

\* Whatever the size of a page, the filter and the order the rows come in, if it is
\* the same for every page, the segments share out the whole list, though each is
\* another query with a total of its own.
THEOREM SegmentsShareOut == EmployeesSpec => []SegmentsPartition
<1>1. EmployeesInit => RowsTyped
  BY DEF EmployeesInit, RowsTyped
<1>2. RowsTyped => SegmentsPartition
  <2> SUFFICES ASSUME row \in [Staff -> {NoRow} \cup StateRows],
                      NEW filter \in {"any", "true", "false"}, NEW limit \in PageSizes,
                      NEW ranks \in Orders
               PROVE  LET Segment(segment) == Walk(LAMBDA p : ListBySegment(segment, filter, ranks, p, limit), limit)
                          a == Segment("active")
                          r == Segment("recent")
                          i == Segment("inactive")
                      IN  /\ a \cup r \cup i = Walk(LAMBDA p : ListWithLastState(filter, p, limit), limit)
                          /\ a \cap r = {} /\ i \cap (a \cup r) = {}
                          /\ \A e \in a : Label(e) = "ACTIVE"
                          /\ \A e \in r : Label(e) = "RECENT" \/ row[e].out = Recent
                          /\ \A e \in i : Label(e) = "INACTIVE"
    BY DEF SegmentsPartition, RowsTyped
  <2> SUFFICES LET a == {e \in Staff : IsActive(e) /\ Wanted(e, filter)}
                   r == {e \in Staff : IsRecent(e) /\ Wanted(e, filter)}
                   i == Inactive(filter)
               IN  /\ a \cup r \cup i = {e \in Staff : Wanted(e, filter)}
                   /\ a \cap r = {} /\ i \cap (a \cup r) = {}
                   /\ \A e \in a : Label(e) = "ACTIVE"
                   /\ \A e \in r : Label(e) = "RECENT" \/ row[e].out = Recent
                   /\ \A e \in i : Label(e) = "INACTIVE"
    <3>1. limit \in Nat \ {0}
      BY EmployeesConstants
    <3> DEFINE W(segment) == Walk(LAMBDA p : ListBySegment(segment, filter, ranks, p, limit), limit)
    <3>2. /\ W("active") = {e \in Staff : IsActive(e) /\ Wanted(e, filter)}
          /\ W("recent") = {e \in Staff : IsRecent(e) /\ Wanted(e, filter)}
          /\ W("inactive") = Inactive(filter)
          /\ Walk(LAMBDA p : ListWithLastState(filter, p, limit), limit)
               = {e \in Staff : Wanted(e, filter)}
      BY <3>1, WalksShow
    <3> QED BY <3>2
  <2>1. \A e \in Staff : row[e] # NoRow => row[e].in \in BOOLEAN /\ row[e].out \in Int
    BY EmployeesConstants DEF StateRows, Ages, Never
  <2>2. Recent \in Nat
    BY EmployeesConstants
  <2>3. ASSUME NEW e \in Staff
        PROVE  /\ IsActive(e) => Label(e) = "ACTIVE" /\ ~IsRecent(e)
               /\ IsRecent(e) => Label(e) = "RECENT" \/ row[e].out = Recent
               /\ ~(row[e] # NoRow /\ (row[e].in \/ CheckedOutRecently(e))) =>
                    Label(e) = "INACTIVE"
    BY <2>1, <2>2 DEF IsActive, IsRecent, CheckedOutRecently, Label
  <2>4. \A e \in Staff : ~(row[e] # NoRow /\ (row[e].in \/ CheckedOutRecently(e)))
                           <=> ~IsActive(e) /\ ~IsRecent(e)
    BY DEF IsActive, IsRecent
  <2> QED BY <2>3, <2>4 DEF Inactive
<1> QED
  BY <1>1, <1>2, RowsStay, PTL DEF EmployeesSpec

-----------------------------------------------------------------------------
(* Admission.  What a tier let through within a window of the latest stamp *)
(* is still in its sorted set, so that the count of the next request       *)
(* covers every window that ends with it.                                  *)

Members == Requests \X {"evalsha", "eval"}

CallShape(c) == c.tier \in Tiers /\ c.at \in 0..now /\ c.member \in Members

AdmissionShape ==
  /\ now \in Nat
  /\ latest \in [Tiers -> Nat] /\ \A tier \in Tiers : latest[tier] <= now
  /\ held \in [Tiers -> SUBSET [at : Nat, member : Members]]
  /\ passed \in [Tiers -> SUBSET [at : Nat, by : Requests]]
  /\ \A tier \in Tiers : IsFiniteSet(held[tier]) /\ IsFiniteSet(passed[tier])
  /\ request = [r \in Requests |-> request[r]]
  /\ \A r \in Requests : Calling(r) => CallShape(request[r]) /\ request[r].member[1] = r

\* Of what was let through, all that may still matter is in the sorted set.
StillHeld(tier) ==
  \A p \in passed[tier] :
    /\ p.at <= latest[tier]
    /\ p.at > latest[tier] - Window => \E e \in held[tier] : e.at = p.at /\ e.member[1] = p.by

InWindow(tier, t) == {p \in passed[tier] : p.at \in (t - Window + 1)..t}

Respected(tier) == \A t \in Nat : Cardinality(InWindow(tier, t)) <= LimitOf(tier)

AdmissionInv ==
  /\ AdmissionShape
  /\ \A tier \in Tiers \ reordered : StillHeld(tier) /\ Respected(tier)

LEMMA CountedBy ==
  ASSUME NEW S, NEW T, IsFiniteSet(S), IsFiniteSet(T),
         \A p \in S : \E e \in T : e.at = p.at /\ e.member[1] = p.by,
         \A p, q \in S : p.at = q.at /\ p.by = q.by => p = q
  PROVE  Cardinality(S) <= Cardinality(T)
<1> DEFINE f == [p \in S |-> CHOOSE e \in T : e.at = p.at /\ e.member[1] = p.by]
<1>1. \A p \in S : f[p] \in T /\ f[p].at = p.at /\ f[p].member[1] = p.by
  OBVIOUS
<1>2. f \in [S -> T]
  BY <1>1
<1> HIDE DEF f
<1>3. ASSUME Cardinality(T) < Cardinality(S) PROVE FALSE
  <2>1. PICK p \in S, q \in S : p # q /\ f[p] = f[q]
    BY <1>2, <1>3, FS_PigeonHole
  <2> QED BY <1>1, <2>1
<1> QED
  BY <1>3, FS_CardinalityType

LEMMA LimitsArePositive == \A tier \in Tiers : LimitOf(tier) \in Nat \ {0}
BY AdmissionConstants DEF LimitOf

\* The script: it may only evict what no longer matters.
LEMMA Recorded ==
  ASSUME AdmissionInv, NEW tier \in Tiers, NEW at \in 0..now, NEW member \in Members,
         Record(tier, at, member)
  PROVE  /\ latest' \in [Tiers -> Nat] /\ \A u \in Tiers : latest'[u] <= now
         /\ held' \in [Tiers -> SUBSET [at : Nat, member : Members]]
         /\ \A u \in Tiers : IsFiniteSet(held'[u])
         /\ reordered \subseteq reordered'
         /\ \A u \in Tiers \ reordered' : \A p \in passed[u] :
              /\ p.at <= latest'[u]
              /\ p.at > latest'[u] - Window => \E e \in held'[u] : e.at = p.at /\ e.member[1] = p.by
         /\ tier \notin reordered' => latest'[tier] = at
         /\ [at |-> at, member |-> member] \in held'[tier]
<1> DEFINE entry == [at |-> at, member |-> member]
<1>1. at \in Nat /\ at <= now
  BY DEF AdmissionInv, AdmissionShape
<1>2. entry \in [at : Nat, member : Members]
  BY <1>1
<1> HIDE DEF entry
<1>3. /\ held' = [held EXCEPT ![tier] = Kept(tier, at) \cup {entry}]
      /\ latest' = [latest EXCEPT ![tier] = IF at > @ THEN at ELSE @]
      /\ reordered' = IF at < latest[tier] THEN reordered \cup {tier} ELSE reordered
  BY DEF Record, entry
<1>4. Kept(tier, at) \subseteq held[tier]
  BY DEF Kept
<1>5. latest' \in [Tiers -> Nat] /\ \A u \in Tiers : latest'[u] <= now
  BY <1>1, <1>3 DEF AdmissionInv, AdmissionShape
<1>6. held' \in [Tiers -> SUBSET [at : Nat, member : Members]]
  BY <1>2, <1>3, <1>4 DEF AdmissionInv, AdmissionShape
<1>7. ASSUME NEW u \in Tiers PROVE IsFiniteSet(held'[u])
  <2>1. IsFiniteSet(held[u]) /\ IsFiniteSet(held[tier])
    BY DEF AdmissionInv, AdmissionShape
  <2>2. IsFiniteSet(Kept(tier, at) \cup {entry})
    BY <1>4, <2>1, FS_Subset, FS_AddElement
  <2> QED BY <1>3, <2>1, <2>2 DEF AdmissionInv, AdmissionShape
<1>8. tier \notin reordered' => latest'[tier] = at
  BY <1>1, <1>3 DEF AdmissionInv, AdmissionShape
<1>9. ASSUME NEW u \in Tiers \ reordered', NEW p \in passed[u]
      PROVE  /\ p.at <= latest'[u]
             /\ p.at > latest'[u] - Window => \E e \in held'[u] : e.at = p.at /\ e.member[1] = p.by
  <2>1. /\ p.at \in Nat /\ latest[u] \in Nat /\ p.at <= latest[u] /\ Window \in Nat
        /\ p.at > latest[u] - Window => \E e \in held[u] : e.at = p.at /\ e.member[1] = p.by
    BY <1>3, <1>9, AdmissionConstants DEF AdmissionInv, AdmissionShape, StillHeld
  <2>2. CASE u # tier
    <3>1. latest'[u] = latest[u] /\ held'[u] = held[u]
      BY <1>3, <2>2 DEF AdmissionInv, AdmissionShape
    <3> QED BY <2>1, <3>1
  <2>3. CASE u = tier
    <3>1. latest'[u] = at /\ at >= latest[u]
      BY <1>1, <1>3, <1>8, <1>9, <2>3 DEF AdmissionInv, AdmissionShape
    <3>2. ASSUME p.at > at - Window PROVE \E e \in held'[u] : e.at = p.at /\ e.member[1] = p.by
      <4>1. PICK e \in held[u] : e.at = p.at /\ e.member[1] = p.by
        BY <1>1, <2>1, <3>1, <3>2
      <4>2. e \in Kept(tier, at)
        BY <2>3, <3>2, <4>1 DEF Kept
      <4>3. held'[u] = Kept(tier, at) \cup {entry}
        BY <1>3, <2>3 DEF AdmissionInv, AdmissionShape
      <4> QED BY <4>1, <4>2, <4>3
    <3> QED BY <1>1, <2>1, <3>1, <3>2
  <2> QED BY <2>2, <2>3
<1>10. entry \in held'[tier]
  BY <1>3 DEF AdmissionInv, AdmissionShape
<1> QED
  BY <1>3, <1>5, <1>6, <1>7, <1>8, <1>9, <1>10 DEF entry

\* What is about the hooks alone.
HooksShape ==
  /\ request = [r \in Requests |-> request[r]]
  /\ \A r \in Requests : Calling(r) => CallShape(request[r]) /\ request[r].member[1] = r

\* A hook moves on, behind a call that may have run or not, and lets nothing
\* through on a count.
LEMMA NothingPassed ==
  ASSUME AdmissionInv, HooksShape', UNCHANGED <<now, passed>>,
         \/ UNCHANGED <<held, latest, reordered>>
         \/ \E tier \in Tiers : \E at \in 0..now : \E member \in Members : Record(tier, at, member)
  PROVE  AdmissionInv'
<1>1. CASE UNCHANGED <<held, latest, reordered>>
  BY <1>1 DEF AdmissionInv, AdmissionShape, HooksShape, StillHeld, Respected, InWindow
<1>2. ASSUME NEW tier \in Tiers, NEW at \in 0..now, NEW member \in Members, Record(tier, at, member)
      PROVE  AdmissionInv'
  <2>1. AdmissionShape'
    BY <1>2, Recorded DEF AdmissionInv, AdmissionShape, HooksShape
  <2>2. ASSUME NEW u \in Tiers \ reordered' PROVE StillHeld(u)' /\ Respected(u)'
    <3>1. StillHeld(u)'
      BY <1>2, <2>2, Recorded DEF StillHeld
    <3>2. u \in Tiers \ reordered
      BY <1>2, <2>2, Recorded
    <3> QED BY <3>1, <3>2 DEF AdmissionInv, Respected, InWindow
  <2> QED BY <2>1, <2>2 DEF AdmissionInv
<1> QED
  BY <1>1, <1>2

\* A request passes on the count of what is held with it.
LEMMA OnePassed ==
  ASSUME AdmissionInv, HooksShape', UNCHANGED now,
         NEW r \in Requests, NEW tier \in Tiers, NEW at \in 0..now, NEW member \in Members,
         member[1] = r, Record(tier, at, member), Cardinality(held'[tier]) <= LimitOf(tier),
         passed' = [passed EXCEPT ![tier] = @ \cup {[at |-> at, by |-> r]}]
  PROVE  AdmissionInv'
<1> DEFINE new == [at |-> at, by |-> r]
<1>1. at \in Nat /\ new \in [at : Nat, by : Requests] /\ new.at = at /\ new.by = r
  BY DEF AdmissionInv, AdmissionShape
<1> HIDE DEF new
<1>2. \A u \in Tiers : passed'[u] = IF u = tier THEN passed[u] \cup {new} ELSE passed[u]
  BY DEF AdmissionInv, AdmissionShape, new
<1>3. passed' \in [Tiers -> SUBSET [at : Nat, by : Requests]]
  BY <1>1 DEF AdmissionInv, AdmissionShape, new
<1>4. ASSUME NEW u \in Tiers PROVE IsFiniteSet(passed'[u])
  BY <1>2, FS_AddElement DEF AdmissionInv, AdmissionShape
<1>5. AdmissionShape'
  BY <1>3, <1>4, Recorded DEF AdmissionInv, AdmissionShape, HooksShape
<1>8. ASSUME NEW u \in Tiers \ reordered', NEW p \in passed[u]
      PROVE  /\ p.at <= latest'[u]
             /\ p.at > latest'[u] - Window => \E e \in held'[u] : e.at = p.at /\ e.member[1] = p.by
  BY <1>8, Recorded
<1>9. /\ tier \notin reordered' => latest'[tier] = at
      /\ [at |-> at, member |-> member] \in held'[tier]
  BY Recorded
<1>6. ASSUME NEW u \in Tiers \ reordered' PROVE StillHeld(u)'
  <2>1. CASE u # tier
    <3>1. passed'[u] = passed[u]
      BY <1>2, <2>1
    <3> QED BY <1>6, <1>8, <3>1 DEF StillHeld
  <2>2. CASE u = tier
    <3> DEFINE entry == [at |-> at, member |-> member]
    <3>1. entry \in held'[u] /\ entry.at = new.at /\ entry.member[1] = new.by
      BY <1>1, <1>9, <2>2
    <3>2. new.at <= latest'[u]
      <4>1. latest'[u] = at
        BY <1>6, <1>9, <2>2
      <4> QED BY <1>1, <4>1
    <3> HIDE DEF entry
    <3>3. passed'[u] = passed[u] \cup {new}
      BY <1>2, <2>2
    <3>4. \A p \in passed'[u] : p \in passed[u] \/ p = new
      BY <3>3
    <3> QED BY <1>6, <1>8, <3>1, <3>2, <3>4 DEF StillHeld
  <2> QED BY <2>1, <2>2
<1>7. ASSUME NEW u \in Tiers \ reordered', NEW t \in Nat
      PROVE  Cardinality(InWindow(u, t)') <= LimitOf(u)
  <2>1. Respected(u)
    BY <1>7, Recorded DEF AdmissionInv
  <2>2. CASE u # tier \/ new.at \notin (t - Window + 1)..t
    <3>1. InWindow(u, t)' = InWindow(u, t)
      <4>1. CASE u # tier
        <5>1. passed'[u] = passed[u]
          BY <1>2, <4>1
        <5> QED BY <5>1 DEF InWindow
      <4>2. CASE u = tier /\ new.at \notin (t - Window + 1)..t
        <5>1. passed'[u] = passed[u] \cup {new}
          BY <1>2, <4>2
        <5>2. \A p \in passed'[u] : p.at \in (t - Window + 1)..t => p \in passed[u]
          BY <4>2, <5>1
        <5> QED BY <5>1, <5>2 DEF InWindow
      <4> QED BY <2>2, <4>1, <4>2
    <3> QED BY <2>1, <3>1 DEF Respected
  <2>3. CASE u = tier /\ new.at \in (t - Window + 1)..t
    <3> DEFINE S == InWindow(u, t)'
    <3>1. S \subseteq passed'[u] /\ IsFiniteSet(S)
      BY <1>4, FS_Subset DEF InWindow
    <3>2. IsFiniteSet(held'[u])
      BY Recorded
    <3>3. ASSUME NEW p \in S PROVE \E e \in held'[u] : e.at = p.at /\ e.member[1] = p.by
      <4>1. p \in passed'[u] /\ p.at \in (t - Window + 1)..t
        BY DEF InWindow
      <4>2. p.at \in Nat /\ Window \in Nat /\ latest'[u] = at
        BY <1>3, <1>7, <2>3, <4>1, Recorded, AdmissionConstants
      <4>3. p.at > latest'[u] - Window
        BY <1>1, <2>3, <4>1, <4>2
      <4> QED BY <1>6, <1>7, <4>1, <4>3 DEF StillHeld
    <3>4. \A p, q \in S : p.at = q.at /\ p.by = q.by => p = q
      BY <1>3, <3>1
    <3> HIDE DEF S
    <3>5. Cardinality(S) <= Cardinality(held'[u])
      BY <3>1, <3>2, <3>3, <3>4, CountedBy
    <3>6. Cardinality(S) \in Nat /\ Cardinality(held'[u]) \in Nat /\ LimitOf(u) \in Nat
      BY <3>1, <3>2, FS_CardinalityType, LimitsArePositive
    <3> QED BY <2>3, <3>5, <3>6 DEF S
  <2> QED BY <2>2, <2>3
<1> QED
  BY <1>5, <1>6, <1>7 DEF AdmissionInv, Respected

LEMMA HooksMove ==
  ASSUME AdmissionInv, NEW r \in Requests, NEW to, request' = [request EXCEPT ![r] = to],
         UNCHANGED now,
         to.step \in {"evalsha", "eval"} => CallShape(to) /\ to.member[1] = r
  PROVE  HooksShape'
BY DEF AdmissionInv, AdmissionShape, HooksShape, Calling, CallShape

LEMMA Judged ==
  ASSUME AdmissionInv, NEW r \in Requests, NEW tier \in Tiers, NEW at \in 0..now,
         NEW member \in Members, member[1] = r,
         Record(tier, at, member), Judge(r, tier, at), UNCHANGED now
  PROVE  AdmissionInv'
<1>1. At("429").step \notin {"evalsha", "eval"} /\ At("org").step \notin {"evalsha", "eval"}
      /\ At("admitted").step \notin {"evalsha", "eval"}
  BY DEF At
<1>2. HooksShape'
  BY <1>1, HooksMove DEF Judge
<1>3. CASE Count(tier) > LimitOf(tier)
  BY <1>2, <1>3, NothingPassed DEF Judge
<1>4. CASE ~(Count(tier) > LimitOf(tier))
  <2>1. Cardinality(held'[tier]) \in Nat /\ LimitOf(tier) \in Nat
    BY Recorded, FS_CardinalityType, LimitsArePositive
  <2>2. Cardinality(held'[tier]) <= LimitOf(tier)
    BY <1>4, <2>1 DEF Count
  <2> QED BY <1>2, <1>4, <2>2, OnePassed DEF Judge
<1> QED
  BY <1>3, <1>4

LEMMA AdmissionStepInv == AdmissionInv /\ [AdmissionNext]_admissionVars => AdmissionInv'
<1> SUFFICES ASSUME AdmissionInv, [AdmissionNext]_admissionVars PROVE AdmissionInv'
  OBVIOUS
<1>1. ASSUME NEW r \in Requests, NEW tier \in Tiers, Stamp(r, tier) PROVE AdmissionInv'
  <2> DEFINE to == [step |-> "evalsha", tier |-> tier, at |-> now, member |-> <<r, "evalsha">>]
  <2>1. CallShape(to) /\ to.member[1] = r
    BY DEF CallShape, Members, AdmissionInv, AdmissionShape
  <2>2. request' = [request EXCEPT ![r] = to] /\ UNCHANGED <<now, held, passed, latest, reordered>>
    BY <1>1 DEF Stamp
  <2> HIDE DEF to
  <2> QED BY <2>1, <2>2, HooksMove, NothingPassed
<1>2. ASSUME NEW r \in Requests, SkipOrg(r) PROVE AdmissionInv'
  <2>1. At("admitted").step \notin {"evalsha", "eval"}
    BY DEF At
  <2> QED BY <1>2, <2>1, HooksMove, NothingPassed DEF SkipOrg
<1>3. ASSUME NEW r \in Requests, RunScript(r) PROVE AdmissionInv'
  <2>1. CallShape(request[r]) /\ request[r].member[1] = r
    BY <1>3 DEF RunScript, AdmissionInv, AdmissionShape
  <2> QED BY <1>3, <2>1, Judged DEF RunScript, CallShape
<1>4. ASSUME NEW r \in Requests, Retry(r) PROVE AdmissionInv'
  <2>1. CallShape(request[r]) /\ request[r].member[1] = r
    BY <1>4 DEF Retry, AdmissionInv, AdmissionShape
  <2>2. HooksShape'
    <3>1. request' = [request EXCEPT ![r] = [request[r] EXCEPT !.step = "eval"]] /\ UNCHANGED now
      BY <1>4 DEF Retry
    <3>2. /\ [request[r] EXCEPT !.step = "eval"].tier = request[r].tier
          /\ [request[r] EXCEPT !.step = "eval"].at = request[r].at
          /\ [request[r] EXCEPT !.step = "eval"].member = request[r].member
      OBVIOUS
    <3> QED BY <2>1, <3>1, <3>2, HooksMove DEF CallShape
  <2> QED BY <1>4, <2>1, <2>2, NothingPassed DEF Retry, PerhapsRecord, CallShape
<1>5. ASSUME NEW r \in Requests, LetThrough(r) PROVE AdmissionInv'
  <2>1. CallShape(request[r])
    BY <1>5 DEF LetThrough, AdmissionInv, AdmissionShape
  <2>2. At("admitted").step \notin {"evalsha", "eval"}
    BY DEF At
  <2>3. HooksShape'
    BY <1>5, <2>2, HooksMove DEF LetThrough
  <2> QED BY <1>5, <2>1, <2>3, NothingPassed DEF LetThrough, PerhapsRecord, CallShape
<1>6. ASSUME NEW r \in Requests, CheckInMemory(r) PROVE AdmissionInv'
  <2>1. <<r, "evalsha">> \in Members /\ <<r, "evalsha">>[1] = r /\ now \in 0..now /\ "key" \in Tiers
    BY DEF Members, Tiers, AdmissionInv, AdmissionShape
  <2> QED BY <1>6, <2>1, Judged DEF CheckInMemory
<1>7. CASE TimePasses
  <2>1. now' = now + 1 /\ UNCHANGED <<held, passed, latest, reordered, request>>
    BY <1>7 DEF TimePasses
  <2>2. AdmissionShape'
    BY <2>1 DEF AdmissionInv, AdmissionShape, CallShape, Calling
  <2> QED BY <2>1, <2>2 DEF AdmissionInv, StillHeld, Respected, InWindow
<1>8. CASE UNCHANGED admissionVars
  BY <1>8 DEF admissionVars, AdmissionInv, AdmissionShape, StillHeld, Respected, InWindow,
              CallShape, Calling
<1> QED
  BY <1>1, <1>2, <1>3, <1>4, <1>5, <1>6, <1>7, <1>8 DEF AdmissionNext

LEMMA AdmissionInitInv == AdmissionInit => AdmissionInv
<1> SUFFICES ASSUME AdmissionInit PROVE AdmissionInv
  OBVIOUS
<1>1. AdmissionShape
  BY FS_EmptySet DEF AdmissionInit, AdmissionShape, Calling, At
<1>2. ASSUME NEW tier \in Tiers PROVE StillHeld(tier) /\ Respected(tier)
  <2>1. \A t \in Nat : InWindow(tier, t) = {}
    BY DEF AdmissionInit, InWindow
  <2>2. passed[tier] = {}
    BY DEF AdmissionInit
  <2> QED BY <2>1, <2>2, FS_EmptySet, LimitsArePositive DEF StillHeld, Respected
<1> QED BY <1>1, <1>2 DEF AdmissionInv

\* The limit of a tier holds of every window of time, not only of those that end
\* with the request just judged, through retries, lost answers and requests let
\* through on errors; as long as the scripts run in the order of their stamps.
THEOREM WindowsAreRespected == AdmissionSpec => []WithinWindow
<1>1. AdmissionInv => WithinWindow
  <2>1. AdmissionInv => \A tier \in Tiers \ reordered, t \in Nat :
                          Cardinality({p \in passed[tier] : p.at \in (t - Window + 1)..t}) <= LimitOf(tier)
    BY DEF AdmissionInv, Respected, InWindow
  <2>2. Stamps \subseteq Nat
    BY AdmissionConstants DEF Stamps
  <2> QED BY <2>1, <2>2 DEF WithinWindow
<1> QED
  BY <1>1, AdmissionInitInv, AdmissionStepInv, PTL DEF AdmissionSpec

\* What a hook may have put into the sorted set of a tier so far.
Fits(c, tier, e) ==
  /\ c.step # "new"
  /\ c.step = "org" => tier = "key"
  /\ c.step \in {"evalsha", "eval"} =>
       IF c.tier = tier THEN e = [at |-> c.at, member |-> c.member] ELSE tier = "key"

\* A request is held once per tier: what is sent again is what was sent.
HeldOnce ==
  \A tier \in Tiers : \A e \in held[tier] :
    /\ Fits(request[e.member[1]], tier, e)
    /\ \A f \in held[tier] : f.member[1] = e.member[1] => f = e

LEMMA CrowdIsCounted ==
  ASSUME NEW S, IsFiniteSet(S), \A e, f \in S : e.member[1] = f.member[1] => e = f
  PROVE  Cardinality({e.member[1] : e \in S}) = Cardinality(S)
<1> DEFINE T == {e.member[1] : e \in S}
           f == [e \in S |-> e.member[1]]
<1>1. f \in Bijection(S, T)
  BY DEF Bijection, Injection, Surjection, IsInjective
<1>2. ExistsBijection(S, T)
  BY <1>1 DEF ExistsBijection
<1> HIDE DEF T, f
<1>3. Cardinality(S) = Cardinality(T)
  BY <1>2, FS_Bijection
<1> QED BY <1>3 DEF T

\* A hook moves on; what is new in a set is its own, and as its new step has it.
LEMMA HeldOnceKept ==
  ASSUME AdmissionShape, HeldOnce, NEW r \in Requests, NEW to, request' = [request EXCEPT ![r] = to],
         \A tier \in Tiers : \A e \in held'[tier] : e \in held[tier] \/ e.member[1] = r,
         \A tier \in Tiers : \A e, f \in held'[tier] : e.member[1] = r =>
            Fits(to, tier, e) /\ (f.member[1] = r => f = e)
  PROVE  HeldOnce'
<1>1. \A q \in Requests : request'[q] = IF q = r THEN to ELSE request[q]
  BY DEF AdmissionShape
<1>2. SUFFICES ASSUME NEW tier \in Tiers, NEW e \in held'[tier]
               PROVE  /\ Fits(request'[e.member[1]], tier, e)
                      /\ \A f \in held'[tier] : f.member[1] = e.member[1] => f = e
  BY DEF HeldOnce, Fits
<1>3. CASE e.member[1] = r
  BY <1>1, <1>3
<1>4. CASE e.member[1] # r
  <2>1. e \in held[tier] /\ request'[e.member[1]] = request[e.member[1]]
    <3>1. e \in held[tier]
      BY <1>4
    <3>2. request' = [q \in Requests |-> IF q = r THEN to ELSE request[q]]
      BY DEF AdmissionShape
    <3>3. e.member[1] \in Requests
      BY <3>1 DEF AdmissionShape, Members
    <3> QED BY <1>1, <1>4, <3>1, <3>3
  <2>2. \A f \in held'[tier] : f.member[1] = e.member[1] => f \in held[tier]
    BY <1>4
  <2> QED BY <2>1, <2>2 DEF HeldOnce
<1> QED BY <1>3, <1>4

\* The script of a call, or its copy, counts the caller once.
LEMMA HeldOnceRecorded ==
  ASSUME AdmissionShape, HeldOnce, NEW r \in Requests, NEW tier \in Tiers, NEW at, NEW member,
         member[1] = r, Record(tier, at, member), NEW to, request' = [request EXCEPT ![r] = to],
         \A u \in Tiers : \A e \in held[u] : e.member[1] = r =>
            Fits(to, u, e) /\ (u = tier => e = [at |-> at, member |-> member]),
         Fits(to, tier, [at |-> at, member |-> member])
  PROVE  HeldOnce'
<1> DEFINE new == [at |-> at, member |-> member]
<1>1. held' = [held EXCEPT ![tier] = Kept(tier, at) \cup {new}] /\ new.member[1] = r
  BY DEF Record
<1> HIDE DEF new
<1>2. \A u \in Tiers : \A e \in held'[u] : e \in held[u] \/ (u = tier /\ e = new)
  BY <1>1 DEF Kept, AdmissionShape
<1>3. ASSUME NEW u \in Tiers, NEW e \in held'[u], NEW f \in held'[u], e.member[1] = r
      PROVE  Fits(to, u, e) /\ (f.member[1] = r => f = e)
  <2>1. Fits(to, u, e)
    BY <1>2, <1>3 DEF new
  <2>2. ASSUME f.member[1] = r PROVE f = e
    <3>1. CASE u = tier
      BY <1>2, <1>3, <2>2, <3>1 DEF new
    <3>2. CASE u # tier
      BY <1>2, <1>3, <2>2, <3>2 DEF HeldOnce
    <3> QED BY <3>1, <3>2
  <2> QED BY <2>1, <2>2
<1>4. \A u \in Tiers : \A e \in held'[u] : e \in held[u] \/ e.member[1] = r
  BY <1>1, <1>2
<1>5. \A u \in Tiers : \A e, f \in held'[u] : e.member[1] = r =>
        Fits(to, u, e) /\ (f.member[1] = r => f = e)
  BY <1>3
<1> QED BY <1>4, <1>5, HeldOnceKept DEF AdmissionShape

\* The verdict: a refusal is of the crowd that is held.
LEMMA JudgedJustly ==
  ASSUME RefusedJustly, HeldOnce', NEW r, NEW tier \in Tiers, NEW at, Judge(r, tier, at),
         IsFiniteSet(held'[tier])
  PROVE  RefusedJustly'
<1>1. CASE Count(tier) > LimitOf(tier)
  <2> DEFINE x == [tier |-> tier, crowd |-> {e.member[1] : e \in held'[tier]}]
  <2>1. Cardinality(x.crowd) = Cardinality(held'[tier])
    BY CrowdIsCounted DEF HeldOnce
  <2>2. refused' = refused \cup {x}
    BY <1>1 DEF Judge
  <2>3. Cardinality(x.crowd) > LimitOf(x.tier)
    BY <1>1, <2>1 DEF Count
  <2> QED BY <2>2, <2>3 DEF RefusedJustly
<1>2. CASE ~(Count(tier) > LimitOf(tier))
  BY <1>2 DEF Judge, RefusedJustly
<1> QED BY <1>1, <1>2

JustInv == AdmissionInv /\ HeldOnce /\ RefusedJustly

LEMMA JustStep == JustInv /\ [AdmissionNext]_admissionVars => JustInv'
<1> SUFFICES ASSUME JustInv, [AdmissionNext]_admissionVars PROVE HeldOnce' /\ RefusedJustly'
  BY AdmissionStepInv DEF JustInv
<1>a. AdmissionShape /\ HeldOnce /\ RefusedJustly
  BY DEF JustInv, AdmissionInv
<1>b. \A tier \in Tiers : IsFiniteSet(held'[tier])
  BY AdmissionStepInv DEF JustInv, AdmissionInv, AdmissionShape
<1>c. \A r \in Requests : Calling(r) => CallShape(request[r]) /\ request[r].member[1] = r
  BY <1>a DEF AdmissionShape
<1>d. \A r \in Requests : \A tier \in Tiers : \A e \in held[tier] :
        e.member[1] = r => Fits(request[r], tier, e)
  BY <1>a DEF HeldOnce
<1>1. ASSUME NEW r \in Requests, NEW tier \in Tiers, Stamp(r, tier) PROVE HeldOnce' /\ RefusedJustly'
  <2> DEFINE to == [step |-> "evalsha", tier |-> tier, at |-> now, member |-> <<r, "evalsha">>]
  <2>1. request' = [request EXCEPT ![r] = to] /\ UNCHANGED <<held, refused>>
    BY <1>1 DEF Stamp
  <2>2. \A u \in Tiers : \A e \in held[u] : e.member[1] = r => Fits(to, u, e)
    <3>1. ASSUME NEW u \in Tiers, NEW e \in held[u], e.member[1] = r
          PROVE  Fits(to, u, e)
      <4>1. request[r].step = "org" /\ tier = "org" /\ u = "key"
        BY <1>1, <1>d, <3>1 DEF Stamp, Fits, Tiers
      <4> QED BY <4>1 DEF Fits
    <3> QED BY <3>1
  <2> HIDE DEF to
  <2>3. HeldOnce'
    BY <1>a, <2>1, <2>2, HeldOnceKept DEF HeldOnce
  <2> QED BY <1>a, <2>1, <2>3 DEF RefusedJustly
<1>2. ASSUME NEW r \in Requests, SkipOrg(r) PROVE HeldOnce' /\ RefusedJustly'
  <2>1. request' = [request EXCEPT ![r] = At("admitted")] /\ UNCHANGED <<held, refused>>
    BY <1>2 DEF SkipOrg
  <2>2. \A u \in Tiers : \A e \in held[u] : Fits(At("admitted"), u, e)
    BY DEF Fits, At
  <2>3. HeldOnce'
    BY <1>a, <2>1, <2>2, HeldOnceKept DEF HeldOnce
  <2> QED BY <1>a, <2>1, <2>3 DEF RefusedJustly
<1>3. ASSUME NEW r \in Requests, NEW tier \in Tiers, NEW at, NEW member, member[1] = r,
             Record(tier, at, member), Judge(r, tier, at),
             \A u \in Tiers : \A e \in held[u] : e.member[1] = r =>
               u = "key" \/ u = tier,
             \A e \in held[tier] : e.member[1] = r => e = [at |-> at, member |-> member]
      PROVE  HeldOnce' /\ RefusedJustly'
  <2>1. PICK place \in {"429", "org", "admitted"} :
          request' = [request EXCEPT ![r] = At(place)] /\ (place = "org" => tier = "key")
    BY <1>3 DEF Judge
  <2>2. \A u \in Tiers : \A e : u = "key" \/ u = tier => Fits(At(place), u, e)
    BY <2>1 DEF Fits, At
  <2>3. /\ \A u \in Tiers : \A e \in held[u] : e.member[1] = r =>
             Fits(At(place), u, e) /\ (u = tier => e = [at |-> at, member |-> member])
        /\ Fits(At(place), tier, [at |-> at, member |-> member])
    BY <1>3, <2>2
  <2>4. HeldOnce'
    BY <1>3, <1>a, <2>1, <2>3, HeldOnceRecorded DEF AdmissionShape
  <2> QED BY <1>3, <1>a, <1>b, <2>4, JudgedJustly
<1>4. ASSUME NEW r \in Requests, RunScript(r) PROVE HeldOnce' /\ RefusedJustly'
  <2>1. /\ \A u \in Tiers : \A e \in held[u] : e.member[1] = r => u = "key" \/ u = request[r].tier
        /\ \A e \in held[request[r].tier] : e.member[1] = r =>
             e = [at |-> request[r].at, member |-> request[r].member]
    BY <1>4, <1>c, <1>d DEF RunScript, Calling, CallShape, Fits
  <2>2. request[r].tier \in Tiers /\ request[r].member[1] = r
    BY <1>4, <1>c DEF RunScript, CallShape
  <2> QED BY <1>3, <1>4, <2>1, <2>2 DEF RunScript
<1>5. ASSUME NEW r \in Requests, NEW to, request' = [request EXCEPT ![r] = to], Calling(r),
             PerhapsRecord(request[r]), UNCHANGED refused,
             \A u \in Tiers : \A e : Fits(request[r], u, e) => Fits(to, u, e)
      PROVE  HeldOnce' /\ RefusedJustly'
  <2>1. /\ \A u \in Tiers : \A e \in held[u] : e.member[1] = r =>
             Fits(to, u, e)
             /\ (u = request[r].tier => e = [at |-> request[r].at, member |-> request[r].member])
        /\ Fits(to, request[r].tier, [at |-> request[r].at, member |-> request[r].member])
        /\ request[r].tier \in Tiers /\ request[r].member[1] = r
    BY <1>5, <1>c, <1>d DEF Calling, CallShape, Fits
  <2>2. HeldOnce'
    <3>1. CASE Record(request[r].tier, request[r].at, request[r].member)
      BY <1>5, <1>a, <2>1, <3>1, HeldOnceRecorded DEF AdmissionShape
    <3>2. CASE UNCHANGED held
      BY <1>5, <1>a, <2>1, <3>2, HeldOnceKept DEF HeldOnce
    <3> QED BY <1>5, <3>1, <3>2 DEF PerhapsRecord
  <2> QED BY <1>5, <1>a, <2>2 DEF RefusedJustly
<1>6. ASSUME NEW r \in Requests, Retry(r) PROVE HeldOnce' /\ RefusedJustly'
  <2> DEFINE to == [request[r] EXCEPT !.step = "eval"]
  <2>1. request' = [request EXCEPT ![r] = to] /\ Calling(r) /\ request[r].step = "evalsha"
        /\ PerhapsRecord(request[r]) /\ UNCHANGED refused
    BY <1>6 DEF Retry
  <2>2. to.tier = request[r].tier /\ to.at = request[r].at /\ to.member = request[r].member
    OBVIOUS
  <2>3. to.step \in {"eval", "evalsha"}
    OBVIOUS
  <2> HIDE DEF to
  <2>4. \A u \in Tiers : \A e : Fits(request[r], u, e) => Fits(to, u, e)
    BY <2>1, <2>2, <2>3 DEF Fits
  <2> QED BY <1>5, <2>1, <2>4
<1>7. ASSUME NEW r \in Requests, LetThrough(r) PROVE HeldOnce' /\ RefusedJustly'
  <2>1. \A u \in Tiers : \A e : Fits(At("admitted"), u, e)
    BY DEF Fits, At
  <2> QED BY <1>5, <1>7, <2>1 DEF LetThrough
<1>8. ASSUME NEW r \in Requests, CheckInMemory(r) PROVE HeldOnce' /\ RefusedJustly'
  <2>1. \A u \in Tiers : \A e \in held[u] : e.member[1] # r
    BY <1>8, <1>d DEF CheckInMemory, Fits, At
  <2>2. <<r, "evalsha">>[1] = r /\ "key" \in Tiers
    BY DEF Tiers
  <2> QED BY <1>3, <1>8, <2>1, <2>2 DEF CheckInMemory
<1>9. CASE TimePasses
  BY <1>9, <1>a DEF TimePasses, HeldOnce, RefusedJustly
<1>10. CASE UNCHANGED admissionVars
  BY <1>10, <1>a DEF admissionVars, HeldOnce, RefusedJustly
<1> QED
  BY <1>1, <1>2, <1>4, <1>6, <1>7, <1>8, <1>9, <1>10 DEF AdmissionNext

\* However often a call of the script is sent again, and whether or not its first
\* run was the one whose answer got lost, nobody is refused but by more requests
\* than the tier allows.
THEOREM RefusalsAreJust == AdmissionSpec => []RefusedJustly
<1>1. AdmissionInit => JustInv
  BY AdmissionInitInv DEF AdmissionInit, JustInv, HeldOnce, RefusedJustly
<1>2. JustInv => RefusedJustly
  BY DEF JustInv
<1> QED
  BY <1>1, <1>2, JustStep, PTL DEF AdmissionSpec

-----------------------------------------------------------------------------
(* WebhookSecrets.  What keeps a retry by hand from meeting the job of an   *)
(* older chain is that an untangled delivery has one carrier at most: its   *)
(* fan-out, then one job, or one administrator once the job has ended it.   *)

Numbered ==
  /\ \A m \in Messages, n \in Tries : sealed[<<m, n>>] # 0 => n <= MaxTries + manual
  /\ \A m \in Messages : tries[m] <= MaxTries + manual
  /\ \A a \in Retriers : retry[a] # NoRetry => retry[a].n <= MaxTries + manual
  /\ hookRow = "none" => edition = 0

About(m) == {a \in Retriers : retry[a] # NoRetry /\ retry[a].of = m}

NotEnqueued(m) ==
  fanOut[m].at # "over" =>
    /\ \A n \in Tries : sealed[<<m, n>>] = 0 /\ due[m][n] = due[m][1]
    /\ first[m] = 0 /\ About(m) = {}
    /\ outcome[m] \in {"absent", "pending"}
    /\ fanOut[m].at \notin {"new", "emitted"} =>
         origin[m] = fanOut[m].pair /\ due[m][1] <= fanOut[m].pair

Copied(m) ==
  \A n \in Tries : sealed[<<m, n>>] # 0 /\ (first[m] = 0 \/ n < first[m]) => sealed[<<m, n>>] = origin[m]

ByHand(m) == \A a \in About(m) : first[m] \in 1..retry[a].n

Settles(m, n) == \A i \in Tries : n <= i => due[m][i] = due[m][n]

OneCarrier(m) ==
  /\ \A n \in Tries : sealed[<<m, n>>] # 0 =>
       /\ due[m][n] <= sealed[<<m, n>>] /\ Settles(m, n)
       /\ \A i \in Tries : sealed[<<m, i>>] # 0 => i = n
       /\ outcome[m] \in {"absent", "pending"} /\ About(m) = {}
  /\ \A a \in About(m) :
       /\ Settles(m, retry[a].n)
       /\ retry[a].at \in {"reset", "enqueue"} => due[m][retry[a].n] <= retry[a].pair
       /\ retry[a].at = "enqueue" => outcome[m] \in {"absent", "pending"}
       /\ \A b \in About(m) : a = b

MessageInv(m) ==
  /\ \A n \in Tries : due[m][n] <= edition
  /\ NotEnqueued(m) /\ Copied(m) /\ ByHand(m)
  /\ m \notin tangled => OneCarrier(m)

SecretsInv == SecretsTypeOK /\ Numbered /\ \A m \in Messages : MessageInv(m)

Typed == SecretsTypeOK /\ Numbered

\* A table of jobs like sealed.
JobTable(f) ==
  /\ f \in [Messages \X Tries -> Editions]
  /\ \A m \in Messages, n \in Tries : f[<<m, n>>] # 0 => n <= MaxTries + manual

\* A retry under way has the fields of one.
LEMMA RetryFields ==
  ASSUME Typed, NEW a \in Retriers, retry[a] # NoRetry
  PROVE  /\ retry[a].of \in Messages /\ retry[a].n \in Tries /\ retry[a].pair \in Editions
         /\ retry[a].at \in {"read", "reset", "enqueue"}
BY DEF Typed, SecretsTypeOK, NoRetry

LEMMA SecretsTypedInit == SecretsInit => Typed
BY SecretsConstants DEF SecretsInit, Typed, SecretsTypeOK, Numbered, Tries, Editions, NoRetry

\* A job of an attempt that may exist is added ...
LEMMA AddedTable ==
  ASSUME Typed, NEW m \in Messages, NEW n \in Tries, NEW e \in Editions, n <= MaxTries + manual
  PROVE  JobTable(Added(m, n, e))
BY DEF Typed, SecretsTypeOK, Numbered, Added, JobTable

LEMMA AddedAt ==
  ASSUME Typed, NEW m \in Messages, NEW n \in Tries, NEW e,
         NEW o \in Messages, NEW i \in Tries
  PROVE  Added(m, n, e)[<<o, i>>] =
           IF o = m /\ i = n /\ sealed[<<o, i>>] = 0 THEN e ELSE sealed[<<o, i>>]
BY DEF Typed, SecretsTypeOK, Added

\* ... or one is removed.
LEMMA RemovedTable ==
  ASSUME Typed, NEW m \in Messages, NEW n \in Tries, NEW jobs, JobTable(jobs),
         Removed(m, n, jobs), manual' = manual
  PROVE  /\ JobTable(sealed)'
         /\ redelivered' \in 0..MaxRedeliveries /\ tangled' \subseteq Messages
<1>0. 0 \in Editions /\ redelivered \in 0..MaxRedeliveries /\ tangled \subseteq Messages
  BY SecretsConstants DEF Editions, Typed, SecretsTypeOK
<1>1. CASE sealed' = [jobs EXCEPT ![<<m, n>>] = 0] /\ UNCHANGED <<redelivered, tangled>>
  <2>1. \A j \in Messages \X Tries : sealed'[j] = IF j = <<m, n>> THEN 0 ELSE jobs[j]
    BY <1>1 DEF JobTable
  <2>2. sealed' \in [Messages \X Tries -> Editions]
    BY <1>0, <1>1 DEF JobTable
  <2>3. ASSUME NEW o \in Messages, NEW i \in Tries, sealed'[<<o, i>>] # 0
        PROVE  i <= MaxTries + manual
    <3>1. jobs[<<o, i>>] # 0
      BY <2>1, <2>3
    <3> QED
      BY <3>1 DEF JobTable
  <2> QED
    BY <1>0, <1>1, <2>2, <2>3 DEF JobTable
<1>2. CASE /\ redelivered < MaxRedeliveries
           /\ redelivered' = redelivered + 1 /\ tangled' = tangled \cup {m}
           /\ sealed' = jobs
  BY <1>0, <1>2, SecretsConstants DEF JobTable
<1> QED
  BY <1>1, <1>2 DEF Removed

LEMMA RemovedAt ==
  ASSUME NEW m \in Messages, NEW n \in Tries, NEW jobs, JobTable(jobs),
         Removed(m, n, jobs), NEW o \in Messages, NEW i \in Tries
  PROVE  /\ sealed'[<<o, i>>] \in {0, jobs[<<o, i>>]}
         /\ o # m \/ i # n => sealed'[<<o, i>>] = jobs[<<o, i>>]
         /\ m \notin tangled' => sealed'[<<m, n>>] = 0
         /\ tangled \subseteq tangled' /\ tangled' \subseteq tangled \cup {m}
BY DEF Removed, JobTable

LEMMA FanOutTyped ==
  ASSUME Typed, NEW m \in Messages, NEW e \in Editions,
         NEW x \in {"new", "emitted", "insert", "enqueue", "testInsert", "testEnqueue", "over"},
         fanOut' \in {[fanOut EXCEPT ![m] = [at |-> x, pair |-> e]], [fanOut EXCEPT ![m].at = x]}
  PROVE  fanOut' \in [Messages -> [at : {"new", "emitted", "insert", "enqueue", "testInsert",
                                        "testEnqueue", "over"}, pair : Editions]]
<1> DEFINE R == [at : {"new", "emitted", "insert", "enqueue", "testInsert", "testEnqueue", "over"},
                 pair : Editions]
<1>1. fanOut \in [Messages -> R]
  BY DEF Typed, SecretsTypeOK
<1>2. [at |-> x, pair |-> e] \in R /\ [fanOut[m] EXCEPT !.at = x] \in R
  BY <1>1
<1> HIDE DEF R
<1>3. fanOut' \in [Messages -> R]
  BY <1>1, <1>2
<1> QED
  BY <1>3 DEF R

LEMMA OutcomeTyped ==
  ASSUME Typed, NEW m \in Messages, NEW s \in {"pending", "success", "failed"}, SetOutcome(m, s)
  PROVE  outcome' \in [Messages -> {"absent", "pending", "success", "failed"}]
BY DEF Typed, SecretsTypeOK, SetOutcome

LEMMA TriesTyped ==
  ASSUME Typed, NEW m \in Messages, NEW n \in Tries, n <= MaxTries + manual, CountTry(m, n)
  PROVE  /\ tries' \in [Messages -> {0} \cup Tries]
         /\ \A o \in Messages : tries'[o] <= MaxTries + manual
BY DEF Typed, SecretsTypeOK, Numbered, CountTry

LEMMA DueTyped ==
  ASSUME Typed, NEW m \in Messages, NEW n \in Tries, From(n, edition, m)
  PROVE  /\ due' \in [Messages -> [Tries -> Editions]]
         /\ \A i \in Tries : due'[m][i] = IF i >= n THEN edition ELSE due[m][i]
         /\ \A o \in Messages : o # m => due'[o] = due[o]
BY DEF Typed, SecretsTypeOK, From

LEMMA SecretsTypedStep == Typed /\ [SecretsNext]_secretsVars => Typed'
<1> SUFFICES ASSUME Typed, [SecretsNext]_secretsVars PROVE Typed'
  OBVIOUS
<1> USE SecretsConstants DEF rowsOfHook, rowsOfMessage, secretsHistory
<1>0. /\ 0 \in Editions /\ 1 \in Editions /\ 1 \in Tries /\ Tries \subseteq Nat
      /\ Editions \subseteq Nat /\ 1 <= MaxTries + manual /\ manual \in Nat
  BY DEF Editions, Tries, Typed, SecretsTypeOK
<1>t. /\ sealed \in [Messages \X Tries -> Editions] /\ \A m \in Messages : fanOut[m].pair \in Editions
      /\ \A m \in Messages, n \in Tries : sealed[<<m, n>>] # 0 => n <= MaxTries + manual
  BY DEF Typed, SecretsTypeOK, Numbered
<1>j. JobTable(sealed)
  BY <1>t DEF JobTable
<1>1. CASE Register
  BY <1>0, <1>1 DEF Register, Created, Typed, SecretsTypeOK, Numbered
<1>2. CASE Patch
  BY <1>2 DEF Patch, Rewrite, Typed, SecretsTypeOK, Numbered
<1>3. CASE DeleteHook
  BY <1>3 DEF DeleteHook, Cascade, Typed, SecretsTypeOK, Numbered
<1>4. ASSUME NEW m \in Messages, Publish(m) PROVE Typed'
  <2>1. due' \in [Messages -> [Tries -> Editions]]
    BY <1>0, <1>4, DueTyped DEF Publish
  <2>2. fanOut' \in [Messages -> [at : {"new", "emitted", "insert", "enqueue", "testInsert",
                                      "testEnqueue", "over"}, pair : Editions]]
    BY <1>0, <1>4, FanOutTyped DEF Publish
  <2> QED
    BY <1>4, <2>1, <2>2 DEF Publish, Typed, SecretsTypeOK, Numbered
<1>5. ASSUME NEW m \in Messages, SelectPair(m) PROVE Typed'
  <2>0. edition \in Editions
    BY DEF Typed, SecretsTypeOK
  <2>1. fanOut' \in [Messages -> [at : {"new", "emitted", "insert", "enqueue", "testInsert",
                                      "testEnqueue", "over"}, pair : Editions]]
    BY <1>5, <2>0, FanOutTyped DEF SelectPair
  <2>2. origin' \in {[origin EXCEPT ![m] = edition], origin}
    BY <1>5 DEF SelectPair
  <2> QED
    BY <1>5, <2>1, <2>2 DEF SelectPair, Typed, SecretsTypeOK, Numbered
<1>6. ASSUME NEW m \in Messages, ReadForTest(m) PROVE Typed'
  <2>1. due' \in [Messages -> [Tries -> Editions]]
    BY <1>0, <1>6, DueTyped DEF ReadForTest
  <2> QED
    BY <1>6, <2>1 DEF ReadForTest, Typed, SecretsTypeOK, Numbered
<1>7. ASSUME NEW m \in Messages, InsertDelivery(m) PROVE Typed'
  <2>0. \E x \in {"enqueue", "testEnqueue", "over"} : fanOut' = [fanOut EXCEPT ![m].at = x]
    BY <1>7 DEF InsertDelivery, Typed, SecretsTypeOK
  <2>1. fanOut' \in [Messages -> [at : {"new", "emitted", "insert", "enqueue", "testInsert",
                                      "testEnqueue", "over"}, pair : Editions]]
    BY <1>0, <2>0, FanOutTyped
  <2>2. outcome' \in {[outcome EXCEPT ![m] = "pending"], outcome}
    BY <1>7 DEF InsertDelivery
  <2> QED
    BY <1>7, <2>1, <2>2 DEF InsertDelivery, Typed, SecretsTypeOK, Numbered
<1>8. ASSUME NEW m \in Messages, EnqueueFirst(m) PROVE Typed'
  <2>1. JobTable(Added(m, 1, fanOut[m].pair))
    BY <1>0, <1>t, AddedTable
  <2>2. sealed' = Added(m, 1, fanOut[m].pair) \/ sealed' = sealed
    BY <1>8 DEF EnqueueFirst
  <2>3. /\ JobTable(sealed)'
    BY <1>8, <1>j, <2>1, <2>2 DEF EnqueueFirst, JobTable
  <2>4. outcome' \in [Messages -> {"absent", "pending", "success", "failed"}]
    <3>1. SetOutcome(m, "failed") \/ outcome' = outcome
      BY <1>8 DEF EnqueueFirst
    <3> QED
      BY <3>1, OutcomeTyped DEF Typed, SecretsTypeOK
  <2>5. fanOut' \in [Messages -> [at : {"new", "emitted", "insert", "enqueue", "testInsert",
                                      "testEnqueue", "over"}, pair : Editions]]
    BY <1>0, <1>8, FanOutTyped DEF EnqueueFirst
  <2> QED
    BY <1>8, <2>3, <2>4, <2>5 DEF EnqueueFirst, JobTable, Typed, SecretsTypeOK, Numbered
<1>9. ASSUME NEW m \in Messages, NEW n \in Tries, SkipDuplicate(m, n) PROVE Typed'
  <2>1. /\ JobTable(sealed)'
        /\ redelivered' \in 0..MaxRedeliveries /\ tangled' \subseteq Messages
    BY <1>j, <1>9, RemovedTable DEF SkipDuplicate
  <2> QED
    BY <1>9, <2>1 DEF SkipDuplicate, JobTable, Typed, SecretsTypeOK, Numbered
<1>10. ASSUME NEW m \in Messages, NEW n \in Tries,
              n <= MaxTries + manual, NEW s \in {"pending", "success", "failed"}, SetOutcome(m, s),
              CountTry(m, n), NEW jobs, JobTable(jobs),
              Removed(m, n, jobs),
              UNCHANGED <<rowsOfHook, fanOut, retry, manual, origin, first, due>>
       PROVE  Typed'
  <2>1. /\ JobTable(sealed)'
        /\ redelivered' \in 0..MaxRedeliveries /\ tangled' \subseteq Messages
    BY <1>10, RemovedTable
  <2>2. outcome' \in [Messages -> {"absent", "pending", "success", "failed"}]
    BY <1>10, OutcomeTyped
  <2>3. /\ tries' \in [Messages -> {0} \cup Tries]
        /\ \A o \in Messages : tries'[o] <= MaxTries + manual
    BY <1>10, TriesTyped
  <2> QED
    BY <1>10, <2>1, <2>2, <2>3 DEF JobTable, Typed, SecretsTypeOK, Numbered
<1>11. ASSUME NEW m \in Messages, NEW n \in Tries, FailAndRetry(m, n) PROVE Typed'
  <2>1. /\ n + 1 \in Tries /\ n + 1 <= MaxTries + manual /\ sealed[<<m, n>>] \in Editions
        /\ n <= MaxTries + manual
    BY <1>0, <1>t, <1>11 DEF FailAndRetry, Tries
  <2> DEFINE jobs == Added(m, n + 1, sealed[<<m, n>>])
  <2>3. JobTable(jobs)
    BY <2>1, AddedTable
  <2>4. /\ Removed(m, n, jobs) /\ SetOutcome(m, "pending") /\ CountTry(m, n)
        /\ UNCHANGED <<rowsOfHook, fanOut, retry, manual, origin, first, due>>
    BY <1>11 DEF FailAndRetry
  <2> HIDE DEF jobs
  <2> QED
    BY <2>1, <2>3, <2>4, <1>10
<1>12. ASSUME NEW m \in Messages, NEW n \in Tries, Succeed(m, n) PROVE Typed'
  BY <1>t, <1>j, <1>10, <1>12 DEF Succeed
<1>13. ASSUME NEW m \in Messages, NEW n \in Tries, FailForGood(m, n) PROVE Typed'
  BY <1>t, <1>j, <1>10, <1>13 DEF FailForGood
<1>14. ASSUME NEW m \in Messages, NEW a \in Retriers, ReadDelivery(a, m) PROVE Typed'
  <2> DEFINE n == tries[m] + 1
             r == [of |-> m, n |-> n, pair |-> 0, at |-> "read"]
  <2>0. tries[m] \in Nat /\ tries[m] <= MaxTries + manual /\ manual < MaxManual
    BY <1>0, <1>14 DEF ReadDelivery, Typed, SecretsTypeOK, Numbered
  <2>1. n \in Tries /\ n <= MaxTries + (manual + 1) /\ manual + 1 \in 0..MaxManual
    BY <1>0, <2>0 DEF Tries
  <2>2. /\ retry' = [retry EXCEPT ![a] = r] /\ manual' = manual + 1
        /\ From(n, edition, m) /\ tangled' \subseteq tangled \cup {m}
        /\ UNCHANGED <<rowsOfHook, fanOut, rowsOfMessage, sealed, redelivered, origin>>
    BY <1>14 DEF ReadDelivery
  <2>3. first' \in {first, [first EXCEPT ![m] = n]}
    BY <1>14 DEF ReadDelivery, Typed, SecretsTypeOK
  <2>4. r \in [of : Messages, n : Tries, pair : Editions, at : {"read", "reset", "enqueue"}] /\ r.n = n
    BY <1>0, <2>1
  <2>5. due' \in [Messages -> [Tries -> Editions]]
    BY <2>1, <2>2, DueTyped
  <2> HIDE DEF n, r
  <2>6. retry' \in [Retriers -> {NoRetry} \cup
                  [of : Messages, n : Tries, pair : Editions, at : {"read", "reset", "enqueue"}]]
    BY <2>2, <2>4 DEF Typed, SecretsTypeOK
  <2>7. SecretsTypeOK'
    BY <2>1, <2>2, <2>3, <2>5, <2>6 DEF Typed, SecretsTypeOK
  <2>8. ASSUME NEW b \in Retriers, retry'[b] # NoRetry PROVE retry'[b].n <= MaxTries + manual'
    <3>1. retry \in [Retriers -> {NoRetry} \cup
                  [of : Messages, n : Tries, pair : Editions, at : {"read", "reset", "enqueue"}]]
      BY DEF Typed, SecretsTypeOK
    <3>2. CASE b = a
      BY <2>1, <2>2, <2>4, <3>1, <3>2
    <3>3. CASE b # a
      <4>1. retry[b] # NoRetry /\ retry'[b] = retry[b]
        BY <2>2, <2>8, <3>1, <3>3
      <4>2. retry[b].n \in Nat /\ retry[b].n <= MaxTries + manual
        BY <1>0, <4>1, RetryFields DEF Typed, Numbered
      <4> QED
        BY <1>0, <2>2, <4>1, <4>2
    <3> QED BY <3>2, <3>3
  <2>9. ASSUME NEW k \in Messages
        PROVE  /\ \A i \in Tries : sealed'[<<k, i>>] # 0 => i <= MaxTries + manual'
               /\ tries'[k] <= MaxTries + manual'
    <3>1. tries[k] \in Nat /\ tries[k] <= MaxTries + manual
      BY <1>0 DEF Typed, SecretsTypeOK, Numbered
    <3>2. \A i \in Tries : i \in Nat /\ (sealed[<<k, i>>] # 0 => i <= MaxTries + manual)
      BY <1>0, <1>t
    <3>3. sealed' = sealed /\ tries' = tries /\ manual' = manual + 1
      BY <2>2
    <3>4. MaxTries \in Nat /\ manual \in Nat /\ manual' = manual + 1
      BY <1>0, <3>3
    <3>5. tries'[k] <= MaxTries + manual'
      BY <3>1, <3>3, <3>4
    <3>6. ASSUME NEW i \in Tries, sealed'[<<k, i>>] # 0 PROVE i <= MaxTries + manual'
      <4>1. i \in Nat /\ i <= MaxTries + manual
        BY <3>2, <3>3, <3>6
      <4> QED
        BY <3>4, <4>1
    <3> QED
      BY <3>5, <3>6
  <2> QED
    BY <2>2, <2>7, <2>8, <2>9 DEF Typed, Numbered
<1>15. ASSUME NEW a \in Retriers, retry[a] # NoRetry, NEW x \in {"reset", "enqueue"},
              NEW e \in Editions,
              retry' \in {[retry EXCEPT ![a] = NoRetry],
                          [retry EXCEPT ![a] = [retry[a] EXCEPT !.pair = e, !.at = x]]},
              outcome' \in [Messages -> {"absent", "pending", "success", "failed"}],
              JobTable(sealed)',
              UNCHANGED <<rowsOfHook, fanOut, tries, manual, redelivered, secretsHistory>>
       PROVE  Typed'
  <2> DEFINE R == [of : Messages, n : Tries, pair : Editions, at : {"read", "reset", "enqueue"}]
             r == [retry[a] EXCEPT !.pair = e, !.at = x]
  <2>1. retry \in [Retriers -> {NoRetry} \cup R] /\ retry[a] \in R
    BY <1>15 DEF Typed, SecretsTypeOK
  <2>2. r \in R /\ r.n = retry[a].n
    BY <1>15, <2>1
  <2>3. retry' \in {[retry EXCEPT ![a] = NoRetry], [retry EXCEPT ![a] = r]}
    BY <1>15
  <2> HIDE DEF r
  <2>4. retry' \in [Retriers -> {NoRetry} \cup R]
    BY <2>1, <2>2, <2>3
  <2>5. \A b \in Retriers : retry'[b] # NoRetry => retry'[b].n <= MaxTries + manual
    BY <1>15, <2>1, <2>2, <2>3 DEF Typed, Numbered
  <2> QED
    BY <1>15, <2>4, <2>5 DEF JobTable, Typed, SecretsTypeOK, Numbered
<1>16. ASSUME NEW a \in Retriers, FetchPair(a) PROVE Typed'
  <2>1. retry[a] # NoRetry /\ retry[a].at = "read"
    BY <1>16 DEF FetchPair, NoRetry
  <2>2. retry' \in {[retry EXCEPT ![a] = NoRetry],
                    [retry EXCEPT ![a] = [retry[a] EXCEPT !.pair = edition, !.at = "reset"]]}
    BY <1>16 DEF FetchPair
  <2>3. /\ outcome \in [Messages -> {"absent", "pending", "success", "failed"}] /\ edition \in Editions
    BY DEF Typed, SecretsTypeOK
  <2>4. JobTable(sealed)'
    BY <1>j, <1>16 DEF FetchPair, JobTable
  <2> QED
    BY <1>15, <1>16, <2>1, <2>2, <2>3, <2>4 DEF FetchPair
<1>17. ASSUME NEW a \in Retriers, ResetDelivery(a) PROVE Typed'
  <2>1. retry[a] # NoRetry /\ retry[a].at = "reset"
    BY <1>17 DEF ResetDelivery, NoRetry
  <2>2. retry[a].of \in Messages /\ retry[a].pair \in Editions
        /\ retry[a] \in [of : Messages, n : Tries, pair : Editions, at : {"read", "reset", "enqueue"}]
    BY <2>1 DEF Typed, SecretsTypeOK
  <2>3. [retry[a] EXCEPT !.at = "enqueue"] = [retry[a] EXCEPT !.pair = retry[a].pair, !.at = "enqueue"]
    BY <2>2
  <2>4. retry' \in {[retry EXCEPT ![a] = NoRetry],
                    [retry EXCEPT ![a] = [retry[a] EXCEPT !.pair = retry[a].pair, !.at = "enqueue"]]}
    BY <1>17, <2>3 DEF ResetDelivery
  <2>5. outcome' \in [Messages -> {"absent", "pending", "success", "failed"}]
    BY <1>17, <2>2, OutcomeTyped DEF ResetDelivery
  <2>6. JobTable(sealed)'
    BY <1>j, <1>17 DEF ResetDelivery, JobTable
  <2> QED
    BY <1>15, <1>17, <2>1, <2>2, <2>4, <2>5, <2>6 DEF ResetDelivery
<1>18. ASSUME NEW a \in Retriers, EnqueueRetry(a) PROVE Typed'
  <2>1. retry[a] # NoRetry /\ retry[a].at = "enqueue"
    BY <1>18 DEF EnqueueRetry, NoRetry
  <2>2. sealed' = sealed \/ sealed' = Added(retry[a].of, retry[a].n, retry[a].pair)
    BY <1>18 DEF EnqueueRetry
  <2>3. /\ JobTable(sealed)'
    <3>1. retry[a].n <= MaxTries + manual
      BY <2>1 DEF Typed, Numbered
    <3> QED
      BY <1>j, <1>18, <2>1, <2>2, <3>1, RetryFields, AddedTable DEF EnqueueRetry, JobTable
  <2>4. outcome \in [Messages -> {"absent", "pending", "success", "failed"}]
    BY DEF Typed, SecretsTypeOK
  <2> QED
    BY <1>0, <1>15, <1>18, <2>1, <2>3, <2>4 DEF EnqueueRetry
<1>19. CASE UNCHANGED secretsVars
  BY <1>19 DEF secretsVars, Typed, SecretsTypeOK, Numbered
<1> QED
  BY <1>1, <1>2, <1>3, <1>4, <1>5, <1>6, <1>7, <1>8, <1>9, <1>11, <1>12, <1>13, <1>14,
     <1>16, <1>17, <1>18, <1>19 DEF SecretsNext

\* What a step leaves of a delivery, may it remove a job or a request, end the
\* fan-out, or reset the row.
LEMMA Lessened ==
  ASSUME Typed, Typed', NEW m \in Messages, MessageInv(m),
         fanOut[m].at = "over" => fanOut'[m].at = "over",
         fanOut'[m].at \notin {"new", "emitted", "over"} =>
           fanOut[m].at \notin {"new", "emitted"} /\ fanOut'[m].pair = fanOut[m].pair,
         outcome'[m] \in {outcome[m], "absent", "pending"},
         origin'[m] = origin[m], first'[m] = first[m], due'[m] = due[m], edition <= edition',
         \A n \in Tries : sealed'[<<m, n>>] \in {0, sealed[<<m, n>>]},
         \A a \in About(m)' : a \in About(m) /\ retry'[a] = retry[a],
         m \in tangled => m \in tangled'
  PROVE  MessageInv(m)'
<1>1. \A n \in Tries : due'[m][n] <= edition'
  BY DEF MessageInv, Typed, SecretsTypeOK, Editions
<1>2. NotEnqueued(m)'
  BY DEF MessageInv, NotEnqueued
<1>3. Copied(m)'
  BY DEF MessageInv, Copied
<1>4. ByHand(m)'
  BY DEF MessageInv, ByHand
<1>5. ASSUME m \notin tangled' PROVE OneCarrier(m)'
  <2>1. OneCarrier(m) /\ \A n \in Tries : Settles(m, n) => Settles(m, n)'
    BY <1>5 DEF MessageInv, Settles
  <2>2. ASSUME NEW n \in Tries, sealed'[<<m, n>>] # 0
        PROVE  /\ due'[m][n] <= sealed'[<<m, n>>] /\ Settles(m, n)'
               /\ \A i \in Tries : sealed'[<<m, i>>] # 0 => i = n
               /\ outcome'[m] \in {"absent", "pending"} /\ About(m)' = {}
    BY <2>1, <2>2 DEF OneCarrier
  <2>3. ASSUME NEW a \in About(m)'
        PROVE  /\ Settles(m, retry[a].n)'
               /\ retry'[a].at \in {"reset", "enqueue"} => due'[m][retry'[a].n] <= retry'[a].pair
               /\ retry'[a].at = "enqueue" => outcome'[m] \in {"absent", "pending"}
               /\ \A b \in About(m)' : a = b
    <3>1. a \in About(m) /\ retry'[a] = retry[a] /\ retry[a].n \in Tries
      BY RetryFields DEF About
    <3> QED
      BY <2>1, <3>1 DEF OneCarrier
  <2> QED
    BY <2>2, <2>3 DEF OneCarrier
<1> QED
  BY <1>1, <1>2, <1>3, <1>4, <1>5 DEF MessageInv

\* An attempt that ends the chain takes the one job an untangled delivery has.
LEMMA ChainEnds ==
  ASSUME Typed, Typed', NEW m \in Messages, NEW n \in Tries, MessageInv(m),
         sealed[<<m, n>>] # 0, Removed(m, n, sealed),
         UNCHANGED <<edition, fanOut, retry, origin, first, due, manual>>
  PROVE  MessageInv(m)'
<1>0. JobTable(sealed)
  BY DEF Typed, SecretsTypeOK, Numbered, JobTable
<1>1. /\ \A i \in Tries : sealed'[<<m, i>>] \in {0, sealed[<<m, i>>]}
      /\ m \notin tangled' => m \notin tangled /\ sealed'[<<m, n>>] = 0
  BY <1>0, RemovedAt
<1>2. About(m)' = About(m) /\ fanOut[m].at = "over"
  BY DEF About, MessageInv, NotEnqueued
<1>3. NotEnqueued(m)' /\ Copied(m)' /\ ByHand(m)' /\ \A i \in Tries : due'[m][i] <= edition'
  BY <1>1, <1>2 DEF MessageInv, NotEnqueued, Copied, ByHand
<1>4. ASSUME m \notin tangled' PROVE OneCarrier(m)'
  <2>1. OneCarrier(m) /\ About(m) = {}
    BY <1>1, <1>4 DEF MessageInv, OneCarrier
  <2>2. \A i \in Tries : sealed'[<<m, i>>] = 0
    BY <1>1, <1>4, <2>1 DEF OneCarrier
  <2> QED
    BY <1>2, <2>1, <2>2 DEF OneCarrier
<1> QED
  BY <1>3, <1>4 DEF MessageInv

\* An attempt that is followed by another hands on what its job carries.
LEMMA ChainGoesOn ==
  ASSUME Typed, Typed', NEW m \in Messages, NEW n \in Tries, MessageInv(m), n + 1 \in Tries,
         sealed[<<m, n>>] # 0, Removed(m, n, Added(m, n + 1, sealed[<<m, n>>])),
         JobTable(Added(m, n + 1, sealed[<<m, n>>])), outcome'[m] \in {"absent", "pending"},
         UNCHANGED <<edition, fanOut, retry, origin, first, due, manual>>
  PROVE  MessageInv(m)'
<1> DEFINE e == sealed[<<m, n>>]
           jobs == Added(m, n + 1, e)
<1>0. /\ \A i \in Tries : jobs[<<m, i>>] = IF i = n + 1 /\ sealed[<<m, i>>] = 0 THEN e ELSE sealed[<<m, i>>]
      /\ n \in Nat /\ Tries \subseteq Nat
  BY AddedAt DEF Tries
<1>1. /\ \A i \in Tries : sealed'[<<m, i>>] \in {0, jobs[<<m, i>>]}
      /\ m \notin tangled' => m \notin tangled /\ sealed'[<<m, n>>] = 0
  BY RemovedAt
<1> HIDE DEF jobs
<1>2. About(m)' = About(m) /\ fanOut[m].at = "over"
  BY DEF About, MessageInv, NotEnqueued
<1>3. NotEnqueued(m)' /\ ByHand(m)' /\ \A i \in Tries : due'[m][i] <= edition'
  BY <1>2 DEF MessageInv, NotEnqueued, ByHand
<1>4. Copied(m)'
  <2>1. ASSUME NEW i \in Tries, sealed'[<<m, i>>] # 0, first[m] = 0 \/ i < first[m]
        PROVE  sealed'[<<m, i>>] = origin[m]
    <3>t. first[m] \in {0} \cup Tries
      BY DEF Typed, SecretsTypeOK
    <3>n. \A k \in Tries : k \in Nat
      BY DEF Tries
    <3>0. first[m] \in Nat
      BY <3>n, <3>t
    <3>1. CASE sealed'[<<m, i>>] = sealed[<<m, i>>]
      BY <2>1, <3>1 DEF MessageInv, Copied
    <3>2. CASE i = n + 1 /\ sealed'[<<m, i>>] = e
      <4>1. first[m] = 0 \/ n < first[m]
        BY <1>0, <2>1, <3>0, <3>2
      <4> QED
        BY <3>2, <4>1 DEF MessageInv, Copied
    <3> QED
      BY <1>0, <1>1, <2>1, <3>1, <3>2
  <2> QED
    BY <2>1 DEF Copied
<1>5. ASSUME m \notin tangled' PROVE OneCarrier(m)'
  <2>1. OneCarrier(m) /\ About(m) = {} /\ Settles(m, n) /\ due[m][n] <= e
    BY <1>1, <1>5 DEF MessageInv, OneCarrier
  <2>2. \A i \in Tries : sealed[<<m, i>>] # 0 => i = n
    BY <2>1 DEF OneCarrier
  <2>3. \A i \in Tries : sealed'[<<m, i>>] # 0 => i = n + 1 /\ sealed'[<<m, i>>] = e
    BY <1>0, <1>1, <1>5, <2>2
  <2>4. Settles(m, n + 1)' /\ due'[m][n + 1] = due[m][n]
    BY <1>0, <2>1 DEF Settles
  <2> QED
    BY <1>2, <2>1, <2>3, <2>4 DEF OneCarrier
<1> QED
  BY <1>3, <1>4, <1>5 DEF MessageInv

\* The moment an event is emitted or a test is asked for.
LEMMA BoundBegins ==
  ASSUME Typed, Typed', NEW m \in Messages, MessageInv(m), fanOut[m].at = "new", From(1, edition, m),
         \/ fanOut'[m].at = "emitted" /\ origin' = origin
         \/ fanOut'[m].pair = edition /\ origin'[m] = edition,
         UNCHANGED <<edition, outcome, sealed, retry, first, tangled>>
  PROVE  MessageInv(m)'
<1>0. edition \in Nat /\ 1 \in Tries /\ Tries \subseteq Nat /\ \A n \in Tries : n >= 1
  BY SecretsConstants DEF Typed, SecretsTypeOK, Editions, Tries
<1>1. \A n \in Tries : due'[m][n] = edition
  BY <1>0, DueTyped
<1>2. /\ \A n \in Tries : sealed[<<m, n>>] = 0
      /\ first[m] = 0 /\ About(m) = {} /\ outcome[m] \in {"absent", "pending"}
  BY DEF MessageInv, NotEnqueued
<1>3. About(m)' = {}
  BY <1>2 DEF About
<1>4. NotEnqueued(m)' /\ Copied(m)' /\ ByHand(m)' /\ OneCarrier(m)'
  BY <1>0, <1>1, <1>2, <1>3 DEF NotEnqueued, Copied, ByHand, OneCarrier
<1> QED
  BY <1>0, <1>1, <1>4 DEF MessageInv

\* The pair is read for the fan-out.
LEMMA PairSelected ==
  ASSUME Typed, Typed', NEW m \in Messages, MessageInv(m), fanOut[m].at = "emitted",
         fanOut'[m].pair = edition, origin'[m] = edition,
         UNCHANGED <<edition, outcome, sealed, retry, first, due, tangled>>
  PROVE  MessageInv(m)'
<1>0. edition \in Nat /\ 1 \in Tries
  BY SecretsConstants DEF Typed, SecretsTypeOK, Editions, Tries
<1>1. /\ \A n \in Tries : sealed[<<m, n>>] = 0 /\ due[m][n] <= edition
      /\ first[m] = 0 /\ About(m) = {} /\ outcome[m] \in {"absent", "pending"}
      /\ \A n \in Tries : due[m][n] = due[m][1]
  BY DEF MessageInv, NotEnqueued
<1>2. About(m)' = {}
  BY <1>1 DEF About
<1>3. NotEnqueued(m)' /\ Copied(m)' /\ ByHand(m)' /\ OneCarrier(m)'
  BY <1>0, <1>1, <1>2 DEF NotEnqueued, Copied, ByHand, OneCarrier
<1> QED
  BY <1>1, <1>3 DEF MessageInv

\* The first job carries the pair the fan-out or the test has read.
LEMMA FirstJob ==
  ASSUME Typed, Typed', NEW m \in Messages, MessageInv(m),
         fanOut[m].at \in {"enqueue", "testEnqueue"}, fanOut'[m].at = "over",
         sealed' = Added(m, 1, fanOut[m].pair),
         UNCHANGED <<edition, outcome, retry, origin, first, due, tangled>>
  PROVE  MessageInv(m)'
<1>0. 1 \in Tries /\ Tries \subseteq Nat /\ \A n \in Tries : n >= 1
  BY SecretsConstants DEF Tries
<1>1. \A n \in Tries : sealed'[<<m, n>>] = IF n = 1 /\ sealed[<<m, n>>] = 0 THEN fanOut[m].pair
                                            ELSE sealed[<<m, n>>]
  BY <1>0, AddedAt
<1>2. /\ \A n \in Tries : sealed[<<m, n>>] = 0 /\ due[m][n] = due[m][1]
      /\ first[m] = 0 /\ About(m) = {} /\ outcome[m] \in {"absent", "pending"}
      /\ origin[m] = fanOut[m].pair /\ due[m][1] <= fanOut[m].pair
      /\ \A i \in Tries : due[m][i] <= edition
  BY DEF MessageInv, NotEnqueued
<1>3. About(m)' = {}
  BY <1>2 DEF About
<1>4. \A n \in Tries : sealed'[<<m, n>>] # 0 => n = 1 /\ sealed'[<<m, n>>] = origin[m]
  BY <1>1, <1>2
<1>5. NotEnqueued(m)' /\ Copied(m)' /\ ByHand(m)' /\ \A i \in Tries : due'[m][i] <= edition'
  BY <1>2, <1>3, <1>4 DEF NotEnqueued, Copied, ByHand
<1>6. OneCarrier(m)'
  BY <1>0, <1>2, <1>3, <1>4 DEF OneCarrier, Settles
<1> QED
  BY <1>5, <1>6 DEF MessageInv

\* The queue is full: nothing carries the delivery.
LEMMA FirstRefused ==
  ASSUME Typed, Typed', NEW m \in Messages, MessageInv(m),
         fanOut[m].at \in {"enqueue", "testEnqueue"}, fanOut'[m].at = "over",
         UNCHANGED <<edition, sealed, retry, origin, first, due, tangled>>
  PROVE  MessageInv(m)'
<1>1. /\ \A n \in Tries : sealed[<<m, n>>] = 0 /\ due[m][n] <= edition
      /\ first[m] = 0 /\ About(m) = {}
  BY DEF MessageInv, NotEnqueued
<1>2. About(m)' = {}
  BY <1>1 DEF About
<1> QED
  BY <1>1, <1>2 DEF MessageInv, NotEnqueued, Copied, ByHand, OneCarrier

\* An administrator finds the chain of an untangled delivery at its end.
LEMMA RetryBegins ==
  ASSUME Typed, Typed', NEW m \in Messages, NEW a \in Retriers, MessageInv(m), ReadDelivery(a, m),
         NEW n \in Tries, n = tries[m] + 1
  PROVE  MessageInv(m)'
<1>0. /\ edition \in Nat /\ Tries \subseteq Nat /\ \A i \in Tries : i >= 1 /\ due[m][i] \in Nat
      /\ first[m] \in {0} \cup Tries /\ first[m] \in Nat
  <2>1. Tries \subseteq Nat /\ \A i \in Tries : i >= 1
    BY DEF Tries
  <2>2. /\ edition \in Editions /\ \A i \in Tries : due[m][i] \in Editions
        /\ first[m] \in {0} \cup Tries /\ Editions \subseteq Nat
    BY DEF Typed, SecretsTypeOK, Editions
  <2>3. edition \in Nat /\ \A i \in Tries : i >= 1 /\ due[m][i] \in Nat
    BY <2>1, <2>2
  <2>4. \A k \in {0} \cup Tries : k \in Nat
    BY DEF Tries
  <2>5. first[m] \in Nat
    BY <2>2, <2>4
  <2> QED
    BY <2>1, <2>2, <2>3, <2>5
<1>1. /\ fanOut[m].at = "over" /\ outcome[m] \in {"success", "failed"}
      /\ UNCHANGED <<edition, fanOut, outcome, sealed, origin>>
      /\ tangled' = tangled \cup {o \in {m} : \E b \in Retriers : retry[b] # NoRetry /\ retry[b].of = o}
      /\ retry[a] = NoRetry
  BY DEF ReadDelivery, rowsOfHook, rowsOfMessage, MessageInv, NotEnqueued
<1>2. /\ \A i \in Tries : due'[m][i] = IF i >= n THEN edition ELSE due[m][i]
      /\ first'[m] = IF first[m] = 0 \/ n < first[m] THEN n ELSE first[m]
  <2>1. From(n, edition, m)
    BY DEF ReadDelivery
  <2> QED
    BY <2>1, DueTyped DEF ReadDelivery, Typed, SecretsTypeOK
<1> DEFINE r == [of |-> m, n |-> n, pair |-> 0, at |-> "read"]
<1>3. /\ retry'[a] = r /\ r # NoRetry /\ r.of = m /\ r.n = n /\ r.at = "read"
      /\ \A b \in Retriers : b # a => retry'[b] = retry[b]
  BY DEF ReadDelivery, NoRetry, Typed, SecretsTypeOK
<1> HIDE DEF r
<1>4. About(m)' = About(m) \cup {a} /\ a \notin About(m)
  BY <1>1, <1>3 DEF About
<1>5. \A i \in Tries : due'[m][i] <= edition'
  BY <1>0, <1>1, <1>2 DEF MessageInv
<1>6. NotEnqueued(m)'
  BY <1>1 DEF NotEnqueued
<1>7. Copied(m)'
  BY <1>0, <1>1, <1>2 DEF MessageInv, Copied
<1>8. ByHand(m)'
  <2>1. ASSUME NEW b \in About(m) PROVE first'[m] \in 1..retry'[b].n
    <3>1. retry'[b] = retry[b] /\ retry[b].n \in Nat /\ first[m] \in 1..retry[b].n
      BY <1>0, <1>3, <1>4, <2>1, RetryFields DEF MessageInv, ByHand, About
    <3> QED
      BY <1>0, <1>2, <3>1
  <2>2. first'[m] \in 1..n
    BY <1>0, <1>2
  <2> QED
    BY <1>3, <1>4, <2>1, <2>2 DEF ByHand
<1>9. ASSUME m \notin tangled' PROVE OneCarrier(m)'
  <2>1. About(m) = {} /\ m \notin tangled
    BY <1>1, <1>9 DEF About
  <2>2. \A i \in Tries : sealed[<<m, i>>] = 0
    BY <1>1, <2>1 DEF MessageInv, OneCarrier
  <2>3. Settles(m, n)'
    BY <1>0, <1>2 DEF Settles
  <2>4. About(m)' = {a}
    BY <1>4, <2>1
  <2> QED
    BY <1>1, <1>3, <2>2, <2>3, <2>4 DEF OneCarrier
<1> QED
  BY <1>5, <1>6, <1>7, <1>8, <1>9 DEF MessageInv

\* It takes over the pair the row has, or resets the row.
LEMMA RetryGoesOn ==
  ASSUME Typed, Typed', NEW m \in Messages, MessageInv(m), NEW a \in About(m),
         \A b \in Retriers : b # a => retry'[b] = retry[b],
         retry'[a] # NoRetry, retry'[a].of = m, retry'[a].n = retry[a].n,
         \/ retry'[a].at = "reset" /\ retry'[a].pair = edition /\ outcome'[m] = outcome[m]
         \/ /\ retry[a].at = "reset" /\ retry'[a].at = "enqueue" /\ retry'[a].pair = retry[a].pair
            /\ outcome'[m] \in {"absent", "pending"},
         UNCHANGED <<edition, fanOut, sealed, origin, first, due, tangled>>
  PROVE  MessageInv(m)'
<1>1. About(m)' = About(m) /\ fanOut[m].at = "over" /\ retry[a].n \in Tries
  BY RetryFields DEF About, MessageInv, NotEnqueued
<1>2. \A i \in Tries : due'[m][i] <= edition'
  BY DEF MessageInv
<1>3. NotEnqueued(m)' /\ Copied(m)' /\ ByHand(m)'
  BY <1>1 DEF MessageInv, NotEnqueued, Copied, ByHand, About
<1>4. ASSUME m \notin tangled PROVE OneCarrier(m)'
  <2>1. /\ \A i \in Tries : sealed[<<m, i>>] = 0
        /\ \A b \in About(m) : b = a
        /\ Settles(m, retry[a].n) /\ due[m][retry[a].n] <= edition
        /\ retry[a].at = "reset" => due[m][retry[a].n] <= retry[a].pair
    BY <1>1, <1>4 DEF MessageInv, OneCarrier
  <2>2. Settles(m, retry[a].n)'
    BY <1>1, <2>1 DEF Settles
  <2> QED
    BY <1>1, <2>1, <2>2 DEF OneCarrier
<1> QED
  BY <1>2, <1>3, <1>4 DEF MessageInv

\* It adds the attempt's job.
LEMMA RetryAdds ==
  ASSUME Typed, Typed', NEW m \in Messages, MessageInv(m), NEW a \in About(m), retry[a].at = "enqueue",
         retry' = [retry EXCEPT ![a] = NoRetry], sealed' = Added(m, retry[a].n, retry[a].pair),
         UNCHANGED <<edition, fanOut, outcome, origin, first, due, tangled>>
  PROVE  MessageInv(m)'
<1> DEFINE n == retry[a].n
           e == retry[a].pair
<1>0. n \in Tries /\ Tries \subseteq Nat /\ first[m] \in 1..n /\ a \in Retriers
  <2>1. n \in Tries
    BY RetryFields DEF About
  <2>2. Tries \subseteq Nat
    BY DEF Tries
  <2> QED
    BY <2>1, <2>2 DEF MessageInv, ByHand, About
<1>1. \A i \in Tries : sealed'[<<m, i>>] = IF i = n /\ sealed[<<m, i>>] = 0 THEN e ELSE sealed[<<m, i>>]
  <2>1. sealed' = Added(m, n, e)
    OBVIOUS
  <2> HIDE DEF n, e
  <2> QED
    BY <1>0, <2>1, AddedAt
<1>2. /\ fanOut[m].at = "over"
      /\ \A b \in About(m)' : b \in About(m) /\ b # a /\ retry'[b] = retry[b]
  BY <1>0 DEF About, MessageInv, NotEnqueued, Typed, SecretsTypeOK
<1>3. \A i \in Tries : due'[m][i] <= edition'
  BY DEF MessageInv
<1>4. NotEnqueued(m)' /\ ByHand(m)'
  BY <1>2 DEF MessageInv, NotEnqueued, ByHand
<1>5. Copied(m)'
  <2>1. ASSUME NEW i \in Tries, sealed'[<<m, i>>] # 0, first[m] = 0 \/ i < first[m]
        PROVE  sealed'[<<m, i>>] = origin[m]
    <3>1. i \in Nat /\ n \in Nat /\ i # n
      BY <1>0, <2>1
    <3> QED
      BY <1>1, <2>1, <3>1 DEF MessageInv, Copied
  <2> QED
    BY <2>1 DEF Copied
<1>6. ASSUME m \notin tangled PROVE OneCarrier(m)'
  <2>1. /\ \A i \in Tries : sealed[<<m, i>>] = 0
        /\ \A b \in About(m) : b = a
        /\ Settles(m, n) /\ due[m][n] <= retry[a].pair /\ outcome[m] \in {"absent", "pending"}
    BY <1>6 DEF MessageInv, OneCarrier
  <2>2. About(m)' = {}
    BY <1>2, <2>1
  <2>3. \A i \in Tries : sealed'[<<m, i>>] # 0 => i = n /\ sealed'[<<m, i>>] = e
    BY <1>1, <2>1
  <2>4. \A i \in Tries : n <= i => due'[m][i] = due'[m][n]
    BY <2>1 DEF Settles
  <2> QED
    BY <1>0, <2>1, <2>2, <2>3, <2>4 DEF OneCarrier, Settles
<1> QED
  BY <1>3, <1>4, <1>5, <1>6 DEF MessageInv

LEMMA SecretsInvInit == SecretsInit => \A m \in Messages : MessageInv(m)
<1> SUFFICES ASSUME SecretsInit, NEW m \in Messages PROVE MessageInv(m)
  OBVIOUS
<1> USE DEF SecretsInit
<1>1. About(m) = {} /\ 1 \in Tries /\ edition = 0
  BY SecretsConstants DEF About, Tries
<1>2. \A n \in Tries : sealed[<<m, n>>] = 0 /\ due[m][n] = 0
  OBVIOUS
<1>3. fanOut[m].at = "new" /\ outcome[m] = "absent" /\ first[m] = 0
  OBVIOUS
<1> QED
  BY <1>1, <1>2, <1>3 DEF MessageInv, NotEnqueued, Copied, ByHand, OneCarrier

\* Steps of other deliveries and of the webhook's row.
LEMMA Untouched ==
  ASSUME Typed, Typed', NEW m \in Messages, MessageInv(m),
         fanOut'[m] = fanOut[m], outcome'[m] \in {outcome[m], "absent", "pending"},
         UNCHANGED <<origin, first>>, due'[m] = due[m], edition <= edition',
         \A n \in Tries : sealed'[<<m, n>>] \in {0, sealed[<<m, n>>]},
         \A a \in About(m)' : a \in About(m) /\ retry'[a] = retry[a],
         m \in tangled => m \in tangled'
  PROVE  MessageInv(m)'
BY Lessened

\* One step, for one delivery.
LEMMA SecretsInvStep ==
  ASSUME Typed, Typed', SecretsNext, NEW m \in Messages, MessageInv(m)
  PROVE  MessageInv(m)'
<1> USE DEF rowsOfHook, rowsOfMessage, secretsHistory
<1>0. edition \in Nat /\ JobTable(sealed)
  BY DEF Typed, SecretsTypeOK, Numbered, JobTable, Editions
<1>t. /\ origin \in [Messages -> Editions] /\ first \in [Messages -> {0} \cup Tries]
      /\ DOMAIN fanOut = Messages /\ DOMAIN outcome = Messages /\ DOMAIN retry = Retriers
      /\ \A o \in Messages : DOMAIN fanOut[o] = {"at", "pair"}
  BY DEF Typed, SecretsTypeOK
<1>o. ASSUME UNCHANGED retry PROVE About(m)' = About(m)
  BY <1>o DEF About
<1>1. CASE Register
  <2>1. edition <= edition'
    BY <1>0, <1>1 DEF Register, Created, Typed, Numbered
  <2> QED
    BY <1>1, <1>o, <2>1, Untouched DEF Register
<1>2. CASE Patch
  <2>1. edition <= edition'
    BY <1>0, <1>2 DEF Patch, Rewrite
  <2> QED
    BY <1>2, <1>o, <2>1, Untouched DEF Patch
<1>3. CASE DeleteHook
  <2>1. outcome'[m] = "absent"
    BY <1>3 DEF DeleteHook, Cascade
  <2> QED
    BY <1>0, <1>3, <1>o, <2>1, Untouched DEF DeleteHook
<1>4. ASSUME NEW o \in Messages, Publish(o) PROVE MessageInv(m)'
  <2>1. CASE o = m
    <3>1. fanOut'[m].at = "emitted"
      BY <1>4, <1>t, <2>1 DEF Publish
    <3> QED
      BY <1>4, <2>1, <3>1, BoundBegins DEF Publish
  <2>2. CASE o # m
    <3>1. due'[m] = due[m]
      BY <1>4, <2>2 DEF Publish, From, Typed, SecretsTypeOK
    <3>2. fanOut'[m] = fanOut[m]
      BY <1>4, <2>2, <1>t DEF Publish
    <3> QED
      BY <1>0, <1>4, <1>o, <3>1, <3>2, Untouched DEF Publish
  <2> QED BY <2>1, <2>2
<1>5. ASSUME NEW o \in Messages, SelectPair(o) PROVE MessageInv(m)'
  <2>1. CASE o = m /\ hookRow = "listed"
    <3>1. fanOut'[m].pair = edition /\ origin'[m] = edition
      BY <1>5, <1>t, <2>1 DEF SelectPair
    <3> QED
      BY <1>5, <2>1, <3>1, PairSelected DEF SelectPair
  <2>2. CASE o = m /\ hookRow # "listed"
    <3>1. fanOut'[m].at = "over" /\ UNCHANGED origin
      BY <1>5, <1>t, <2>2 DEF SelectPair
    <3> QED
      BY <1>0, <1>5, <1>o, <2>2, <3>1, Lessened DEF SelectPair
  <2>3. CASE o # m
    <3>1. fanOut'[m] = fanOut[m] /\ origin'[m] = origin[m]
      BY <1>5, <1>t, <2>3 DEF SelectPair
    <3> QED
      BY <1>0, <1>5, <1>o, <3>1, Lessened DEF SelectPair
  <2> QED BY <2>1, <2>2, <2>3
<1>6. ASSUME NEW o \in Messages, ReadForTest(o) PROVE MessageInv(m)'
  <2>1. CASE o = m
    <3>1. fanOut'[m].pair = edition /\ origin'[m] = edition
      BY <1>6, <1>t, <2>1 DEF ReadForTest
    <3> QED
      BY <1>6, <2>1, <3>1, BoundBegins DEF ReadForTest
  <2>2. CASE o # m
    <3>1. due'[m] = due[m]
      BY <1>6, <2>2 DEF ReadForTest, From, Typed, SecretsTypeOK
    <3>2. fanOut'[m] = fanOut[m] /\ origin'[m] = origin[m]
      BY <1>6, <2>2, <1>t DEF ReadForTest
    <3> QED
      BY <1>0, <1>6, <1>o, <3>1, <3>2, Lessened DEF ReadForTest
  <2> QED BY <2>1, <2>2
<1>7. ASSUME NEW o \in Messages, InsertDelivery(o) PROVE MessageInv(m)'
  <2>1. outcome'[m] \in {outcome[m], "pending"}
    BY <1>7, <1>t DEF InsertDelivery
  <2>2. fanOut'[m] = fanOut[m] \/ /\ o = m /\ fanOut[m].at \in {"insert", "testInsert"}
                                  /\ fanOut'[m].pair = fanOut[m].pair
    BY <1>7, <1>t DEF InsertDelivery
  <2> QED
    BY <1>0, <1>7, <1>o, <2>1, <2>2, Lessened DEF InsertDelivery
<1>8. ASSUME NEW o \in Messages, EnqueueFirst(o) PROVE MessageInv(m)'
  <2>0. 1 \in Tries
    BY SecretsConstants DEF Tries
  <2>1. /\ \A x \in Messages : x # o => fanOut'[x] = fanOut[x] /\ outcome'[x] = outcome[x]
        /\ fanOut'[o].at = "over"
        /\ UNCHANGED <<edition, retry, origin, first, due, tangled>>
    BY <1>8, <1>t DEF EnqueueFirst, SetOutcome
  <2>2. CASE o = m
    <3>1. CASE sealed' = Added(m, 1, fanOut[m].pair) /\ UNCHANGED outcome
      BY <1>8, <2>1, <2>2, <3>1, FirstJob DEF EnqueueFirst
    <3>2. CASE UNCHANGED sealed
      BY <1>8, <2>1, <2>2, <3>2, FirstRefused DEF EnqueueFirst
    <3> QED
      BY <1>8, <2>2, <3>1, <3>2 DEF EnqueueFirst
  <2>3. CASE o # m
    <3>1. \A i \in Tries : sealed'[<<m, i>>] = sealed[<<m, i>>]
      <4>1. sealed' = sealed \/ sealed' = Added(o, 1, fanOut[o].pair)
        BY <1>8 DEF EnqueueFirst
      <4> QED
        BY <2>0, <2>3, <4>1, AddedAt
    <3> QED
      BY <1>0, <1>o, <2>1, <2>3, <3>1, Untouched
  <2> QED BY <2>2, <2>3
<1>9. ASSUME NEW o \in Messages, NEW n \in Tries, NEW jobs, JobTable(jobs), Removed(o, n, jobs),
             o # m, \A i \in Tries : jobs[<<m, i>>] = sealed[<<m, i>>],
             fanOut'[m] = fanOut[m], outcome'[m] = outcome[m],
             UNCHANGED <<edition, retry, origin, first, due>>
      PROVE  MessageInv(m)'
  <2>1. \A i \in Tries : sealed'[<<m, i>>] = sealed[<<m, i>>]
    BY <1>9 DEF Removed, JobTable
  <2>2. m \in tangled => m \in tangled'
    BY <1>9 DEF Removed
  <2> QED
    BY <1>0, <1>9, <1>o, <2>1, <2>2, Untouched
<1>10. ASSUME NEW o \in Messages, NEW n \in Tries, sealed[<<o, n>>] # 0, Removed(o, n, sealed),
              o # m => outcome'[m] = outcome[m],
              UNCHANGED <<rowsOfHook, fanOut, retry, manual, origin, first, due>>
       PROVE  MessageInv(m)'
  <2>1. CASE o = m
    BY <1>10, <2>1, ChainEnds
  <2>2. CASE o # m
    BY <1>0, <1>9, <1>10, <2>2
  <2> QED BY <2>1, <2>2
<1>11. ASSUME NEW o \in Messages, NEW n \in Tries, SkipDuplicate(o, n) PROVE MessageInv(m)'
  BY <1>10, <1>11 DEF SkipDuplicate
<1>12. ASSUME NEW o \in Messages, NEW n \in Tries, Succeed(o, n) PROVE MessageInv(m)'
  <2>1. o # m => outcome'[m] = outcome[m]
    BY <1>12, <1>t DEF Succeed, SetOutcome
  <2> QED
    BY <1>10, <1>12, <2>1 DEF Succeed
<1>13. ASSUME NEW o \in Messages, NEW n \in Tries, FailForGood(o, n) PROVE MessageInv(m)'
  <2>1. o # m => outcome'[m] = outcome[m]
    BY <1>13, <1>t DEF FailForGood, SetOutcome
  <2> QED
    BY <1>10, <1>13, <2>1 DEF FailForGood
<1>14. ASSUME NEW o \in Messages, NEW n \in Tries, FailAndRetry(o, n) PROVE MessageInv(m)'
  <2> DEFINE e == sealed[<<o, n>>]
             jobs == Added(o, n + 1, e)
  <2>1. /\ n \in Nat /\ n + 1 \in Tries /\ n + 1 <= MaxTries + manual /\ e \in Editions
    BY <1>14, SecretsConstants DEF FailAndRetry, Tries, Typed, SecretsTypeOK
  <2>2. JobTable(jobs)
    BY <2>1, AddedTable
  <2>3. /\ e # 0 /\ Removed(o, n, jobs)
        /\ UNCHANGED <<edition, fanOut, retry, origin, first, due, manual>>
    BY <1>14 DEF FailAndRetry
  <2>4. /\ o # m => outcome'[m] = outcome[m]
        /\ outcome'[o] \in {"absent", "pending"}
    BY <1>14, <1>t DEF FailAndRetry, SetOutcome
  <2>5. CASE o = m
    BY <2>1, <2>2, <2>3, <2>4, <2>5, ChainGoesOn
  <2>6. CASE o # m
    <3>1. \A i \in Tries : jobs[<<m, i>>] = sealed[<<m, i>>]
      BY <2>1, <2>6 DEF Added, Typed, SecretsTypeOK
    <3> HIDE DEF jobs
    <3> QED
      BY <1>9, <2>2, <2>3, <2>4, <2>6, <3>1
  <2> QED BY <2>5, <2>6
<1>15. ASSUME NEW o \in Messages, NEW a \in Retriers, ReadDelivery(a, o) PROVE MessageInv(m)'
  <2>1. tries[o] + 1 \in Tries
    <3>1. /\ tries[o] \in {0} \cup Tries /\ tries[o] <= MaxTries + manual
          /\ manual < MaxManual /\ manual \in Nat
      BY <1>15 DEF ReadDelivery, Typed, SecretsTypeOK, Numbered
    <3>2. tries[o] \in Nat
      BY <3>1 DEF Tries
    <3> QED
      BY <3>1, <3>2, SecretsConstants DEF Tries
  <2>2. CASE o = m
    BY <1>15, <2>1, <2>2, RetryBegins
  <2>3. CASE o # m
    <3>1. From(tries[o] + 1, edition, o) /\ first' = [first EXCEPT ![o] = first'[o]]
      BY <1>15, <1>t DEF ReadDelivery
    <3>2. due'[m] = due[m] /\ first'[m] = first[m]
      BY <1>t, <2>3, <3>1 DEF From, Typed, SecretsTypeOK
    <3>3. /\ retry'[a] # NoRetry => retry'[a].of = o
          /\ \A b \in Retriers : b # a => retry'[b] = retry[b]
      BY <1>15, <1>t DEF ReadDelivery
    <3>4. \A b \in About(m)' : b \in About(m) /\ retry'[b] = retry[b]
      BY <2>3, <3>3 DEF About
    <3>5. /\ UNCHANGED <<rowsOfHook, fanOut, rowsOfMessage, sealed, redelivered, origin>>
          /\ tangled \subseteq tangled'
      BY <1>15 DEF ReadDelivery
    <3> QED
      BY <1>0, <3>2, <3>4, <3>5, Lessened
  <2> QED BY <2>2, <2>3
<1>16. ASSUME NEW a \in Retriers, retry[a] # NoRetry, NEW r, r = NoRetry \/ a \notin About(m),
              r # NoRetry => r.of = retry[a].of, retry' = [retry EXCEPT ![a] = r],
              outcome'[m] \in {outcome[m], "absent", "pending"},
              UNCHANGED <<rowsOfHook, fanOut, sealed, secretsHistory>>
       PROVE  MessageInv(m)'
  <2>1. retry'[a] = r /\ \A b \in Retriers : b # a => retry'[b] = retry[b]
    BY <1>16, <1>t
  <2>2. \A b \in About(m)' : b \in About(m) /\ retry'[b] = retry[b]
    BY <1>16, <2>1 DEF About
  <2> QED
    BY <1>0, <1>16, <2>2, Untouched
<1>17. ASSUME NEW a \in Retriers, retry[a].at \in {"read", "reset", "enqueue"}
       PROVE  retry[a] # NoRetry /\ (a \in About(m) <=> retry[a].of = m)
  BY <1>17 DEF NoRetry, About
<1>18. ASSUME NEW a \in Retriers, FetchPair(a) PROVE MessageInv(m)'
  <2> DEFINE r == IF Registered THEN [retry[a] EXCEPT !.pair = edition, !.at = "reset"] ELSE NoRetry
  <2>1. /\ retry[a].at = "read" /\ retry' = [retry EXCEPT ![a] = r]
        /\ UNCHANGED <<rowsOfHook, fanOut, rowsOfMessage, sealed, manual, redelivered, secretsHistory>>
    BY <1>18, <1>t DEF FetchPair
  <2>2. retry[a] # NoRetry /\ (a \in About(m) <=> retry[a].of = m)
    BY <1>17, <2>1
  <2>3. r # NoRetry => r.of = retry[a].of /\ r.n = retry[a].n /\ r.pair = edition /\ r.at = "reset"
    BY <2>2 DEF Typed, SecretsTypeOK
  <2> HIDE DEF r
  <2>4. CASE r = NoRetry \/ a \notin About(m)
    BY <1>16, <2>1, <2>2, <2>3, <2>4
  <2>5. CASE r # NoRetry /\ a \in About(m)
    <3>1. retry'[a] = r /\ \A b \in Retriers : b # a => retry'[b] = retry[b]
      BY <1>t, <2>1
    <3> QED
      BY <2>1, <2>2, <2>3, <2>5, <3>1, RetryGoesOn
  <2> QED BY <2>4, <2>5
<1>19. ASSUME NEW a \in Retriers, ResetDelivery(a) PROVE MessageInv(m)'
  <2> DEFINE r == IF outcome[retry[a].of] = "absent" THEN NoRetry ELSE [retry[a] EXCEPT !.at = "enqueue"]
  <2>1. /\ retry[a].at = "reset" /\ retry' = [retry EXCEPT ![a] = r]
        /\ UNCHANGED <<rowsOfHook, fanOut, tries, sealed, manual, redelivered, secretsHistory>>
    BY <1>19, <1>t DEF ResetDelivery
  <2>2. retry[a] # NoRetry /\ (a \in About(m) <=> retry[a].of = m)
    BY <1>17, <2>1
  <2>3. /\ outcome'[m] \in {outcome[m], "pending"}
        /\ a \in About(m) => outcome'[m] \in {"absent", "pending"}
    BY <1>19, <1>t, <2>2 DEF ResetDelivery, SetOutcome
  <2>4. r # NoRetry => r.of = retry[a].of /\ r.n = retry[a].n /\ r.pair = retry[a].pair /\ r.at = "enqueue"
    BY <2>2 DEF Typed, SecretsTypeOK
  <2> HIDE DEF r
  <2>5. CASE r = NoRetry \/ a \notin About(m)
    BY <1>16, <2>1, <2>2, <2>3, <2>4, <2>5
  <2>6. CASE r # NoRetry /\ a \in About(m)
    <3>1. retry'[a] = r /\ \A b \in Retriers : b # a => retry'[b] = retry[b]
      BY <1>t, <2>1
    <3> QED
      BY <2>1, <2>2, <2>3, <2>4, <2>6, <3>1, RetryGoesOn
  <2> QED BY <2>5, <2>6
<1>20. ASSUME NEW a \in Retriers, EnqueueRetry(a) PROVE MessageInv(m)'
  <2> DEFINE o == retry[a].of
             n == retry[a].n
             e == retry[a].pair
  <2>1. /\ retry[a].at = "enqueue" /\ retry' = [retry EXCEPT ![a] = NoRetry]
        /\ UNCHANGED <<rowsOfHook, fanOut, rowsOfMessage, manual, redelivered, secretsHistory>>
    BY <1>20 DEF EnqueueRetry
  <2>2. retry[a] # NoRetry /\ (a \in About(m) <=> o = m)
    BY <1>17, <2>1
  <2>3. o \in Messages /\ n \in Tries /\ e \in Editions
    BY <2>2, RetryFields
  <2>4. CASE sealed' = Added(o, n, e) /\ o = m
    BY <2>1, <2>2, <2>4, RetryAdds
  <2>5. CASE sealed' = sealed \/ (sealed' = Added(o, n, e) /\ o # m)
    <3> HIDE DEF o, n, e
    <3>1. \A i \in Tries : sealed'[<<m, i>>] = sealed[<<m, i>>]
      BY <2>3, <2>5 DEF Added, Typed, SecretsTypeOK
    <3>2. \A b \in About(m)' : b \in About(m) /\ retry'[b] = retry[b]
      BY <1>t, <2>1 DEF About
    <3> QED
      BY <1>0, <2>1, <3>1, <3>2, Untouched
  <2>6. sealed' = sealed \/ sealed' = Added(o, n, e)
    BY <1>20 DEF EnqueueRetry
  <2> HIDE DEF o, n, e
  <2> QED
    BY <2>4, <2>5, <2>6
<1> QED
  BY <1>1, <1>2, <1>3, <1>4, <1>5, <1>6, <1>7, <1>8, <1>11, <1>12, <1>13, <1>14, <1>15,
     <1>18, <1>19, <1>20 DEF SecretsNext

\* For every number of deliveries, administrators, attempts and rotations, a
\* job of WebhookSecrets carries the pair its delivery began with, and once an
\* administrator has retried, none older than that request.
THEOREM SecretsAreAsDocumented == SecretsSpec => []SecretAsDocumented
<1>1. SecretsInit => SecretsInv
  BY SecretsTypedInit, SecretsInvInit DEF SecretsInv, Typed
<1>2. SecretsInv /\ [SecretsNext]_secretsVars => SecretsInv'
  <2> SUFFICES ASSUME Typed, \A m \in Messages : MessageInv(m), [SecretsNext]_secretsVars
               PROVE  Typed' /\ \A m \in Messages : MessageInv(m)'
    BY DEF SecretsInv, Typed
  <2>1. Typed'
    BY SecretsTypedStep
  <2>2. CASE SecretsNext
    BY <2>1, <2>2, SecretsInvStep
  <2>3. CASE UNCHANGED secretsVars
    <3>1. ASSUME NEW m \in Messages PROVE MessageInv(m)'
      <4>1. edition \in Nat /\ UNCHANGED <<edition, fanOut, outcome, sealed, retry, secretsHistory>>
        BY <2>3 DEF secretsVars, rowsOfHook, rowsOfMessage, Typed, SecretsTypeOK, Editions
      <4>2. About(m)' = About(m)
        BY <4>1 DEF About
      <4> QED
        BY <2>1, <4>1, <4>2, Untouched DEF secretsHistory
    <3> QED
      BY <2>1, <3>1
  <2> QED
    BY <2>1, <2>2, <2>3
<1>3. SecretsInv => SecretAsDocumented
  BY DEF SecretsInv, MessageInv, Copied, OneCarrier, SecretAsDocumented
<1> QED
  BY <1>1, <1>2, <1>3, PTL DEF SecretsSpec

-----------------------------------------------------------------------------
(* Whom a key lets in.  A request is granted as soon as it holds what would *)
(* let it pass: the row it is going to read, or the scopes it has read.    *)

Holding(c) ==
  /\ visit[c].step = "lookup" /\ Allows(key, visit[c].route) => c \in granted
  /\ visit[c].step = "found" =>
       \A S \in visit[c].read : HasScope(S, visit[c].route) => c \in granted
  /\ visit[c].step = "handling" /\ visit[c].type = "api_key" => c \in granted

GrantedInv ==
  /\ order = key
  /\ \E S : visit \in [Callers -> S]
  /\ \A c \in Callers : Holding(c)

\* A change of the row that is what was ordered grants who is waiting for it.
LEMMA OrderedHolds ==
  ASSUME GrantedInv, Ordered(key'), UNCHANGED visit
  PROVE  GrantedInv'
<1>1. order' = key'
  BY DEF Ordered
<1>2. ASSUME NEW c \in Callers PROVE Holding(c)'
  <2>1. granted \subseteq granted'
    BY DEF Ordered
  <2>2. visit'[c].step = "lookup" /\ Allows(key', visit'[c].route) => c \in granted'
    BY DEF Ordered, Underway
  <2> QED
    BY <2>1, <2>2 DEF GrantedInv, Holding, Allows
<1> QED
  BY <1>1, <1>2 DEF GrantedInv

\* A step of one request leaves the others as they are.
LEMMA OneHolds ==
  ASSUME GrantedInv, NEW c \in Callers, NEW v, visit' = [visit EXCEPT ![c] = v],
         UNCHANGED <<key, order>>, granted \subseteq granted',
         v.step = "lookup" /\ Allows(key, v.route) => c \in granted',
         v.step = "found" => \A S \in v.read : HasScope(S, v.route) => c \in granted',
         v.step = "handling" /\ v.type = "api_key" => c \in granted'
  PROVE  GrantedInv'
<1>1. visit'[c] = v /\ \E S : visit' \in [Callers -> S]
  <2>1. PICK S : visit \in [Callers -> S]
    BY DEF GrantedInv
  <2>2. visit' \in [Callers -> S \cup {v}]
    BY <2>1
  <2> QED
    BY <2>1, <2>2
<1>2. Holding(c)'
  BY <1>1 DEF GrantedInv, Holding, Allows, Usable
<1>3. ASSUME NEW d \in Callers, d # c PROVE Holding(d)'
  <2>1. visit'[d] = visit[d]
    BY <1>3 DEF GrantedInv
  <2> QED
    BY <1>3, <2>1 DEF GrantedInv, Holding, Allows, Usable
<1> QED
  BY <1>1, <1>2, <1>3 DEF GrantedInv

LEMMA GrantedInit == AuthInit => GrantedInv
<1> SUFFICES ASSUME AuthInit PROVE GrantedInv
  OBVIOUS
<1>1. visit \in [Callers -> {New}]
  BY DEF AuthInit
<1> QED
  BY <1>1 DEF AuthInit, GrantedInv, Holding, New

\* A request that is over, or a token's, needs no grant.
LEMMA OverHolds ==
  ASSUME GrantedInv, NEW c \in Callers, visit' = [visit EXCEPT ![c] = Over],
         key' = key, order' = order, granted' = granted
  PROVE  GrantedInv'
<1>1. Over.step = "done"
  BY DEF Over
<1> QED
  BY <1>1, OneHolds

LEMMA TokenHolds ==
  ASSUME GrantedInv, NEW c \in Callers, NEW route,
         visit' = [visit EXCEPT ![c] = [step |-> "handling", route |-> route, type |-> "jwt"]],
         key' = key, order' = order, granted' = granted
  PROVE  GrantedInv'
<1> DEFINE v == [step |-> "handling", route |-> route, type |-> "jwt"]
<1>1. v.step = "handling" /\ v.type = "jwt"
  OBVIOUS
<1>2. visit' = [visit EXCEPT ![c] = v]
  OBVIOUS
<1> HIDE DEF v
<1> QED
  BY <1>1, <1>2, OneHolds

LEMMA GrantedStep == GrantedInv /\ [AuthNext]_authVars => GrantedInv'
<1> SUFFICES ASSUME GrantedInv, [AuthNext]_authVars PROVE GrantedInv'
  OBVIOUS
<1>0. order = key
  BY DEF GrantedInv
<1>1. ASSUME NEW S \in ScopeSets, CreateKey(S) PROVE GrantedInv'
  BY <1>1, OrderedHolds DEF CreateKey
<1>2. ASSUME NEW m \in Managers, NEW body \in Bodies, BeginUpdate(m, body) PROVE GrantedInv'
  BY <1>2 DEF BeginUpdate, GrantedInv, Holding, Allows, Usable
<1>3. ASSUME NEW m \in Managers, BeginDelete(m) PROVE GrantedInv'
  BY <1>3 DEF BeginDelete, GrantedInv, Holding, Allows, Usable
<1>4. ASSUME NEW m \in Managers, Update(m) PROVE GrantedInv'
  <2>1. CASE key.row = "there"
    <3>1. key' = AsOrdered(order, edit[m].body)
      BY <1>0, <1>4, <2>1 DEF Update, AsOrdered, Patched
    <3> QED
      BY <1>4, <2>1, <3>1, OrderedHolds DEF Update
  <2>2. CASE key.row # "there"
    BY <1>4, <2>2 DEF Update, GrantedInv, Holding, Allows, Usable
  <2> QED BY <2>1, <2>2
<1>5. ASSUME NEW m \in Managers, Remove(m) PROVE GrantedInv'
  <2>1. key' = [order EXCEPT !.row = "deleted"]
    BY <1>0, <1>5 DEF Remove
  <2> QED
    BY <1>5, <2>1, OrderedHolds DEF Remove
<1>6. ASSUME NEW c \in Callers, NEW route \in Routes, PresentKey(c, route) PROVE GrantedInv'
  <2> DEFINE v == [step |-> "lookup", route |-> route]
  <2>1. Allows(key, route) => c \in granted'
    BY <1>0, <1>6 DEF PresentKey
  <2>2. /\ visit' = [visit EXCEPT ![c] = v] /\ granted \subseteq granted'
        /\ UNCHANGED <<key, order>>
    BY <1>6 DEF PresentKey
  <2>3. v.step = "lookup" /\ v.route = route
    OBVIOUS
  <2> HIDE DEF v
  <2> QED
    BY <2>1, <2>2, <2>3, OneHolds
<1>7. ASSUME NEW c \in Callers, NEW route \in Routes, NEW t \in Tokens,
             PresentToken(c, route, t)
      PROVE  GrantedInv'
  <2>1. key' = key /\ order' = order /\ granted' = granted
    BY <1>7 DEF PresentToken
  <2>2. CASE Accepted(t) /\ Passes(route, TokenUser(t))
    BY <1>7, <2>1, <2>2, TokenHolds DEF PresentToken
  <2>3. CASE ~(Accepted(t) /\ Passes(route, TokenUser(t)))
    BY <1>7, <2>1, <2>3, OverHolds DEF PresentToken
  <2> QED BY <2>2, <2>3
<1>8. ASSUME NEW c \in Callers, FindActive(c) PROVE GrantedInv'
  <2> DEFINE read == {k.scopes : k \in {x \in {key} : Usable(x)}}
             v == [step |-> "found", route |-> visit[c].route, read |-> read]
  <2>1. visit' = [visit EXCEPT ![c] = v] /\ UNCHANGED <<key, order, granted>>
    BY <1>8 DEF FindActive
  <2>2. v.step = "found" /\ v.route = visit[c].route /\ v.read = read
    OBVIOUS
  <2>3. ASSUME NEW S \in read, HasScope(S, visit[c].route) PROVE c \in granted
    BY <1>8, <2>3 DEF FindActive, GrantedInv, Holding, Allows
  <2> HIDE DEF v
  <2> QED
    BY <2>1, <2>2, <2>3, OneHolds
<1>9. ASSUME NEW c \in Callers, ResolveKey(c) PROVE GrantedInv'
  <2>0. key' = key /\ order' = order /\ granted' = granted
    BY <1>9 DEF ResolveKey
  <2> DEFINE v == [step |-> "handling", route |-> visit[c].route, type |-> "api_key"]
  <2>1. CASE visit' = [visit EXCEPT ![c] = Over]
    BY <2>0, <2>1, OverHolds
  <2>2. CASE /\ visit' = [visit EXCEPT ![c] = v]
             /\ \E S \in visit[c].read : HasScope(S, visit[c].route)
    <3>1. c \in granted
      BY <1>9, <2>2 DEF ResolveKey, GrantedInv, Holding
    <3>2. v.step = "handling"
      OBVIOUS
    <3> HIDE DEF v
    <3> QED
      BY <2>0, <2>2, <3>1, <3>2, OneHolds
  <2> QED
    BY <1>9, <2>1, <2>2 DEF ResolveKey, Refuse
<1>10. ASSUME NEW c \in Callers, Respond(c) PROVE GrantedInv'
  <2>1. visit' = [visit EXCEPT ![c] = Over]
    BY <1>10 DEF Respond, Refuse
  <2> QED
    BY <1>10, <2>1, OverHolds DEF Respond
<1>11. ASSUME NEW c \in Callers, CountUse(c) PROVE GrantedInv'
  BY <1>11 DEF CountUse, GrantedInv, Holding, Allows, Usable
<1>12. ASSUME NEW c \in Callers, CountError(c) PROVE GrantedInv'
  BY <1>12 DEF CountError, GrantedInv, Holding, Allows, Usable
<1>13. CASE UNCHANGED authVars
  BY <1>13 DEF authVars, GrantedInv, Holding, Allows, Usable
<1> QED
  BY <1>1, <1>2, <1>3, <1>4, <1>5, <1>6, <1>7, <1>8, <1>9, <1>10, <1>11, <1>12, <1>13
  DEF AuthNext

\* For every number of requests and managers: a handler runs for a key only if the
\* orders of the administrators allowed that at some moment of the request.
THEOREM KeysAreServedAsOrdered == AuthSpec => []ServedAsOrdered
<1>1. GrantedInv => ServedAsOrdered
  BY DEF GrantedInv, Holding, ServedAsOrdered
<1> QED
  BY <1>1, GrantedInit, GrantedStep, PTL DEF AuthSpec

-----------------------------------------------------------------------------
(* What the counters count.  Every request is admitted once and fails once *)
(* at most, and has one increment under way for each.                      *)

InFlight(k) == {c \in Callers : <<k, c>> \in flight}

CountInv ==
  /\ \E S : visit \in [Callers -> S]
  /\ admitted \subseteq Callers /\ failed \subseteq Callers
  /\ \A c \in admitted : visit[c].step \in {"handling", "done"}
  /\ \A c \in failed : visit[c].step = "done"
  /\ InFlight("use") \subseteq admitted /\ InFlight("error") \subseteq failed
  /\ ~uncounted =>
       /\ uses = Cardinality(admitted \ InFlight("use"))
       /\ errors = Cardinality(failed \ InFlight("error"))

LEMMA CountInit == AuthInit => CountInv
<1> SUFFICES ASSUME AuthInit PROVE CountInv
  OBVIOUS
<1>1. visit \in [Callers -> {New}]
  BY DEF AuthInit
<1>2. admitted \ InFlight("use") = {} /\ failed \ InFlight("error") = {}
  BY DEF AuthInit
<1> QED
  BY <1>1, <1>2, FS_EmptySet DEF AuthInit, CountInv, InFlight

\* A step of one request which may admit it or fail it, and sends an increment
\* for either.
LEMMA CountAdds ==
  ASSUME CountInv, NEW c \in Callers, NEW v, visit' = [visit EXCEPT ![c] = v],
         admitted \subseteq admitted', admitted' \subseteq admitted \cup {c},
         failed \subseteq failed', failed' \subseteq failed \cup {c},
         InFlight("use")' = InFlight("use") \cup (admitted' \ admitted),
         InFlight("error")' = InFlight("error") \cup (failed' \ failed),
         uses' = uses, errors' = errors, uncounted' = uncounted,
         c \in admitted' => v.step \in {"handling", "done"},
         c \in failed' => v.step = "done"
  PROVE  CountInv'
<1>1. visit'[c] = v /\ \E S : visit' \in [Callers -> S]
  <2>1. PICK S : visit \in [Callers -> S]
    BY DEF CountInv
  <2>2. visit' \in [Callers -> S \cup {v}]
    BY <2>1
  <2> QED
    BY <2>1, <2>2
<1>2. \A d \in Callers : d # c => visit'[d] = visit[d]
  BY DEF CountInv
<1>5. admitted' \ InFlight("use")' = admitted \ InFlight("use")
  BY DEF CountInv
<1>6. failed' \ InFlight("error")' = failed \ InFlight("error")
  BY DEF CountInv
<1>7. \A d \in admitted' : visit'[d].step \in {"handling", "done"}
  BY <1>1, <1>2 DEF CountInv
<1>8. \A d \in failed' : visit'[d].step = "done"
  BY <1>1, <1>2 DEF CountInv
<1>9. /\ admitted' \subseteq Callers /\ failed' \subseteq Callers
      /\ InFlight("use")' \subseteq admitted' /\ InFlight("error")' \subseteq failed'
  BY DEF CountInv
<1>10. ~uncounted' =>
          /\ uses' = Cardinality(admitted' \ InFlight("use")')
          /\ errors' = Cardinality(failed' \ InFlight("error")')
  BY <1>5, <1>6 DEF CountInv
<1> QED
  BY <1>1, <1>7, <1>8, <1>9, <1>10 DEF CountInv

\* ... or does neither.
LEMMA CountMoves ==
  ASSUME CountInv, NEW c \in Callers, NEW v, visit' = [visit EXCEPT ![c] = v],
         c \in admitted => v.step \in {"handling", "done"}, c \in failed => v.step = "done",
         UNCHANGED <<flight, uses, errors, admitted, failed, uncounted>>
  PROVE  CountInv'
<1>1. /\ InFlight("use")' = InFlight("use") \cup (admitted' \ admitted)
      /\ InFlight("error")' = InFlight("error") \cup (failed' \ failed)
  BY DEF InFlight
<1> QED
  BY <1>1, CountAdds

\* One more of a finite set has landed.
LEMMA LandedOneMore ==
  ASSUME NEW S, IsFiniteSet(S), NEW T \in SUBSET S, NEW c \in T
  PROVE  Cardinality(S \ (T \ {c})) = Cardinality(S \ T) + 1
<1>1. IsFiniteSet(S \ T) /\ c \notin S \ T
  BY FS_Subset
<1>2. S \ (T \ {c}) = (S \ T) \cup {c}
  OBVIOUS
<1> QED
  BY <1>1, <1>2, FS_AddElement

LEMMA CountStep == CountInv /\ [AuthNext]_authVars => CountInv'
<1> SUFFICES ASSUME CountInv, [AuthNext]_authVars PROVE CountInv'
  OBVIOUS
<1>0. Over.step = "done" /\ New.step = "new"
  BY DEF Over, New
<1>1. CASE UNCHANGED <<visit, flight, uses, errors, admitted, failed, uncounted>>
  BY <1>1 DEF CountInv, InFlight
<1>2. ASSUME NEW c \in Callers, NEW route \in Routes, PresentKey(c, route) PROVE CountInv'
  <2>1. c \notin admitted /\ c \notin failed
    BY <1>0, <1>2 DEF PresentKey, CountInv
  <2> QED
    BY <1>2, <2>1, CountMoves DEF PresentKey
<1>3. ASSUME NEW c \in Callers, NEW route \in Routes, NEW t \in Tokens,
             PresentToken(c, route, t)
      PROVE  CountInv'
  <2>1. c \notin admitted /\ c \notin failed
    BY <1>0, <1>3 DEF PresentToken, CountInv
  <2> QED
    BY <1>3, <2>1, CountMoves DEF PresentToken
<1>4. ASSUME NEW c \in Callers, FindActive(c) PROVE CountInv'
  <2>1. c \notin admitted /\ c \notin failed
    BY <1>4 DEF FindActive, CountInv
  <2> QED
    BY <1>4, <2>1, CountMoves DEF FindActive
<1>5. ASSUME NEW c \in Callers, ResolveKey(c) PROVE CountInv'
  <2>0. /\ c \notin admitted /\ c \notin failed
        /\ UNCHANGED <<uses, errors, uncounted>>
    BY <1>5 DEF ResolveKey, CountInv
  <2> DEFINE v == [step |-> "handling", route |-> visit[c].route, type |-> "api_key"]
  <2>1. CASE visit' = [visit EXCEPT ![c] = Over] /\ UNCHANGED <<flight, admitted, failed>>
    BY <2>0, <2>1, CountMoves
  <2>2. CASE Refuse(c, {}) /\ UNCHANGED admitted
    <3>1. /\ InFlight("use")' = InFlight("use") \cup (admitted' \ admitted)
          /\ InFlight("error")' = InFlight("error") \cup (failed' \ failed)
      BY <2>0, <2>2 DEF Refuse, InFlight
    <3>2. admitted' = admitted /\ failed' = failed \cup {c} /\ visit' = [visit EXCEPT ![c] = Over]
      BY <2>2 DEF Refuse
    <3> QED
      BY <1>0, <2>0, <3>1, <3>2, CountAdds
  <2>3. CASE /\ visit' = [visit EXCEPT ![c] = v] /\ admitted' = admitted \cup {c}
             /\ flight' = flight \cup {<<"use", c>>} /\ UNCHANGED failed
    <3>1. /\ InFlight("use")' = InFlight("use") \cup (admitted' \ admitted)
          /\ InFlight("error")' = InFlight("error") \cup (failed' \ failed)
      BY <2>0, <2>3 DEF InFlight
    <3>2. v.step = "handling"
      OBVIOUS
    <3> HIDE DEF v
    <3> QED
      BY <2>0, <2>3, <3>1, <3>2, CountAdds
  <2>4. CASE Refuse(c, {"use"}) /\ admitted' = admitted \cup {c}
    <3>1. /\ InFlight("use")' = InFlight("use") \cup (admitted' \ admitted)
          /\ InFlight("error")' = InFlight("error") \cup (failed' \ failed)
      BY <2>0, <2>4 DEF Refuse, InFlight
    <3>2. failed' = failed \cup {c} /\ visit' = [visit EXCEPT ![c] = Over]
      BY <2>4 DEF Refuse
    <3> QED
      BY <1>0, <2>0, <2>4, <3>1, <3>2, CountAdds
  <2> QED
    BY <1>5, <2>1, <2>2, <2>3, <2>4 DEF ResolveKey
<1>6. ASSUME NEW c \in Callers, Respond(c) PROVE CountInv'
  <2>1. CASE visit' = [visit EXCEPT ![c] = Over] /\ UNCHANGED <<flight, failed>>
    BY <1>0, <1>6, <2>1, CountMoves DEF Respond
  <2>2. CASE Refuse(c, {})
    <3>1. c \notin failed /\ UNCHANGED <<uses, errors, uncounted>>
      BY <1>6 DEF Respond, CountInv
    <3>2. /\ InFlight("use")' = InFlight("use") \cup (admitted' \ admitted)
          /\ InFlight("error")' = InFlight("error") \cup (failed' \ failed)
      BY <1>6, <2>2, <3>1 DEF Refuse, Respond, InFlight
    <3>3. /\ admitted' = admitted /\ failed' = failed \cup {c}
          /\ visit' = [visit EXCEPT ![c] = Over]
      BY <1>6, <2>2 DEF Refuse, Respond
    <3> QED
      BY <1>0, <3>1, <3>2, <3>3, CountAdds
  <2> QED
    BY <1>6, <2>1, <2>2 DEF Respond
<1>7. ASSUME NEW c \in Callers, CountUse(c) PROVE CountInv'
  <2>1. /\ flight' = flight \ {<<"use", c>>}
        /\ UNCHANGED <<visit, errors, admitted, failed>>
        /\ ~uncounted' => uses' = uses + 1 /\ ~uncounted
        /\ c \in InFlight("use")
    BY <1>7 DEF CountUse, InFlight
  <2>2. /\ InFlight("use")' = InFlight("use") \ {c}
        /\ InFlight("error")' = InFlight("error")
    BY <2>1 DEF InFlight
  <2>3. Cardinality(admitted \ (InFlight("use") \ {c})) = Cardinality(admitted \ InFlight("use")) + 1
    BY <2>1, LandedOneMore, FS_Subset, AuthenticationConstants DEF CountInv
  <2> QED
    BY <2>1, <2>2, <2>3 DEF CountInv
<1>8. ASSUME NEW c \in Callers, CountError(c) PROVE CountInv'
  <2>1. /\ flight' = flight \ {<<"error", c>>}
        /\ UNCHANGED <<visit, uses, admitted, failed>>
        /\ ~uncounted' => errors' = errors + 1 /\ ~uncounted
        /\ c \in InFlight("error")
    BY <1>8 DEF CountError, InFlight
  <2>2. /\ InFlight("error")' = InFlight("error") \ {c}
        /\ InFlight("use")' = InFlight("use")
    BY <2>1 DEF InFlight
  <2>3. Cardinality(failed \ (InFlight("error") \ {c})) = Cardinality(failed \ InFlight("error")) + 1
    BY <2>1, LandedOneMore, FS_Subset, AuthenticationConstants DEF CountInv
  <2> QED
    BY <2>1, <2>2, <2>3 DEF CountInv
<1> QED
  BY <1>1, <1>2, <1>3, <1>4, <1>5, <1>6, <1>7, <1>8
  DEF AuthNext, authVars, CreateKey, BeginUpdate, BeginDelete, Update, Remove

\* Once its increments landed, the counters of a key are exact, whatever its
\* requests and managers do, unless an increment failed or met a revoked key.
THEOREM CountersAreExact == AuthSpec => []CountersFollow
<1>1. CountInv => CountersFollow
  <2>1. CountInv => /\ admitted \ InFlight("use") = {c \in admitted : <<"use", c>> \notin flight}
                    /\ failed \ InFlight("error") = {c \in failed : <<"error", c>> \notin flight}
    BY DEF CountInv, InFlight
  <2> QED
    BY <2>1 DEF CountInv, CountersFollow
<1> QED
  BY <1>1, CountInit, CountStep, PTL DEF AuthSpec
-----------------------------------------------------------------------------
(* DistanceStream.  Points of one session differ in recorded_at, so that a *)
(* point's rank is a place of its own and every place up to the number of   *)
(* points is taken.                                                         *)

Timed(S) == S \subseteq PointsOf /\ IsFiniteSet(S) /\ \A p, q \in S : p.t = q.t => p = q

Before(S, p) == {q \in S : q.t < p.t}

\* The points of S whose rank is at least a and less than b.
Ranked(S, a, b) == {p \in S : a <= RankIn(S, p) /\ RankIn(S, p) < b}

LEMMA PointTimes == \A p \in PointsOf : p.t \in Nat /\ p.at \in Int
BY StreamConstants DEF PointsOf

LEMMA SubsetTimed ==
  ASSUME NEW S, Timed(S), NEW T \in SUBSET S
  PROVE  Timed(T) /\ Cardinality(T) \in Nat /\ Cardinality(T) <= Cardinality(S)
BY FS_Subset, FS_CardinalityType DEF Timed

LEMMA RankType ==
  ASSUME NEW S, Timed(S), NEW p \in S
  PROVE  /\ RankIn(S, p) \in Nat /\ RankIn(S, p) < Cardinality(S)
         /\ RankIn(S, p) = Cardinality(Before(S, p)) /\ IsFiniteSet(Before(S, p))
<1>1. p.t \in Nat
  BY PointTimes DEF Timed
<1>2. Before(S, p) \subseteq S \ {p}
  BY <1>1 DEF Before
<1>3. IsFiniteSet(S \ {p}) /\ Cardinality(S \ {p}) = Cardinality(S) - 1 /\ Cardinality(S) \in Nat
  BY FS_RemoveElement, FS_CardinalityType DEF Timed
<1>4. /\ IsFiniteSet(Before(S, p)) /\ Cardinality(Before(S, p)) \in Nat
      /\ Cardinality(Before(S, p)) <= Cardinality(S \ {p})
  BY <1>2, <1>3, FS_Subset, FS_CardinalityType
<1> QED BY <1>3, <1>4 DEF RankIn, Before

LEMMA RankOrder ==
  ASSUME NEW S, Timed(S), NEW p \in S, NEW q \in S
  PROVE  /\ p.t < q.t <=> RankIn(S, p) < RankIn(S, q)
         /\ RankIn(S, p) = RankIn(S, q) => p = q
<1> DEFINE Less(x, y) == x.t < y.t => RankIn(S, x) < RankIn(S, y)
<1>1. ASSUME NEW x \in S, NEW y \in S, x.t < y.t PROVE RankIn(S, x) < RankIn(S, y)
  <2>1. x.t \in Nat /\ y.t \in Nat
    BY PointTimes DEF Timed
  <2>2. Before(S, x) \subseteq Before(S, y) /\ x \in Before(S, y) /\ x \notin Before(S, x)
    <3>1. \A z \in S : z.t \in Nat
      BY PointTimes DEF Timed
    <3> QED BY <1>1, <2>1, <3>1 DEF Before
  <2>3. /\ Cardinality(Before(S, x)) <= Cardinality(Before(S, y))
        /\ Cardinality(Before(S, x)) # Cardinality(Before(S, y))
    BY <2>2, RankType, FS_Subset
  <2> QED BY <2>3, RankType
<1>2. p.t \in Nat /\ q.t \in Nat /\ RankIn(S, p) \in Nat /\ RankIn(S, q) \in Nat
  BY PointTimes, RankType DEF Timed
<1>3. p.t = q.t => p = q
  BY DEF Timed
<1>4. (p.t < q.t => RankIn(S, p) < RankIn(S, q)) /\ (q.t < p.t => RankIn(S, q) < RankIn(S, p))
  BY <1>1
<1> QED BY <1>2, <1>3, <1>4

LEMMA IntervalCount ==
  ASSUME NEW a \in Nat, NEW b \in Nat, a <= b
  PROVE  IsFiniteSet(a..(b - 1)) /\ Cardinality(a..(b - 1)) = b - a
<1> DEFINE c == b - 1
<1>1. a \in Int /\ c \in Int
  OBVIOUS
<1> HIDE DEF c
<1>2. IsFiniteSet(a..c) /\ Cardinality(a..c) = IF a > c THEN 0 ELSE c - a + 1
  BY <1>1, FS_Interval
<1> QED BY <1>2 DEF c

LEMMA RankTaken ==
  ASSUME NEW S, Timed(S), NEW i \in Nat, i < Cardinality(S)
  PROVE  \E p \in S : RankIn(S, p) = i
<1> DEFINE n == Cardinality(S)
           f == [p \in S |-> RankIn(S, p)]
<1>1. n \in Nat
  BY FS_CardinalityType DEF Timed
<1>2. IsFiniteSet(0..(n - 1)) /\ Cardinality(0..(n - 1)) = n
  BY <1>1, IntervalCount
<1>3. \A p \in S : f[p] = RankIn(S, p) /\ f[p] \in 0..(n - 1)
  BY <1>1, RankType
<1>4. f \in Injection(S, 0..(n - 1))
  <2>1. f \in [S -> 0..(n - 1)]
    BY <1>3
  <2>2. \A p, q \in S : f[p] = f[q] => p = q
    BY RankOrder
  <2> QED BY <2>1, <2>2 DEF Injection, IsInjective
<1>5. f \in Surjection(S, 0..(n - 1))
  BY <1>2, <1>4, FS_Injection DEF Timed
<1>6. i \in 0..(n - 1)
  BY <1>1
<1> QED BY <1>3, <1>5, <1>6 DEF Surjection

\* There are as many points between two places as there are places.
LEMMA RankedCount ==
  ASSUME NEW S, Timed(S), NEW a \in Nat, NEW b \in Nat, a <= b, b <= Cardinality(S)
  PROVE  Cardinality(Ranked(S, a, b)) = b - a
<1> DEFINE T == Ranked(S, a, b)
           f == [p \in T |-> RankIn(S, p)]
<1>1. IsFiniteSet(a..(b - 1)) /\ Cardinality(a..(b - 1)) = b - a
  BY IntervalCount
<1>2. T \subseteq S /\ IsFiniteSet(T)
  BY SubsetTimed DEF Ranked, Timed
<1>3. \A p \in T : f[p] = RankIn(S, p) /\ f[p] \in a..(b - 1)
  BY RankType DEF Ranked
<1>4. f \in Injection(T, a..(b - 1))
  <2>1. f \in [T -> a..(b - 1)]
    BY <1>3
  <2>2. \A p, q \in T : f[p] = f[q] => p = q
    BY <1>2, RankOrder
  <2> QED BY <2>1, <2>2 DEF Injection, IsInjective
<1>5. f \in Surjection(T, a..(b - 1))
  <2>1. ASSUME NEW i \in a..(b - 1) PROVE \E p \in T : f[p] = i
    <3>1. i \in Nat /\ i < Cardinality(S)
      BY FS_CardinalityType DEF Timed
    <3>2. PICK p \in S : RankIn(S, p) = i
      BY <3>1, RankTaken
    <3> QED BY <3>2 DEF Ranked
  <2>2. f \in [T -> a..(b - 1)]
    BY <1>3
  <2> QED BY <2>1, <2>2 DEF Surjection
<1>6. Cardinality(T) = Cardinality(a..(b - 1))
  BY <1>1, <1>4, <1>5, FS_Injection
<1> QED BY <1>1, <1>6

-----------------------------------------------------------------------------
(* The sum of lengths over sets of legs.                                   *)

LEMMA UnitsFinite ==
  ASSUME NEW S, IsFiniteSet(S), NEW f, \A x \in S : f[x] \in Nat
  PROVE  IsFiniteSet(Units(f, S)) /\ SumOver(f, S) \in Nat
<1> DEFINE U(x) == {x} \X (1..f[x])
           g == [x \in S |-> U(x)]
           R == {U(x) : x \in S}
<1>1. \A x \in S : IsFiniteSet(U(x))
  <2> TAKE x \in S
  <2>1. IsFiniteSet({x})
    BY FS_Singleton
  <2>2. IsFiniteSet(1..f[x])
    BY FS_Interval
  <2> QED BY <2>1, <2>2, FS_Product
<1>2. IsFiniteSet(R)
  <2>1. g \in Surjection(S, R)
    BY DEF Surjection
  <2> QED BY <2>1, FS_Surjection
<1>3. IsFiniteSet(UNION R)
  <2>1. \A T \in R : IsFiniteSet(T)
    BY <1>1
  <2> QED BY <1>2, <2>1, FS_UNION
<1> QED BY <1>3, FS_CardinalityType DEF Units, SumOver

LEMMA UnitsMember ==
  ASSUME NEW S, NEW f, NEW u
  PROVE  u \in Units(f, S) <=> \E x \in S : u \in {x} \X (1..f[x])
BY DEF Units

LEMMA SumOfUnion ==
  ASSUME NEW S, IsFiniteSet(S), NEW T, IsFiniteSet(T), S \cap T = {},
         NEW f, \A x \in S \cup T : f[x] \in Nat
  PROVE  SumOver(f, S \cup T) = SumOver(f, S) + SumOver(f, T)
<1>1. Units(f, S \cup T) = Units(f, S) \cup Units(f, T)
  BY DEF Units
<1>2. Units(f, S) \cap Units(f, T) = {}
  <2> SUFFICES ASSUME NEW u, u \in Units(f, S), u \in Units(f, T) PROVE FALSE
    OBVIOUS
  <2>1. PICK x \in S : u \in {x} \X (1..f[x])
    BY UnitsMember
  <2>2. PICK y \in T : u \in {y} \X (1..f[y])
    BY UnitsMember
  <2>3. u[1] = x /\ u[1] = y
    BY <2>1, <2>2
  <2> QED BY <2>3
<1>3. IsFiniteSet(Units(f, S)) /\ IsFiniteSet(Units(f, T))
  BY UnitsFinite
<1>4. Cardinality(Units(f, S)) \in Nat /\ Cardinality(Units(f, T)) \in Nat
  BY <1>3, FS_CardinalityType
<1>5. Cardinality(Units(f, S) \cap Units(f, T)) = 0
  BY <1>2, FS_EmptySet
<1>6. Cardinality(Units(f, S) \cup Units(f, T))
        = Cardinality(Units(f, S)) + Cardinality(Units(f, T)) - Cardinality(Units(f, S) \cap Units(f, T))
  BY <1>3, FS_Union
<1>7. Cardinality(Units(f, S) \cup Units(f, T)) = Cardinality(Units(f, S)) + Cardinality(Units(f, T))
  BY <1>4, <1>5, <1>6
<1> QED BY <1>1, <1>7 DEF SumOver

LEMMA SumOfNone == \A f : SumOver(f, {}) = 0
BY FS_EmptySet DEF SumOver, Units

-----------------------------------------------------------------------------
(* A path cut at a place: its legs are those of the two parts and the one  *)
(* from the last point of the first part to the first of the second.       *)

LegsBetween(S, a, b) ==
  {l \in S \X S : a <= RankIn(S, l[1]) /\ RankIn(S, l[2]) = RankIn(S, l[1]) + 1 /\ RankIn(S, l[2]) < b}

LEMMA RankWithin ==
  ASSUME NEW S, Timed(S), NEW a \in Nat, NEW b \in Nat, a <= b, b <= Cardinality(S),
         NEW p \in Ranked(S, a, b)
  PROVE  RankIn(Ranked(S, a, b), p) = RankIn(S, p) - a
<1> DEFINE T == Ranked(S, a, b)
           L == Ranked(S, 0, a)
<1>1. p \in S /\ a <= RankIn(S, p) /\ RankIn(S, p) < b /\ RankIn(S, p) \in Nat
  BY RankType DEF Ranked
<1>2. \A q \in S : RankIn(S, q) \in Nat
  BY RankType
<1>3. L \subseteq Before(S, p)
  BY <1>1, <1>2, RankOrder DEF Ranked, Before
<1>4. Before(T, p) = Before(S, p) \ L
  BY <1>1, <1>2, RankOrder DEF Ranked, Before
<1>5. Cardinality(L) = a
  BY RankedCount, SubsetTimed DEF Ranked
<1>6. /\ IsFiniteSet(Before(S, p)) /\ RankIn(S, p) = Cardinality(Before(S, p))
  BY <1>1, RankType
<1>7. Cardinality(Before(S, p) \ L) = Cardinality(Before(S, p)) - Cardinality(Before(S, p) \cap L)
  BY <1>6, FS_Difference
<1>8. Before(S, p) \cap L = L
  BY <1>3
<1>9. RankIn(T, p) = Cardinality(Before(T, p))
  BY DEF RankIn, Before
<1> QED BY <1>4, <1>5, <1>6, <1>7, <1>8, <1>9

LEMMA LegsOfRanked ==
  ASSUME NEW S, Timed(S), NEW a \in Nat, NEW b \in Nat, a <= b, b <= Cardinality(S)
  PROVE  LegsFrom(Ranked(S, a, b)) = LegsBetween(S, a, b)
<1> DEFINE T == Ranked(S, a, b)
<1>1. \A p \in S : RankIn(S, p) \in Nat
  BY RankType
<1>2. \A p \in T : p \in S /\ RankIn(T, p) = RankIn(S, p) - a /\ a <= RankIn(S, p) /\ RankIn(S, p) < b
  BY RankWithin DEF Ranked
<1>3. \A p \in S : a <= RankIn(S, p) /\ RankIn(S, p) < b => p \in T
  BY DEF Ranked
<1> HIDE DEF T
<1>4. ASSUME NEW l \in T \X T, RankIn(T, l[2]) = RankIn(T, l[1]) + 1
      PROVE  l \in LegsBetween(S, a, b)
  BY <1>1, <1>2, <1>4 DEF LegsBetween
<1>5. ASSUME NEW l \in LegsBetween(S, a, b)
      PROVE  l \in T \X T /\ RankIn(T, l[2]) = RankIn(T, l[1]) + 1
  <2>1. /\ l \in S \X S /\ l[1] \in S /\ l[2] \in S
        /\ a <= RankIn(S, l[1]) /\ RankIn(S, l[2]) = RankIn(S, l[1]) + 1 /\ RankIn(S, l[2]) < b
    BY DEF LegsBetween
  <2>2. l[1] \in T /\ l[2] \in T
    BY <1>1, <1>3, <2>1
  <2>3. l = <<l[1], l[2]>>
    BY <2>1
  <2> QED BY <1>1, <1>2, <2>1, <2>2, <2>3
<1>6. LegsFrom(T) = LegsBetween(S, a, b)
  BY <1>4, <1>5 DEF LegsFrom
<1> QED BY <1>6 DEF T

LEMMA EndsOfRanked ==
  ASSUME NEW S, Timed(S), NEW a \in Nat, NEW b \in Nat, a < b, b <= Cardinality(S)
  PROVE  LET T == Ranked(S, a, b)
         IN /\ FirstOf(T) \in T /\ RankIn(S, FirstOf(T)) = a
            /\ LastOf(T) \in T /\ RankIn(S, LastOf(T)) = b - 1
<1> DEFINE T == Ranked(S, a, b)
<1>1. Cardinality(S) \in Nat /\ \A p \in S : RankIn(S, p) \in Nat /\ p.t \in Nat
  BY RankType, FS_CardinalityType, PointTimes DEF Timed
<1>2. PICK p \in S : RankIn(S, p) = a
  BY <1>1, RankTaken
<1>3. PICK q \in S : RankIn(S, q) = b - 1
  <2>1. b - 1 \in Nat /\ b - 1 < Cardinality(S)
    BY <1>1
  <2> QED BY <2>1, RankTaken
<1>4. p \in T /\ q \in T /\ T \subseteq S
  BY <1>2, <1>3 DEF Ranked
<1>5. \A x \in T : a <= RankIn(S, x) /\ RankIn(S, x) <= b - 1
  BY <1>1 DEF Ranked
<1>6. \A x \in T : p.t <= x.t /\ x.t <= q.t
  BY <1>1, <1>2, <1>3, <1>4, <1>5, RankOrder
<1>7. FirstOf(T) \in T /\ \A x \in T : FirstOf(T).t <= x.t
  BY <1>4, <1>6 DEF FirstOf
<1>8. LastOf(T) \in T /\ \A x \in T : x.t <= LastOf(T).t
  BY <1>4, <1>6 DEF LastOf
<1>9. FirstOf(T).t = p.t /\ LastOf(T).t = q.t
  BY <1>1, <1>4, <1>6, <1>7, <1>8
<1>10. FirstOf(T) = p /\ LastOf(T) = q
  BY <1>4, <1>7, <1>8, <1>9 DEF Timed
<1> QED BY <1>2, <1>3, <1>4, <1>10

Joint(S) == IF S = {} THEN {} ELSE {LastOf(S)}

LEMMA LegsFinite ==
  ASSUME NEW S, Timed(S)
  PROVE  /\ IsFiniteSet(S \X S) /\ \A l \in S \X S : LegLength[l] \in Nat
         /\ \A T \in SUBSET (S \X S) : IsFiniteSet(T)
<1>1. IsFiniteSet(S \X S)
  BY FS_Product DEF Timed
<1>2. ASSUME NEW l \in S \X S PROVE LegLength[l] \in Nat
  <2>1. l \in PointsOf \X PointsOf /\ l[1].at \in Int /\ l[2].at \in Int
    BY PointTimes DEF Timed
  <2> QED BY <2>1 DEF LegLength, Distance
<1> QED BY <1>1, <1>2, FS_Subset

LEMMA PathJoins ==
  ASSUME NEW S, Timed(S), NEW a \in Nat, NEW b \in Nat, a < b, b <= Cardinality(S)
  PROVE  LET done == Ranked(S, 0, a)
             more == Ranked(S, a, b)
         IN PathLength(done \cup more)
              = PathLength(done) + PathLength(more) + SumOver(LegLength, Joint(done) \X {FirstOf(more)})
<1> DEFINE done == Ranked(S, 0, a)
           more == Ranked(S, a, b)
           over == Joint(done) \X {FirstOf(more)}
<1>1. Cardinality(S) \in Nat /\ \A p \in S : RankIn(S, p) \in Nat
  BY RankType, FS_CardinalityType DEF Timed
<1>2. done \cup more = Ranked(S, 0, b)
  BY <1>1 DEF Ranked
<1>3. /\ LegsFrom(done) = LegsBetween(S, 0, a)
      /\ LegsFrom(more) = LegsBetween(S, a, b)
      /\ LegsFrom(done \cup more) = LegsBetween(S, 0, b)
  <2>1. 0 \in Nat /\ 0 <= a /\ a <= Cardinality(S) /\ a <= b /\ 0 <= b
    BY <1>1
  <2>2. /\ LegsFrom(done) = LegsBetween(S, 0, a)
        /\ LegsFrom(more) = LegsBetween(S, a, b)
        /\ LegsFrom(Ranked(S, 0, b)) = LegsBetween(S, 0, b)
    BY <2>1, LegsOfRanked
  <2> QED BY <1>2, <2>2
<1>4. FirstOf(more) \in S /\ RankIn(S, FirstOf(more)) = a
  BY EndsOfRanked DEF Ranked
<1>5. over = {l \in S \X S : RankIn(S, l[1]) = a - 1 /\ RankIn(S, l[2]) = a}
  <2>1. CASE a = 0
    <3>1. done = {}
      BY <1>1, <2>1 DEF Ranked
    <3>2. {l \in S \X S : RankIn(S, l[1]) = a - 1 /\ RankIn(S, l[2]) = a} = {}
      BY <1>1, <2>1
    <3> QED BY <3>1, <3>2 DEF Joint
  <2>2. CASE a # 0
    <3>1. LastOf(done) \in done /\ RankIn(S, LastOf(done)) = a - 1
      <4>1. 0 < a /\ a <= Cardinality(S) /\ 0 \in Nat
        BY <1>1, <2>2
      <4> QED BY <4>1, EndsOfRanked
    <3>2. LastOf(done) \in S /\ Joint(done) = {LastOf(done)}
      BY <3>1 DEF Joint, Ranked
    <3>3. \A l \in S \X S : RankIn(S, l[1]) = a - 1 /\ RankIn(S, l[2]) = a
            <=> l[1] = LastOf(done) /\ l[2] = FirstOf(more)
      BY <1>4, <3>1, <3>2, RankOrder
    <3> HIDE DEF done, more
    <3> QED BY <1>4, <3>2, <3>3
  <2> QED BY <2>1, <2>2
<1> HIDE DEF done, more, over
<1>6. /\ LegsBetween(S, 0, b) = (LegsBetween(S, 0, a) \cup LegsBetween(S, a, b)) \cup over
      /\ LegsBetween(S, 0, a) \cap LegsBetween(S, a, b) = {}
      /\ (LegsBetween(S, 0, a) \cup LegsBetween(S, a, b)) \cap over = {}
      /\ over \subseteq S \X S
  BY <1>1, <1>5 DEF LegsBetween
<1>7. \A x, y : LegsBetween(S, x, y) \subseteq S \X S
  BY DEF LegsBetween
<1>8. SumOver(LegLength, LegsBetween(S, 0, a) \cup LegsBetween(S, a, b))
        = SumOver(LegLength, LegsBetween(S, 0, a)) + SumOver(LegLength, LegsBetween(S, a, b))
  BY <1>6, <1>7, LegsFinite, SumOfUnion
<1>9. SumOver(LegLength, LegsBetween(S, 0, b))
        = SumOver(LegLength, LegsBetween(S, 0, a) \cup LegsBetween(S, a, b)) + SumOver(LegLength, over)
  <2> DEFINE both == LegsBetween(S, 0, a) \cup LegsBetween(S, a, b)
  <2>1. both \subseteq S \X S /\ both \cap over = {} /\ LegsBetween(S, 0, b) = both \cup over
    BY <1>6, <1>7
  <2> HIDE DEF both
  <2>2. IsFiniteSet(both) /\ IsFiniteSet(over) /\ \A l \in both \cup over : LegLength[l] \in Nat
    BY <1>6, <2>1, LegsFinite
  <2>3. SumOver(LegLength, both \cup over) = SumOver(LegLength, both) + SumOver(LegLength, over)
    BY <2>1, <2>2, SumOfUnion
  <2> QED BY <2>1, <2>3 DEF both
<1> QED BY <1>3, <1>8, <1>9 DEF PathLength, done, more, over

-----------------------------------------------------------------------------
(* The stream.  While nothing is stored meanwhile, what it has read and    *)
(* measured is the path up to the offset it asks for next; in any case it  *)
(* has read every early point below that offset.                            *)

Offset == (page - 1) * ChunkSize

Undisturbed ==
  /\ Offset <= Cardinality(stored)
  /\ seen = Ranked(stored, 0, Offset)
  /\ total = Cardinality(seen) /\ metres = PathLength(seen) /\ tail = Joint(seen)

StreamInv ==
  /\ StreamTypeOK /\ Timed(stored)
  /\ phase = "off" => base = {} /\ seen = {} /\ tail = {} /\ page = 1 /\ total = 0 /\ metres = 0
  /\ phase = "reading" =>
       /\ \A p \in base : RankIn(stored, p) < Offset => p \in seen
       /\ stored = base => Undisturbed
  /\ StreamIsExact

LEMMA OffsetGrows ==
  ASSUME NEW n \in Nat \ {0}
  PROVE  /\ (n - 1) * ChunkSize \in Nat /\ n * ChunkSize = (n - 1) * ChunkSize + ChunkSize
         /\ n * ChunkSize \in Nat
BY StreamConstants

LEMMA ChunkIsRanked ==
  ASSUME Timed(stored), page \in Nat \ {0}
  PROVE  /\ Offset \in Nat
         /\ Chunk(page) = Ranked(stored, Offset, Offset + ChunkSize)
         /\ Chunk(page) \subseteq stored /\ IsFiniteSet(Chunk(page)) /\ Cardinality(Chunk(page)) \in Nat
<1>1. Offset \in Nat /\ page * ChunkSize = Offset + ChunkSize /\ ChunkSize \in Nat \ {0}
  BY OffsetGrows, StreamConstants DEF Offset
<1>2. \A p \in stored : RankIn(stored, p) \in Nat
  BY RankType
<1>3. Chunk(page) = {p \in stored : RankIn(stored, p) \in Offset..(Offset + ChunkSize - 1)}
  BY <1>1 DEF Chunk, Offset
<1>4. Chunk(page) = Ranked(stored, Offset, Offset + ChunkSize)
  BY <1>1, <1>2, <1>3 DEF Ranked
<1>5. Chunk(page) \subseteq stored
  BY DEF Chunk
<1> QED BY <1>1, <1>4, <1>5, FS_Subset, FS_CardinalityType DEF Timed

\* What a chunk says of the points there are.
LEMMA ChunkTells ==
  ASSUME Timed(stored), page \in Nat \ {0}
  PROVE  /\ Chunk(page) = {} => \A p \in stored : RankIn(stored, p) < Offset
         /\ Cardinality(Chunk(page)) < ChunkSize =>
              \A p \in stored : RankIn(stored, p) < Offset + ChunkSize
         /\ Chunk(page) # {} =>
              \E k \in Nat : /\ Offset < k /\ k <= Cardinality(stored) /\ k <= Offset + ChunkSize
                             /\ Chunk(page) = Ranked(stored, Offset, k)
                             /\ k < Offset + ChunkSize => k = Cardinality(stored)
                             /\ k < Offset + ChunkSize <=> Cardinality(Chunk(page)) < ChunkSize
<1> DEFINE n == Cardinality(stored)
           chunk == Chunk(page)
<1>1. /\ n \in Nat /\ ChunkSize \in Nat \ {0} /\ Offset \in Nat
      /\ \A p \in stored : RankIn(stored, p) \in Nat /\ RankIn(stored, p) < n
  BY RankType, FS_CardinalityType, ChunkIsRanked, StreamConstants DEF Timed
<1>2. chunk = Ranked(stored, Offset, Offset + ChunkSize)
  BY ChunkIsRanked
<1> HIDE DEF chunk
<1>3. ASSUME chunk = {}, NEW p \in stored, ~(RankIn(stored, p) < Offset) PROVE FALSE
  <2>1. Offset < n
    BY <1>1, <1>3
  <2>2. PICK q \in stored : RankIn(stored, q) = Offset
    BY <1>1, <2>1, RankTaken
  <2>3. q \in chunk
    BY <1>1, <1>2, <2>2 DEF Ranked
  <2> QED BY <1>3, <2>3
<1>4. Offset + ChunkSize <= n => Cardinality(chunk) = ChunkSize
  <2> SUFFICES ASSUME Offset + ChunkSize <= n PROVE Cardinality(chunk) = ChunkSize
    OBVIOUS
  <2>1. Cardinality(chunk) = (Offset + ChunkSize) - Offset
    BY <1>1, <1>2, RankedCount
  <2> QED BY <1>1, <2>1
<1>5. ASSUME Cardinality(chunk) < ChunkSize, NEW p \in stored, ~(RankIn(stored, p) < Offset + ChunkSize)
      PROVE  FALSE
  BY <1>1, <1>4, <1>5
<1>6. ASSUME chunk # {}
      PROVE  \E k \in Nat : /\ Offset < k /\ k <= n /\ k <= Offset + ChunkSize
                            /\ chunk = Ranked(stored, Offset, k)
                            /\ k < Offset + ChunkSize => k = n
                            /\ k < Offset + ChunkSize <=> Cardinality(chunk) < ChunkSize
  <2>1. Offset < n
    <3>1. PICK p \in chunk : TRUE
      BY <1>6
    <3>2. p \in stored /\ Offset <= RankIn(stored, p)
      BY <1>2, <3>1 DEF Ranked
    <3> QED BY <1>1, <3>2
  <2>2. CASE Offset + ChunkSize <= n
    BY <1>1, <1>2, <1>4, <2>1, <2>2
  <2>3. CASE n < Offset + ChunkSize
    <3>1. chunk = Ranked(stored, Offset, n)
      BY <1>1, <1>2, <2>3 DEF Ranked
    <3>2. Cardinality(chunk) = n - Offset
      BY <1>1, <2>1, <3>1, RankedCount
    <3>3. Cardinality(chunk) < ChunkSize
      BY <1>1, <2>3, <3>2
    <3> QED BY <1>1, <2>1, <2>3, <3>1, <3>3
  <2> QED BY <1>1, <2>2, <2>3
<1> QED BY <1>3, <1>5, <1>6 DEF chunk

LEMMA StoreStream ==
  ASSUME StreamInv, NEW p \in PointsOf, StorePoint(p)
  PROVE  StreamInv'
<1>1. /\ \A q \in stored : q.t # p.t
      /\ stored' = stored \cup {p}
      /\ UNCHANGED <<phase, page, total, metres, tail, base, seen>>
  BY DEF StorePoint
<1>2. p \notin stored /\ base \subseteq stored /\ seen \subseteq stored
  BY <1>1 DEF StreamInv, StreamTypeOK
<1>3. stored' # base'
  BY <1>1, <1>2
<1>4. Timed(stored')
  BY <1>1, FS_AddElement DEF StreamInv, Timed
<1>5. StreamTypeOK'
  BY <1>1 DEF StreamInv, StreamTypeOK
<1>6. \A q \in base : RankIn(stored, q) <= RankIn(stored', q) /\ RankIn(stored, q) \in Nat /\ RankIn(stored', q) \in Nat
  <2> TAKE q \in base
  <2>1. q \in stored /\ q \in stored'
    BY <1>1, <1>2
  <2>2. Before(stored, q) \subseteq Before(stored', q)
    BY <1>1 DEF Before
  <2>3. IsFiniteSet(Before(stored', q)) /\ RankIn(stored', q) = Cardinality(Before(stored', q)) /\ RankIn(stored', q) \in Nat
    BY <1>4, <2>1, RankType
  <2>4. RankIn(stored, q) = Cardinality(Before(stored, q)) /\ RankIn(stored, q) \in Nat
    BY <2>1, RankType DEF StreamInv
  <2>5. Cardinality(Before(stored, q)) <= Cardinality(Before(stored', q))
    BY <2>2, <2>3, FS_Subset
  <2> QED BY <2>3, <2>4, <2>5
<1>7. Offset' = Offset /\ Offset \in Nat
  BY <1>1, OffsetGrows DEF Offset, StreamInv, StreamTypeOK
<1>8. phase = "reading" => \A q \in base : RankIn(stored', q) < Offset' => q \in seen
  BY <1>6, <1>7 DEF StreamInv
<1>9. StreamIsExact'
  BY <1>1, <1>3 DEF StreamInv, StreamIsExact
<1> QED BY <1>1, <1>3, <1>4, <1>5, <1>8, <1>9 DEF StreamInv

LEMMA NothingRanked ==
  ASSUME NEW S, Timed(S)
  PROVE  Ranked(S, 0, 0) = {} /\ Cardinality({}) = 0 /\ PathLength({}) = 0 /\ Joint({}) = {}
<1>1. Ranked(S, 0, 0) = {}
  BY RankType DEF Ranked
<1>2. LegsFrom({}) = {}
  BY DEF LegsFrom
<1> QED BY <1>1, <1>2, FS_EmptySet, SumOfNone DEF PathLength, Joint

LEMMA BeginsStream ==
  ASSUME StreamInv, BeginStream
  PROVE  StreamInv'
<1>1. /\ phase = "off" /\ phase' = "reading" /\ base' = stored
      /\ UNCHANGED <<stored, page, total, metres, tail, seen>>
      /\ seen = {} /\ tail = {} /\ page = 1 /\ total = 0 /\ metres = 0
  BY DEF BeginStream, StreamInv
<1>2. StreamTypeOK' /\ Timed(stored)'
  BY <1>1 DEF StreamInv, StreamTypeOK
<1>3. Offset' = 0
  BY <1>1, StreamConstants DEF Offset
<1>4. \A p \in base' : ~(RankIn(stored, p) < 0)
  BY <1>1, RankType DEF StreamInv
<1>5. Cardinality(stored) \in Nat
  BY FS_CardinalityType DEF StreamInv, Timed
<1>6. Undisturbed'
  <2>1. stored' = stored /\ Ranked(stored, 0, 0) = {} /\ Cardinality({}) = 0 /\ PathLength({}) = 0 /\ Joint({}) = {}
    BY <1>1, NothingRanked DEF StreamInv
  <2>2. seen' = {} /\ tail' = {} /\ total' = 0 /\ metres' = 0
    BY <1>1
  <2>3. Offset' <= Cardinality(stored)'
    BY <1>1, <1>3, <1>5
  <2> QED BY <1>3, <2>1, <2>2, <2>3 DEF Undisturbed
<1>7. StreamIsExact'
  BY <1>1 DEF StreamIsExact
<1> QED BY <1>1, <1>2, <1>3, <1>4, <1>6, <1>7 DEF StreamInv

\* What is read is added up, in its types.
LEMMA ChunkTypes ==
  ASSUME StreamInv, phase = "reading", Chunk(page) # {}
  PROVE  /\ FirstOf(Chunk(page)) \in Chunk(page) /\ LastOf(Chunk(page)) \in Chunk(page)
         /\ PathLength(Chunk(page)) \in Nat
         /\ SumOver(LegLength, tail \X {FirstOf(Chunk(page))}) \in Nat
<1> DEFINE chunk == Chunk(page)
<1>1. Timed(stored) /\ page \in Nat \ {0} /\ tail \subseteq stored
  BY DEF StreamInv, StreamTypeOK
<1>2. chunk \subseteq stored /\ Offset \in Nat /\ Timed(chunk)
  BY <1>1, ChunkIsRanked, SubsetTimed
<1>3. FirstOf(chunk) \in chunk /\ LastOf(chunk) \in chunk
  BY <1>1, <1>2, ChunkTells, EndsOfRanked
<1> HIDE DEF chunk
<1>4. LegsFrom(chunk) \subseteq stored \X stored /\ tail \X {FirstOf(chunk)} \subseteq stored \X stored
  BY <1>1, <1>2, <1>3 DEF LegsFrom
<1>5. \A T \in SUBSET (stored \X stored) : SumOver(LegLength, T) \in Nat
  <2> TAKE T \in SUBSET (stored \X stored)
  <2>1. IsFiniteSet(T) /\ \A l \in T : LegLength[l] \in Nat
    BY <1>1, LegsFinite
  <2> QED BY <2>1, UnitsFinite
<1>6. PathLength(chunk) \in Nat /\ SumOver(LegLength, tail \X {FirstOf(chunk)}) \in Nat
  BY <1>4, <1>5 DEF PathLength
<1> QED BY <1>3, <1>6 DEF chunk

\* Reading on from an undisturbed offset.
LEMMA ReadsOn ==
  ASSUME Timed(stored), page \in Nat \ {0}, Undisturbed, Chunk(page) # {},
         NEW k \in Nat, Offset < k, k <= Cardinality(stored), Chunk(page) = Ranked(stored, Offset, k)
  PROVE  /\ seen \cup Chunk(page) = Ranked(stored, 0, k)
         /\ total + Cardinality(Chunk(page)) = Cardinality(seen \cup Chunk(page))
         /\ Cardinality(seen \cup Chunk(page)) = k
         /\ metres + PathLength(Chunk(page)) + SumOver(LegLength, tail \X {FirstOf(Chunk(page))})
              = PathLength(seen \cup Chunk(page))
         /\ {LastOf(Chunk(page))} = Joint(seen \cup Chunk(page))
<1>1. Offset \in Nat /\ Offset <= Cardinality(stored) /\ Cardinality(stored) \in Nat /\ 0 \in Nat
  BY ChunkIsRanked, FS_CardinalityType DEF Undisturbed, Timed
<1>2. \A p \in stored : RankIn(stored, p) \in Nat
  BY RankType
<1>3. seen = Ranked(stored, 0, Offset) /\ total = Cardinality(seen) /\ metres = PathLength(seen) /\ tail = Joint(seen)
  BY DEF Undisturbed
<1>4. seen \cup Chunk(page) = Ranked(stored, 0, k)
  BY <1>1, <1>2, <1>3 DEF Ranked
<1>5. Cardinality(seen) = Offset /\ Cardinality(Chunk(page)) = k - Offset /\ Cardinality(seen \cup Chunk(page)) = k
  <2>1. /\ Cardinality(Ranked(stored, 0, Offset)) = Offset - 0
        /\ Cardinality(Ranked(stored, Offset, k)) = k - Offset
        /\ Cardinality(Ranked(stored, 0, k)) = k - 0
    BY <1>1, RankedCount
  <2>2. Offset - 0 = Offset /\ k - 0 = k
    BY <1>1
  <2> QED BY <1>3, <1>4, <2>1, <2>2
<1>6. PathLength(seen \cup Chunk(page))
        = PathLength(seen) + PathLength(Chunk(page)) + SumOver(LegLength, Joint(seen) \X {FirstOf(Chunk(page))})
  BY <1>1, <1>3, PathJoins
<1>7. LastOf(Chunk(page)) = LastOf(seen \cup Chunk(page)) /\ seen \cup Chunk(page) # {}
  <2>1. /\ LastOf(Chunk(page)) \in Chunk(page) /\ RankIn(stored, LastOf(Chunk(page))) = k - 1
    BY <1>1, EndsOfRanked
  <2>2. /\ LastOf(seen \cup Chunk(page)) \in seen \cup Chunk(page)
        /\ RankIn(stored, LastOf(seen \cup Chunk(page))) = k - 1
    <3>1. 0 < k
      BY <1>1
    <3>2. /\ LastOf(Ranked(stored, 0, k)) \in Ranked(stored, 0, k)
          /\ RankIn(stored, LastOf(Ranked(stored, 0, k))) = k - 1
      BY <1>1, <3>1, EndsOfRanked
    <3> QED BY <1>4, <3>2
  <2>3. seen \cup Chunk(page) \subseteq stored
    BY <1>4 DEF Ranked
  <2> QED BY <2>1, <2>2, <2>3, RankOrder
<1> QED BY <1>1, <1>3, <1>4, <1>5, <1>6, <1>7 DEF Joint

LEMMA ReadsStream ==
  ASSUME StreamInv, ReadChunk
  PROVE  StreamInv'
<1> DEFINE chunk == Chunk(page)
<1>1. /\ phase = "reading" /\ UNCHANGED <<stored, base>>
      /\ Timed(stored) /\ page \in Nat \ {0} /\ StreamTypeOK
      /\ base \subseteq stored /\ seen \subseteq stored
  BY DEF ReadChunk, StreamInv, StreamTypeOK
<1>2. /\ Offset \in Nat /\ chunk \subseteq stored /\ Cardinality(chunk) \in Nat
      /\ ChunkSize \in Nat \ {0} /\ MaxPoints \in Nat /\ Cardinality(stored) \in Nat
      /\ \A p \in stored : RankIn(stored, p) \in Nat
  BY <1>1, ChunkIsRanked, StreamConstants, FS_CardinalityType, RankType DEF Timed
<1>3. /\ \A p \in base : RankIn(stored, p) < Offset => p \in seen
      /\ stored = base => Undisturbed
  BY <1>1 DEF StreamInv
<1>4. \A p \in base : RankIn(stored, p) < Offset + ChunkSize => p \in seen \cup chunk
  <2> SUFFICES ASSUME NEW p \in base, RankIn(stored, p) < Offset + ChunkSize, ~(RankIn(stored, p) < Offset)
               PROVE  p \in chunk
    BY <1>3
  <2> QED BY <1>1, <1>2, ChunkIsRanked DEF Ranked
<1>5. CASE chunk = {}
  <2>1. phase' = "done" /\ UNCHANGED <<page, total, metres, tail, seen>>
    BY <1>5 DEF ReadChunk
  <2>2. \A p \in stored : RankIn(stored, p) < Offset
    BY <1>1, <1>5, ChunkTells
  <2>3. base \subseteq seen
    BY <1>1, <1>3, <2>2
  <2>4. ASSUME stored = base PROVE total = Cardinality(base) /\ metres = PathLength(base)
    <3>1. seen = base
      BY <1>1, <2>3, <2>4
    <3> QED BY <1>3, <2>4, <3>1 DEF Undisturbed
  <2>5. StreamIsExact'
    BY <1>1, <2>1, <2>3, <2>4 DEF StreamIsExact
  <2>6. StreamTypeOK'
    BY <1>1, <2>1 DEF StreamTypeOK
  <2> QED BY <1>1, <2>1, <2>5, <2>6 DEF StreamInv
<1>6. CASE chunk # {}
  <2>1. /\ total' = total + Cardinality(chunk) /\ seen' = seen \cup chunk
        /\ \/ total' > MaxPoints /\ phase' = "rejected" /\ UNCHANGED <<page, metres, tail>>
           \/ /\ ~(total' > MaxPoints)
              /\ metres' = metres + PathLength(chunk) + SumOver(LegLength, tail \X {FirstOf(chunk)})
              /\ tail' = {LastOf(chunk)}
              /\ \/ Cardinality(chunk) < ChunkSize /\ phase' = "done" /\ UNCHANGED page
                 \/ ~(Cardinality(chunk) < ChunkSize) /\ page' = page + 1 /\ UNCHANGED phase
    BY <1>6 DEF ReadChunk, AddChunk
  <2>2. PICK k \in Nat : /\ Offset < k /\ k <= Cardinality(stored) /\ k <= Offset + ChunkSize
                         /\ chunk = Ranked(stored, Offset, k)
                         /\ k < Offset + ChunkSize => k = Cardinality(stored)
                         /\ k < Offset + ChunkSize <=> Cardinality(chunk) < ChunkSize
    BY <1>1, <1>6, ChunkTells
  <2>3. /\ FirstOf(chunk) \in chunk /\ LastOf(chunk) \in chunk /\ PathLength(chunk) \in Nat
        /\ SumOver(LegLength, tail \X {FirstOf(chunk)}) \in Nat
    BY <1>1, <1>6, ChunkTypes
  <2>4. ASSUME stored = base
        PROVE  /\ seen' = Ranked(stored, 0, k) /\ total' = Cardinality(seen') /\ total' = k
               /\ metres + PathLength(chunk) + SumOver(LegLength, tail \X {FirstOf(chunk)}) = PathLength(seen')
               /\ {LastOf(chunk)} = Joint(seen')
    BY <1>1, <1>3, <1>6, <2>1, <2>2, <2>4, ReadsOn
  <2>5. Cardinality(tail') <= 1 /\ tail' \subseteq seen'
    BY <1>1, <2>1, <2>3, FS_Singleton DEF StreamTypeOK
  <2>6. StreamTypeOK'
    <3>1. stored' \subseteq PointsOf /\ base' \subseteq stored' /\ seen' \subseteq stored'
      BY <1>1, <1>2, <2>1 DEF StreamTypeOK
    <3>2. phase' \in {"off", "reading", "done", "rejected"} /\ page' \in Nat \ {0}
      BY <1>1, <2>1
    <3>3. total' \in Nat /\ metres' \in Nat
      BY <1>1, <1>2, <2>1, <2>3 DEF StreamTypeOK
    <3> QED BY <2>5, <3>1, <3>2, <3>3 DEF StreamTypeOK
  <2> HIDE DEF chunk
  <2>7. CASE total' > MaxPoints /\ phase' = "rejected"
    <3>1. stored = base => Cardinality(base) > MaxPoints
      BY <1>2, <2>2, <2>4, <2>7
    <3>2. StreamIsExact'
      BY <1>1, <2>7, <3>1 DEF StreamIsExact
    <3> QED BY <1>1, <2>6, <2>7, <3>2 DEF StreamInv
  <2>8. CASE /\ metres' = metres + PathLength(chunk) + SumOver(LegLength, tail \X {FirstOf(chunk)})
             /\ Cardinality(chunk) < ChunkSize /\ phase' = "done"
    <3>1. base \subseteq seen'
      <4>1. \A p \in stored : RankIn(stored, p) < Offset + ChunkSize
        BY <1>1, <2>8, ChunkTells DEF chunk
      <4> QED BY <1>1, <1>4, <2>1, <4>1
    <3>2. ASSUME stored = base PROVE total' = Cardinality(base) /\ metres' = PathLength(base)
      <4>1. seen' = base
        BY <1>1, <1>2, <2>1, <3>1, <3>2
      <4> QED BY <2>4, <2>8, <3>2, <4>1
    <3>3. StreamIsExact'
      BY <1>1, <2>1, <2>8, <3>1, <3>2 DEF StreamIsExact
    <3> QED BY <1>1, <2>6, <2>8, <3>3 DEF StreamInv
  <2>9. CASE /\ metres' = metres + PathLength(chunk) + SumOver(LegLength, tail \X {FirstOf(chunk)})
             /\ tail' = {LastOf(chunk)}
             /\ ~(Cardinality(chunk) < ChunkSize) /\ page' = page + 1 /\ phase' = phase
    <3>1. Offset' = Offset + ChunkSize
      <4>1. page * ChunkSize = Offset + ChunkSize /\ page' - 1 = page
        BY <1>1, <2>9, OffsetGrows DEF Offset
      <4> QED BY <4>1 DEF Offset
    <3>2. k = Offset'
      BY <1>2, <2>2, <2>9, <3>1
    <3>3. \A p \in base' : RankIn(stored', p) < Offset' => p \in seen'
      BY <1>1, <1>4, <2>1, <3>1
    <3>4. stored' = base' => Undisturbed'
      <4> SUFFICES ASSUME stored = base PROVE Undisturbed'
        BY <1>1
      <4>1. Offset' <= Cardinality(stored')
        BY <1>1, <2>2, <3>2
      <4>2. seen' = Ranked(stored', 0, Offset') /\ total' = Cardinality(seen')
        BY <1>1, <2>4, <3>2
      <4>3. metres' = PathLength(seen') /\ tail' = Joint(seen')
        BY <2>4, <2>9
      <4> QED BY <4>1, <4>2, <4>3 DEF Undisturbed
    <3>5. StreamIsExact'
      BY <1>1, <2>9 DEF StreamIsExact
    <3> QED BY <1>1, <2>6, <2>9, <3>3, <3>4, <3>5 DEF StreamInv
  <2> QED BY <2>1, <2>7, <2>8, <2>9
<1> QED BY <1>5, <1>6

LEMMA StreamInitInv == StreamInit => StreamInv
BY FS_EmptySet DEF StreamInit, StreamInv, StreamTypeOK, Timed, StreamIsExact

LEMMA StreamStepInv == StreamInv /\ [StreamNext]_streamVars => StreamInv'
<1>1. ASSUME StreamInv, UNCHANGED streamVars PROVE StreamInv'
  BY <1>1 DEF StreamInv, StreamTypeOK, streamVars, Timed, Offset, Undisturbed, StreamIsExact
<1> QED BY <1>1, StoreStream, BeginsStream, ReadsStream DEF StreamNext

\* No point is lost at the seams of the pages, however the points stored meanwhile
\* shift the offsets, and an undisturbed stream measures the whole path once.
THEOREM StreamsAreExact == StreamSpec => []StreamIsExact
<1>1. StreamInv => StreamIsExact
  BY DEF StreamInv
<1> QED BY <1>1, StreamInitInv, StreamStepInv, PTL DEF StreamSpec

-----------------------------------------------------------------------------
(* Types.  Of every component, that its variables stay in their types and  *)
(* its counters in their bounds; the invariants above give what a bound    *)
(* needs beside the type.                                                  *)

\* Between two sessions there is one stop.
MonitoringTypeInv ==
  /\ MonitoringTypeOK
  /\ stops <= started /\ (open # 0 => stops < started)

LEMMA MonitoringTypes == MonitoringTypeInv /\ [MonitoringNext]_monitoringVars => MonitoringTypeInv'
<1> SUFFICES ASSUME MonitoringTypeInv, [MonitoringNext]_monitoringVars PROVE MonitoringTypeInv'
  OBVIOUS
<1> USE MonitoringConstants DEF MonitoringTypeInv, MonitoringTypeOK
<1>1. ASSUME NEW c \in Calls, GetActive(c) PROVE MonitoringTypeInv'
  BY <1>1 DEF GetActive, Answer, GoTo
<1>2. ASSUME NEW c \in Calls, StartSession(c) PROVE MonitoringTypeInv'
  BY <1>2 DEF StartSession, Answer, GoTo
<1>3. ASSUME NEW c \in Calls, GetActiveAgain(c) PROVE MonitoringTypeInv'
  BY <1>3 DEF GetActiveAgain, Answer, GoTo
<1>4. CASE StopSession
  BY <1>4 DEF StopSession
<1>5. CASE UNCHANGED monitoringVars
  BY <1>5 DEF monitoringVars
<1> QED
  BY <1>1, <1>2, <1>3, <1>4, <1>5 DEF MonitoringNext

\* An entry of either cache has a version of the database.
LEMMA EntryType ==
  ASSUME NEW x \in L1Entries \cup L2Entries, x # Nothing => x.val \in 0..MaxVersion
  PROVE  x \in Entries
<1>1. CASE x = Nothing
  BY <1>1 DEF Entries
<1>2. CASE x # Nothing
  <2>1. /\ x \in [val : Nat, age : Nat, left : 1..TTL]
        /\ x.age + x.left <= 2 * TTL
    BY <1>2, CacheConstants DEF L1Entries, L2Entries
  <2>2. x.age \in 0..(2 * TTL) /\ x.val \in 0..MaxVersion /\ x.left \in 1..TTL
    BY <1>2, <2>1, CacheConstants
  <2>3. x = [val |-> x.val, age |-> x.age, left |-> x.left]
    BY <2>1
  <2> QED BY <2>2, <2>3 DEF Entries
<1> QED BY <1>1, <1>2

CacheTypeInv == AgesBounded /\ CacheTypeOK

\* A reader moves on, with a version or without.
LEMMA ReaderTypes ==
  ASSUME CacheTypeInv, NEW p \in Processes, NEW x, x.step \in {"none", "redis", "l1", "l2"},
         x.step \in {"l1", "l2"} => x.val \in 0..version,
         reader' = [reader EXCEPT ![p] = x]
  PROVE  \A q \in Processes :
           /\ reader'[q].step \in {"none", "redis", "l1", "l2"}
           /\ reader'[q].step \in {"l1", "l2"} => reader'[q].val \in 0..version
<1>1. PICK S : reader \in [Processes -> S]
  BY DEF CacheTypeInv, AgesBounded
<1>2. \A q \in Processes : reader'[q] = IF q = p THEN x ELSE reader[q]
  BY <1>1
<1> QED BY <1>2 DEF CacheTypeInv, CacheTypeOK

LEMMA CacheTypes == CacheTypeInv /\ [CacheNext]_cacheVars => CacheTypeInv'
<1> SUFFICES ASSUME CacheTypeInv, [CacheNext]_cacheVars PROVE CacheTypeOK'
  BY CacheStepInv DEF CacheTypeInv
<1>0. AgesBounded /\ AgesBounded' /\ CacheTypeOK
  BY CacheStepInv DEF CacheTypeInv
<1>a. /\ \A x \in L1Entries \cup L2Entries : Holds(x) <=> x # Nothing
      /\ \A x \in Entries : x # Nothing => x.val \in 0..MaxVersion
  BY CacheConstants DEF L1Entries, L2Entries, Holds, Nothing, Entries
<1>1. ASSUME NEW p \in Processes, WriteRow(p) PROVE CacheTypeOK'
  BY <1>0, <1>1, CacheConstants DEF WriteRow, CacheTypeOK
<1>2. ASSUME NEW p \in Processes, Miss(p) PROVE CacheTypeOK'
  <2>1. [step |-> "redis"].step = "redis"
    OBVIOUS
  <2> QED BY <1>0, <1>2, <2>1, ReaderTypes DEF Miss, CacheTypeOK
<1>3. ASSUME NEW p \in Processes, RedisHit(p) PROVE CacheTypeOK'
  <2> DEFINE new == [val |-> l2.val, age |-> l2.age, left |-> TTL]
  <2>1. new \in Entries
    <3>1. l2 # Nothing /\ l2 \in L2Entries /\ l2 \in Entries /\ new.val = l2.val
      BY <1>0, <1>3 DEF RedisHit, CacheTypeOK, AgesBounded, Holds, Nothing
    <3>2. new \in L1Entries
      BY <1>0, <1>3, TakenOver DEF RedisHit, AgesBounded
    <3> QED BY <1>a, <3>1, <3>2, EntryType
  <2>2. /\ l1' = [l1 EXCEPT ![p] = new] /\ reader' = [reader EXCEPT ![p] = Asleep]
        /\ UNCHANGED <<version, l2, sweep, sweptAt>> /\ raced' \subseteq Processes
    BY <1>0, <1>3 DEF RedisHit, CacheTypeOK
  <2> HIDE DEF new
  <2>3. Asleep.step = "none"
    BY DEF Asleep
  <2> QED BY <1>0, <2>1, <2>2, <2>3, ReaderTypes DEF CacheTypeOK
<1>4. ASSUME NEW p \in Processes, ReadSource(p) PROVE CacheTypeOK'
  <2> DEFINE new == [step |-> "l1", val |-> version]
  <2>1. new.step = "l1" /\ new.val \in 0..version
    BY <1>0 DEF CacheTypeOK
  <2>2. reader' = [reader EXCEPT ![p] = new]
    BY <1>4 DEF ReadSource
  <2> HIDE DEF new
  <2> QED BY <1>0, <1>4, <2>1, <2>2, ReaderTypes DEF ReadSource, CacheTypeOK
<1>5. ASSUME NEW p \in Processes, FillL1(p) PROVE CacheTypeOK'
  <2> DEFINE new == [step |-> "l2", val |-> reader[p].val]
             entry == [val |-> reader[p].val, age |-> 0, left |-> TTL]
  <2>1. new.step = "l2" /\ new.val \in 0..version
    BY <1>0, <1>5 DEF FillL1, CacheTypeOK
  <2>2. entry \in Entries
    <3>1. reader[p].val \in 0..version /\ version \in 0..MaxVersion /\ entry.val = reader[p].val
      BY <1>0, <1>5 DEF FillL1, CacheTypeOK
    <3>2. reader[p].val \in Nat /\ entry.val \in 0..MaxVersion
      BY <3>1, CacheConstants
    <3> QED BY <3>2, FreshEntry, EntryType
  <2>3. /\ l1' = [l1 EXCEPT ![p] = entry] /\ reader' = [reader EXCEPT ![p] = new]
        /\ UNCHANGED <<version, l2, sweep, sweptAt, raced>>
    BY <1>5 DEF FillL1
  <2> HIDE DEF new, entry
  <2> QED BY <1>0, <2>1, <2>2, <2>3, ReaderTypes DEF CacheTypeOK
<1>6. ASSUME NEW p \in Processes, FillL2(p) PROVE CacheTypeOK'
  <2> DEFINE entry == [val |-> reader[p].val, age |-> 0, left |-> TTL]
  <2>1. entry \in Entries
    <3>1. reader[p].val \in 0..version /\ version \in 0..MaxVersion /\ entry.val = reader[p].val
      BY <1>0, <1>6 DEF FillL2, CacheTypeOK
    <3>2. reader[p].val \in Nat /\ entry.val \in 0..MaxVersion
      BY <3>1, CacheConstants
    <3> QED BY <3>2, FreshEntry, EntryType
  <2>2. /\ l2' \in {entry, l2} /\ reader' = [reader EXCEPT ![p] = Asleep]
        /\ UNCHANGED <<version, l1, sweep, sweptAt, raced>>
    BY <1>6 DEF FillL2
  <2> HIDE DEF entry
  <2>3. Asleep.step = "none"
    BY DEF Asleep
  <2> QED BY <1>0, <2>1, <2>2, <2>3, ReaderTypes DEF CacheTypeOK
<1>7. ASSUME NEW p \in Processes, Evict(p) PROVE CacheTypeOK'
  BY <1>0, <1>7 DEF Evict, CacheTypeOK, Entries
<1>8. ASSUME NEW p \in Processes, SweepL1(p) PROVE CacheTypeOK'
  BY <1>0, <1>8 DEF SweepL1, CacheTypeOK, Entries
<1>9. ASSUME NEW p \in Processes, SweepL2(p) PROVE CacheTypeOK'
  BY <1>0, <1>9 DEF SweepL2, CacheTypeOK, Entries
<1>10. CASE Tick
  <2>1. ASSUME NEW x \in Entries, Older(x) \in L1Entries \cup L2Entries PROVE Older(x) \in Entries
    <3>1. Older(x) # Nothing => x # Nothing /\ Older(x).val = x.val
      BY DEF Older, Nothing
    <3> QED BY <1>a, <2>1, <3>1, EntryType
  <2> QED BY <1>0, <1>10, <2>1, OlderL1, OlderL2 DEF Tick, CacheTypeOK, AgesBounded
<1>11. CASE UNCHANGED cacheVars
  BY <1>0, <1>11 DEF cacheVars, CacheTypeOK
<1> QED
  BY <1>1, <1>2, <1>3, <1>4, <1>5, <1>6, <1>7, <1>8, <1>9, <1>10, <1>11 DEF CacheNext

LEMMA EmployeesStay == EmployeesTypeOK /\ [EmployeesNext]_employeesVars => EmployeesTypeOK'
<1> SUFFICES ASSUME EmployeesTypeOK, [EmployeesNext]_employeesVars PROVE EmployeesTypeOK'
  OBVIOUS
<1>0. row' \in [Staff -> {NoRow} \cup StateRows]
  BY RowsStay DEF RowsTyped, EmployeesTypeOK
<1>1. ASSUME NEW a \in Admins, NEW e \in Staff, NEW to \in BOOLEAN, FindEmployee(a, e, to)
      PROVE  EmployeesTypeOK'
  BY <1>0, <1>1, EmployeesConstants DEF FindEmployee, EmployeesTypeOK
<1>2. ASSUME NEW a \in Admins, SetActiveStatus(a) \/ SetActiveStatusFails(a) PROVE EmployeesTypeOK'
  <2>1. switch[a] \in [of : Staff, to : BOOLEAN]
    BY <1>2 DEF SetActiveStatus, SetActiveStatusFails, EmployeesTypeOK
  <2>2. [of |-> switch[a].of, to |-> ~switch[a].to] \in [of : Staff, to : BOOLEAN]
    BY <2>1
  <2> QED BY <1>0, <1>2, <2>1, <2>2 DEF SetActiveStatus, SetActiveStatusFails, EmployeesTypeOK
<1>3. ASSUME NEW b \in bans, UpdateUserById(b) PROVE EmployeesTypeOK'
  BY <1>0, <1>3 DEF UpdateUserById, EmployeesTypeOK
<1>4. ASSUME NEW e \in Staff, SnapshotChanges(e) PROVE EmployeesTypeOK'
  BY <1>0, <1>4 DEF SnapshotChanges, EmployeesTypeOK
<1>5. CASE HoursPass
  BY <1>0, <1>5 DEF HoursPass, EmployeesTypeOK
<1>6. CASE UNCHANGED employeesVars
  BY <1>6 DEF employeesVars, EmployeesTypeOK
<1> QED
  BY <1>1, <1>2, <1>3, <1>4, <1>5, <1>6 DEF EmployeesNext

Hooks == {At(s) : s \in {"new", "org", "admitted", "429"}} \cup Scripts

\* A hook behind a script call has one of the calls.
LEMMA CallsAreScripts ==
  ASSUME NEW r \in Requests, request \in [Requests -> Hooks], Calling(r)
  PROVE  /\ request[r] \in Scripts
         /\ request[r].tier \in Tiers /\ request[r].at \in Stamps /\ request[r].member \in Members
<1>1. request[r] \in Hooks /\ request[r].step \in {"evalsha", "eval"}
  BY DEF Calling
<1>2. \A s \in {"new", "org", "admitted", "429"} : At(s).step = s
  BY DEF At
<1>3. request[r] \in Scripts
  BY <1>1, <1>2 DEF Hooks
<1> QED BY <1>3 DEF Scripts, Members

LEMMA RecordTypes ==
  ASSUME AdmissionTypeOK, NEW tier \in Tiers, NEW at \in Stamps, NEW m \in Members,
         Record(tier, at, m)
  PROVE  /\ held' \in [Tiers -> SUBSET Held]
         /\ latest' \in [Tiers -> Stamps] /\ reordered' \subseteq Tiers
<1>1. [at |-> at, member |-> m] \in Held
  BY DEF Held, Members
<1>2. Kept(tier, at) \subseteq Held
  BY DEF Kept, AdmissionTypeOK
<1> QED BY <1>1, <1>2 DEF Record, AdmissionTypeOK

LEMMA JudgeTypes ==
  ASSUME AdmissionTypeOK, NEW r \in Requests, NEW tier \in Tiers, NEW at \in Stamps,
         held' \in [Tiers -> SUBSET Held], Judge(r, tier, at)
  PROVE  /\ request' \in [Requests -> Hooks]
         /\ passed' \in [Tiers -> SUBSET [at : Stamps, by : Requests]]
         /\ refused' \subseteq [tier : Tiers, crowd : SUBSET Requests]
<1> DEFINE crowd == {e.member[1] : e \in held'[tier]}
<1>1. \A s \in {"new", "org", "admitted", "429"} : At(s) \in Hooks
  BY DEF Hooks
<1>2. crowd \in SUBSET Requests
  BY DEF Held
<1>3. [at |-> at, by |-> r] \in [at : Stamps, by : Requests]
  OBVIOUS
<1>4. CASE Count(tier) > LimitOf(tier)
  BY <1>1, <1>2, <1>4 DEF Judge, AdmissionTypeOK, Hooks
<1>5. CASE ~(Count(tier) > LimitOf(tier))
  <2>1. At(IF tier = "key" /\ inRedis THEN "org" ELSE "admitted") \in Hooks
    BY <1>1
  <2> QED BY <1>3, <1>5, <2>1 DEF Judge, AdmissionTypeOK, Hooks
<1> QED BY <1>4, <1>5

LEMMA AdmissionTypes == AdmissionTypeOK /\ [AdmissionNext]_admissionVars => AdmissionTypeOK'
<1> SUFFICES ASSUME AdmissionTypeOK, [AdmissionNext]_admissionVars PROVE AdmissionTypeOK'
  OBVIOUS
<1>0. request \in [Requests -> Hooks]
  BY DEF AdmissionTypeOK, Hooks
<1>a. \A s \in {"new", "org", "admitted", "429"} : At(s) \in Hooks
  BY DEF Hooks
<1>1. ASSUME NEW r \in Requests, NEW tier \in Tiers, Stamp(r, tier) PROVE AdmissionTypeOK'
  <2>1. [step |-> "evalsha", tier |-> tier, at |-> now, member |-> <<r, "evalsha">>] \in Hooks
    BY DEF Hooks, Scripts, AdmissionTypeOK
  <2> HIDE DEF Hooks
  <2>2. request' \in [Requests -> Hooks]
    BY <1>0, <1>1, <2>1 DEF Stamp
  <2> QED BY <1>1, <2>2 DEF Stamp, AdmissionTypeOK, Hooks
<1>2. ASSUME NEW r \in Requests, SkipOrg(r) PROVE AdmissionTypeOK'
  <2>1. request' \in [Requests -> Hooks]
    BY <1>0, <1>2, <1>a DEF SkipOrg
  <2> QED BY <1>2, <2>1 DEF SkipOrg, AdmissionTypeOK, Hooks
<1>3. ASSUME NEW r \in Requests, RunScript(r) PROVE AdmissionTypeOK'
  <2>1. request[r].tier \in Tiers /\ request[r].at \in Stamps /\ request[r].member \in Members
    BY <1>0, <1>3, CallsAreScripts DEF RunScript
  <2> QED
    BY <1>3, <2>1, RecordTypes, JudgeTypes DEF RunScript, AdmissionTypeOK, Hooks
<1>4. ASSUME NEW r \in Requests, Retry(r) \/ LetThrough(r) PROVE AdmissionTypeOK'
  <2>1. /\ request[r] \in Scripts /\ Calling(r)
        /\ request[r].tier \in Tiers /\ request[r].at \in Stamps /\ request[r].member \in Members
    BY <1>0, <1>4, CallsAreScripts DEF Retry, LetThrough
  <2>2. /\ held' \in [Tiers -> SUBSET Held]
        /\ latest' \in [Tiers -> Stamps] /\ reordered' \subseteq Tiers
    <3>1. CASE Record(request[r].tier, request[r].at, request[r].member)
      BY <2>1, <3>1, RecordTypes
    <3>2. CASE UNCHANGED <<held, latest, reordered>>
      BY <3>2 DEF AdmissionTypeOK
    <3> QED BY <1>4, <3>1, <3>2 DEF Retry, LetThrough, PerhapsRecord
  <2>3. [request[r] EXCEPT !.step = "eval"] \in Hooks
    BY <2>1 DEF Scripts, Hooks
  <2>4. request' \in [Requests -> Hooks]
    <3>1. CASE Retry(r)
      <4>1. request' = [request EXCEPT ![r] = [request[r] EXCEPT !.step = "eval"]]
        BY <3>1 DEF Retry
      <4> QED BY <1>0, <2>3, <4>1
    <3>2. CASE LetThrough(r)
      BY <1>0, <1>a, <3>2 DEF LetThrough
    <3> QED BY <1>4, <3>1, <3>2
  <2>5. redisErrors' \in 0..MaxRedisErrors
    BY <1>4, AdmissionConstants DEF Retry, LetThrough, RedisError, AdmissionTypeOK
  <2> QED BY <1>4, <2>2, <2>4, <2>5 DEF Retry, LetThrough, AdmissionTypeOK, Hooks
<1>5. ASSUME NEW r \in Requests, CheckInMemory(r) PROVE AdmissionTypeOK'
  <2>1. "key" \in Tiers /\ now \in Stamps /\ <<r, "evalsha">> \in Members
    BY DEF Tiers, Members, AdmissionTypeOK
  <2> QED
    BY <1>5, <2>1, RecordTypes, JudgeTypes DEF CheckInMemory, AdmissionTypeOK, Hooks
<1>6. CASE TimePasses
  <2>1. now' \in Stamps
    BY <1>6, AdmissionConstants DEF TimePasses, AdmissionTypeOK, Stamps
  <2> QED BY <1>6, <2>1 DEF TimePasses, AdmissionTypeOK
<1>7. CASE UNCHANGED admissionVars
  BY <1>7 DEF admissionVars, AdmissionTypeOK
<1> QED
  BY <1>1, <1>2, <1>3, <1>4, <1>5, <1>6, <1>7 DEF AdmissionNext


LEMMA GivenType ==
  ASSUME NEW T, NEW field \in AtMostOne(T), NEW kept
  PROVE  Given(field, kept) \in T \cup {kept}
<1>1. CASE field = {}
  BY <1>1 DEF Given
<1>2. CASE field # {}
  <2>1. PICK x \in T : field = {x}
    BY <1>2 DEF AtMostOne
  <2>2. (CHOOSE y \in field : TRUE) \in field
    BY <2>1
  <2> QED BY <1>2, <2>1, <2>2 DEF Given
<1> QED BY <1>1, <1>2

\* A row that is patched with what a body gives is a row.
LEMMA PatchedKey ==
  ASSUME NEW k \in Keys, NEW body \in Bodies
  PROVE  Patched(k, body) \in Keys /\ AsOrdered(k, body) \in Keys
<1>1. /\ k.active \in BOOLEAN /\ k.scopes \in SUBSET Scopes
      /\ body.active \in AtMostOne(BOOLEAN) /\ body.scopes \in AtMostOne(ScopeSets)
  BY DEF Keys, Bodies
<1>2. Given(body.active, k.active) \in BOOLEAN
  <2>1. Given(body.active, k.active) \in BOOLEAN \cup {k.active}
    BY <1>1, GivenType
  <2> QED BY <1>1, <2>1
<1>3. Given(body.scopes, k.scopes) \in SUBSET Scopes
  <2>1. Given(body.scopes, k.scopes) \in ScopeSets \cup {k.scopes}
    BY <1>1, GivenType
  <2> QED BY <1>1, <2>1, AuthenticationConstants
<1> DEFINE a == Given(body.active, k.active)
           s == Given(body.scopes, k.scopes)
<1>4. Patched(k, body) = [k EXCEPT !.active = a, !.scopes = s]
      /\ AsOrdered(k, body) = [k EXCEPT !.active = a, !.scopes = s]
  BY DEF Patched, AsOrdered
<1> HIDE DEF a, s
<1>5. [k EXCEPT !.active = a, !.scopes = s] \in Keys
  BY <1>2, <1>3 DEF Keys, a, s
<1> QED BY <1>4, <1>5

\* What has landed never takes off again, and a counter counts what has.
Landed(S, k) == S \ InFlight(k)

CountsBounded ==
  /\ uses \in Nat /\ uses <= Cardinality(Landed(admitted, "use"))
  /\ errors \in Nat /\ errors <= Cardinality(Landed(failed, "error"))

LEMMA LandedStay ==
  ASSUME CountInv, [AuthNext]_authVars
  PROVE  /\ Landed(admitted, "use") \subseteq Landed(admitted, "use")'
         /\ Landed(failed, "error") \subseteq Landed(failed, "error")'
<1>0. Over.step = "done" /\ New.step = "new"
  BY DEF Over, New
<1>1. CASE UNCHANGED <<flight, admitted, failed>>
  BY <1>1 DEF Landed, InFlight
<1>2. ASSUME NEW c \in Callers, ResolveKey(c)
      PROVE  /\ Landed(admitted, "use") \subseteq Landed(admitted, "use")'
             /\ Landed(failed, "error") \subseteq Landed(failed, "error")'
  <2>1. c \notin admitted /\ c \notin failed
    BY <1>2 DEF ResolveKey, CountInv
  <2>2. /\ admitted \subseteq admitted' /\ failed \subseteq failed'
        /\ flight' \subseteq flight \cup {<<"use", c>>, <<"error", c>>}
    BY <1>2 DEF ResolveKey, Refuse
  <2> QED BY <2>1, <2>2 DEF Landed, InFlight
<1>3. ASSUME NEW c \in Callers, Respond(c)
      PROVE  /\ Landed(admitted, "use") \subseteq Landed(admitted, "use")'
             /\ Landed(failed, "error") \subseteq Landed(failed, "error")'
  <2>1. c \notin failed
    BY <1>3 DEF Respond, CountInv
  <2>2. /\ admitted \subseteq admitted' /\ failed \subseteq failed'
        /\ flight' \subseteq flight \cup {<<"error", c>>}
    BY <1>3 DEF Respond, Refuse
  <2> QED BY <2>1, <2>2 DEF Landed, InFlight
<1>4. ASSUME NEW c \in Callers, CountUse(c) \/ CountError(c)
      PROVE  /\ Landed(admitted, "use") \subseteq Landed(admitted, "use")'
             /\ Landed(failed, "error") \subseteq Landed(failed, "error")'
  BY <1>4 DEF CountUse, CountError, Landed, InFlight
<1> QED
  BY <1>1, <1>2, <1>3, <1>4
  DEF AuthNext, authVars, CreateKey, BeginUpdate, BeginDelete, Update, Remove, PresentKey,
      PresentToken, FindActive

LEMMA CountsBoundedStep ==
  ASSUME CountInv, CountInv', CountsBounded, [AuthNext]_authVars
  PROVE  CountsBounded'
<1> DEFINE L == Landed(admitted, "use")
           E == Landed(failed, "error")
<1>1. IsFiniteSet(L') /\ IsFiniteSet(E')
  <2>1. L' \subseteq Callers /\ E' \subseteq Callers
    BY DEF CountInv, Landed
  <2> QED BY <2>1, FS_Subset, AuthenticationConstants
<1>2. /\ L \subseteq L' /\ E \subseteq E'
  BY LandedStay
<1>3. /\ IsFiniteSet(L) /\ IsFiniteSet(E)
      /\ Cardinality(L) <= Cardinality(L') /\ Cardinality(E) <= Cardinality(E')
      /\ Cardinality(L) \in Nat /\ Cardinality(L') \in Nat
      /\ Cardinality(E) \in Nat /\ Cardinality(E') \in Nat
  <2>1. IsFiniteSet(L) /\ IsFiniteSet(E)
        /\ Cardinality(L) <= Cardinality(L') /\ Cardinality(E) <= Cardinality(E')
    BY <1>1, <1>2, FS_Subset
  <2> QED BY <1>1, <2>1, FS_CardinalityType
<1>4. CASE UNCHANGED <<uses, errors>>
  BY <1>3, <1>4 DEF CountsBounded
<1>5. ASSUME NEW c \in Callers, CountUse(c) PROVE CountsBounded'
  <2>1. Cardinality(L') = Cardinality(L) + 1
    <3>1. c \in InFlight("use") /\ admitted' = admitted /\ InFlight("use")' = InFlight("use") \ {c}
      BY <1>5 DEF CountUse, InFlight
    <3>2. IsFiniteSet(admitted) /\ InFlight("use") \in SUBSET admitted
      BY FS_Subset, AuthenticationConstants DEF CountInv
    <3> QED BY <3>1, <3>2, LandedOneMore DEF Landed
  <2> HIDE DEF L, E
  <2>2. uses' \in {uses, uses + 1} /\ errors' = errors
    BY <1>5 DEF CountUse
  <2>3. uses \in Nat /\ uses <= Cardinality(L) /\ errors \in Nat /\ errors <= Cardinality(E)
    BY DEF CountsBounded, L, E
  <2>4. /\ uses' \in Nat /\ uses' <= Cardinality(L') /\ errors' \in Nat /\ errors' <= Cardinality(E')
    BY <1>3, <2>1, <2>2, <2>3
  <2> QED BY <2>4 DEF CountsBounded, L, E
<1>6. ASSUME NEW c \in Callers, CountError(c) PROVE CountsBounded'
  <2>1. Cardinality(E') = Cardinality(E) + 1
    <3>1. c \in InFlight("error") /\ failed' = failed
          /\ InFlight("error")' = InFlight("error") \ {c}
      BY <1>6 DEF CountError, InFlight
    <3>2. IsFiniteSet(failed) /\ InFlight("error") \in SUBSET failed
      BY FS_Subset, AuthenticationConstants DEF CountInv
    <3> QED BY <3>1, <3>2, LandedOneMore DEF Landed
  <2> HIDE DEF L, E
  <2>2. errors' \in {errors, errors + 1} /\ uses' = uses
    BY <1>6 DEF CountError
  <2>3. uses \in Nat /\ uses <= Cardinality(L) /\ errors \in Nat /\ errors <= Cardinality(E)
    BY DEF CountsBounded, L, E
  <2>4. /\ uses' \in Nat /\ uses' <= Cardinality(L') /\ errors' \in Nat /\ errors' <= Cardinality(E')
    BY <1>3, <2>1, <2>2, <2>3
  <2> QED BY <2>4 DEF CountsBounded, L, E
<1> QED
  BY <1>4, <1>5, <1>6
  DEF AuthNext, authVars, CreateKey, BeginUpdate, BeginDelete, Update, Remove, PresentKey,
      PresentToken, FindActive, ResolveKey, Respond

\* Everything but the counters.
AuthShape ==
  /\ key \in Keys /\ order \in Keys
  /\ edit \in [Managers -> {Idle} \cup [step : {"update"}, body : Bodies]
                                  \cup {[step |-> "remove"]}]
  /\ edits \in 0..MaxEdits
  /\ visit \in [Callers -> Steps]
  /\ flight \subseteq {"use", "error"} \X Callers
  /\ granted \subseteq Callers /\ admitted \subseteq Callers /\ failed \subseteq Callers
  /\ uncounted \in BOOLEAN

LEMMA StepTypes ==
  /\ New \in Steps /\ Over \in Steps
  /\ \A route \in Routes : /\ [step |-> "lookup", route |-> route] \in Steps
                           /\ \A t \in {"jwt", "api_key"} :
                                [step |-> "handling", route |-> route, type |-> t] \in Steps
  /\ \A route \in Routes : \A r \in AtMostOne(SUBSET Scopes) :
       [step |-> "found", route |-> route, read |-> r] \in Steps
BY DEF Steps

LEMMA RouteTypes ==
  ASSUME NEW v \in Steps
  PROVE  /\ v.step \in {"lookup", "found", "handling"} => v.route \in Routes
         /\ v.step = "found" => v.read \in AtMostOne(SUBSET Scopes)
BY DEF Steps, New, Over

LEMMA OrderedTypes ==
  ASSUME AuthShape, NEW k \in Keys, Ordered(k)
  PROVE  order' \in Keys /\ granted' \subseteq Callers
BY DEF AuthShape, Ordered

LEMMA VisitTypes ==
  ASSUME AuthShape, NEW c \in Callers, NEW v \in Steps, visit' = [visit EXCEPT ![c] = v]
  PROVE  visit' \in [Callers -> Steps]
BY DEF AuthShape

LEMMA RefuseTypes ==
  ASSUME AuthShape, NEW c \in Callers, NEW S \in SUBSET {"use", "error"}, Refuse(c, S)
  PROVE  /\ visit' \in [Callers -> Steps] /\ failed' \subseteq Callers
         /\ flight' \subseteq {"use", "error"} \X Callers
<1>1. visit' \in [Callers -> Steps]
  BY StepTypes, VisitTypes DEF Refuse
<1> QED BY <1>1 DEF AuthShape, Refuse

LEMMA AuthShapeStep == AuthShape /\ [AuthNext]_authVars => AuthShape'
<1> SUFFICES ASSUME AuthShape, [AuthNext]_authVars PROVE AuthShape'
  OBVIOUS
<1> DEFINE Edits == {Idle} \cup [step : {"update"}, body : Bodies] \cup {[step |-> "remove"]}
<1>0. edit \in [Managers -> Edits] /\ edits \in 0..MaxEdits /\ MaxEdits \in Nat
  BY AuthenticationConstants DEF AuthShape
<1>1. ASSUME NEW S \in ScopeSets, CreateKey(S) PROVE AuthShape'
  <2>1. key' \in Keys
    BY <1>1, AuthenticationConstants DEF CreateKey, Keys
  <2> QED BY <1>1, <2>1, OrderedTypes DEF CreateKey, AuthShape
<1>2. ASSUME NEW m \in Managers, NEW body \in Bodies, BeginUpdate(m, body) PROVE AuthShape'
  <2>1. edit' \in [Managers -> Edits] /\ edits' \in 0..MaxEdits
    BY <1>0, <1>2 DEF BeginUpdate
  <2> QED BY <1>2, <2>1 DEF BeginUpdate, AuthShape
<1>3. ASSUME NEW m \in Managers, BeginDelete(m) PROVE AuthShape'
  <2>1. edit' \in [Managers -> Edits] /\ edits' \in 0..MaxEdits
    BY <1>0, <1>3 DEF BeginDelete
  <2> QED BY <1>3, <2>1 DEF BeginDelete, AuthShape
<1>4. ASSUME NEW m \in Managers, Update(m) PROVE AuthShape'
  <2>1. edit' \in [Managers -> Edits]
    BY <1>0, <1>4 DEF Update
  <2>2. edit[m].body \in Bodies
    <3>1. edit[m] \in Edits /\ edit[m].step = "update"
      BY <1>0, <1>4 DEF Update
    <3>2. Idle.step = "idle" /\ [step |-> "remove"].step = "remove"
      BY DEF Idle
    <3>3. edit[m] \in [step : {"update"}, body : Bodies]
      BY <3>1, <3>2
    <3> QED BY <3>3
  <2>3. key' \in Keys /\ order' \in Keys /\ granted' \subseteq Callers
    BY <1>4, <2>2, PatchedKey, OrderedTypes DEF Update, AuthShape
  <2> QED BY <1>4, <2>1, <2>3 DEF Update, AuthShape
<1>5. ASSUME NEW m \in Managers, Remove(m) PROVE AuthShape'
  <2>1. edit' \in [Managers -> Edits]
    BY <1>0, <1>5 DEF Remove
  <2>2. [key EXCEPT !.row = "deleted"] \in Keys /\ [order EXCEPT !.row = "deleted"] \in Keys
    BY DEF AuthShape, Keys
  <2> QED BY <1>5, <2>1, <2>2, OrderedTypes DEF Remove, AuthShape
<1>6. ASSUME NEW c \in Callers, NEW route \in Routes, PresentKey(c, route) PROVE AuthShape'
  <2>1. visit' \in [Callers -> Steps]
    BY <1>6, StepTypes, VisitTypes DEF PresentKey
  <2>2. granted' \subseteq Callers
    BY <1>6 DEF PresentKey, AuthShape
  <2> QED BY <1>6, <2>1, <2>2 DEF PresentKey, AuthShape
<1>7. ASSUME NEW c \in Callers, NEW route \in Routes, NEW t \in Tokens,
             PresentToken(c, route, t)
      PROVE  AuthShape'
  <2>1. visit' \in [Callers -> Steps]
    BY <1>7, StepTypes, VisitTypes DEF PresentToken
  <2> QED BY <1>7, <2>1 DEF PresentToken, AuthShape
<1>8. ASSUME NEW c \in Callers, FindActive(c) PROVE AuthShape'
  <2>1. visit[c].route \in Routes
    BY <1>8, RouteTypes DEF FindActive, AuthShape
  <2> DEFINE r == {k.scopes : k \in {x \in {key} : Usable(x)}}
  <2>2. r \in AtMostOne(SUBSET Scopes)
    <3>1. key.scopes \in SUBSET Scopes
      BY DEF AuthShape, Keys
    <3>2. r = {} \/ r = {key.scopes}
      OBVIOUS
    <3> QED BY <3>1, <3>2 DEF AtMostOne
  <2>3. visit' = [visit EXCEPT ![c] = [step |-> "found", route |-> visit[c].route, read |-> r]]
    BY <1>8 DEF FindActive
  <2> HIDE DEF r
  <2>4. visit' \in [Callers -> Steps]
    BY <2>1, <2>2, <2>3, StepTypes, VisitTypes
  <2> QED BY <1>8, <2>4 DEF FindActive, AuthShape
<1>9. ASSUME NEW c \in Callers, ResolveKey(c) PROVE AuthShape'
  <2>1. visit[c].route \in Routes
    BY <1>9, RouteTypes DEF ResolveKey, AuthShape
  <2> DEFINE v == [step |-> "handling", route |-> visit[c].route, type |-> "api_key"]
  <2>2. v \in Steps
    BY <2>1, StepTypes
  <2> HIDE DEF v
  <2>3. admitted' \subseteq Callers
    BY <1>9 DEF ResolveKey, AuthShape
  <2>4. /\ visit' \in [Callers -> Steps] /\ failed' \subseteq Callers
        /\ flight' \subseteq {"use", "error"} \X Callers
    <3>1. CASE visit' = [visit EXCEPT ![c] = Over] /\ UNCHANGED <<flight, failed>>
      BY <3>1, StepTypes, VisitTypes DEF AuthShape
    <3>2. CASE Refuse(c, {}) \/ Refuse(c, {"use"})
      BY <3>2, RefuseTypes
    <3>3. CASE /\ visit' = [visit EXCEPT ![c] = v]
               /\ flight' = flight \cup {<<"use", c>>} /\ UNCHANGED failed
      <4>1. visit' \in [Callers -> Steps]
        BY <2>2, <3>3, VisitTypes
      <4> QED BY <3>3, <4>1 DEF AuthShape
    <3> QED BY <1>9, <3>1, <3>2, <3>3 DEF ResolveKey, v
  <2> QED BY <1>9, <2>3, <2>4 DEF ResolveKey, AuthShape
<1>10. ASSUME NEW c \in Callers, Respond(c) PROVE AuthShape'
  <2>1. /\ visit' \in [Callers -> Steps] /\ failed' \subseteq Callers
        /\ flight' \subseteq {"use", "error"} \X Callers
    <3>1. CASE visit' = [visit EXCEPT ![c] = Over] /\ UNCHANGED <<flight, failed>>
      BY <3>1, StepTypes, VisitTypes DEF AuthShape
    <3>2. CASE Refuse(c, {})
      BY <3>2, RefuseTypes
    <3> QED BY <1>10, <3>1, <3>2 DEF Respond
  <2> QED BY <1>10, <2>1 DEF Respond, AuthShape
<1>11. ASSUME NEW c \in Callers, CountUse(c) \/ CountError(c) PROVE AuthShape'
  BY <1>11 DEF CountUse, CountError, AuthShape
<1>12. CASE UNCHANGED authVars
  BY <1>12 DEF authVars, AuthShape
<1> QED
  BY <1>1, <1>2, <1>3, <1>4, <1>5, <1>6, <1>7, <1>8, <1>9, <1>10, <1>11, <1>12 DEF AuthNext

AuthTypeInv == AuthShape /\ CountInv /\ CountsBounded

LEMMA AuthTypesInit == AuthInit => AuthTypeInv
<1> SUFFICES ASSUME AuthInit PROVE AuthTypeInv
  OBVIOUS
<1>1. CountInv
  BY CountInit
<1>2. NoKey \in Keys
  BY DEF NoKey, Keys
<1>3. AuthShape
  <2>1. visit \in [Callers -> Steps]
    BY StepTypes DEF AuthInit
  <2>2. edits \in 0..MaxEdits
    BY AuthenticationConstants DEF AuthInit
  <2>3. edit \in [Managers -> {Idle}]
    BY DEF AuthInit
  <2> QED BY <1>2, <2>1, <2>2, <2>3 DEF AuthInit, AuthShape
<1>4. CountsBounded
  <2>1. Landed(admitted, "use") = {} /\ Landed(failed, "error") = {}
    BY DEF AuthInit, Landed
  <2> QED BY <2>1, FS_EmptySet DEF AuthInit, CountsBounded
<1> QED BY <1>1, <1>3, <1>4 DEF AuthTypeInv

LEMMA AuthTypesStep == AuthTypeInv /\ [AuthNext]_authVars => AuthTypeInv'
BY CountStep, CountsBoundedStep, AuthShapeStep DEF AuthTypeInv

LEMMA AuthTypes == AuthTypeInv => AuthTypeOK
<1> SUFFICES ASSUME AuthTypeInv PROVE AuthTypeOK
  OBVIOUS
<1>1. \A S \in SUBSET Callers : Cardinality(S) \in Nat /\ Cardinality(S) <= Cardinality(Callers)
  BY FS_Subset, FS_CardinalityType, AuthenticationConstants
<1>2. /\ Landed(admitted, "use") \in SUBSET Callers /\ Landed(failed, "error") \in SUBSET Callers
  BY DEF AuthTypeInv, AuthShape, Landed
<1>3. Cardinality(Callers) \in Nat
  BY FS_CardinalityType, AuthenticationConstants
<1>4. uses \in 0..Cardinality(Callers) /\ errors \in 0..Cardinality(Callers)
  BY <1>1, <1>2, <1>3 DEF AuthTypeInv, CountsBounded
<1> QED BY <1>4 DEF AuthTypeInv, AuthShape, AuthTypeOK

\* Every part, whichever of them moves.
TypeInv ==
  /\ ExpensesTypeInv /\ CacheTypeInv /\ SseInv /\ MonitoringTypeInv /\ AdmissionTypeOK
  /\ EmployeesTypeOK /\ AuthTypeInv /\ StreamInv /\ Typed

LEMMA TypesInit == MCInit => TypeInv
<1> SUFFICES ASSUME MCInit PROVE TypeInv
  OBVIOUS
<1>1. ExpensesTypeInv
  BY ExpensesTypesInit DEF MCInit
<1>2. CacheTypeInv
  <2>1. CacheTypeOK
    BY CacheConstants DEF MCInit, CacheInit, CacheTypeOK, Entries, Asleep
  <2> QED BY <2>1, CacheInitInv DEF MCInit, CacheTypeInv
<1>3. SseInv /\ StreamInv /\ AuthTypeInv /\ Typed
  BY SseInitInv, StreamInitInv, AuthTypesInit, SecretsTypedInit DEF MCInit
<1>4. MonitoringTypeInv
  BY MonitoringConstants DEF MCInit, MonitoringInit, MonitoringTypeInv, MonitoringTypeOK
<1>5. AdmissionTypeOK
  <2>1. 0 \in Stamps /\ 0 \in 0..MaxRedisErrors
    BY AdmissionConstants DEF Stamps
  <2> QED BY <2>1 DEF MCInit, AdmissionInit, AdmissionTypeOK
<1>6. EmployeesTypeOK
  BY EmployeesConstants DEF MCInit, EmployeesInit, EmployeesTypeOK
<1> QED BY <1>1, <1>2, <1>3, <1>4, <1>5, <1>6 DEF TypeInv

LEMMA TypesStay ==
  ASSUME TypeInv,
         [MCNext]_<<part, expensesVars, cacheVars, sseVars, monitoringVars, admissionVars,
                    employeesVars, authVars, streamVars, secretsVars>>
  PROVE  TypeInv'
<1>1. [ExpensesNext]_expensesVars
  BY DEF MCNext, ExpensesStep
<1>2. [CacheNext]_cacheVars
  BY DEF MCNext, CacheStep
<1>3. [SseNext]_sseVars
  BY DEF MCNext, SseStep
<1>4. [MonitoringNext]_monitoringVars
  BY DEF MCNext, MonitoringStep
<1>5. [AdmissionNext]_admissionVars
  BY DEF MCNext, AdmissionStep
<1>6. [EmployeesNext]_employeesVars
  BY DEF MCNext, EmployeesStep
<1>7. [AuthNext]_authVars
  BY DEF MCNext, AuthStep
<1>8. [StreamNext]_streamVars
  BY DEF MCNext, DistanceStep
<1>9. [SecretsNext]_secretsVars
  BY DEF MCNext, SecretsStep
<1> QED
  BY <1>1, <1>2, <1>3, <1>4, <1>5, <1>6, <1>7, <1>8, <1>9, ExpensesTypesStep, CacheTypes,
     SseStepInv, MonitoringTypes, AdmissionTypes, EmployeesStay, AuthTypesStep, StreamStepInv,
     SecretsTypedStep DEF TypeInv

\* Whichever of the parts moves, and for any size of each, nothing leaves its
\* type: the counters of a key count no more than its requests, nor a job's
\* attempts or a claim's decisions more than there may be.
THEOREM PartsStayTyped == MCSpec => []TypeOK
<1>1. TypeInv => TypeOK
  BY ExpensesTypes, AuthTypes
  DEF TypeInv, TypeOK, CacheTypeInv, SseInv, MonitoringTypeInv, StreamInv, Typed
<1> QED BY <1>1, TypesInit, TypesStay, PTL DEF MCSpec

=============================================================================
