------------------------------- MODULE OrgCache -------------------------------
(***************************************************************************)
(* utils/cache.ts for one key of one organisation: a map in each process   *)
(* (L1) before Redis (L2) before the database.  A read fills what it       *)
(* missed; invalidateOrgAnalytics empties the L1 of its own process and    *)
(* then Redis.                                                             *)
(*                                                                         *)
(* Values are the versions of what the database would answer.  An entry    *)
(* holds a version, the ticks since it was read from the database, and the *)
(* ticks it has left.  ASSUMED: no tick passes while a value is on its way *)
(* from the database into the caches (a call takes milliseconds, a TTL is  *)
(* 30 seconds or more).                                                    *)
(***************************************************************************)
EXTENDS Naturals

CONSTANTS
  Processes,
  TTL,               \* ttlSeconds, in ticks
  MaxVersion         \* bound: writes to the database

ASSUME CacheConstants == TTL \in Nat \ {0} /\ MaxVersion \in Nat

VARIABLES
  version,           \* what the database would answer
  l1, l2,            \* process -> its entry, and that of Redis
  reader,            \* process -> a getCached under way
  sweep,             \* process -> an invalidateOrgAnalytics under way
  sweptAt,           \* history: process -> version when it last swept its L1
  raced              \* history: processes whose last invalidation met a read, or failed

cacheVars == <<version, l1, l2, reader, sweep, sweptAt, raced>>

Nothing == [left |-> 0]
Asleep  == [step |-> "none"]
Holds(entry) == entry.left > 0

Entries == {Nothing} \cup [val : 0..MaxVersion, age : 0..(2 * TTL), left : 1..TTL]

CacheTypeOK ==
  /\ version \in 0..MaxVersion
  /\ l1 \in [Processes -> Entries] /\ l2 \in Entries
  /\ \A p \in Processes :
       /\ reader[p].step \in {"none", "redis", "l1", "l2"}
       /\ reader[p].step \in {"l1", "l2"} => reader[p].val \in 0..version
  /\ sweep \in [Processes -> {"none", "due", "redis"}]
  /\ sweptAt \in [Processes -> 0..MaxVersion] /\ raced \subseteq Processes

CacheInit ==
  /\ version = 0
  /\ l1 = [p \in Processes |-> Nothing] /\ l2 = Nothing
  /\ reader = [p \in Processes |-> Asleep]
  /\ sweep = [p \in Processes |-> "none"]
  /\ sweptAt = [p \in Processes |-> 0] /\ raced = {}

\* A row changes.  A recalculated session or a recomputed day has its process
\* invalidate the organisation afterwards; any other write (a review, a new
\* expense, whose metric call fails before it) does not.
WriteRow(p) ==
  /\ version < MaxVersion /\ version' = version + 1
  /\ \/ sweep[p] = "none" /\ sweep' = [sweep EXCEPT ![p] = "due"]
     \/ UNCHANGED sweep
  /\ UNCHANGED <<l1, l2, reader, sweptAt, raced>>

\* getCached: a hit in L1 answers at once.
Miss(p) ==
  /\ reader[p] = Asleep /\ ~Holds(l1[p])
  /\ reader' = [reader EXCEPT ![p] = [step |-> "redis"]]
  /\ UNCHANGED <<version, l1, l2, sweep, sweptAt, raced>>

\* Mutant: a hit in Redis extends the entry there.
RedisHitRenews(p) ==
  /\ reader[p].step = "redis" /\ Holds(l2)
  /\ l1' = [l1 EXCEPT ![p] = [val |-> l2.val, age |-> l2.age, left |-> TTL]]
  /\ l2' = [l2 EXCEPT !.left = TTL]
  /\ reader' = [reader EXCEPT ![p] = Asleep]
  /\ raced' = IF sweep[p] = "redis" THEN raced \cup {p} ELSE raced
  /\ UNCHANGED <<version, sweep, sweptAt>>

\* A hit in Redis goes into L1, for a whole TTL ...
RedisHit(p) ==
  /\ reader[p].step = "redis" /\ Holds(l2)
  /\ l1' = [l1 EXCEPT ![p] = [val |-> l2.val, age |-> l2.age, left |-> TTL]]
  /\ reader' = [reader EXCEPT ![p] = Asleep]
  /\ raced' = IF sweep[p] = "redis" THEN raced \cup {p} ELSE raced
  /\ UNCHANGED <<version, l2, sweep, sweptAt>>

\* ... a miss, or an error, leads to the database: fn() ...
ReadSource(p) ==
  /\ reader[p].step = "redis"
  /\ reader' = [reader EXCEPT ![p] = [step |-> "l1", val |-> version]]
  /\ UNCHANGED <<version, l1, l2, sweep, sweptAt, raced>>

\* ... and its answer into L1 ...
FillL1(p) ==
  /\ reader[p].step = "l1"
  /\ l1' = [l1 EXCEPT ![p] = [val |-> reader[p].val, age |-> 0, left |-> TTL]]
  /\ reader' = [reader EXCEPT ![p] = [step |-> "l2", val |-> reader[p].val]]
  /\ UNCHANGED <<version, l2, sweep, sweptAt, raced>>

\* ... and into Redis, unless that fails.
FillL2(p) ==
  /\ reader[p].step = "l2"
  /\ l2' \in {[val |-> reader[p].val, age |-> 0, left |-> TTL], l2}
  /\ reader' = [reader EXCEPT ![p] = Asleep]
  /\ UNCHANGED <<version, l1, sweep, sweptAt, raced>>

\* L1_MAX other entries came in: the oldest goes.
Evict(p) ==
  /\ Holds(l1[p])
  /\ l1' = [l1 EXCEPT ![p] = Nothing]
  /\ UNCHANGED <<version, l2, reader, sweep, sweptAt, raced>>

\* Mutant: L1 is left to its TTL.
SweepL1Not(p) ==
  /\ sweep[p] = "due"
  /\ sweep' = [sweep EXCEPT ![p] = "redis"]
  /\ sweptAt' = [sweptAt EXCEPT ![p] = version]
  /\ raced' = IF \E q \in Processes : reader[q].step \in {"l1", "l2"}
              THEN raced \cup {p} ELSE raced \ {p}
  /\ UNCHANGED <<version, l1, l2, reader>>

\* invalidateOrgAnalytics: L1 of the process first.  A value read before is out
\* of its reach ...
SweepL1(p) ==
  /\ sweep[p] = "due"
  /\ l1' = [l1 EXCEPT ![p] = Nothing]
  /\ sweep' = [sweep EXCEPT ![p] = "redis"]
  /\ sweptAt' = [sweptAt EXCEPT ![p] = version]
  /\ raced' = IF \E q \in Processes : reader[q].step \in {"l1", "l2"}
              THEN raced \cup {p} ELSE raced \ {p}
  /\ UNCHANGED <<version, l2, reader>>

\* ... then Redis; an error is swallowed, and what is there stays.
SweepL2(p) ==
  /\ sweep[p] = "redis"
  /\ sweep' = [sweep EXCEPT ![p] = "none"]
  /\ \/ l2' = Nothing /\ UNCHANGED raced
     \/ UNCHANGED l2 /\ raced' = raced \cup {p}
  /\ UNCHANGED <<version, l1, reader, sweptAt>>

Older(entry) ==
  IF entry.left <= 1 THEN Nothing
  ELSE [val |-> entry.val, age |-> entry.age + 1, left |-> entry.left - 1]

Tick ==
  /\ \A p \in Processes : reader[p].step \notin {"l1", "l2"}
  /\ l1' = [p \in Processes |-> Older(l1[p])]
  /\ l2' = Older(l2)
  /\ UNCHANGED <<version, reader, sweep, sweptAt, raced>>

CacheNext ==
  \/ \E p \in Processes :
       \/ WriteRow(p) \/ Miss(p) \/ RedisHit(p) \/ ReadSource(p) \/ FillL1(p) \/ FillL2(p)
       \/ Evict(p) \/ SweepL1(p) \/ SweepL2(p)
  \/ Tick

CacheSpec == CacheInit /\ [][CacheNext]_cacheVars

-----------------------------------------------------------------------------
(* Properties.                                                             *)

\* Whatever processes take over from each other through Redis, nobody is served
\* an answer older than two TTLs: Redis never learns a value but from the
\* database, and L1 keeps one of Redis for a TTL at most.
StaleAtMostTwoTTL ==
  /\ Holds(l2) => l2.age + l2.left <= TTL
  /\ \A p \in Processes : Holds(l1[p]) => l1[p].age + l1[p].left <= 2 * TTL

\* After an invalidation that no read of an older value overlapped, its process is
\* not served anything older than the write it followed, from L1 or from Redis.
SweptIsFresh ==
  \A p \in Processes \ raced :
    /\ Holds(l1[p]) => l1[p].val >= sweptAt[p]
    /\ sweep[p] # "redis" /\ Holds(l2) => l2.val >= sweptAt[p]

=============================================================================
