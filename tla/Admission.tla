------------------------------ MODULE Admission -------------------------------
(***************************************************************************)
(* The sliding windows of plugins/security/ratelimit.plugin.ts for one API *)
(* key and its organisation, in Redis or, without workers, in the memory   *)
(* of one process (the key's window only).  A request stamps itself, and   *)
(* the Lua script runs when Redis comes to it.                             *)
(*                                                                         *)
(* The tier of the users is @fastify/rate-limit's own and not modelled.    *)
(***************************************************************************)
EXTENDS Integers, FiniteSets

CONSTANTS
  Requests,
  Window,            \* *_RATE_LIMIT_WINDOW_MS, in ticks
  KeyMax, OrgMax,    \* API_KEY_RATE_LIMIT_MAX, ORG_RATE_LIMIT_MAX
  MaxNow,            \* bound: ticks
  MaxRedisErrors     \* bound: calls of Redis that fail

ASSUME AdmissionConstants ==
  /\ Window \in Nat \ {0} /\ KeyMax \in Nat \ {0} /\ OrgMax \in Nat \ {0}
  /\ MaxNow \in Nat /\ MaxRedisErrors \in Nat

VARIABLES
  inRedis,           \* shouldStartWorkers()
  now,
  held,              \* tier -> the sorted set: [at, member]
  request,           \* request -> how far its preHandler hook is
  passed,            \* history: tier -> [at, by] of the requests it let through on a count
  refused,           \* history: [tier, crowd]: the requests counted when one was refused
  latest,            \* history: tier -> the greatest stamp the script saw
  reordered,         \* history: tiers whose script saw stamps out of order
  redisErrors

admissionVars == <<inRedis, now, held, request, passed, refused, latest, reordered, redisErrors>>

Tiers == {"key", "org"}
LimitOf(tier) == IF tier = "key" THEN KeyMax ELSE OrgMax
Stamps == 0..MaxNow
Held == [at : Stamps, member : Requests \X {"evalsha", "eval"}]

At(place) == [step |-> place]
Scripts == [step : {"evalsha", "eval"}, tier : Tiers, at : Stamps,
            member : Requests \X {"evalsha", "eval"}]

AdmissionTypeOK ==
  /\ inRedis \in BOOLEAN /\ now \in Stamps
  /\ held \in [Tiers -> SUBSET Held]
  /\ request \in [Requests -> {At(s) : s \in {"new", "org", "admitted", "429"}} \cup Scripts]
  /\ passed \in [Tiers -> SUBSET [at : Stamps, by : Requests]]
  /\ refused \subseteq [tier : Tiers, crowd : SUBSET Requests]
  /\ latest \in [Tiers -> Stamps] /\ reordered \subseteq Tiers
  /\ redisErrors \in 0..MaxRedisErrors

AdmissionInit ==
  /\ inRedis \in BOOLEAN /\ now = 0
  /\ held = [t \in Tiers |-> {}]
  /\ request = [r \in Requests |-> At("new")]
  /\ passed = [t \in Tiers |-> {}] /\ refused = {}
  /\ latest = [t \in Tiers |-> 0] /\ reordered = {}
  /\ redisErrors = 0

\* A hook under way: a request behind a script call.
Calling(r) == request[r].step \in {"evalsha", "eval"}

\* Of the entries, those the script keeps at a stamp.
Kept(tier, at) == {e \in held[tier] : e.at > at - Window}

\* SLIDING_WINDOW_LUA: evict, add, and the entries there are to be counted.
Record(tier, at, member) ==
  /\ held' = [held EXCEPT ![tier] = Kept(tier, at) \cup {[at |-> at, member |-> member]}]
  /\ latest' = [latest EXCEPT ![tier] = IF at > @ THEN at ELSE @]
  /\ reordered' = IF at < latest[tier] THEN reordered \cup {tier} ELSE reordered

\* Mutant: counted before it is added.
CountOneLess(tier) == Cardinality(held'[tier]) - 1

\* ZCARD, after the request itself was added.
Count(tier) == Cardinality(held'[tier])

\* The verdict on a count; a key's request goes on to its organisation's tier.
Judge(r, tier, at) ==
  IF Count(tier) > LimitOf(tier)
  THEN /\ request' = [request EXCEPT ![r] = At("429")]
       /\ refused' = refused \cup {[tier |-> tier, crowd |-> {e.member[1] : e \in held'[tier]}]}
       /\ UNCHANGED passed
  ELSE /\ request' = [request EXCEPT ![r] = At(IF tier = "key" /\ inRedis THEN "org" ELSE "admitted")]
       /\ passed' = [passed EXCEPT ![tier] = @ \cup {[at |-> at, by |-> r]}]
       /\ UNCHANGED refused

\* Date.now() and a random member, before the script is sent.
Stamp(r, tier) ==
  /\ inRedis
  /\ request[r].step \in IF tier = "key" THEN {"new"} ELSE {"new", "org"}
  /\ request' = [request EXCEPT ![r] =
       [step |-> "evalsha", tier |-> tier, at |-> now, member |-> <<r, "evalsha">>]]
  /\ UNCHANGED <<inRedis, now, held, passed, refused, latest, reordered, redisErrors>>

\* A request from the loopback address has no organisation tier, nor has one
\* without a token, nor any without Redis.
SkipOrg(r) ==
  /\ request[r].step \in {"new", "org"}
  /\ request' = [request EXCEPT ![r] = At("admitted")]
  /\ UNCHANGED <<inRedis, now, held, passed, refused, latest, reordered, redisErrors>>

RunScript(r) ==
  /\ Calling(r)
  /\ Record(request[r].tier, request[r].at, request[r].member)
  /\ Judge(r, request[r].tier, request[r].at)
  /\ UNCHANGED <<inRedis, now, redisErrors>>

RedisError == redisErrors < MaxRedisErrors /\ redisErrors' = redisErrors + 1

\* The script may have run before its answer was lost.
PerhapsRecord(c) ==
  \/ Record(c.tier, c.at, c.member)
  \/ UNCHANGED <<held, latest, reordered>>

\* Mutant: a member of its own for the second call.
RetryAsAnother(r) ==
  /\ Calling(r) /\ request[r].step = "evalsha" /\ RedisError
  /\ PerhapsRecord(request[r])
  /\ request' = [request EXCEPT ![r].step = "eval", ![r].member = <<r, "eval">>]
  /\ UNCHANGED <<inRedis, now, passed, refused>>

\* evalsha failed: eval, with the same stamp and the same member.
Retry(r) ==
  /\ Calling(r) /\ request[r].step = "evalsha" /\ RedisError
  /\ PerhapsRecord(request[r])
  /\ request' = [request EXCEPT ![r].step = "eval"]
  /\ UNCHANGED <<inRedis, now, passed, refused>>

\* eval failed: "let the request through", past the organisation's tier too.
LetThrough(r) ==
  /\ Calling(r) /\ request[r].step = "eval" /\ RedisError
  /\ PerhapsRecord(request[r])
  /\ request' = [request EXCEPT ![r] = At("admitted")]
  /\ UNCHANGED <<inRedis, now, passed, refused>>

\* The hook without Redis: one synchronous step.
CheckInMemory(r) ==
  /\ ~inRedis /\ request[r] = At("new")
  /\ Record("key", now, <<r, "evalsha">>)
  /\ Judge(r, "key", now)
  /\ UNCHANGED <<inRedis, now, redisErrors>>

TimePasses ==
  /\ now < MaxNow /\ now' = now + 1
  /\ UNCHANGED <<inRedis, held, request, passed, refused, latest, reordered, redisErrors>>

AdmissionNext ==
  \/ \E r \in Requests :
       \/ \E tier \in Tiers : Stamp(r, tier)
       \/ SkipOrg(r) \/ RunScript(r) \/ Retry(r) \/ LetThrough(r) \/ CheckInMemory(r)
  \/ TimePasses

AdmissionSpec == AdmissionInit /\ [][AdmissionNext]_admissionVars

-----------------------------------------------------------------------------
(* Properties.                                                             *)

\* No window of time, wherever it begins, holds more requests that a tier let
\* through on its count than the tier allows, if Redis ran its scripts in the
\* order of their stamps: a stamp taken earlier and run later evicts too little,
\* and one taken later evicts what an earlier one should count.
WithinWindow ==
  \A tier \in Tiers \ reordered : \A t \in Stamps :
    Cardinality({p \in passed[tier] : p.at \in (t - Window + 1)..t}) <= LimitOf(tier)

\* And nobody is refused for being counted twice: whatever was retried, a 429
\* stands for more requests than the tier allows.
RefusedJustly == \A x \in refused : Cardinality(x.crowd) > LimitOf(x.tier)

=============================================================================
