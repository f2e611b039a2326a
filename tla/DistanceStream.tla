---------------------------- MODULE DistanceStream ----------------------------
(***************************************************************************)
(* streamAndCalculateDistance (session_summary.service.ts): the points of  *)
(* one session, read page by page in the order of recorded_at and by       *)
(* OFFSET, and added up, while requests that were under way at check-out   *)
(* still store points between two pages.  Places lie on one meridian.       *)
(***************************************************************************)
EXTENDS Integers, FiniteSets, Sums

CONSTANTS
  Times,             \* recorded_at of the points
  Places,            \* where they are
  ChunkSize,         \* CHUNK_SIZE
  MaxPoints          \* MAX_POINTS_PER_SESSION

ASSUME StreamConstants ==
  /\ IsFiniteSet(Times) /\ Times \subseteq Nat /\ Places \subseteq Int
  /\ ChunkSize \in Nat \ {0} /\ MaxPoints \in Nat

VARIABLES
  stored,            \* gps_locations of the session
  phase,             \* "off", "reading", "done", "rejected"
  page, total, metres,
  tail,              \* lastPointFromPreviousChunk, the empty set for null
  base,              \* history: the points when the stream began
  seen               \* history: the points it read

streamVars == <<stored, phase, page, total, metres, tail, base, seen>>

PointsOf == [t : Times, at : Places]

StreamTypeOK ==
  /\ stored \subseteq PointsOf /\ base \subseteq stored /\ seen \subseteq stored
  /\ phase \in {"off", "reading", "done", "rejected"}
  /\ page \in Nat \ {0} /\ total \in Nat /\ metres \in Nat
  /\ tail \subseteq seen /\ Cardinality(tail) <= 1

StreamInit ==
  /\ stored = {} /\ base = {} /\ seen = {} /\ tail = {}
  /\ phase = "off" /\ page = 1 /\ total = 0 /\ metres = 0

-----------------------------------------------------------------------------

\* calculateHaversineDistance, along the meridian.
Distance(p, q) == IF p.at < q.at THEN q.at - p.at ELSE p.at - q.at

\* How many points come before one.
RankIn(S, p) == Cardinality({q \in S : q.t < p.t})

FirstOf(S) == CHOOSE p \in S : \A q \in S : p.t <= q.t
LastOf(S)  == CHOOSE p \in S : \A q \in S : q.t <= p.t

\* The legs between points that follow each other, added up.
LegsFrom(S) == {l \in S \X S : RankIn(S, l[2]) = RankIn(S, l[1]) + 1}
LegLength == [l \in PointsOf \X PointsOf |-> Distance(l[1], l[2])]
PathLength(S) == SumOver(LegLength, LegsFrom(S))

\* findPointsForDistancePaginated.
Chunk(n) == {p \in stored : RankIn(stored, p) \in (n - 1) * ChunkSize .. n * ChunkSize - 1}

\* UNIQUE (session_id, recorded_at).
StorePoint(p) ==
  /\ \A q \in stored : q.t # p.t
  /\ stored' = stored \cup {p}
  /\ UNCHANGED <<phase, page, total, metres, tail, base, seen>>

BeginStream ==
  /\ phase = "off"
  /\ phase' = "reading" /\ base' = stored
  /\ UNCHANGED <<stored, page, total, metres, tail, seen>>

\* Mutant: the chunks are not bridged.
AddChunkUnbridged(chunk) == metres' = metres + PathLength(chunk)

\* The legs within a chunk, and the one from the tail of the chunk before.
AddChunk(chunk) ==
  metres' = metres + PathLength(chunk)
              + SumOver(LegLength, tail \X {FirstOf(chunk)})

\* One round trip and what is done with its answer; no page comes after a short one.
ReadChunk ==
  /\ phase = "reading"
  /\ LET chunk == Chunk(page) IN
     \/ /\ chunk = {}
        /\ phase' = "done"
        /\ UNCHANGED <<page, total, metres, tail, seen>>
     \/ /\ chunk # {}
        /\ total' = total + Cardinality(chunk)
        /\ seen' = seen \cup chunk
        /\ IF total' > MaxPoints
           THEN phase' = "rejected" /\ UNCHANGED <<page, metres, tail>>
           ELSE /\ AddChunk(chunk)
                /\ tail' = {LastOf(chunk)}
                /\ IF Cardinality(chunk) < ChunkSize
                   THEN phase' = "done" /\ UNCHANGED page
                   ELSE page' = page + 1 /\ UNCHANGED phase
  /\ UNCHANGED <<stored, base>>

StreamNext ==
  \/ \E p \in PointsOf : StorePoint(p)
  \/ BeginStream \/ ReadChunk

StreamSpec == StreamInit /\ [][StreamNext]_streamVars

-----------------------------------------------------------------------------
\* Nothing is lost at the seams of the pages: a stream that ends has read every
\* point there was when it began, however the points stored meanwhile shift the
\* offsets; and if there were none, its metres are the length of the path and its
\* count that of the points.  It gives up only on more points than allowed.
StreamIsExact ==
  /\ phase = "done" =>
       /\ base \subseteq seen
       /\ stored = base => total = Cardinality(base) /\ metres = PathLength(base)
  /\ phase = "rejected" /\ stored = base => Cardinality(base) > MaxPoints

=============================================================================
