---------------------------- MODULE SseConnections ----------------------------
(***************************************************************************)
(* GET /admin/events (routes/events.routes.ts) in one process and for one  *)
(* organisation: a counter of connections, the listeners of the            *)
(* organisation's channel on sseEventBus, and the clients behind them.     *)
(*                                                                         *)
(* Authentication is awaited before the handler runs.  ASSUMED of Fastify: *)
(* it runs the handler although the client left meanwhile; a listener for  *)
(* "close" added then is never called.                                     *)
(***************************************************************************)
EXTENDS Naturals, FiniteSets

CONSTANTS
  Clients,
  MaxConnections     \* MAX_SSE_CONNECTIONS_PER_ORG

ASSUME SseConstants == IsFiniteSet(Clients) /\ MaxConnections \in Nat \ {0}

VARIABLES
  client,            \* client -> "away", "authenticating", "left", "streaming"
  count,             \* orgConnectionCount of the organisation
  listening,         \* clients with a listener and a heartbeat
  leaked             \* history: clients gone before their handler ran

sseVars == <<client, count, listening, leaked>>

SseTypeOK ==
  /\ client \in [Clients -> {"away", "authenticating", "left", "streaming"}]
  /\ count \in Nat
  /\ listening \subseteq Clients /\ leaked \subseteq Clients

SseInit ==
  /\ client = [c \in Clients |-> "away"]
  /\ count = 0 /\ listening = {} /\ leaked = {}

\* A client whose listener leaked comes back as another client.
Connect(c) ==
  /\ client[c] = "away" /\ c \notin leaked
  /\ client' = [client EXCEPT ![c] = "authenticating"]
  /\ UNCHANGED <<count, listening, leaked>>

LeaveEarly(c) ==
  /\ client[c] = "authenticating"
  /\ client' = [client EXCEPT ![c] = "left"]
  /\ UNCHANGED <<count, listening, leaked>>

RefuseToken(c) ==
  /\ client[c] \in {"authenticating", "left"}
  /\ client' = [client EXCEPT ![c] = "away"]
  /\ UNCHANGED <<count, listening, leaked>>

\* The handler, up to the listener for "close"; 429 at the limit.
Stream(c) ==
  /\ client[c] \in {"authenticating", "left"}
  /\ IF count >= MaxConnections
     THEN /\ client' = [client EXCEPT ![c] = "away"]
          /\ UNCHANGED <<count, listening, leaked>>
     ELSE /\ count' = count + 1 /\ listening' = listening \cup {c}
          /\ IF client[c] = "left"
             THEN /\ client' = [client EXCEPT ![c] = "away"]
                  /\ leaked' = leaked \cup {c}
             ELSE /\ client' = [client EXCEPT ![c] = "streaming"]
                  /\ UNCHANGED leaked

\* Mutant: the counter of the last connection is kept, not deleted.
DisconnectKeepsLast(c) ==
  /\ client[c] = "streaming"
  /\ client' = [client EXCEPT ![c] = "away"]
  /\ listening' = listening \ {c}
  /\ count' = IF count <= 1 THEN count ELSE count - 1
  /\ UNCHANGED leaked

\* "close".
Disconnect(c) ==
  /\ client[c] = "streaming"
  /\ client' = [client EXCEPT ![c] = "away"]
  /\ listening' = listening \ {c}
  /\ count' = IF count <= 1 THEN 0 ELSE count - 1
  /\ UNCHANGED leaked

\* The process restarts.
RestartApi ==
  /\ client' = [c \in Clients |-> "away"]
  /\ count' = 0 /\ listening' = {} /\ leaked' = {}

SseNext ==
  \/ \E c \in Clients :
       Connect(c) \/ LeaveEarly(c) \/ RefuseToken(c) \/ Stream(c) \/ Disconnect(c)
  \/ RestartApi

SseSpec == SseInit /\ [][SseNext]_sseVars

-----------------------------------------------------------------------------
\* "Prevents file-descriptor exhaustion" (events.routes.ts): whatever order
\* clients come and go in, the counter is the number of listeners, within the
\* limit, and a listener without a client is one whose client left before its
\* handler ran.
SlotsAreListeners ==
  /\ count = Cardinality(listening) /\ count <= MaxConnections
  /\ listening = {c \in Clients : client[c] = "streaming"} \cup leaked

=============================================================================
