---------------------------- MODULE Authentication ----------------------------
(***************************************************************************)
(* How a request gets past middleware/auth.ts, api-key-scope.ts and        *)
(* role-guard.ts to its handler, with a token or with an API key, while    *)
(* administrators change that key (modules/api-keys).  One key, as a key   *)
(* matches the hash of its own row only.                                   *)
(***************************************************************************)
EXTENDS Naturals, FiniteSets

CONSTANTS
  Callers,           \* requests, each made once
  Managers,          \* concurrent requests that change the key
  ScopeSets,         \* what a body gives as scopes
  MaxEdits           \* bound: updates and deletions of the key

Scopes == {"read:employees", "read:sessions", "write:expenses", "admin:all"}

ASSUME AuthenticationConstants ==
  /\ IsFiniteSet(Callers)
  /\ ScopeSets \subseteq SUBSET Scopes \ {{}}
  /\ MaxEdits \in Nat

VARIABLES
  key,               \* the row of api_keys
  edit,              \* manager -> Idle, or its update or deletion
  edits,
  visit,              \* caller -> how far its request is
  flight,            \* increments nobody waits for: <<counter, caller>>
  uses, errors,      \* request_count and error_count
  order,             \* history: the row as the last bodies want it
  granted,           \* history: callers whose route the order allowed at some moment of the request
  admitted, failed,  \* history: callers with the key's scope, those told 4xx or 5xx
  uncounted          \* history: an increment failed or found the key inactive

authVars == <<key, edit, edits, visit, flight, uses, errors, order, granted, admitted, failed,
              uncounted>>

-----------------------------------------------------------------------------
(* Routes, their scopes and guards.                                        *)

\* One route of every kind: scope it needs, and guards after authenticate.
Routes == {"me", "employees", "sessions", "mySessions", "decide", "submit", "checkIn", "manage"}

RouteScope(route) ==
  CASE route = "me"                          -> "none"
    [] route = "employees"                   -> "read:employees"
    [] route \in {"sessions", "mySessions"}  -> "read:sessions"
    [] route = "decide"                      -> "write:expenses"
    [] OTHER                                 -> "admin:all"

HasScope(scopes, route) ==
  RouteScope(route) = "none" \/ "admin:all" \in scopes \/ RouteScope(route) \in scopes

\* requireRole, requireEmployeeHook and requireJwtAuth, as the routes name them.
Passes(route, who) ==
  /\ route \in {"employees", "sessions", "decide", "manage"} => who.role = "ADMIN"
  /\ route = "checkIn" => who.role = "EMPLOYEE"
  /\ route = "submit"  => who.employee
  /\ route = "manage"  => who.type = "jwt"

KeyUser == [type |-> "api_key", role |-> "ADMIN", employee |-> FALSE]

\* What a token claims; without the auth hook the role is "authenticated".
Tokens == [valid : BOOLEAN, role : {"ADMIN", "EMPLOYEE", "authenticated"},
           org : BOOLEAN, employee : BOOLEAN]

\* verifySupabaseToken, then the claims.
Accepted(t) ==
  /\ t.valid /\ t.org
  /\ t.role = "EMPLOYEE" => t.employee
  /\ t.role \in {"ADMIN", "EMPLOYEE"}

TokenUser(t) == [type |-> "jwt", role |-> t.role, employee |-> t.employee]

-----------------------------------------------------------------------------

NoKey == [row |-> "none", active |-> FALSE, scopes |-> {}]
Keys  == [row : {"none", "there", "deleted"}, active : BOOLEAN, scopes : SUBSET Scopes]
Usable(k) == k.row = "there" /\ k.active
Allows(k, route) == Usable(k) /\ HasScope(k.scopes, route)

\* A field the body leaves out is the empty set.
AtMostOne(S) == {{}} \cup {{x} : x \in S}
Bodies == [active : AtMostOne(BOOLEAN), scopes : AtMostOne(ScopeSets)]
Given(field, kept) == IF field = {} THEN kept ELSE CHOOSE x \in field : TRUE

Idle == [step |-> "idle"]
New  == [step |-> "new"]
Over == [step |-> "done"]
Steps ==
  {New, Over} \cup [step : {"lookup"}, route : Routes]
  \cup [step : {"found"}, route : Routes, read : AtMostOne(SUBSET Scopes)]
  \cup [step : {"handling"}, route : Routes, type : {"jwt", "api_key"}]

AuthTypeOK ==
  /\ key \in Keys /\ order \in Keys
  /\ edit \in [Managers -> {Idle} \cup [step : {"update"}, body : Bodies]
                                  \cup {[step |-> "remove"]}]
  /\ edits \in 0..MaxEdits
  /\ visit \in [Callers -> Steps]
  /\ flight \subseteq {"use", "error"} \X Callers
  /\ uses \in 0..Cardinality(Callers) /\ errors \in 0..Cardinality(Callers)
  /\ granted \subseteq Callers /\ admitted \subseteq Callers /\ failed \subseteq Callers
  /\ uncounted \in BOOLEAN

AuthInit ==
  /\ key = NoKey /\ order = NoKey
  /\ edit = [m \in Managers |-> Idle] /\ edits = 0
  /\ visit = [c \in Callers |-> New]
  /\ flight = {} /\ uses = 0 /\ errors = 0
  /\ granted = {} /\ admitted = {} /\ failed = {} /\ uncounted = FALSE

Underway(c) == visit[c].step \in {"lookup", "found"}

\* The administrators' orders change: who is served meanwhile is granted by either.
Ordered(k) ==
  /\ order' = k
  /\ granted' = granted \cup {c \in Callers : Underway(c) /\ Allows(k, visit[c].route)}

-----------------------------------------------------------------------------
(* Administrators.                                                         *)

\* The table's check, and updateKey's own: admin:all stands alone.
AdminAlone(S) == "admin:all" \in S => S = {"admin:all"}

\* createKey: one insert.
CreateKey(S) ==
  /\ key.row = "none" /\ AdminAlone(S)
  /\ key' = [row |-> "there", active |-> TRUE, scopes |-> S]
  /\ Ordered(key')
  /\ UNCHANGED <<edit, edits, visit, flight, uses, errors, admitted, failed, uncounted>>

\* updateKey: the row is looked for, the body judged.
BeginUpdate(m, body) ==
  /\ edit[m] = Idle /\ edits < MaxEdits
  /\ key.row = "there"
  /\ \A S \in body.scopes : AdminAlone(S)
  /\ edit' = [edit EXCEPT ![m] = [step |-> "update", body |-> body]]
  /\ edits' = edits + 1
  /\ UNCHANGED <<key, visit, flight, uses, errors, order, granted, admitted, failed, uncounted>>

BeginDelete(m) ==
  /\ edit[m] = Idle /\ edits < MaxEdits
  /\ key.row = "there"
  /\ edit' = [edit EXCEPT ![m] = [step |-> "remove"]]
  /\ edits' = edits + 1
  /\ UNCHANGED <<key, visit, flight, uses, errors, order, granted, admitted, failed, uncounted>>

\* The row as such a body wants it, for the history.
AsOrdered(k, body) == [k EXCEPT !.active = Given(body.active, @), !.scopes = Given(body.scopes, @)]

\* Mutant: active unless the body says otherwise.
PatchedActive(k, body) == [k EXCEPT !.active = Given(body.active, TRUE), !.scopes = Given(body.scopes, @)]

\* The fields the body gives; revoked_at is null exactly if active.
Patched(k, body) == [k EXCEPT !.active = Given(body.active, @), !.scopes = Given(body.scopes, @)]

\* One statement; a row deleted meanwhile is an error.
Update(m) ==
  /\ edit[m].step = "update"
  /\ edit' = [edit EXCEPT ![m] = Idle]
  /\ IF key.row = "there"
     THEN /\ key' = Patched(key, edit[m].body)
          /\ Ordered(AsOrdered(order, edit[m].body))
     ELSE UNCHANGED <<key, order, granted>>
  /\ UNCHANGED <<edits, visit, flight, uses, errors, admitted, failed, uncounted>>

Remove(m) ==
  /\ edit[m].step = "remove"
  /\ edit' = [edit EXCEPT ![m] = Idle]
  /\ key' = [key EXCEPT !.row = "deleted"]
  /\ Ordered([order EXCEPT !.row = "deleted"])
  /\ UNCHANGED <<edits, visit, flight, uses, errors, admitted, failed, uncounted>>

-----------------------------------------------------------------------------
(* Requests.                                                               *)

\* The response hook of app.ts counts what the key was told 4xx or 5xx.
Refuse(c, counters) ==
  /\ visit' = [visit EXCEPT ![c] = Over]
  /\ flight' = flight \cup {<<k, c>> : k \in counters \cup {"error"}}
  /\ failed' = failed \cup {c}

PresentKey(c, route) ==
  /\ visit[c] = New
  /\ visit' = [visit EXCEPT ![c] = [step |-> "lookup", route |-> route]]
  /\ granted' = granted \cup {d \in {c} : Allows(order, route)}
  /\ UNCHANGED <<key, edit, edits, flight, uses, errors, order, admitted, failed, uncounted>>

\* findActiveByPrefix, and the hash that matches.
FindActive(c) ==
  /\ visit[c].step = "lookup"
  /\ visit' = [visit EXCEPT ![c] = [step |-> "found", route |-> visit[c].route,
                                  read |-> {k.scopes : k \in {x \in {key} : Usable(x)}}]]
  /\ UNCHANGED <<key, edit, edits, flight, uses, errors, order, granted, admitted, failed,
                 uncounted>>

\* Mutant: used is counted before the scope is enforced.
ResolveKeyCountsFirst(c) ==
  /\ visit[c].step = "found"
  /\ IF visit[c].read = {}
     THEN /\ visit' = [visit EXCEPT ![c] = Over]
          /\ UNCHANGED <<flight, admitted, failed>>
     ELSE \E S \in visit[c].read :
            /\ Refuse(c, {"use"})
            /\ admitted' = IF HasScope(S, visit[c].route) THEN admitted \cup {c} ELSE admitted
  /\ UNCHANGED <<key, edit, edits, uses, errors, order, granted, uncounted>>

\* authenticate goes on with the rows it got: 401 without one, 403 without the
\* scope; markUsed is not awaited; then the guards of the route.
ResolveKey(c) ==
  /\ visit[c].step = "found"
  /\ LET route == visit[c].route IN
     \/ /\ visit[c].read = {}
        /\ visit' = [visit EXCEPT ![c] = Over]
        /\ UNCHANGED <<flight, admitted, failed>>
     \/ \E S \in visit[c].read :
          \/ /\ ~HasScope(S, route)
             /\ Refuse(c, {})
             /\ UNCHANGED admitted
          \/ /\ HasScope(S, route)
             /\ admitted' = admitted \cup {c}
             /\ IF Passes(route, KeyUser)
                THEN /\ visit' = [visit EXCEPT ![c] = [step |-> "handling", route |-> route,
                                                     type |-> "api_key"]]
                     /\ flight' = flight \cup {<<"use", c>>}
                     /\ UNCHANGED failed
                ELSE Refuse(c, {"use"})
  /\ UNCHANGED <<key, edit, edits, uses, errors, order, granted, uncounted>>

\* The other branch of authenticate, whose only wait is for the signing key.
PresentToken(c, route, t) ==
  /\ visit[c] = New
  /\ visit' = [visit EXCEPT ![c] =
       IF Accepted(t) /\ Passes(route, TokenUser(t))
       THEN [step |-> "handling", route |-> route, type |-> "jwt"]
       ELSE Over]
  /\ UNCHANGED <<key, edit, edits, flight, uses, errors, order, granted, admitted, failed,
                 uncounted>>

\* The handler answers, or fails for a reason of its own.
Respond(c) ==
  /\ visit[c].step = "handling"
  /\ \/ /\ visit' = [visit EXCEPT ![c] = Over]
        /\ UNCHANGED <<flight, failed>>
     \/ visit[c].type = "api_key" /\ Refuse(c, {})
  /\ UNCHANGED <<key, edit, edits, uses, errors, order, granted, admitted, uncounted>>

\* increment_api_key_usage counts for an active key only.
CountUse(c) ==
  /\ <<"use", c>> \in flight
  /\ flight' = flight \ {<<"use", c>>}
  /\ \/ Usable(key) /\ uses' = uses + 1 /\ UNCHANGED uncounted
     \/ uncounted' = TRUE /\ UNCHANGED uses
  /\ UNCHANGED <<key, edit, edits, visit, errors, order, granted, admitted, failed>>

CountError(c) ==
  /\ <<"error", c>> \in flight
  /\ flight' = flight \ {<<"error", c>>}
  /\ \/ key.row = "there" /\ errors' = errors + 1 /\ UNCHANGED uncounted
     \/ uncounted' = TRUE /\ UNCHANGED errors
  /\ UNCHANGED <<key, edit, edits, visit, uses, order, granted, admitted, failed>>

AuthNext ==
  \/ \E S \in ScopeSets : CreateKey(S)
  \/ \E m \in Managers :
       \/ \E body \in Bodies : BeginUpdate(m, body)
       \/ BeginDelete(m) \/ Update(m) \/ Remove(m)
  \/ \E c \in Callers :
       \/ \E route \in Routes : PresentKey(c, route)
       \/ \E route \in Routes : \E t \in Tokens : PresentToken(c, route, t)
       \/ FindActive(c) \/ ResolveKey(c) \/ Respond(c) \/ CountUse(c) \/ CountError(c)

AuthSpec == AuthInit /\ [][AuthNext]_authVars

-----------------------------------------------------------------------------
(* Properties.                                                             *)

\* A handler runs for a key only if the administrators' last orders, field by
\* field, allowed that key on that route at some moment of the request: whatever
\* updates overlap, a key they revoked stays revoked until one activates it.
ServedAsOrdered ==
  \A c \in Callers :
    visit[c].step = "handling" /\ visit[c].type = "api_key" => c \in granted

\* Once its increments landed, request_count is the requests that had the scope
\* and error_count those told 4xx or 5xx, the ones without the scope too, unless
\* an increment failed or came after the key was revoked.
CountersFollow ==
  ~uncounted =>
    /\ uses = Cardinality({c \in admitted : <<"use", c>> \notin flight})
    /\ errors = Cardinality({c \in failed : <<"error", c>> \notin flight})

=============================================================================
