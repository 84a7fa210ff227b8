------------------------------ MODULE Sessions ------------------------------
(***************************************************************************)
(* The sessions of one user of the control plane (controlplane/auth and    *)
(* the handlers of controlplane/server that call it): registration, login  *)
(* with its failure limiter, rotation of the token pair, and revocation by *)
(* floor and by token.  Every storage call of a handler is a step of its   *)
(* own; the limiter's Take is TokenBucket's, load by load.                 *)
(*                                                                         *)
(* Tokens are signed, so a handler sees only pairs that were issued; a     *)
(* pair is one record and its number is the jti.                           *)
(***************************************************************************)
EXTENDS TokenBucket, Sequences

CONSTANTS
  AccessTTL,   \* defaultAccessTTL, in ticks (seconds)
  RefreshTTL,  \* defaultRefreshTTL, in ticks
  MaxRequests, \* bound: requests handled
  MaxFaults    \* bound: storage calls that fail

Nobody == "nobody"

ASSUME SessionConstants ==
  /\ AccessTTL \in Nat /\ RefreshTTL \in Nat /\ MaxRequests \in Nat /\ MaxFaults \in Nat
  /\ Nobody \notin Callers

NoFloor == -1
NoPair == 0

VARIABLES
  store,     \* "sqlite" or "memory"
  account,   \* users: whose password the row holds, or Nobody
  floor,     \* config auth:token-floor:<user>
  denied,    \* config auth:token-denylist:<jti>
  loc,       \* where each request handler is
  arg,       \* handler -> the pair it refreshes, or the floor it will set
  pairs,     \* the pairs issued: [iat, parent, astride]
  requests,  \* requests handled so far
  faults,    \* storage calls that failed
  killed,    \* history: pairs a returned RevokeRefresh covers
  crossed,   \* history: handlers whose refresh overlaps a revocation
  raced,     \* history: two revocations overlapped
  created    \* history: handlers that answered 201 to a registration

session == <<store, account, floor, denied, loc, arg, pairs, requests, faults, killed, crossed, raced, created>>
bucket == <<made, tokens, last, pc, at, elapsed, saw, born, granted, overlap>>

SInit ==
  /\ Init
  /\ store \in {"sqlite", "memory"}
  /\ account = Nobody /\ floor = NoFloor /\ denied = {}
  /\ loc = [h \in Callers |-> "idle"]
  /\ arg = [h \in Callers |-> NoPair]
  /\ pairs = <<>> /\ requests = 0 /\ faults = 0
  /\ killed = {} /\ crossed = {} /\ raced = FALSE /\ created = {}

Step(h, l) == loc' = [loc EXCEPT ![h] = l]
Begins(h) == loc[h] = "idle" /\ requests < MaxRequests /\ requests' = requests + 1

\* The handler answers.
Quits(h) ==
  /\ Step(h, "idle")
  /\ arg' = [arg EXCEPT ![h] = NoPair]
  /\ crossed' = crossed \ {h}

\* A storage call fails: 500, or 401 on the refresh path.
Fails(h) ==
  /\ faults < MaxFaults /\ faults' = faults + 1
  /\ Quits(h)
  /\ UNCHANGED <<store, account, floor, denied, pairs, requests, killed, raced, created>>

-----------------------------------------------------------------------------
(* handleRegister                                                          *)

\* Register: GetByUsername must answer ErrNotFound.
RegisterCheck(h) ==
  /\ Begins(h) /\ account = Nobody
  /\ Step(h, "register")
  /\ UNCHANGED <<store, account, floor, denied, arg, pairs, faults, killed, crossed, raced, created>>

SaveUpserts(h) ==
  /\ account' = h
  /\ created' = created \cup {h}

\* Users.Save of a new user: the INSERT of sqlite meets the unique username,
\* the map of the memory store is overwritten.
Save(h) ==
  IF store = "sqlite" /\ account # Nobody
    THEN UNCHANGED <<account, created>>
    ELSE account' = h /\ created' = created \cup {h}

RegisterSave(h) ==
  /\ loc[h] = "register"
  /\ \/ Save(h) /\ Step(h, "idle")
        /\ UNCHANGED <<store, floor, denied, arg, pairs, requests, faults, killed, crossed, raced>>
     \/ Fails(h)

-----------------------------------------------------------------------------
(* handleLogin and handleManagementLogin                                   *)

\* Login: a known user with the right password goes on to the pair.
Login(h) == account # Nobody /\ Step(h, "sign")

\* Anything else is ErrInvalidCredentials, which only the API's login counts.
LoginChecks(h) ==
  /\ Begins(h)
  /\ Login(h) \/ (granted < MaxGrants /\ Step(h, "limit"))
  /\ UNCHANGED <<store, account, floor, denied, arg, pairs, faults, killed, crossed, raced, created>>

\* The console's login only answers 401.
ManagementLogin(h) ==
  /\ Begins(h) /\ Login(h)
  /\ UNCHANGED <<store, account, floor, denied, arg, pairs, faults, killed, crossed, raced, created>>

\* loginFailureLimiter.take, up to its answer: 401, or 429 when it is false.
Limit(h) ==
  /\ loc[h] = "limit"
  /\ Take(h)
  /\ Step(h, IF pc'[h] = "idle" THEN "idle" ELSE "limit")
  /\ UNCHANGED <<store, account, floor, denied, arg, pairs, requests, faults, killed, crossed, raced, created>>

\* NewClaims and SignToken, for a login and for a refresh.
Sign(h) ==
  /\ loc[h] = "sign"
  /\ pairs' = Append(pairs, [iat |-> now, parent |-> arg[h], astride |-> h \in crossed])
  /\ Quits(h)
  /\ UNCHANGED <<store, account, floor, denied, requests, faults, killed, raced, created>>

-----------------------------------------------------------------------------
(* handleRefresh                                                           *)

Unexpired(p) == now <= pairs[p].iat + RefreshTTL
Reading == {h \in Callers : loc[h] \in {"denylist", "sign"} /\ arg[h] # NoPair}
Revoking == {h \in Callers : loc[h] = "revoke"}

HonoredStrictly(p) == floor # NoFloor => pairs[p].iat >= floor

\* The floor is second-granular and so is iat: the floor's own second is dead.
Honored(p) == floor # NoFloor => pairs[p].iat > floor

\* ParseToken, then refreshFloor; a floor that cannot be read refuses, as one
\* that covers the pair does.
ReadFloor(h, p) ==
  /\ Begins(h) /\ Unexpired(p)
  /\ Honored(p)
  /\ Step(h, "denylist")
  /\ arg' = [arg EXCEPT ![h] = p]
  /\ crossed' = IF Revoking # {} THEN crossed \cup {h} ELSE crossed
  /\ UNCHANGED <<store, account, floor, denied, pairs, faults, killed, raced, created>>

\* refreshDenied; the pair that passes is rotated, and stays valid itself.
ReadDenylist(h) ==
  /\ loc[h] = "denylist"
  /\ \/ /\ arg[h] \notin denied
        /\ Step(h, "sign")
        /\ UNCHANGED <<arg, crossed>>
     \/ Quits(h)
  /\ UNCHANGED <<store, account, floor, denied, pairs, requests, faults, killed, raced, created>>

-----------------------------------------------------------------------------
(* handleRevoke                                                            *)

\* subject: the user with an unexpired access token (or an administrator for
\* the user, whose own sessions are not modelled).
MayRevoke(caller) ==
  caller = "admin" \/ \E p \in DOMAIN pairs : now <= pairs[p].iat + AccessTTL

\* RevokeRefresh reads the clock before Config.Set.
RevokeReadsClock(h) ==
  /\ Begins(h) /\ account # Nobody
  /\ \E caller \in {"self", "admin"} : MayRevoke(caller)
  /\ arg' = [arg EXCEPT ![h] = now]
  /\ crossed' = crossed \cup Reading
  /\ raced' = (raced \/ Revoking # {})
  /\ Step(h, "revoke")
  /\ UNCHANGED <<store, account, floor, denied, pairs, faults, killed, created>>

RevokeSets(h) ==
  /\ loc[h] = "revoke"
  /\ \/ /\ floor' = arg[h]
        /\ killed' = killed \cup {p \in DOMAIN pairs : pairs[p].iat <= arg[h]}
        /\ Quits(h)
        /\ UNCHANGED <<store, account, denied, pairs, requests, faults, raced, created>>
     \/ Fails(h)

\* {"refresh_token"}: ParseRefreshClaims, then DenyRefreshToken.
Deny(h, p) ==
  /\ Begins(h) /\ Unexpired(p)
  /\ \E caller \in {"self", "admin"} : MayRevoke(caller)
  /\ denied' = denied \cup {p}
  /\ UNCHANGED <<store, account, floor, loc, arg, pairs, faults, killed, crossed, raced, created>>

-----------------------------------------------------------------------------

\* The process restarts: handlers and buckets go, and what the memory store
\* held goes with them.
Restart ==
  /\ faults < MaxFaults /\ faults' = faults + 1
  /\ loc' = [h \in Callers |-> "idle"]
  /\ arg' = [h \in Callers |-> NoPair]
  /\ crossed' = {}
  /\ IF store = "sqlite"
       THEN UNCHANGED <<account, floor, denied, created>>
       ELSE account' = Nobody /\ floor' = NoFloor /\ denied' = {} /\ created' = {}
  /\ made' = FALSE /\ tokens' = Capacity /\ last' = 0 /\ born' = 0 /\ granted' = 0
  /\ overlap' = FALSE
  /\ pc' = [c \in Callers |-> "idle"]
  /\ at' = [c \in Callers |-> 0]
  /\ elapsed' = [c \in Callers |-> 0]
  /\ saw' = [c \in Callers |-> 0]
  /\ UNCHANGED <<now, store, pairs, requests, killed, raced>>

Handler(h) ==
  /\ \/ RegisterCheck(h) \/ RegisterSave(h)
     \/ LoginChecks(h) \/ ManagementLogin(h) \/ Sign(h)
     \/ ReadDenylist(h) \/ RevokeReadsClock(h) \/ RevokeSets(h)
     \/ \E p \in DOMAIN pairs : ReadFloor(h, p) \/ Deny(h, p)
  /\ UNCHANGED <<now, bucket>>

SNext ==
  \/ \E h \in Callers : Handler(h) \/ Limit(h)
  \/ Tick /\ UNCHANGED session
  \/ Restart

SSpec == SInit /\ [][SNext]_<<vars, session>>

-----------------------------------------------------------------------------

Usable(p) == Unexpired(p) /\ Honored(p) /\ p \notin denied

\* Logging out everywhere holds: once RevokeRefresh has returned, no pair it
\* covers can be refreshed again, and a pair rotated from one of those is
\* usable only when its refresh overlapped the revocation.  Two overlapping
\* revocations may set the floor back, and the memory store forgets it on a
\* restart (service.go Refresh, RevokeRefresh).
LoggedOut ==
  store = "sqlite" /\ ~raced =>
    \A p \in DOMAIN pairs :
      Usable(p) => /\ p \notin killed
                   /\ pairs[p].parent \in killed => pairs[p].astride

\* A registration answered with 201 owns the account: of two that raced past
\* the lookup, the row holds the password of the one that was told so
\* (service.go Register, stores.go userStore.Save).
RegistrationExclusive == store = "sqlite" => \A h \in created : account = h

=============================================================================
