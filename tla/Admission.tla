------------------------------- MODULE Admission -------------------------------
(***************************************************************************)
(* What every request meets before its handler (Server.Routes of            *)
(* internal/api/server.go): cors, the token bucket of ratelimit.go and the  *)
(* bearer token of auth.go; and the handlers that give the tokens out       *)
(* (login.go).  A second has Ticks clock units, so that the bucket regains  *)
(* its tokens in fractions; the lifetime of a token is scaled down.         *)
(***************************************************************************)
EXTENDS ApiRequests, FiniteSetsExt

CONSTANTS
  Buckets,      \* what the limiter tells apart: the X-API-Key header, or the remote address without one
  Rps,          \* cfg.APIRateLimitRPS; 0 or less is 100
  Ticks,        \* clock units in a second, and parts of a token: the bucket's float64
  TokenTTL,     \* the 24 hours a token is good for
  Prod,         \* cfg.Prod
  RequireAuth   \* cfg.APIRequireAuth, which config.Load turns on in production

(* a tokenBucket: what was left in it, in parts of a token, when it was last asked *)
Meter == [tokens : Nat, last : Nat]

ASSUME AdmissionAssumption ==
  /\ Rps \in Nat /\ {Ticks, TokenTTL} \subseteq Nat \ {0}
  /\ {Prod, RequireAuth} \subseteq BOOLEAN /\ (Prod => RequireAuth)
  /\ None \notin Meter

VARIABLES
  buckets,      \* Limiter.buckets; None: no bucket yet
  admitted,     \* history: what the limiter has given out by the end of each tick, for each bucket
  apiKeys,      \* table api_keys, newest last: the customer and whether it is revoked
  tokens        \* tokens signed with cfg.JWTSecret

admissionVars == <<buckets, admitted, apiKeys, tokens>>

rps == IF Rps = 0 THEN 100 ELSE Rps   \* NewLimiter
capacity == 2 * rps * Ticks            \* a burst of two seconds

AdmissionInit ==
  /\ buckets = [b \in Buckets |-> None]
  /\ admitted = [b \in Buckets |-> [t \in 0 .. MaxTime |-> 0]]
  /\ apiKeys = <<>>
  /\ tokens = {}

-----------------------------------------------------------------------------
(* mutant: a token that is regained in part is given whole *)
RefilledWhole(b) ==
  LET parts == Min({capacity, b.tokens + (now - b.last) * rps})
  IN  IF parts % Ticks = 0 THEN parts ELSE parts + Ticks - (parts % Ticks)

(* the bucket once it is refilled: rps parts for each tick *)
Refilled(b) == Min({capacity, b.tokens + (now - b.last) * rps})

(* the bucket a request finds: a full one when it is the first *)
Bucket(b) == IF buckets[b] = None THEN [tokens |-> capacity, last |-> now] ELSE buckets[b]

take(b, left) == buckets' = [buckets EXCEPT ![b] = [tokens |-> left, last |-> now]]

(* Allow, under the limiter's mutex *)
Allow(b) ==
  /\ Refilled(Bucket(b)) >= Ticks
  /\ take(b, Refilled(Bucket(b)) - Ticks)
  /\ admitted' = [admitted EXCEPT ![b] = [t \in 0 .. MaxTime |-> IF t < now THEN admitted[b][t] ELSE admitted[b][t] + Ticks]]

Deny(b) ==
  /\ Refilled(Bucket(b)) < Ticks
  /\ take(b, Refilled(Bucket(b)))
  /\ UNCHANGED admitted

(* a request: its bucket, whether its path needs no token (healthz, public, github/setup, *)
(* i18n: then nothing looks at the rest), whether it has the X-UV-Dev-Bypass header (nor  *)
(* then at the token), and its bearer token                                               *)
Requests ==
  {r \in [bucket : Buckets, exempt : BOOLEAN, bypass : BOOLEAN, bearer : {None, [sub |-> None, exp |-> 0]} \cup tokens] :
     /\ r.exempt => ~r.bypass
     /\ r.exempt \/ (r.bypass /\ ~Prod) => r.bearer = None}

(* parseToken: signed with the secret and not expired *)
parseToken(tok) == tok \in tokens /\ now < tok.exp

Unchecked(r) == r.exempt \/ (r.bypass /\ ~Prod)   \* passes without a look at its token

Authentic(r) == Unchecked(r) \/ (IF r.bearer = None THEN ~RequireAuth ELSE parseToken(r.bearer))

(* UserIDFromContext *)
UserID(r) == IF ~Unchecked(r) /\ r.bearer # None THEN r.bearer.sub ELSE None

(* an answer without the database: the limiter, not MaxCalls, bounds how many there are *)
Aside == UNCHANGED <<calls, faults, now>>

(* the request reaches its handler *)
Admit(r) == Allow(r.bucket) /\ Authentic(r)

(* or is turned away *)
TurnedAway(r) ==
  /\ \/ Deny(r.bucket) /\ Answer(None, 429, None)
     \/ Allow(r.bucket) /\ ~Authentic(r) /\ Answer(None, 401, None)
  /\ Aside /\ UNCHANGED <<apiKeys, tokens>>

cors == Answer("cors", 204, None) /\ Aside /\ UNCHANGED admissionVars    \* OPTIONS is answered before the limiter

health == Answer("health", 200, None) /\ Aside /\ UNCHANGED <<apiKeys, tokens>>

-----------------------------------------------------------------------------
(* CustomerIDByAPIKeyHash finds a live key *)
Live(k) == k \in DOMAIN apiKeys /\ ~apiKeys[k].revoked

IssueDashboardToken(c) == tokens' = tokens \cup {[sub |-> c, exp |-> now + TokenTTL]}

login(k) ==
  /\ \/ Live(k) /\ Serve("login", 200, apiKeys[k].customer) /\ IssueDashboardToken(apiKeys[k].customer)
     \/ ~Live(k) /\ Serve("login", 401, None) /\ UNCHANGED tokens
     \/ Call /\ Fails /\ Answer("login", 401, None) /\ UNCHANGED tokens
  /\ UNCHANGED apiKeys

(* the bearer's token, not its key, is what counts *)
refresh(user) ==
  /\ \/ user # None /\ Serve("refresh", 200, user) /\ IssueDashboardToken(user)
     \/ user = None /\ Serve("refresh", 401, None) /\ UNCHANGED tokens
  /\ UNCHANGED apiKeys

(* what was given out before a tick *)
Before(b, t) == IF t = 0 THEN 0 ELSE admitted[b][t - 1]

(* Over any stretch of time a key or an address gets at most a full bucket   *)
(* and what the bucket regained meanwhile through the limiter, however its  *)
(* requests bunch up or pause, fractions of a token included                *)
(* (ratelimit.go).                                                          *)
RateBounded ==
  \A b \in Buckets : \A from \in 0 .. now : \A to \in from .. now :
    admitted[b][to] <= Before(b, from) + capacity + rps * (to - from)
=============================================================================
