---------------------------- MODULE RelayRoutes ----------------------------
(***************************************************************************)
(* How routes come to exist at the relay server: the activation of an      *)
(* installation by a signed message (rate limit, time window, nonce cache, *)
(* one database transaction), the provisioned registration, and the table  *)
(* of pairing claims that phones submit and poll and the Mac completes.    *)
(*                                                                         *)
(* The clock counts minutes; the checks of one request up to its database  *)
(* transaction read it within one minute, so they are one action.  A       *)
(* signature is the key it was made with.  A message may arrive again, as  *)
(* an HTTP client that got no answer sends it.                             *)
(***************************************************************************)
EXTENDS Naturals, Sequences, FiniteSets, Functions

CONSTANTS
    Installs, Keys,         \* installations and the signing keys they hold
    Addresses,              \* client IPs
    Skews,                  \* how far a client's clock is ahead
    Window,                 \* minutes a timestamp may be off, and activationNonceTTL
    Limit, Interval,        \* of a RateLimiter; buckets live 2 * Interval
    MaxBuckets,
    Claims, Capabilities, Pollers,
    MaxClock, MaxMessages, MaxRequests, MaxRestarts,    \* bounds
    RouteScenarios          \* which kinds of request a behaviour has

ASSUME RoutesAssumption ==
    /\ Skews \subseteq Nat /\ Window \in Nat \ {0} /\ Limit \in Nat \ {0} /\ Interval \in Nat \ {0}
    /\ MaxBuckets \in Nat \ {0} /\ MaxClock \in Nat /\ MaxMessages \in Nat /\ MaxRequests \in Nat
    /\ MaxRestarts \in Nat /\ RouteScenarios \subseteq SUBSET {"activate", "register", "claim"}

VARIABLES
    kinds,          \* the requests of this behaviour, fixed at the start
    now,
    messages,       \* activation messages the installations signed, in order
    limiters,       \* limiter and activationLimiter
    nonces,         \* activationNonceCache: when each message's (install, nonce) was recorded
    opening,        \* messages whose handler is about to call ActivateRoute
    routes,         \* credential of each route row, in order of creation
    bound,          \* route_activations: per installation a set of at most one [key, route]
    claims,         \* pending_pairing_claims: per claim a set of at most one row
    poll,           \* handleGetPairingResult of each poller, between GetPairingResult and the answer
    requests, restarts,
    passed,         \* history: per limiter and key, when requests were let through
    refused,        \* history: the last request a limiter refused by its rate
    accepted,       \* history: per message, how often it was accepted since the restart
    decided, told   \* history: per claim row the Mac's first decision, and the answers given

routesVars == <<kinds, now, messages, limiters, nonces, opening, routes, bound, claims, poll, requests, restarts,
                passed, refused, accepted, decided, told>>

Which == {"general", "activation"}
BucketKeys == {<<"ip", a>> : a \in Addresses} \cup {<<"install", i>> : i \in Installs} \cup {<<"route", "register">>}

NoBuckets == [k \in {} |-> [window |-> 0, count |-> 0]]
NewRateLimiter == [last |-> {}, buckets |-> NoBuckets]

RoutesInit ==
    /\ kinds \in RouteScenarios
    /\ now = 0 /\ messages = <<>> /\ requests = 0 /\ restarts = 0
    /\ limiters = [w \in Which |-> NewRateLimiter]
    /\ nonces = [m \in {} |-> 0]
    /\ opening = {} /\ routes = <<>>
    /\ bound = [i \in Installs |-> {}]
    /\ claims = [c \in Claims |-> {}]
    /\ poll = [p \in Pollers |-> {}]
    /\ passed = [w \in Which |-> [k \in BucketKeys |-> <<>>]]
    /\ refused = {} /\ accepted = [m \in 1 .. MaxMessages |-> 0]
    /\ decided = [c \in Claims |-> {}] /\ told = [c \in Claims |-> {}]

-----------------------------------------------------------------------------
(* RateLimiter.Allow, on a limiter l. *)

CleanupLocked(l) ==
    IF l.last = {} \/ \E t \in l.last : now - t >= Interval
    THEN [last |-> {now},
          buckets |-> Restrict(l.buckets, {k \in DOMAIN l.buckets : now - l.buckets[k].window < 2 * Interval})]
    ELSE l

\* The bucket of a key: a new window when there is none or the old one is over.
BucketFor(l, k) ==
    IF k \in DOMAIN l.buckets /\ now - l.buckets[k].window < Interval
    THEN l.buckets[k] ELSE [window |-> now, count |-> 0]

\* Allow: the verdict and the limiter it leaves.
Allow(limiter, k) ==
    LET l == CleanupLocked(limiter)
        b == BucketFor(l, k)
        with(bucket) == [l EXCEPT !.buckets = [x \in DOMAIN @ \cup {k} |-> IF x = k THEN bucket ELSE @[x]]]
    IN  IF k \notin DOMAIN l.buckets /\ Cardinality(DOMAIN l.buckets) >= MaxBuckets
        THEN [verdict |-> "capacity", limiter |-> l]
        ELSE IF b.count >= Limit THEN [verdict |-> "rate", limiter |-> with(b)]
        ELSE [verdict |-> "ok", limiter |-> with([b EXCEPT !.count = @ + 1])]

\* The verdict on a request: the keys that were charged, and the last one asked.
Charged(result, keys, by) ==
    [verdict |-> result.verdict, limiter |-> result.limiter, keys |-> keys, by |-> by]

AllowOne(limiter, k) ==
    LET only == Allow(limiter, k) IN Charged(only, IF only.verdict = "ok" THEN {k} ELSE {}, k)

\* allow of a request that has two keys: the second is not asked, and not
\* charged, when the first refuses.
AllowBoth(limiter, k1, k2) ==
    LET first == Allow(limiter, k1)
        second == Allow(first.limiter, k2)
    IN  IF first.verdict # "ok" THEN Charged(first, {}, k1)
        ELSE Charged(second, IF second.verdict = "ok" THEN {k1, k2} ELSE {k1}, k2)

Judged(w, result) ==
    /\ limiters' = [limiters EXCEPT ![w] = result.limiter]
    /\ passed' = [passed EXCEPT ![w] = [k \in BucketKeys |-> IF k \in result.keys THEN Append(@[k], now) ELSE @[k]]]
    /\ refused' = IF result.verdict = "rate" THEN {[w |-> w, key |-> result.by, at |-> now]} ELSE refused

-----------------------------------------------------------------------------
(* Activation. *)

\* An installation signs a message with a key it holds, a fresh nonce and its own clock.
Sign(i, k, skew) ==
    /\ "activate" \in kinds /\ Len(messages) < MaxMessages
    /\ messages' = Append(messages, [install |-> i, key |-> k, at |-> now + skew, ahead |-> skew])
    /\ UNCHANGED <<kinds, now, limiters, nonces, opening, routes, bound, claims, poll, requests, restarts, passed,
                   refused, accepted, decided, told>>

InWindow(t) == now <= t + Window /\ t <= now + Window

\* A cache that drops an entry in the last minute a message is still valid.
RecentShort == {m \in DOMAIN nonces : nonces[m] + Window > now}

\* seenRecently: entries older than the TTL go; an entry that stays means the
\* message was seen.
Recent == {m \in DOMAIN nonces : nonces[m] + Window >= now}

SeenRecently(m) == m \in Recent

\* handleActivateRoute up to the call of ActivateRoute, for message m from address a.
HandleActivate(m, a) ==
    LET install == messages[m].install
        result == IF InWindow(messages[m].at)
                  THEN AllowBoth(limiters["activation"], <<"ip", a>>, <<"install", install>>)
                  ELSE AllowOne(limiters["activation"], <<"ip", a>>)
        checked == result.verdict = "ok" /\ InWindow(messages[m].at)
    IN  /\ requests < MaxRequests
        /\ requests' = requests + 1
        /\ Judged("activation", result)
        /\ nonces' = IF ~checked THEN nonces
                     ELSE [x \in Recent \cup {m} |-> IF SeenRecently(x) THEN nonces[x] ELSE now]
        /\ IF checked /\ ~SeenRecently(m)
           THEN /\ opening' = opening \cup {m}
                /\ accepted' = [accepted EXCEPT ![m] = @ + 1]
           ELSE UNCHANGED <<opening, accepted>>
        /\ UNCHANGED <<kinds, now, messages, routes, bound, claims, poll, restarts, decided, told>>

\* ActivateRoute without a transaction: the route row stays when its binding fails.
ActivateUnrolled(m) ==
    LET i == messages[m].install
        k == messages[m].key
    IN  \/ /\ \E row \in bound[i] : row.key = k /\ routes' = [routes EXCEPT ![row.route] = m]
           /\ UNCHANGED bound
        \/ /\ \E row \in bound[i] : row.key # k
           /\ UNCHANGED <<routes, bound>>
        \/ /\ bound[i] = {}
           /\ routes' = Append(routes, m)
           /\ bound' = IF \E j \in Installs : \E row \in bound[j] : row.key = k THEN bound
                       ELSE [bound EXCEPT ![i] = {[key |-> k, route |-> Len(routes) + 1]}]

\* The rows of the transaction: a known installation must show its key and
\* rotates its credential; a new one gets a route, unless its key is bound
\* already, which rolls the insertion of the route back.
ActivateRoute(m) ==
    LET i == messages[m].install
        k == messages[m].key
    IN  \/ /\ \E row \in bound[i] : row.key = k /\ routes' = [routes EXCEPT ![row.route] = m]
           /\ UNCHANGED bound
        \/ /\ \E row \in bound[i] : row.key # k
           /\ UNCHANGED <<routes, bound>>
        \/ /\ bound[i] = {} /\ ~\E j \in Installs : \E row \in bound[j] : row.key = k
           /\ routes' = Append(routes, m)
           /\ bound' = [bound EXCEPT ![i] = {[key |-> k, route |-> Len(routes) + 1]}]
        \/ /\ bound[i] = {} /\ \E j \in Installs : \E row \in bound[j] : row.key = k
           /\ UNCHANGED <<routes, bound>>

HandlerActivates(m) ==
    /\ m \in opening
    /\ opening' = opening \ {m}
    /\ ActivateRoute(m)
    /\ UNCHANGED <<kinds, now, messages, limiters, nonces, claims, poll, requests, restarts, passed, refused,
                   accepted, decided, told>>

\* handleRegisterRoute: the provisioning token is checked after the rate limit;
\* every address shares the bucket of the path's third part, "register".
HandleRegisterRoute(a, authorised) ==
    LET result == AllowBoth(limiters["general"], <<"ip", a>>, <<"route", "register">>)
    IN  /\ "register" \in kinds /\ requests < MaxRequests
        /\ requests' = requests + 1
        /\ Judged("general", result)
        /\ routes' = IF result.verdict = "ok" /\ authorised THEN Append(routes, 0) ELSE routes
        /\ UNCHANGED <<kinds, now, messages, nonces, opening, bound, claims, poll, restarts, accepted, decided, told>>

-----------------------------------------------------------------------------
(* Pairing claims: a row is [cap, state, expires]. *)

Live(c) == {row \in claims[c] : row.expires > now}

\* handleSubmitPairingClaim: expired rows go first; the same claim again is
\* answered as before, another one under the same id is a conflict.
SubmitPairingClaim(c, cap) ==
    /\ "claim" \in kinds /\ requests < MaxRequests
    /\ requests' = requests + 1
    /\ claims' = [x \in Claims |-> IF x = c /\ Live(x) = {}
                                   THEN {[cap |-> cap, state |-> "pending", expires |-> now + Window]} ELSE Live(x)]
    /\ decided' = [x \in Claims |-> IF Live(x) = {} THEN {} ELSE decided[x]]
    /\ told' = [x \in Claims |-> IF Live(x) = {} THEN {} ELSE told[x]]
    /\ UNCHANGED <<kinds, now, messages, limiters, nonces, opening, routes, bound, poll, restarts, passed,
                   refused, accepted>>

\* handleCompletePairingClaim, which does not look at the expiry.
CompletePairingClaim(c, state) ==
    /\ \E row \in claims[c] :
         /\ row.state = "pending"
         /\ claims' = [claims EXCEPT ![c] = {[row EXCEPT !.state = state]}]
    /\ decided' = [decided EXCEPT ![c] = IF @ = {} THEN {state} ELSE @]
    /\ UNCHANGED <<kinds, now, messages, limiters, nonces, opening, routes, bound, poll, requests, restarts, passed,
                   refused, accepted, told>>

\* handleListPairingClaims: PendingClaims removes what has expired.
ListPairingClaims ==
    /\ \E c \in Claims : Live(c) # claims[c]
    /\ claims' = [c \in Claims |-> Live(c)]
    /\ decided' = [c \in Claims |-> IF Live(c) = {} THEN {} ELSE decided[c]]
    /\ told' = [c \in Claims |-> IF Live(c) = {} THEN {} ELSE told[c]]
    /\ UNCHANGED <<kinds, now, messages, limiters, nonces, opening, routes, bound, poll, requests, restarts, passed,
                   refused, accepted>>

\* VerifyPairingCapability and GetPairingResult.
PollPairingResult(p, c, cap) ==
    /\ poll[p] = {} /\ requests < MaxRequests
    /\ requests' = requests + 1
    /\ \E row \in Live(c) :
         /\ row.cap = cap /\ row.state # "consumed"
         /\ poll' = [poll EXCEPT ![p] = {[claim |-> c, state |-> row.state, cap |-> cap]}]
    /\ UNCHANGED <<kinds, now, messages, limiters, nonces, opening, routes, bound, claims, restarts, passed,
                   refused, accepted, decided, told>>

\* ConsumePairingResult, if the claim was decided when it was read, and the answer.
AnswerPoll(p) ==
    /\ \E r \in poll[p] :
         /\ claims' = IF r.state = "pending" THEN claims
                      ELSE [claims EXCEPT ![r.claim] =
                              {IF row.state \in {"approved", "rejected"} THEN [row EXCEPT !.state = "consumed"] ELSE row
                                 : row \in @}]
         /\ told' = [told EXCEPT ![r.claim] = @ \cup ({r.state} \ {"pending"})]
    /\ poll' = [poll EXCEPT ![p] = {}]
    /\ UNCHANGED <<kinds, now, messages, limiters, nonces, opening, routes, bound, requests, restarts, passed,
                   refused, accepted, decided>>

-----------------------------------------------------------------------------

\* A minute passes; no request spans two (see the head of the module), save the
\* transaction of an activation, which may wait for the database.
Tick ==
    /\ now < MaxClock
    /\ \A p \in Pollers : poll[p] = {}
    /\ now' = now + 1
    /\ UNCHANGED <<kinds, messages, limiters, nonces, opening, routes, bound, claims, poll, requests, restarts,
                   passed, refused, accepted, decided, told>>

\* The process starts again: the limiters and the nonces were in its memory.
RelayRestarts ==
    /\ restarts < MaxRestarts
    /\ restarts' = restarts + 1
    /\ limiters' = [w \in Which |-> NewRateLimiter]
    /\ nonces' = [m \in {} |-> 0]
    /\ opening' = {} /\ poll' = [p \in Pollers |-> {}]
    /\ passed' = [w \in Which |-> [k \in BucketKeys |-> <<>>]]
    /\ refused' = {} /\ accepted' = [m \in 1 .. MaxMessages |-> 0]
    /\ UNCHANGED <<kinds, now, messages, routes, bound, claims, requests, decided, told>>

RoutesNext ==
    \/ \E i \in Installs, k \in Keys, s \in Skews : Sign(i, k, s)
    \/ \E m \in DOMAIN messages : HandlerActivates(m) \/ \E a \in Addresses : HandleActivate(m, a)
    \/ \E a \in Addresses, ok \in BOOLEAN : HandleRegisterRoute(a, ok)
    \/ \E c \in Claims, cap \in Capabilities : SubmitPairingClaim(c, cap)
    \/ \E c \in Claims, st \in {"approved", "rejected"} : CompletePairingClaim(c, st)
    \/ \E p \in Pollers, c \in Claims, cap \in Capabilities : PollPairingResult(p, c, cap)
    \/ \E p \in Pollers : AnswerPoll(p)
    \/ ListPairingClaims \/ Tick \/ RelayRestarts

RoutesSpec == RoutesInit /\ [][RoutesNext]_routesVars

-----------------------------------------------------------------------------
(* Properties. *)

RoutesTypeOK ==
    /\ now \in 0 .. MaxClock /\ requests \in 0 .. MaxRequests /\ restarts \in 0 .. MaxRestarts
    /\ opening \subseteq DOMAIN messages /\ DOMAIN nonces \subseteq DOMAIN messages
    /\ \A w \in Which : DOMAIN limiters[w].buckets \subseteq BucketKeys

\* A signed activation whose timestamp is not ahead of the server's clock is
\* accepted at most once in the life of the process, however often it arrives:
\* the nonce is remembered as long as the timestamp stays in the window, to
\* the last minute of both.
ActivationOnce ==
    \A m \in DOMAIN messages : messages[m].ahead = 0 => accepted[m] <= 1

\* Requests let through by a limiter for one key in the Interval that starts at t.
PassedFrom(w, k, t) == {n \in DOMAIN passed[w][k] : passed[w][k][n] >= t /\ passed[w][k][n] < t + Interval}

\* No key is let through more than 2 * Limit times in any Interval, cleanups of
\* buckets and windows that begin anywhere included, and a key refused by its
\* rate has been let through Limit times less than an Interval before.
RateFair ==
    /\ \A w \in Which, k \in BucketKeys, t \in 0 .. now : Cardinality(PassedFrom(w, k, t)) <= 2 * Limit
    /\ \A r \in refused : Cardinality(PassedFrom(r.w, r.key, (r.at + 1) - Interval)) >= Limit

\* An installation's route answers to a credential its own key signed, every
\* route has one owner, and no route is left that nobody owns (those of
\* handleRegisterRoute apart): also with two activations of one installation
\* in flight, a key tried under a second name, and a conflict on the key.
BindingSound ==
    /\ \A i \in Installs : \A row \in bound[i] :
         /\ routes[row.route] # 0
         /\ messages[routes[row.route]].install = i /\ messages[routes[row.route]].key = row.key
    /\ \A r \in DOMAIN routes :
         routes[r] # 0 => Cardinality({i \in Installs : \E row \in bound[i] : row.route = r}) = 1

\* Everyone who polls a claim is told the Mac's first decision on it and no
\* other, whether or not another poll consumed it meanwhile.
ClaimAnswersAgree == \A c \in Claims : told[c] \subseteq decided[c]

\* What the relay decides for its clients holds together: the rate it grants,
\* the route it binds and the answer to a pairing claim.
RoutesSound == RateFair /\ BindingSound /\ ClaimAnswersAgree
=============================================================================
