----------------------------- MODULE RateLimiter -----------------------------
(***************************************************************************)
(* The per address rate limiter in front of the authentication endpoints   *)
(* (src/internal/httpapi/ratelimit.go): whom a request that came through   *)
(* proxies is charged to, the map of visitors with a limiter each, and the *)
(* loop that evicts visitors.  A request holds the mutex from the lookup   *)
(* to the limiter's answer, so it is one action.                           *)
(*                                                                         *)
(* golang.org/x/time/rate is external: a limiter keeps the tokens it had   *)
(* when it last admitted a request, counted here in clock ticks.           *)
(***************************************************************************)
EXTENDS Integers, Sequences, FiniteSetsExt

CONSTANTS
    Clients,      \* addresses outside the trusted proxies
    Proxies,      \* addresses inside trustedProxies
    Malformed,    \* an entry of a header that is no address
    Every,        \* clock ticks per token: time.Minute / eventsPerMinute
    Burst,        \* tokens of a new limiter
    EvictAfter,   \* how long a visitor is kept without requests
    NoVisitor,    \* no entry in the map
    MaxForged,    \* bound: entries a client puts in X-Forwarded-For
    MaxRoute,     \* bound: proxies on a route
    MaxTime       \* bound: the clock stops here

Hosts == Clients \cup Proxies

\* The last part is what makes eviction invisible: by then the bucket of the
\* visitor is full again (an hour against half a minute).
ASSUME LimiterAssumption ==
    /\ Clients # {} /\ Clients \cap Proxies = {}
    /\ Malformed \notin Hosts
    /\ Every \in Nat \ {0} /\ Burst \in Nat \ {0}
    /\ EvictAfter \in Nat /\ EvictAfter >= Burst * Every
    /\ MaxForged \in Nat /\ MaxRoute \in Nat /\ MaxTime \in Nat

VARIABLES
    visitors,     \* l.visitors
    now,          \* the clock
    answer        \* the client that sent the last request, and its fate

vars == <<visitors, now, answer>>

Full == Burst * Every

Visitor == [tokens : 0..Full, last : Nat, lastSeen : Nat]

ASSUME VisitorAssumption == NoVisitor \notin Visitor

Init == /\ visitors = [a \in Hosts |-> NoVisitor]
        /\ now = 0
        /\ answer = [client |-> CHOOSE c \in Clients : TRUE, allowed |-> TRUE]

----------------------------------------------------------------------------
(* Whom a request is charged to. *)

\* X-Forwarded-For from the right: the first hop that is no trusted proxy.
MutLeftmostHop(peer, xff) ==
    LET hops == {i \in DOMAIN xff : xff[i] \notin Proxies}
    IN  IF hops = {} \/ xff[Min(hops)] = Malformed THEN peer ELSE xff[Min(hops)]

NearestUntrusted(peer, xff) ==
    LET hops == {i \in DOMAIN xff : xff[i] \notin Proxies}
    IN  IF hops = {} \/ xff[Max(hops)] = Malformed THEN peer ELSE xff[Max(hops)]

ClientIP(peer, xff, realIP) ==
    IF peer \notin Proxies THEN peer
    ELSE IF xff # <<>> THEN NearestUntrusted(peer, xff)
    ELSE IF realIP # Malformed THEN realIP ELSE peer

\* A request of client c arrives: c wrote whatever it liked into the headers,
\* and each proxy on the route appended the address it was called from.
PeerOf(c, route) == IF route = <<>> THEN c ELSE route[Len(route)]

ForwardedFor(c, forged, route) ==
    IF route = <<>> THEN forged ELSE forged \o <<c>> \o SubSeq(route, 1, Len(route) - 1)

----------------------------------------------------------------------------
(* The limiter. *)

MutUncapped(v) == v.tokens + (now - v.last)

\* advance of a rate.Limiter, with the clock at now.
Available(v) == IF v.tokens + (now - v.last) < Full THEN v.tokens + (now - v.last) ELSE Full

NewLimiter == [tokens |-> Full, last |-> now, lastSeen |-> now]

\* l.visitors[host], created when it is missing.
Entry(host) == IF visitors[host] = NoVisitor THEN NewLimiter ELSE visitors[host]

\* Allow takes a token, or leaves the limiter as it is.
Charge(c, host) ==
    LET v == [Entry(host) EXCEPT !.lastSeen = now]
        allowed == Available(v) >= Every
    IN  /\ visitors' = [visitors EXCEPT ![host] =
                IF allowed THEN [v EXCEPT !.tokens = Available(v) - Every, !.last = now] ELSE v]
        /\ answer' = [client |-> c, allowed |-> allowed]
        /\ UNCHANGED now

Request(c, forged, route, realIP) ==
    Charge(c, ClientIP(PeerOf(c, route), ForwardedFor(c, forged, route), realIP))

\* The ticker of evictLoop fires, however late, under the mutex.
MutEvictBusy ==
    /\ visitors' = [a \in Hosts |-> IF visitors[a] # NoVisitor /\ visitors[a].lastSeen < now
                                    THEN NoVisitor ELSE visitors[a]]
    /\ UNCHANGED <<now, answer>>

Evict ==
    /\ visitors' = [a \in Hosts |-> IF visitors[a] # NoVisitor /\ visitors[a].lastSeen < now - EvictAfter
                                    THEN NoVisitor ELSE visitors[a]]
    /\ UNCHANGED <<now, answer>>

Tick == /\ now < MaxTime
        /\ now' = now + 1
        /\ UNCHANGED <<visitors, answer>>

Headers == UNION {[1..n -> Hosts \cup {Malformed}] : n \in 0..MaxForged}

Routes == UNION {[1..n -> Proxies] : n \in 0..MaxRoute}

Next ==
    \/ \E c \in Clients, forged \in Headers, route \in Routes, realIP \in Hosts \cup {Malformed} :
            Request(c, forged, route, realIP)
    \/ Evict
    \/ Tick

Spec == Init /\ [][Next]_vars

----------------------------------------------------------------------------
(* Properties. *)

\* Every visitor has its type, and was seen no earlier than it was last
\* charged and no later than now (the mutex orders the requests).
TypeOK ==
    /\ visitors \in [Hosts -> Visitor \cup {NoVisitor}]
    /\ now \in Nat
    /\ answer \in [client : Clients, allowed : BOOLEAN]
    /\ \A a \in Hosts : visitors[a] # NoVisitor =>
            visitors[a].last <= visitors[a].lastSeen /\ visitors[a].lastSeen <= now

\* The bucket of a client, in the map or evicted from it.
BucketOf(c) == IF visitors[c] = NoVisitor THEN Full ELSE Available(visitors[c])

Promise == INSTANCE TokenBucket WITH bucket <- [c \in Clients |-> BucketOf(c)]

(* Clients have buckets of their own whatever they write into the headers  *)
(* and whichever proxies they come through, and eviction gives nobody      *)
(* tokens (ratelimit.go:64-96 and 44-62).                                  *)
OwnBucketEach == Promise!Spec

(* No visitor of the map is a proxy: one client's burst never locks out    *)
(* the others behind the same proxy (docs/AUDIT_REPORT.md:41, "preventing  *)
(* proxy lockout and client IP spoofing").                                 *)
ProxiesNotCharged == \A a \in Proxies : visitors[a] = NoVisitor
=============================================================================
