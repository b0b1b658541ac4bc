-------------------------- MODULE RateLimiterProofs --------------------------
(***************************************************************************)
(* Proofs for RateLimiter: type correctness, and that it implements        *)
(* TokenBucket, for any clients, proxies, rates and headers.               *)
(***************************************************************************)
EXTENDS RateLimiter, SequenceTheorems, TLAPS

\* A full bucket holds at least one token.
LEMMA FullFacts == Full \in Nat /\ Every \in Nat /\ Every > 0 /\ Full >= Every /\ EvictAfter >= Full
<1>1. Every \in Nat /\ Every > 0 /\ Burst \in Nat /\ Burst >= 1
  BY LimiterAssumption
<1>2. Burst * Every \in Nat /\ Burst * Every >= Every
  <2>1. PICK k \in Nat : Burst = k + 1
    <3>1. Burst - 1 \in Nat /\ Burst = (Burst - 1) + 1
      BY <1>1
    <3>2. QED
      BY <3>1
  <2>2. k * Every \in Nat
    BY <1>1, <2>1
  <2>3. Burst * Every = k * Every + Every
    BY <1>1, <2>1
  <2>4. QED
    BY <1>1, <2>2, <2>3
<1>3. QED
  BY <1>1, <1>2, LimiterAssumption DEF Full

\* What a limiter has available lies between nothing and a full bucket.
LEMMA AvailableType ==
  ASSUME NEW v \in Visitor, now \in Nat, v.last <= now
  PROVE  Available(v) \in 0..Full
<1>1. v.tokens \in 0..Full /\ v.last \in Nat
  BY DEF Visitor
<1>2. QED
  BY <1>1, FullFacts DEF Available

\* A prefix of a sequence.
LEMMA PrefixProperties ==
  ASSUME NEW S, NEW s \in Seq(S), NEW k \in Nat, k <= Len(s)
  PROVE  SubSeq(s, 1, k) \in Seq(S) /\ Len(SubSeq(s, 1, k)) = k
<1>1. \A i \in 1..k : s[i] \in S
  OBVIOUS
<1>2. 1 \in Int /\ k \in Int
  OBVIOUS
<1>3. SubSeq(s, 1, k) \in Seq(S)
  BY <1>1, <1>2, SubSeqProperties, SMT
<1>4. Len(SubSeq(s, 1, k)) = k
  BY <1>1, <1>2, SubSeqProperties, SMT
<1>5. QED
  BY <1>3, <1>4

(* A request is charged to the client that sent it: whatever it wrote into *)
(* the headers lies to the left of its own address, and everything to the  *)
(* right of that is a trusted proxy.                                       *)
THEOREM ChargedToSender ==
  ASSUME NEW c \in Clients, NEW forged \in Seq(Hosts \cup {Malformed}), NEW route \in Seq(Proxies),
         NEW realIP \in Hosts \cup {Malformed}
  PROVE  ClientIP(PeerOf(c, route), ForwardedFor(c, forged, route), realIP) = c
<1> DEFINE front == SubSeq(route, 1, Len(route) - 1)
           xff == ForwardedFor(c, forged, route)
           n == Len(forged) + 1
           hops == {i \in DOMAIN xff : xff[i] \notin Proxies}
<1>0. c \notin Proxies /\ c # Malformed
  BY LimiterAssumption DEF Hosts
<1>1. CASE route = <<>>
  BY <1>0, <1>1 DEF ClientIP, PeerOf
<1>2. CASE route # <<>>
  <2>1. Len(route) \in Nat /\ Len(route) >= 1 /\ route[Len(route)] \in Proxies
    BY <1>2
  <2>2. front \in Seq(Proxies) /\ Len(front) = Len(route) - 1
    <3>1. Len(route) - 1 \in Nat /\ Len(route) - 1 <= Len(route)
      BY <2>1
    <3>2. QED
      BY <3>1, PrefixProperties
  <2>3. xff = (forged \o <<c>>) \o front
    BY <1>2 DEF ForwardedFor
  <2>4. /\ n \in Nat /\ n >= 1 /\ Len(front) \in Nat
        /\ DOMAIN xff = 1..(n + Len(front))
        /\ xff[n] = c
        /\ \A i \in (n+1)..(n + Len(front)) : xff[i] \in Proxies
    <3> DEFINE S == Hosts \cup {Malformed}
               own == forged \o <<c>>
    <3>1. <<c>> \in Seq(S) /\ Len(<<c>>) = 1 /\ <<c>>[1] = c
      BY DEF Hosts
    <3>2. Len(forged) \in Nat /\ n \in Nat /\ n >= 1 /\ Len(front) \in Nat
      BY <2>1, <2>2
    <3>3. own \in Seq(S) /\ Len(own) = n /\ own[n] = c
      <4>1. /\ own \in Seq(S)
            /\ Len(own) = Len(forged) + 1
            /\ \A i \in 1..(Len(forged) + 1) : own[i] = IF i <= Len(forged) THEN forged[i] ELSE <<c>>[i - Len(forged)]
        BY <3>1, ConcatProperties
      <4>2. Len(forged) + 1 \in 1..(Len(forged) + 1) /\ ~(Len(forged) + 1 <= Len(forged))
              /\ (Len(forged) + 1) - Len(forged) = 1
        BY <3>2
      <4>3. QED
        BY <4>1, <4>2, <3>1
    <3>4. front \in Seq(S) /\ \A i \in 1..Len(front) : front[i] \in Proxies
      BY <2>2 DEF Hosts
    <3> HIDE DEF own, n, front
    <3>5. /\ own \o front \in Seq(S)
          /\ Len(own \o front) = n + Len(front)
          /\ \A i \in 1..(n + Len(front)) : (own \o front)[i] = IF i <= n THEN own[i] ELSE front[i - n]
      BY <3>3, <3>4, ConcatProperties
    <3>6. xff = own \o front
      BY <2>3 DEF own, front
    <3> HIDE DEF xff, S
    <3>7. DOMAIN xff = 1..(n + Len(front))
      BY <3>5, <3>6
    <3>8. xff[n] = c
      BY <3>2, <3>3, <3>5, <3>6
    <3>9. ASSUME NEW i \in (n+1)..(n + Len(front)) PROVE xff[i] \in Proxies
      <4>1. i \in 1..(n + Len(front)) /\ ~(i <= n) /\ (i - n) \in 1..Len(front)
        BY <3>2
      <4>2. QED
        BY <4>1, <3>4, <3>5, <3>6
    <3>10. QED
      BY <3>2, <3>7, <3>8, <3>9
  <2> HIDE DEF front, xff, n
  <2>5. n \in hops /\ \A i \in hops : i \in Int /\ n >= i
    BY <1>0, <2>4
  <2>6. Max(hops) = n
    BY <2>5 DEF Max
  <2>7. xff # <<>>
    BY <2>4
  <2>8. NearestUntrusted(route[Len(route)], xff) = c
    BY <2>5, <2>6, <2>4, <1>0 DEF NearestUntrusted
  <2>9. QED
    BY <1>2, <2>1, <2>7, <2>8 DEF ClientIP, PeerOf, xff
<1>3. QED
  BY <1>1, <1>2

\* The same for the headers and routes of the specification.
LEMMA RequestCharges ==
  ASSUME NEW c \in Clients, NEW forged \in Headers, NEW route \in Routes,
         NEW realIP \in Hosts \cup {Malformed}, Request(c, forged, route, realIP)
  PROVE  Charge(c, c)
<1>1. forged \in Seq(Hosts \cup {Malformed})
  BY LimiterAssumption DEF Headers
<1>2. route \in Seq(Proxies)
  BY LimiterAssumption DEF Routes
<1>3. QED
  BY <1>1, <1>2, ChargedToSender DEF Request

\* Charging a client keeps the types.
LEMMA ChargeType ==
  ASSUME TypeOK, NEW c \in Clients, Charge(c, c)
  PROVE  TypeOK'
<1> DEFINE v == [Entry(c) EXCEPT !.lastSeen = now]
           w == IF Available(v) >= Every
                THEN [v EXCEPT !.tokens = Available(v) - Every, !.last = now] ELSE v
<1>1. c \in Hosts /\ now \in Nat
  BY DEF Hosts, TypeOK
<1>2. Entry(c) \in Visitor /\ Entry(c).last <= now
  <2>1. CASE visitors[c] = NoVisitor
    BY <2>1, <1>1, FullFacts DEF Entry, NewLimiter, Visitor
  <2>2. CASE visitors[c] # NoVisitor
    <3>1. visitors[c] \in Visitor /\ visitors[c].last <= visitors[c].lastSeen /\ visitors[c].lastSeen <= now
      BY <2>2, <1>1 DEF TypeOK
    <3>2. visitors[c].last \in Nat /\ visitors[c].lastSeen \in Nat
      BY <3>1 DEF Visitor
    <3>3. QED
      BY <3>1, <3>2, <2>2, <1>1 DEF Entry
  <2>3. QED
    BY <2>1, <2>2
<1>3. v \in Visitor /\ v.last <= now /\ v.lastSeen = now
  BY <1>1, <1>2 DEF Visitor
<1>4. Available(v) \in 0..Full
  BY <1>1, <1>3, AvailableType
<1>5. w \in Visitor /\ w.last <= w.lastSeen /\ w.lastSeen = now
  <2> DEFINE spent == [v EXCEPT !.tokens = Available(v) - Every, !.last = now]
  <2> HIDE DEF v
  <2>1. CASE Available(v) >= Every
    <3>1. Available(v) - Every \in 0..Full
      BY <2>1, <1>4, FullFacts
    <3>2. spent \in Visitor /\ spent.last = now /\ spent.lastSeen = now
      BY <3>1, <1>1, <1>3 DEF Visitor
    <3>3. QED
      BY <2>1, <3>2, <1>1
  <2>2. CASE ~(Available(v) >= Every)
    BY <2>2, <1>3
  <2>3. QED
    BY <2>1, <2>2
<1>6. visitors' = [visitors EXCEPT ![c] = w] /\ now' = now
      /\ answer' = [client |-> c, allowed |-> Available(v) >= Every]
  BY DEF Charge
<1>7. visitors' \in [Hosts -> Visitor \cup {NoVisitor}]
  BY <1>5, <1>6 DEF TypeOK
<1>8. answer' \in [client : Clients, allowed : BOOLEAN]
  BY <1>6
<1>9. \A a \in Hosts : visitors'[a] # NoVisitor =>
          visitors'[a].last <= visitors'[a].lastSeen /\ visitors'[a].lastSeen <= now'
  <2> TAKE a \in Hosts
  <2>1. CASE a = c
    BY <2>1, <1>1, <1>5, <1>6 DEF TypeOK
  <2>2. CASE a # c
    BY <2>2, <1>6 DEF TypeOK
  <2>3. QED
    BY <2>1, <2>2
<1>10. QED
  BY <1>1, <1>6, <1>7, <1>8, <1>9 DEF TypeOK

(* Visitors and answers always have their types, and no visitor was        *)
(* charged after it was seen or seen in the future (middleware,            *)
(* ratelimit.go:105-124).                                                  *)
THEOREM LimiterTypeCorrect == Spec => []TypeOK
<1>1. Init => TypeOK
  <2>1. (CHOOSE c \in Clients : TRUE) \in Clients
    BY LimiterAssumption
  <2>2. QED
    BY <2>1 DEF Init, TypeOK
<1>2. TypeOK /\ [Next]_vars => TypeOK'
  <2> SUFFICES ASSUME TypeOK, [Next]_vars PROVE TypeOK'
    OBVIOUS
  <2>1. ASSUME NEW c \in Clients, NEW forged \in Headers, NEW route \in Routes,
               NEW realIP \in Hosts \cup {Malformed}, Request(c, forged, route, realIP)
        PROVE  TypeOK'
    BY <2>1, RequestCharges, ChargeType
  <2>2. CASE Evict
    BY <2>2 DEF Evict, TypeOK
  <2>3. CASE Tick
    <3>1. \A a \in Hosts : visitors[a] # NoVisitor => visitors[a].lastSeen \in Nat
      BY DEF TypeOK, Visitor
    <3>2. QED
      BY <2>3, <3>1 DEF Tick, TypeOK
  <2>4. CASE UNCHANGED vars
    BY <2>4 DEF vars, TypeOK
  <2>5. QED
    BY <2>1, <2>2, <2>3, <2>4 DEF Next
<1>3. QED
  BY <1>1, <1>2, PTL DEF Spec

(* No visitor of the map is ever a proxy, so the burst of one client never *)
(* locks out the others behind the same proxy (clientIP,                   *)
(* ratelimit.go:64-96).                                                    *)
THEOREM NoProxyCharged == Spec => []ProxiesNotCharged
<1>1. Init => ProxiesNotCharged
  BY DEF Init, ProxiesNotCharged, Hosts
<1>2. TypeOK /\ ProxiesNotCharged /\ [Next]_vars => ProxiesNotCharged'
  <2> SUFFICES ASSUME TypeOK, ProxiesNotCharged, [Next]_vars, NEW a \in Proxies
               PROVE  visitors'[a] = NoVisitor
    BY DEF ProxiesNotCharged
  <2>1. a \in Hosts /\ visitors[a] = NoVisitor
    BY DEF ProxiesNotCharged, Hosts
  <2>2. ASSUME NEW c \in Clients, NEW forged \in Headers, NEW route \in Routes,
               NEW realIP \in Hosts \cup {Malformed}, Request(c, forged, route, realIP)
        PROVE  visitors'[a] = NoVisitor
    <3>1. a # c
      BY LimiterAssumption
    <3>2. Charge(c, c)
      BY <2>2, RequestCharges
    <3>3. QED
      BY <2>1, <3>1, <3>2 DEF Charge, TypeOK
  <2>3. CASE Evict
    BY <2>1, <2>3 DEF Evict
  <2>4. CASE Tick \/ UNCHANGED vars
    BY <2>1, <2>4 DEF Tick, vars
  <2>5. QED
    BY <2>2, <2>3, <2>4 DEF Next
<1>3. QED
  BY <1>1, <1>2, LimiterTypeCorrect, PTL DEF Spec

----------------------------------------------------------------------------
(* The refinement. *)

\* Advancing the clock fills every bucket by one tick.
LEMMA TickRefills ==
  ASSUME TypeOK, Tick
  PROVE  Promise!Refill
<1>1. ASSUME NEW c \in Clients
      PROVE  BucketOf(c)' = IF BucketOf(c) < Full THEN BucketOf(c) + 1 ELSE Full
  <2>1. c \in Hosts /\ now \in Nat /\ now' = now + 1 /\ visitors' = visitors
    BY DEF Hosts, TypeOK, Tick
  <2>2. CASE visitors[c] = NoVisitor
    BY <2>1, <2>2, FullFacts DEF BucketOf
  <2>3. CASE visitors[c] # NoVisitor
    <3>1. visitors[c].tokens \in 0..Full /\ visitors[c].last \in Nat /\ visitors[c].lastSeen \in Nat
          /\ visitors[c].last <= now
      BY <2>1, <2>3 DEF TypeOK, Visitor
    <3>2. QED
      BY <2>1, <2>3, <3>1, FullFacts DEF BucketOf, Available
  <2>4. QED
    BY <2>2, <2>3
<1>2. answer' = answer
  BY DEF Tick
<1>3. QED
  BY <1>1, <1>2 DEF Promise!Refill, Promise!Full, Full

\* Evicting a visitor changes no bucket: it has been full for a while.
LEMMA EvictStutters ==
  ASSUME TypeOK, Evict
  PROVE  UNCHANGED Promise!vars
<1>1. ASSUME NEW c \in Clients PROVE BucketOf(c)' = BucketOf(c)
  <2>1. c \in Hosts /\ now \in Nat /\ now' = now
    BY DEF Hosts, TypeOK, Evict
  <2>2. CASE visitors[c] # NoVisitor /\ visitors[c].lastSeen < now - EvictAfter
    <3>1. visitors[c].tokens \in 0..Full /\ visitors[c].last \in Nat /\ visitors[c].lastSeen \in Nat
          /\ visitors[c].last <= visitors[c].lastSeen
      BY <2>1, <2>2 DEF TypeOK, Visitor
    <3>2. Available(visitors[c]) = Full
      BY <2>1, <2>2, <3>1, FullFacts, LimiterAssumption DEF Available
    <3>3. visitors'[c] = NoVisitor
      BY <2>1, <2>2 DEF Evict
    <3>4. QED
      BY <2>2, <3>2, <3>3 DEF BucketOf
  <2>3. CASE ~(visitors[c] # NoVisitor /\ visitors[c].lastSeen < now - EvictAfter)
    <3>1. visitors'[c] = visitors[c]
      BY <2>1, <2>3 DEF Evict
    <3>2. QED
      BY <2>1, <3>1 DEF BucketOf, Available
  <2>4. QED
    BY <2>2, <2>3
<1>2. answer' = answer
  BY DEF Evict
<1>3. QED
  BY <1>1, <1>2 DEF Promise!vars

\* Charging a client takes a token from its own bucket, or refuses it.
LEMMA ChargeAdmitsOrRefuses ==
  ASSUME TypeOK, NEW c \in Clients, Charge(c, c)
  PROVE  Promise!Admit(c) \/ Promise!Refuse(c)
<1> DEFINE v == [Entry(c) EXCEPT !.lastSeen = now]
           bucket == [d \in Clients |-> BucketOf(d)]
<1>1. c \in Hosts /\ now \in Nat /\ now' = now /\ visitors \in [Hosts -> Visitor \cup {NoVisitor}]
  BY DEF Hosts, TypeOK, Charge
<1>2. ASSUME NEW d \in Clients, d # c PROVE BucketOf(d)' = BucketOf(d)
  <2>1. d \in Hosts
    BY DEF Hosts
  <2>2. visitors'[d] = visitors[d]
    BY <1>1, <1>2, <2>1 DEF Charge
  <2>3. QED
    BY <1>1, <2>2 DEF BucketOf, Available
<1>3. v \in Visitor /\ v.last \in Nat /\ v.last <= now /\ Available(v) = BucketOf(c)
  <2>1. CASE visitors[c] = NoVisitor
    BY <2>1, <1>1, FullFacts DEF Entry, NewLimiter, Visitor, Available, BucketOf
  <2>2. CASE visitors[c] # NoVisitor
    <3>1. visitors[c] \in Visitor /\ visitors[c].last <= visitors[c].lastSeen /\ visitors[c].lastSeen <= now
      BY <2>2, <1>1 DEF TypeOK
    <3>2. visitors[c].last \in Nat /\ visitors[c].lastSeen \in Nat /\ visitors[c].tokens \in 0..Full
      BY <3>1 DEF Visitor
    <3>3. v = [visitors[c] EXCEPT !.lastSeen = now]
      BY <2>2 DEF Entry
    <3>4. v \in Visitor /\ v.last = visitors[c].last /\ v.tokens = visitors[c].tokens
      BY <3>1, <3>3, <1>1 DEF Visitor
    <3> HIDE DEF v
    <3>5. QED
      BY <2>2, <3>1, <3>2, <3>4, <1>1 DEF Available, BucketOf
  <2>3. QED
    BY <2>1, <2>2
<1>4. BucketOf(c) \in 0..Full
  BY <1>1, <1>3, AvailableType
<1>5. CASE Available(v) >= Every
  <2> DEFINE w == [v EXCEPT !.tokens = Available(v) - Every, !.last = now]
  <2>1. visitors' = [visitors EXCEPT ![c] = w] /\ answer' = [client |-> c, allowed |-> TRUE]
    <3>1. (Available(v) >= Every) = TRUE
      BY <1>5, <1>3, <1>4, FullFacts
    <3>2. QED
      BY <1>5, <3>1 DEF Charge
  <2>2. visitors'[c] = w
    BY <2>1, <1>1
  <2>3. w \in Visitor /\ w.tokens = BucketOf(c) - Every /\ w.last = now
    <3> HIDE DEF v
    <3>1. Available(v) - Every \in 0..Full
      BY <1>3, <1>4, <1>5, FullFacts
    <3>2. QED
      BY <3>1, <1>1, <1>3 DEF Visitor
  <2> HIDE DEF w
  <2>4. BucketOf(c)' = BucketOf(c) - Every
    BY <2>2, <2>3, <1>1, <1>3, <1>4, <1>5, FullFacts, VisitorAssumption DEF BucketOf, Available
  <2>5. Promise!Admit(c)
    BY <2>1, <2>4, <1>2, <1>3, <1>5 DEF Promise!Admit
  <2>6. QED
    BY <2>5
<1>6. CASE ~(Available(v) >= Every)
  <2>1. visitors' = [visitors EXCEPT ![c] = v] /\ answer' = [client |-> c, allowed |-> FALSE]
    <3>1. (Available(v) >= Every) = FALSE
      BY <1>6, <1>3, <1>4, FullFacts
    <3>2. QED
      BY <1>6, <3>1 DEF Charge
  <2>2. visitors'[c] = v /\ v # NoVisitor
    BY <2>1, <1>1, <1>3, VisitorAssumption
  <2> HIDE DEF v
  <2>3. BucketOf(c)' = BucketOf(c)
    BY <2>2, <1>1, <1>3 DEF BucketOf, Available
  <2>4. BucketOf(c) < Every
    BY <1>3, <1>4, <1>6, FullFacts
  <2>5. Promise!Refuse(c)
    BY <2>1, <2>3, <2>4, <1>2 DEF Promise!Refuse
  <2>6. QED
    BY <2>5
<1>7. QED
  BY <1>5, <1>6

(* The limiter implements TokenBucket: every client has a bucket of its    *)
(* own whatever it writes into the headers, and the map may forget a       *)
(* visitor without anyone noticing (ratelimit.go:45-94 and 105-124).       *)
THEOREM LimiterImplementsBuckets == Spec => OwnBucketEach
<1>1. Init => Promise!Init
  BY DEF Init, Promise!Init, Promise!Full, Full, BucketOf, Hosts
<1>2. TypeOK /\ [Next]_vars => [Promise!Next]_(Promise!vars)
  <2> SUFFICES ASSUME TypeOK, [Next]_vars PROVE [Promise!Next]_(Promise!vars)
    OBVIOUS
  <2>1. ASSUME NEW c \in Clients, NEW forged \in Headers, NEW route \in Routes,
               NEW realIP \in Hosts \cup {Malformed}, Request(c, forged, route, realIP)
        PROVE  Promise!Next
    BY <2>1, RequestCharges, ChargeAdmitsOrRefuses DEF Promise!Next
  <2>2. CASE Evict
    BY <2>2, EvictStutters
  <2>3. CASE Tick
    BY <2>3, TickRefills DEF Promise!Next
  <2>4. CASE UNCHANGED vars
    BY <2>4 DEF vars, Promise!vars, BucketOf, Available
  <2>5. QED
    BY <2>1, <2>2, <2>3, <2>4 DEF Next
<1>3. QED
  BY <1>1, <1>2, LimiterTypeCorrect, PTL DEF Spec, OwnBucketEach, Promise!Spec
=============================================================================
