------------------------- MODULE ServerProcessProofs -------------------------
(***************************************************************************)
(* Proofs about ServerProcess: no metric is counted twice, none that was   *)
(* accepted is lost by an orderly shutdown, and the pool outlives the      *)
(* flush loop, for any number of requests, any capacity and batch size.    *)
(***************************************************************************)
EXTENDS ServerProcess, FiniteSetTheorems, SequenceTheorems, TLAPS

----------------------------------------------------------------------------
(* Queues. *)

(* Receiving takes the head out of the channel: what is left holds the     *)
(* other requests and no more.                                             *)
LEMMA TailHolds ==
    ASSUME NEW S, NEW q \in Seq(S), q # <<>>, Once(q)
    PROVE  /\ Tail(q) \in Seq(S) /\ Len(Tail(q)) < Len(q)
           /\ Once(Tail(q))
           /\ Head(q) \in S
           /\ Holds(q, Head(q))
           /\ ~Holds(Tail(q), Head(q))
           /\ \A r : r # Head(q) => (Holds(Tail(q), r) <=> Holds(q, r))
  <1>1. /\ Tail(q) \in Seq(S) /\ Len(Tail(q)) = Len(q) - 1 /\ Len(q) \in Nat \ {0}
        /\ DOMAIN q = 1..Len(q) /\ DOMAIN Tail(q) = 1..(Len(q) - 1)
        /\ Head(q) = q[1] /\ Head(q) \in S
    OBVIOUS
  <1>2. \A i \in 1..(Len(q) - 1) : Tail(q)[i] = q[i + 1]
    BY <1>1
  <1>3. Once(Tail(q))
    BY <1>1, <1>2 DEF Once
  <1>4. Holds(q, Head(q)) /\ ~Holds(Tail(q), Head(q))
    BY <1>1, <1>2 DEF Once, Holds
  <1>5. ASSUME NEW r, r # Head(q)
        PROVE  Holds(Tail(q), r) <=> Holds(q, r)
    <2>1. ASSUME NEW i \in DOMAIN q, q[i] = r
          PROVE  i - 1 \in DOMAIN Tail(q) /\ Tail(q)[i - 1] = r
      BY <1>1, <1>2, <1>5, <2>1
    <2>2. ASSUME NEW i \in DOMAIN Tail(q), Tail(q)[i] = r
          PROVE  i + 1 \in DOMAIN q /\ q[i + 1] = r
      BY <1>1, <1>2, <2>2
    <2> QED BY <2>1, <2>2 DEF Holds
  <1> QED BY <1>1, <1>3, <1>4, <1>5

(* Sending or buffering adds one request at the end.                       *)
LEMMA AppendHolds ==
    ASSUME NEW S, NEW q \in Seq(S), NEW x \in S
    PROVE  /\ Append(q, x) \in Seq(S) /\ Len(Append(q, x)) = Len(q) + 1
           /\ \A r : Holds(Append(q, x), r) <=> Holds(q, r) \/ r = x
           /\ Once(q) /\ ~Holds(q, x) => Once(Append(q, x))
  <1> DEFINE s == Append(q, x)
  <1>1. /\ s \in Seq(S) /\ Len(s) = Len(q) + 1 /\ Len(q) \in Nat
        /\ DOMAIN q = 1..Len(q) /\ DOMAIN s = 1..(Len(q) + 1)
    OBVIOUS
  <1>2. s[Len(q) + 1] = x /\ \A i \in 1..Len(q) : s[i] = q[i]
    OBVIOUS
  <1> HIDE DEF s
  <1>3. ASSUME NEW r PROVE Holds(s, r) <=> Holds(q, r) \/ r = x
    BY <1>1, <1>2 DEF Holds
  <1>4. ASSUME Once(q), ~Holds(q, x) PROVE Once(s)
    BY <1>1, <1>2, <1>4 DEF Once, Holds
  <1> QED BY <1>1, <1>3, <1>4 DEF s

(* A request that a queue holds once makes a group of one.                 *)
LEMMA GroupSize ==
    ASSUME NEW S, NEW q \in Seq(S), Once(q), NEW r
    PROVE  Cardinality({i \in DOMAIN q : q[i] = r}) = IF Holds(q, r) THEN 1 ELSE 0
  <1>1. CASE Holds(q, r)
    <2>1. PICK i \in DOMAIN q : q[i] = r
      BY <1>1 DEF Holds
    <2>2. {j \in DOMAIN q : q[j] = r} = {i}
      BY <2>1 DEF Once
    <2> QED BY <1>1, <2>2, FS_Singleton
  <1>2. CASE ~Holds(q, r)
    <2>1. {j \in DOMAIN q : q[j] = r} = {}
      BY <1>2 DEF Holds
    <2> QED BY <1>2, <2>1, FS_EmptySet
  <1> QED BY <1>1, <1>2

----------------------------------------------------------------------------
(* The stages of flushLoop. *)

(* What the loop is at, and what is left after each stage.                 *)
LEMMA Stages ==
    /\ loop \in LoopStages \cup LastStages =>
        /\ At("cleanup") => loop = <<"cleanup", "select">>
        /\ At("select") => loop = <<"select">>
        /\ At("drain") => loop = <<"drain">>
        /\ At("done") => loop = <<"done">>
        /\ At("flush") => loop \in {<<"flush", "select">>, <<"flush", "flushErrors", "select">>,
                                    <<"flush", "flushErrors", "done">>}
        /\ At("flushErrors") => loop \in {<<"flushErrors", "select">>, <<"flushErrors", "done">>}
        /\ Head(loop) \in {"cleanup", "select", "flush", "flushErrors", "drain", "done"}
    /\ Tail(<<"cleanup", "select">>) = <<"select">>
    /\ Tail(<<"flush", "select">>) = <<"select">>
    /\ Tail(<<"flush", "flushErrors", "select">>) = <<"flushErrors", "select">>
    /\ Tail(<<"flush", "flushErrors", "done">>) = <<"flushErrors", "done">>
    /\ Tail(<<"flushErrors", "select">>) = <<"select">>
    /\ Tail(<<"flushErrors", "done">>) = <<"done">>
    /\ FlushAll \o <<"select">> = <<"flush", "flushErrors", "select">>
    /\ FlushAll \o <<"done">> = <<"flush", "flushErrors", "done">>
    /\ <<"cleanup">> \o <<"select">> = <<"cleanup", "select">>
  <1>1. loop \in LoopStages \cup LastStages =>
        /\ At("cleanup") => loop = <<"cleanup", "select">>
        /\ At("select") => loop = <<"select">>
        /\ At("drain") => loop = <<"drain">>
        /\ At("done") => loop = <<"done">>
        /\ At("flush") => loop \in {<<"flush", "select">>, <<"flush", "flushErrors", "select">>,
                                    <<"flush", "flushErrors", "done">>}
        /\ At("flushErrors") => loop \in {<<"flushErrors", "select">>, <<"flushErrors", "done">>}
        /\ Head(loop) \in {"cleanup", "select", "flush", "flushErrors", "drain", "done"}
    BY DEF LoopStages, LastStages, At
  <1>2. /\ Tail(<<"cleanup", "select">>) = <<"select">>
        /\ Tail(<<"flush", "select">>) = <<"select">>
        /\ Tail(<<"flushErrors", "select">>) = <<"select">>
        /\ Tail(<<"flushErrors", "done">>) = <<"done">>
    OBVIOUS
  <1>3. Tail(<<"flush", "flushErrors", "select">>) = <<"flushErrors", "select">>
    OBVIOUS
  <1>4. Tail(<<"flush", "flushErrors", "done">>) = <<"flushErrors", "done">>
    OBVIOUS
  <1> DEFINE S == {"cleanup", "select", "flush", "flushErrors", "drain", "done"}
  <1>5. FlushAll \o <<"select">> = <<"flush", "flushErrors", "select">>
    <2> DEFINE s == FlushAll \o <<"select">>  t == <<"flush", "flushErrors", "select">>
    <2>1. s \in Seq(S) /\ t \in Seq(S) /\ Len(s) = 3 /\ Len(t) = 3
      BY DEF FlushAll
    <2>2. \A i \in 1..3 : s[i] = t[i]
      BY DEF FlushAll
    <2> QED BY <2>1, <2>2, SeqEqual
  <1>6. FlushAll \o <<"done">> = <<"flush", "flushErrors", "done">>
    <2> DEFINE s == FlushAll \o <<"done">>  t == <<"flush", "flushErrors", "done">>
    <2>1. s \in Seq(S) /\ t \in Seq(S) /\ Len(s) = 3 /\ Len(t) = 3
      BY DEF FlushAll
    <2>2. \A i \in 1..3 : s[i] = t[i]
      BY DEF FlushAll
    <2> QED BY <2>1, <2>2, SeqEqual
  <1>7. <<"cleanup">> \o <<"select">> = <<"cleanup", "select">>
    <2> DEFINE s == <<"cleanup">> \o <<"select">>  t == <<"cleanup", "select">>
    <2>1. s \in Seq(S) /\ t \in Seq(S) /\ Len(s) = 2 /\ Len(t) = 2
      OBVIOUS
    <2>2. \A i \in 1..2 : s[i] = t[i]
      OBVIOUS
    <2> QED BY <2>1, <2>2, SeqEqual
  <1> QED BY <1>1, <1>2, <1>3, <1>4, <1>5, <1>6, <1>7

(* The aggregates of a buffer are those of the requests that it holds.     *)
LEMMA KeysOfQueue ==
    ASSUME NEW q \in Seq(Requests)
    PROVE  /\ Keys(q) \subseteq {KeyOf[r] : r \in Requests}
           /\ \A r : Holds(q, r) => KeyOf[r] \in Keys(q)
  BY DEF Keys, Holds

(* Nothing is in the empty queue.                                          *)
LEMMA EmptyHolds ==
    /\ Once(<<>>)
    /\ \A r : ~Holds(<<>>, r)
  BY DEF Once, Holds

(* The invariant and the types together.                                   *)
AllInv == TypeOK /\ DeliveryInv

----------------------------------------------------------------------------
(* The steps of a request. *)

(* A step of a request that sends nothing: only where it stands changes.   *)
LEMMA MovesSafely ==
    ASSUME AllInv, NEW r \in Requests, NEW from, NEW to, Moves(r, from, to),
           UNCHANGED <<metrics, errorLogs, accepted>>,
           \/ from = "absent" /\ to = "running" /\ open
           \/ from = "running" /\ to \in {"send error", "answered"}
           \/ from = "answered" /\ to \in {"send metric", "returned"}
    PROVE  AllInv'
  <1> USE DEF AllInv
  <1>1. TypeOK'
    BY DEF TypeOK, Moves
  <1>2. /\ handler' = [handler EXCEPT ![r] = to] /\ handler[r] = from
        /\ handler'[r] = to /\ \A s \in Requests \ {r} : handler'[s] = handler[s]
    BY DEF Moves, TypeOK
  <1>3. MetricInOnePlace'
    <2>1. UNCHANGED <<metrics, buffer, loop, upserts, counted, faults, accepted>>
      BY DEF Moves
    <2>2. \A s \in Requests : handler'[s] # "returned" => handler[s] # "returned"
      BY <1>2
    <2> QED BY <2>1, <2>2 DEF DeliveryInv, MetricInOnePlace, Once, Holds, At
  <1>4. ErrorInOnePlace'
    <2>1. UNCHANGED <<errorLogs, errBuffer, logged, faults, accepted>>
      BY DEF Moves
    <2>2. \A s \in Requests : handler'[s] \in {"absent", "running", "send error"}
                              => handler[s] \in {"absent", "running", "send error"}
      BY <1>2
    <2> QED BY <2>1, <2>2 DEF DeliveryInv, ErrorInOnePlace, Once, Holds
  <1>5. EndsInOrder'
    <2>1. UNCHANGED <<process, open, overdue, buffer, errBuffer, loop, stopped, pool, faults, metrics, errorLogs>>
      BY DEF Moves
    <2>2. ~overdue /\ process \notin {"serve", "drain"} => Finished'
      BY <1>2 DEF DeliveryInv, EndsInOrder, Finished, Doing
    <2> QED BY <2>1, <2>2 DEF DeliveryInv, EndsInOrder
  <1> QED BY <1>1, <1>3, <1>4, <1>5 DEF DeliveryInv

(* A send that finds room adds its request, one that does not adds none.   *)
LEMMA SendAdds ==
    ASSUME NEW q \in Seq(Requests), Len(q) <= Cap, NEW x \in Requests, Once(q), ~Holds(q, x),
           NEW p, p = IF Len(q) < Cap THEN Append(q, x) ELSE q
    PROVE  /\ p \in Seq(Requests) /\ Len(p) <= Cap
           /\ Once(p)
           /\ \/ p = q
              \/ p # q /\ \A s : Holds(p, s) <=> Holds(q, s) \/ s = x
  <1>1. CASE Len(q) < Cap
    <2>1. /\ Append(q, x) \in Seq(Requests) /\ Len(Append(q, x)) = Len(q) + 1
          /\ \A s : Holds(Append(q, x), s) <=> Holds(q, s) \/ s = x
          /\ Once(Append(q, x))
      BY AppendHolds, Zenon
    <2>2. p = Append(q, x)
      BY <1>1
    <2>3. Len(q) \in Nat /\ Cap \in Nat
      BY TelemetryAssumption
    <2> HIDE DEF Once, Holds
    <2>4. Len(p) <= Cap /\ p # q
      BY <1>1, <2>1, <2>2, <2>3
    <2> QED BY <2>1, <2>2, <2>4
  <1>2. CASE ~(Len(q) < Cap)
    BY <1>2
  <1> QED BY <1>1, <1>2

(* RecordErrorAsync: an event that finds room is in the channel, and was   *)
(* nowhere before.                                                         *)
LEMMA SendErrorSafely ==
    ASSUME AllInv, NEW r \in Requests, SendError(r)
    PROVE  AllInv'
  <1> USE DEF AllInv
  <1>1. /\ handler[r] = "send error" /\ process # "exit"
        /\ handler' = [handler EXCEPT ![r] = "answered"]
        /\ handler'[r] = "answered" /\ \A s \in Requests \ {r} : handler'[s] = handler[s]
        /\ UNCHANGED <<process, open, overdue, buffer, errBuffer, loop, upserts, shutdown, stopped,
                       counted, logged, pool, faults, metrics>>
        /\ errorLogs' = IF Len(errorLogs) < Cap THEN Append(errorLogs, r) ELSE errorLogs
        /\ accepted' = IF errorLogs' # errorLogs THEN accepted \cup {<<"error", r>>} ELSE accepted
    BY DEF SendError, Moves, Doing, Send, TypeOK
  <1>2. ~Holds(errorLogs, r) /\ ~Holds(errBuffer, r) /\ logged[r] = 0 /\ <<"error", r>> \notin accepted
    BY <1>1 DEF DeliveryInv, ErrorInOnePlace
  <1>3. /\ errorLogs' \in Seq(Requests) /\ Len(errorLogs') <= Cap
        /\ Once(errorLogs')
        /\ \/ errorLogs' = errorLogs
           \/ /\ errorLogs' # errorLogs
              /\ \A s : Holds(errorLogs', s) <=> Holds(errorLogs, s) \/ s = r
    <2>1. errorLogs \in Seq(Requests) /\ Len(errorLogs) <= Cap /\ Once(errorLogs)
      BY DEF TypeOK, DeliveryInv, ErrorInOnePlace
    <2> QED BY <1>1, <1>2, <2>1, SendAdds
  <1>4. TypeOK'
    BY <1>1, <1>3 DEF TypeOK
  <1>5. MetricInOnePlace'
    <2>1. \A s \in Requests : handler'[s] # "returned" => handler[s] # "returned"
      BY <1>1
    <2>2. \A s \in Requests : <<"metric", s>> \in accepted' <=> <<"metric", s>> \in accepted
      BY <1>1
    <2> QED BY <1>1, <2>1, <2>2 DEF DeliveryInv, MetricInOnePlace, Once, Holds, At
  <1>6. ErrorInOnePlace'
    <2> USE DEF DeliveryInv
    <2>1. /\ \A s : Holds(errBuffer', s) <=> Holds(errBuffer, s)
          /\ Once(errBuffer')
      BY <1>1 DEF ErrorInOnePlace
    <2>2. \A s \in Requests : handler'[s] \in {"absent", "running", "send error"}
                              => s # r /\ handler[s] \in {"absent", "running", "send error"}
      BY <1>1
    <2>3. CASE errorLogs' # errorLogs
      <3>1. \A s \in Requests : <<"error", s>> \in accepted' <=> <<"error", s>> \in accepted \/ s = r
        BY <1>1, <2>3
      <3>2. logged' = logged /\ faults' = faults
        BY <1>1
      <3>3. \A s : Holds(errorLogs', s) <=> Holds(errorLogs, s) \/ s = r
        BY <1>3, <2>3
      <3>4. Once(errorLogs')
        BY <1>3
      <3> QED BY <1>2, <2>1, <2>2, <3>1, <3>2, <3>3, <3>4 DEF ErrorInOnePlace
    <2>4. CASE errorLogs' = errorLogs
      <3>1. UNCHANGED <<errorLogs, errBuffer, accepted, logged, faults>>
        BY <1>1, <2>4
      <3> QED BY <2>2, <3>1 DEF ErrorInOnePlace, Once, Holds
    <2> QED BY <2>3, <2>4
  <1>7. EndsInOrder'
    <2>1. process \in {"serve", "drain"} \/ overdue
      BY <1>1 DEF DeliveryInv, EndsInOrder, Finished
    <2>2. ~overdue => ~stopped
      BY <2>1 DEF DeliveryInv, EndsInOrder
    <2>3. ~overdue /\ process \notin {"serve", "drain"} => Finished'
      BY <2>1
    <2> QED BY <1>1, <2>2, <2>3 DEF DeliveryInv, EndsInOrder
  <1> QED BY <1>4, <1>5, <1>6, <1>7 DEF DeliveryInv

(* RecordRequestAsync: the same of the metric.                             *)
LEMMA SendMetricSafely ==
    ASSUME AllInv, NEW r \in Requests, SendMetric(r)
    PROVE  AllInv'
  <1> USE DEF AllInv
  <1>1. /\ handler[r] = "send metric" /\ process # "exit"
        /\ handler' = [handler EXCEPT ![r] = "returned"]
        /\ handler'[r] = "returned" /\ \A s \in Requests \ {r} : handler'[s] = handler[s]
        /\ UNCHANGED <<process, open, overdue, buffer, errBuffer, loop, upserts, shutdown, stopped,
                       counted, logged, pool, faults, errorLogs>>
        /\ metrics' = IF Len(metrics) < Cap THEN Append(metrics, r) ELSE metrics
        /\ accepted' = IF metrics' # metrics THEN accepted \cup {<<"metric", r>>} ELSE accepted
    BY DEF SendMetric, Moves, Doing, Send, TypeOK
  <1>2. ~Holds(metrics, r) /\ ~Holds(buffer, r) /\ counted[r] = 0 /\ <<"metric", r>> \notin accepted
    BY <1>1 DEF DeliveryInv, MetricInOnePlace
  <1>3. /\ metrics' \in Seq(Requests) /\ Len(metrics') <= Cap
        /\ Once(metrics')
        /\ \/ metrics' = metrics
           \/ /\ metrics' # metrics
              /\ \A s : Holds(metrics', s) <=> Holds(metrics, s) \/ s = r
    <2>1. metrics \in Seq(Requests) /\ Len(metrics) <= Cap /\ Once(metrics)
      BY DEF TypeOK, DeliveryInv, MetricInOnePlace
    <2> QED BY <1>1, <1>2, <2>1, SendAdds
  <1>4. TypeOK'
    BY <1>1, <1>3 DEF TypeOK
  <1>5. ErrorInOnePlace'
    <2>1. \A s \in Requests : handler'[s] \in {"absent", "running", "send error"}
                              => handler[s] \in {"absent", "running", "send error"}
      BY <1>1
    <2>2. \A s \in Requests : <<"error", s>> \in accepted' <=> <<"error", s>> \in accepted
      BY <1>1
    <2> QED BY <1>1, <2>1, <2>2 DEF DeliveryInv, ErrorInOnePlace, Once, Holds
  <1>6. MetricInOnePlace'
    <2> USE DEF DeliveryInv
    <2>1. /\ \A s : Holds(buffer', s) <=> Holds(buffer, s)
          /\ Once(buffer')
          /\ At("flush")' <=> At("flush")
      BY <1>1 DEF MetricInOnePlace, At
    <2>2. \A s \in Requests : handler'[s] # "returned" => s # r /\ handler[s] # "returned"
      BY <1>1
    <2>3. CASE metrics' # metrics
      <3>1. \A s \in Requests : <<"metric", s>> \in accepted' <=> <<"metric", s>> \in accepted \/ s = r
        BY <1>1, <2>3
      <3>2. counted' = counted /\ faults' = faults /\ upserts' = upserts
        BY <1>1
      <3>3. \A s : Holds(metrics', s) <=> Holds(metrics, s) \/ s = r
        BY <1>3, <2>3
      <3>4. Once(metrics')
        BY <1>3
      <3> QED BY <1>2, <2>1, <2>2, <3>1, <3>2, <3>3, <3>4 DEF MetricInOnePlace
    <2>4. CASE metrics' = metrics
      <3>1. UNCHANGED <<metrics, buffer, accepted, counted, faults, upserts, loop>>
        BY <1>1, <2>4
      <3> QED BY <2>2, <3>1 DEF MetricInOnePlace, Once, Holds, At
    <2> QED BY <2>3, <2>4
  <1>7. EndsInOrder'
    <2>1. process \in {"serve", "drain"} \/ overdue
      BY <1>1 DEF DeliveryInv, EndsInOrder, Finished
    <2>2. ~overdue => ~stopped
      BY <2>1 DEF DeliveryInv, EndsInOrder
    <2>3. ~overdue /\ process \notin {"serve", "drain"} => Finished'
      BY <2>1
    <2> QED BY <1>1, <2>2, <2>3 DEF DeliveryInv, EndsInOrder
  <1> QED BY <1>4, <1>5, <1>6, <1>7 DEF DeliveryInv

----------------------------------------------------------------------------
(* The steps of flushLoop. *)

(* No stage before stopChan is seen is one of the last ones.               *)
LEMMA StagesDiffer ==
    /\ LoopStages \cap LastStages = {}
    /\ <<"drain">> # <<"done">> /\ <<"flushErrors", "done">> # <<"done">>
    /\ <<"flush", "flushErrors", "done">> \notin {<<"flushErrors", "done">>, <<"done">>, <<"drain">>}
    /\ <<"drain">> # <<"flushErrors", "done">>
  <1>1. /\ \A s \in LoopStages : s[Len(s)] = "select"
        /\ \A s \in LastStages : s[Len(s)] # "select"
    BY DEF LoopStages, LastStages
  <1>2. /\ Head(<<"drain">>) = "drain" /\ Head(<<"done">>) = "done"
        /\ Head(<<"flushErrors", "done">>) = "flushErrors"
        /\ Head(<<"flush", "flushErrors", "done">>) = "flush"
    OBVIOUS
  <1>3. LoopStages \cap LastStages = {}
    BY <1>1, Zenon
  <1> QED BY <1>2, <1>3

(* A new stage, with the buffer as it is: if that is a flush, it has all   *)
(* of its aggregates to write.                                             *)
LEMMA StageChanges ==
    ASSUME AllInv, ~At("flush"), NEW stages, GoesTo(stages),
           UNCHANGED <<metrics, buffer, counted, handler, accepted>>,
           faults' = 0 => faults = 0
    PROVE  /\ MetricInOnePlace'
           /\ upserts' \subseteq {KeyOf[r] : r \in Requests}
  <1> USE DEF AllInv, DeliveryInv
  <1>1. /\ Keys(buffer) \subseteq {KeyOf[r] : r \in Requests}
        /\ \A r : Holds(buffer, r) => KeyOf[r] \in Keys(buffer)
    BY KeysOfQueue DEF TypeOK
  <1>2. upserts' = IF At("flush")' THEN Keys(buffer) ELSE {}
    BY DEF GoesTo, At
  <1>3. MetricInOnePlace'
    <2>1. \A r : Holds(buffer, r) => ~(At("flush")' /\ KeyOf[r] \notin upserts')
      BY <1>1, <1>2
    <2>2. \A r \in Requests : Holds(buffer, r) => counted[r] = 0
      BY DEF MetricInOnePlace
    <2>3. /\ Once(metrics)' /\ Once(buffer)'
          /\ \A r : (Holds(metrics, r)' <=> Holds(metrics, r)) /\ (Holds(buffer, r)' <=> Holds(buffer, r))
      BY DEF MetricInOnePlace, Once, Holds
    <2> QED BY <2>1, <2>2, <2>3 DEF MetricInOnePlace
  <1> QED BY <1>1, <1>2, <1>3

(* What does not concern the error events leaves them where they are.      *)
LEMMA EventsStay ==
    ASSUME ErrorInOnePlace, UNCHANGED <<errorLogs, errBuffer, logged, handler, accepted>>,
           faults' = 0 => faults = 0
    PROVE  ErrorInOnePlace'
  BY DEF ErrorInOnePlace, Once, Holds

(* A step of a loop that is not done keeps the order of the end, if it     *)
(* keeps its own part of it.                                               *)
LEMMA OrderKept ==
    ASSUME EndsInOrder, ~At("done"),
           UNCHANGED <<handler, process, open, overdue, stopped, pool>>, faults' \in Nat,
           loop' \in LoopStages \cup LastStages,
           loop' \in LastStages => stopped,
           ~overdue /\ loop' \in LastStages \ {<<"drain">>} => metrics' = <<>> /\ errorLogs' = <<>>,
           loop' \in {<<"flushErrors", "done">>, <<"done">>} => buffer' = <<>>,
           loop' = <<"done">> => errBuffer' = <<>>
    PROVE  EndsInOrder'
  <1>1. process \notin {"pool", "exit"}
    BY DEF EndsInOrder, At
  <1>2. Finished' <=> Finished
    BY DEF Finished
  <1> QED BY <1>1, <1>2 DEF EndsInOrder

(* DeleteOldErrors and DeleteOldRequestStats concern older rows.           *)
LEMMA RunCleanupSafely ==
    ASSUME AllInv, RunCleanup, UNCHANGED serverVars
    PROVE  AllInv'
  <1> USE DEF AllInv, DeliveryInv
  <1>1. /\ UNCHANGED <<metrics, errorLogs, buffer, errBuffer, shutdown, stopped, counted, logged, pool, faults>>
        /\ UNCHANGED <<handler, process, open, overdue, accepted>>
        /\ GoesTo(Tail(loop)) /\ At("cleanup")
    BY DEF RunCleanup, serverVars
  <1>2. loop' = <<"select">>
    BY <1>1, Stages DEF EndsInOrder, GoesTo
  <1>3. MetricInOnePlace' /\ upserts' \subseteq {KeyOf[r] : r \in Requests}
    BY <1>1, StageChanges DEF At
  <1>4. ErrorInOnePlace'
    BY <1>1, EventsStay
  <1>5. EndsInOrder'
    <2>1. loop' \in LoopStages /\ loop' \notin LastStages /\ ~At("done")
      BY <1>1, <1>2, StagesDiffer DEF LoopStages, At
    <2>2. faults' \in Nat
      BY <1>1 DEF EndsInOrder
    <2> QED BY <1>1, <2>1, <2>2, OrderKept DEF LastStages
  <1>6. TypeOK'
    BY <1>1, <1>3 DEF TypeOK
  <1> QED BY <1>3, <1>4, <1>5, <1>6

(* A ticker: the flush that follows has all of the buffer to write.        *)
LEMMA TickerFiresSafely ==
    ASSUME AllInv, TickerFires, UNCHANGED serverVars
    PROVE  AllInv'
  <1> USE DEF AllInv, DeliveryInv
  <1>1. /\ UNCHANGED <<metrics, errorLogs, buffer, errBuffer, shutdown, stopped, counted, logged, pool, faults>>
        /\ UNCHANGED <<handler, process, open, overdue, accepted>>
        /\ GoesTo(FlushAll \o loop) \/ GoesTo(<<"cleanup">> \o loop)
        /\ At("select")
    BY DEF TickerFires, serverVars
  <1>2. loop' \in {<<"flush", "flushErrors", "select">>, <<"cleanup", "select">>}
    <2>1. loop = <<"select">>
      BY <1>1, Stages DEF EndsInOrder
    <2>2. loop' = FlushAll \o <<"select">> \/ loop' = <<"cleanup">> \o <<"select">>
      BY <1>1, <2>1 DEF GoesTo
    <2> QED BY <2>2, Stages, Zenon
  <1>3. MetricInOnePlace' /\ upserts' \subseteq {KeyOf[r] : r \in Requests}
    BY <1>1, StageChanges DEF At
  <1>4. ErrorInOnePlace'
    BY <1>1, EventsStay
  <1>5. EndsInOrder'
    <2>1. loop' \in LoopStages /\ loop' \notin LastStages /\ ~At("done")
      BY <1>1, <1>2, StagesDiffer DEF LoopStages, At
    <2>2. faults' \in Nat
      BY <1>1 DEF EndsInOrder
    <2> QED BY <1>1, <2>1, <2>2, OrderKept DEF LastStages
  <1>6. TypeOK'
    BY <1>1, <1>3 DEF TypeOK
  <1> QED BY <1>3, <1>4, <1>5, <1>6

(* The loop sees stopChan: from here on it only drains and flushes.        *)
LEMMA SeeStopSafely ==
    ASSUME AllInv, SeeStop, UNCHANGED serverVars
    PROVE  AllInv'
  <1> USE DEF AllInv, DeliveryInv
  <1>1. /\ UNCHANGED <<metrics, errorLogs, buffer, errBuffer, shutdown, stopped, counted, logged, pool, faults>>
        /\ UNCHANGED <<handler, process, open, overdue, accepted>>
        /\ GoesTo(<<"drain">>) /\ At("select") /\ stopped
    BY DEF SeeStop, serverVars
  <1>2. loop' = <<"drain">>
    BY <1>1 DEF GoesTo
  <1>3. MetricInOnePlace' /\ upserts' \subseteq {KeyOf[r] : r \in Requests}
    BY <1>1, StageChanges DEF At
  <1>4. ErrorInOnePlace'
    BY <1>1, EventsStay
  <1>5. EndsInOrder'
    <2>1. /\ loop' \in LastStages /\ ~At("done")
          /\ loop' \notin {<<"flushErrors", "done">>, <<"done">>}
      BY <1>1, <1>2, StagesDiffer DEF LastStages, At
    <2>2. faults' \in Nat
      BY <1>1 DEF EndsInOrder
    <2> QED BY <1>1, <1>2, <2>1, <2>2, OrderKept
  <1>6. TypeOK'
    BY <1>1, <1>3 DEF TypeOK
  <1> QED BY <1>3, <1>4, <1>5, <1>6

(* Both channels are empty when the last flush begins.                     *)
LEMMA DrainedSafely ==
    ASSUME AllInv, Drained, UNCHANGED serverVars
    PROVE  AllInv'
  <1> USE DEF AllInv, DeliveryInv
  <1>1. /\ UNCHANGED <<metrics, errorLogs, buffer, errBuffer, shutdown, stopped, counted, logged, pool, faults>>
        /\ UNCHANGED <<handler, process, open, overdue, accepted>>
        /\ GoesTo(FlushAll \o <<"done">>) /\ At("drain") /\ metrics = <<>> /\ errorLogs = <<>>
    BY DEF Drained, serverVars
  <1>2. loop' = <<"flush", "flushErrors", "done">>
    BY <1>1, Stages DEF GoesTo
  <1>3. MetricInOnePlace' /\ upserts' \subseteq {KeyOf[r] : r \in Requests}
    BY <1>1, StageChanges DEF At
  <1>4. ErrorInOnePlace'
    BY <1>1, EventsStay
  <1>5. EndsInOrder'
    <2>1. /\ loop' \in LastStages /\ ~At("done")
          /\ loop' \notin {<<"flushErrors", "done">>, <<"done">>}
      BY <1>1, <1>2, StagesDiffer DEF LastStages, At
    <2>2. stopped
      BY <1>1, Stages DEF EndsInOrder, LastStages
    <2>3. faults' \in Nat
      BY <1>1 DEF EndsInOrder
    <2> QED BY <1>1, <2>1, <2>2, <2>3, OrderKept
  <1>6. TypeOK'
    BY <1>1, <1>3 DEF TypeOK
  <1> QED BY <1>3, <1>4, <1>5, <1>6

(* A metric goes from the channel to the buffer; the flush that a full     *)
(* buffer starts has all of it to write.                                   *)
LEMMA ReceiveMetricSafely ==
    ASSUME AllInv, ReceiveMetric, UNCHANGED serverVars
    PROVE  AllInv'
  <1> USE DEF AllInv, DeliveryInv
  <1> DEFINE x == Head(metrics)
             stages == IF At("select") /\ Len(buffer') >= BatchSize THEN <<"flush", "select">> ELSE loop
  <1>1. /\ UNCHANGED <<errorLogs, errBuffer, shutdown, stopped, counted, logged, pool, faults>>
        /\ UNCHANGED <<handler, process, open, overdue, accepted>>
        /\ metrics # <<>> /\ metrics' = Tail(metrics) /\ buffer' = Append(buffer, x)
        /\ GoesTo(stages)
        /\ Head(loop) \in {"select", "drain"}
    BY DEF ReceiveMetric, serverVars
  <1>2. /\ loop \in {<<"select">>, <<"drain">>}
        /\ loop' = <<"flush", "select">> \/ loop' = loop
    BY <1>1, Stages DEF EndsInOrder, GoesTo, At
  <1>3. metrics \in Seq(Requests) /\ buffer \in Seq(Requests) /\ Once(metrics) /\ Once(buffer)
    BY DEF TypeOK, MetricInOnePlace
  <1>4. /\ metrics' \in Seq(Requests) /\ Len(metrics') < Len(metrics)
        /\ Once(metrics')
        /\ x \in Requests
        /\ Holds(metrics, x) /\ ~Holds(metrics', x)
        /\ \A r : r # x => (Holds(metrics', r) <=> Holds(metrics, r))
    BY <1>1, <1>3, TailHolds
  <1>5. ~Holds(buffer, x) /\ counted[x] = 0 /\ handler[x] = "returned"
    BY <1>4 DEF MetricInOnePlace
  <1> HIDE DEF x
  <1>6. /\ buffer' \in Seq(Requests)
        /\ Once(buffer')
        /\ \A r : Holds(buffer', r) <=> Holds(buffer, r) \/ r = x
    BY <1>1, <1>3, <1>4, <1>5, AppendHolds
  <1>7. /\ Keys(buffer') \subseteq {KeyOf[r] : r \in Requests}
        /\ \A r : Holds(buffer', r) => KeyOf[r] \in Keys(buffer')
    BY <1>6, KeysOfQueue
  <1>8. upserts' = IF Head(loop') = "flush" THEN Keys(buffer') ELSE {}
    BY <1>1 DEF GoesTo
  <1>9. MetricInOnePlace'
    <2>1. \A r : Holds(buffer', r) => ~(Head(loop') = "flush" /\ KeyOf[r] \notin upserts')
      BY <1>7, <1>8
    <2>2. ~At("flush")
      BY <1>1 DEF At
    <2>3. \A r \in Requests : Holds(buffer', r) => counted[r] = 0
      BY <1>5, <1>6, <2>2 DEF MetricInOnePlace
    <2>4. UNCHANGED <<counted, handler, accepted, faults>>
      BY <1>1
    <2> QED BY <1>4, <1>5, <1>6, <2>1, <2>3, <2>4 DEF MetricInOnePlace, At
  <1>10. ErrorInOnePlace'
    BY <1>1, EventsStay
  <1>11. EndsInOrder'
    <2>1. /\ loop' \in LoopStages \cup LastStages /\ ~At("done")
          /\ loop' \in LastStages => loop \in LastStages
          /\ loop' \notin LastStages \ {<<"drain">>}
          /\ loop' \notin {<<"flushErrors", "done">>, <<"done">>}
      <3>1. <<"select">> \in LoopStages /\ <<"flush", "select">> \in LoopStages /\ <<"drain">> \in LastStages
        BY DEF LoopStages, LastStages
      <3>2. <<"flushErrors", "done">> \in LastStages /\ <<"done">> \in LastStages
        BY DEF LastStages
      <3>3. ~At("done")
        BY <1>1 DEF At
      <3> QED BY <1>2, <3>1, <3>2, <3>3, StagesDiffer, Zenon
    <2>2. faults' \in Nat /\ (loop \in LastStages => stopped)
      BY <1>1 DEF EndsInOrder
    <2> QED BY <1>1, <2>1, <2>2, OrderKept
  <1>12. TypeOK'
    <2>0. metrics \in Seq(Requests) /\ metrics' \in Seq(Requests) /\ Len(metrics) <= Cap
      BY <1>3, <1>4 DEF TypeOK
    <2>1. Len(metrics') \in Nat /\ Len(metrics) \in Nat /\ Len(metrics) <= Cap
      BY <2>0, LenProperties
    <2>2. Len(metrics') <= Cap
      BY <1>4, <2>1, TelemetryAssumption
    <2>3. upserts' \subseteq {KeyOf[r] : r \in Requests}
      BY <1>7, <1>8
    <2>4. metrics' \in Seq(Requests) /\ buffer' \in Seq(Requests)
      BY <1>4, <1>6
    <2>5. UNCHANGED <<errorLogs, errBuffer, counted, logged, handler>>
      BY <1>1
    <2> QED BY <2>2, <2>3, <2>4, <2>5 DEF TypeOK
  <1> QED BY <1>9, <1>10, <1>11, <1>12

(* The same of an error event.                                             *)
LEMMA ReceiveErrorSafely ==
    ASSUME AllInv, ReceiveError, UNCHANGED serverVars
    PROVE  AllInv'
  <1> USE DEF AllInv, DeliveryInv
  <1> DEFINE x == Head(errorLogs)
             stages == IF At("select") /\ Len(errBuffer') >= BatchSize THEN <<"flushErrors", "select">> ELSE loop
  <1>1. /\ UNCHANGED <<metrics, buffer, shutdown, stopped, counted, logged, pool, faults>>
        /\ UNCHANGED <<handler, process, open, overdue, accepted>>
        /\ errorLogs # <<>> /\ errorLogs' = Tail(errorLogs) /\ errBuffer' = Append(errBuffer, x)
        /\ GoesTo(stages)
        /\ Head(loop) \in {"select", "drain"}
    BY DEF ReceiveError, serverVars
  <1>2. /\ loop \in {<<"select">>, <<"drain">>}
        /\ loop' = <<"flushErrors", "select">> \/ loop' = loop
    BY <1>1, Stages DEF EndsInOrder, GoesTo, At
  <1>3. errorLogs \in Seq(Requests) /\ errBuffer \in Seq(Requests) /\ Once(errorLogs) /\ Once(errBuffer)
    BY DEF TypeOK, ErrorInOnePlace
  <1>4. /\ errorLogs' \in Seq(Requests) /\ Len(errorLogs') < Len(errorLogs)
        /\ Once(errorLogs')
        /\ x \in Requests
        /\ Holds(errorLogs, x) /\ ~Holds(errorLogs', x)
        /\ \A r : r # x => (Holds(errorLogs', r) <=> Holds(errorLogs, r))
    BY <1>1, <1>3, TailHolds
  <1>5. /\ ~Holds(errBuffer, x) /\ logged[x] = 0
        /\ handler[x] \notin {"absent", "running", "send error"}
    BY <1>4 DEF ErrorInOnePlace
  <1> HIDE DEF x
  <1>6. /\ errBuffer' \in Seq(Requests)
        /\ Once(errBuffer')
        /\ \A r : Holds(errBuffer', r) <=> Holds(errBuffer, r) \/ r = x
    BY <1>1, <1>3, <1>4, <1>5, AppendHolds
  <1>7. MetricInOnePlace' /\ upserts' \subseteq {KeyOf[r] : r \in Requests}
    BY <1>1, StageChanges DEF At
  <1>8. ErrorInOnePlace'
    <2>1. UNCHANGED <<logged, handler, accepted, faults>>
      BY <1>1
    <2> QED BY <1>4, <1>5, <1>6, <2>1 DEF ErrorInOnePlace
  <1>9. EndsInOrder'
    <2>1. /\ loop' \in LoopStages \cup LastStages /\ ~At("done")
          /\ loop' \in LastStages => loop \in LastStages
          /\ loop' \notin LastStages \ {<<"drain">>}
          /\ loop' \notin {<<"flushErrors", "done">>, <<"done">>}
      <3>1. <<"select">> \in LoopStages /\ <<"flushErrors", "select">> \in LoopStages /\ <<"drain">> \in LastStages
        BY DEF LoopStages, LastStages
      <3>2. <<"flushErrors", "done">> \in LastStages /\ <<"done">> \in LastStages
        BY DEF LastStages
      <3>3. ~At("done")
        BY <1>1 DEF At
      <3> QED BY <1>2, <3>1, <3>2, <3>3, StagesDiffer, Zenon
    <2>2. faults' \in Nat /\ (loop \in LastStages => stopped)
      BY <1>1 DEF EndsInOrder
    <2> QED BY <1>1, <2>1, <2>2, OrderKept
  <1>10. TypeOK'
    <2>0. errorLogs \in Seq(Requests) /\ errorLogs' \in Seq(Requests) /\ Len(errorLogs) <= Cap
      BY <1>3, <1>4 DEF TypeOK
    <2>1. Len(errorLogs') \in Nat /\ Len(errorLogs) \in Nat /\ Len(errorLogs) <= Cap
      BY <2>0, LenProperties
    <2>2. Len(errorLogs') <= Cap
      BY <1>4, <2>1, TelemetryAssumption
    <2>3. errorLogs' \in Seq(Requests) /\ errBuffer' \in Seq(Requests)
      BY <1>4, <1>6
    <2>4. UNCHANGED <<metrics, buffer, counted, logged, handler>>
      BY <1>1
    <2> QED BY <1>7, <2>2, <2>3, <2>4 DEF TypeOK
  <1> QED BY <1>7, <1>8, <1>9, <1>10

(* One aggregate is written: the requests of the buffer that it stands for *)
(* are counted once each.                                                  *)
LEMMA UpsertSafely ==
    ASSUME AllInv, NEW key, Upsert(key), UNCHANGED serverVars
    PROVE  AllInv'
  <1> USE DEF AllInv, DeliveryInv
  <1>1. /\ UNCHANGED <<metrics, errorLogs, buffer, errBuffer, loop, shutdown, stopped, logged, pool>>
        /\ UNCHANGED <<handler, process, open, overdue, accepted>>
        /\ At("flush") /\ key \in upserts /\ upserts' = upserts \ {key}
    BY DEF Upsert, serverVars
  <1>2. buffer \in Seq(Requests) /\ Once(buffer) /\ counted \in [Requests -> Nat] /\ faults \in Nat
    BY DEF TypeOK, MetricInOnePlace, EndsInOrder
  <1>3. /\ Once(metrics)' /\ Once(buffer)'
        /\ \A r : (Holds(metrics, r)' <=> Holds(metrics, r)) /\ (Holds(buffer, r)' <=> Holds(buffer, r))
        /\ At("flush")'
    BY <1>1 DEF MetricInOnePlace, Once, Holds, At
  <1>4. \A r \in Requests : Holds(buffer, r) /\ KeyOf[r] = key => counted[r] = 0
    BY <1>1 DEF MetricInOnePlace
  <1>5. /\ faults' \in Nat /\ (faults' = 0 => faults = 0)
        /\ counted' \in [Requests -> Nat]
        /\ MetricInOnePlace'
    <2>1. CASE /\ faults' = faults
               /\ counted' = [r \in Requests |->
                    IF KeyOf[r] = key
                    THEN counted[r] + Cardinality({i \in DOMAIN buffer : buffer[i] = r}) ELSE counted[r]]
      <3>1. ASSUME NEW r \in Requests
            PROVE  counted'[r] = IF KeyOf[r] = key /\ Holds(buffer, r) THEN 1 ELSE counted[r]
        <4>1. Cardinality({i \in DOMAIN buffer : buffer[i] = r}) = IF Holds(buffer, r) THEN 1 ELSE 0
          BY <1>2, GroupSize
        <4>2. counted[r] \in Nat
          BY <1>2
        <4> QED BY <1>4, <2>1, <4>1, <4>2
      <3>2. counted' \in [Requests -> Nat]
        <4>1. counted' = [r \in Requests |-> counted'[r]]
          BY <2>1
        <4>2. \A r \in Requests : counted'[r] \in Nat
          BY <1>2, <3>1
        <4> QED BY <4>1, <4>2
      <3>3. MetricInOnePlace'
        <4>1. ASSUME NEW r \in Requests
              PROVE  /\ ~Holds(buffer, r) => counted'[r] = counted[r]
                     /\ KeyOf[r] = key /\ Holds(buffer, r) => counted'[r] = 1
                     /\ KeyOf[r] # key => counted'[r] = counted[r] /\ (KeyOf[r] \in upserts' <=> KeyOf[r] \in upserts)
                     /\ KeyOf[r] = key => KeyOf[r] \notin upserts'
          BY <1>1, <3>1
        <4>2. UNCHANGED <<handler, accepted, faults>>
          BY <1>1, <2>1
        <4> QED BY <1>1, <1>3, <4>1, <4>2 DEF MetricInOnePlace
      <3> QED BY <1>2, <2>1, <3>2, <3>3
    <2>2. CASE faults' = faults + 1 /\ counted' = counted
      <3>1. faults' \in Nat /\ faults' # 0
        BY <1>2, <2>2
      <3>2. UNCHANGED <<handler, accepted, counted>>
        BY <1>1, <2>2
      <3>3. MetricInOnePlace'
        <4>1. \A r \in Requests : KeyOf[r] \in upserts' => KeyOf[r] \in upserts
          BY <1>1
        <4> QED BY <1>1, <1>3, <3>1, <3>2, <4>1 DEF MetricInOnePlace
      <3> QED BY <1>2, <2>2, <3>1, <3>3
    <2> QED BY <2>1, <2>2 DEF Upsert
  <1>6. ErrorInOnePlace'
    BY <1>1, <1>5, EventsStay
  <1>7. EndsInOrder'
    <2>1. ~At("done")
      BY <1>1 DEF At
    <2>2. /\ loop' \in LoopStages \cup LastStages
          /\ loop' \in LastStages => stopped
          /\ ~overdue /\ loop' \in LastStages \ {<<"drain">>} => metrics' = <<>> /\ errorLogs' = <<>>
          /\ loop' \in {<<"flushErrors", "done">>, <<"done">>} => buffer' = <<>>
          /\ loop' = <<"done">> => errBuffer' = <<>>
      BY <1>1 DEF EndsInOrder
    <2> QED BY <1>1, <1>5, <2>1, <2>2, OrderKept
  <1>8. TypeOK'
    BY <1>1, <1>5 DEF TypeOK
  <1> QED BY <1>5, <1>6, <1>7, <1>8

(* flush returns: every request of the buffer was counted, unless a write  *)
(* failed.                                                                 *)
LEMMA FlushedSafely ==
    ASSUME AllInv, Flushed, UNCHANGED serverVars
    PROVE  AllInv'
  <1> USE DEF AllInv, DeliveryInv
  <1>1. /\ UNCHANGED <<metrics, errorLogs, errBuffer, shutdown, stopped, counted, logged, pool, faults>>
        /\ UNCHANGED <<handler, process, open, overdue, accepted>>
        /\ At("flush") /\ upserts = {} /\ buffer' = <<>> /\ GoesTo(Tail(loop))
    BY DEF Flushed, serverVars
  <1>2. \/ loop = <<"flush", "select">> /\ loop' = <<"select">>
        \/ loop = <<"flush", "flushErrors", "select">> /\ loop' = <<"flushErrors", "select">>
        \/ loop = <<"flush", "flushErrors", "done">> /\ loop' = <<"flushErrors", "done">>
    BY <1>1, Stages DEF EndsInOrder, GoesTo
  <1>3. Once(buffer') /\ \A r : ~Holds(buffer', r)
    BY <1>1, EmptyHolds
  <1>4. MetricInOnePlace'
    <2>1. Once(metrics)' /\ \A r : Holds(metrics, r)' <=> Holds(metrics, r)
      BY <1>1 DEF MetricInOnePlace, Once, Holds
    <2>2. UNCHANGED <<handler, accepted, counted, faults>>
      BY <1>1
    <2>3. \A r \in Requests : Holds(buffer, r) /\ faults = 0 => counted[r] = 1
      BY <1>1 DEF MetricInOnePlace
    <2> QED BY <1>3, <2>1, <2>2, <2>3 DEF MetricInOnePlace
  <1>5. ErrorInOnePlace'
    BY <1>1, EventsStay
  <1>6. EndsInOrder'
    <2>1. /\ <<"select">> \in LoopStages /\ <<"flushErrors", "select">> \in LoopStages
          /\ <<"flush", "flushErrors", "done">> \in LastStages \ {<<"drain">>}
          /\ <<"flushErrors", "done">> \in LastStages /\ <<"done">> \in LastStages
      BY StagesDiffer DEF LoopStages, LastStages
    <2>2. /\ loop' \in LoopStages \cup LastStages
          /\ loop' # <<"done">>
          /\ loop' \in LastStages => loop \in LastStages \ {<<"drain">>}
      BY <1>2, <2>1, StagesDiffer, Zenon
    <2>3. faults' \in Nat /\ ~At("done")
      BY <1>1 DEF EndsInOrder, At
    <2>4. /\ loop' \in LastStages => stopped
          /\ ~overdue /\ loop' \in LastStages \ {<<"drain">>} => metrics' = <<>> /\ errorLogs' = <<>>
      BY <1>1, <2>2 DEF EndsInOrder
    <2> QED BY <1>1, <2>2, <2>3, <2>4, OrderKept
  <1>7. TypeOK'
    <2>1. buffer' \in Seq(Requests)
      BY <1>1
    <2>2. upserts' \subseteq {KeyOf[r] : r \in Requests}
      BY <1>1, <2>1, KeysOfQueue DEF GoesTo
    <2> QED BY <1>1, <2>1, <2>2 DEF TypeOK
  <1> QED BY <1>4, <1>5, <1>6, <1>7

(* CopyRequestErrors: all events of the buffer are inserted once, or none. *)
LEMMA FlushErrorsSafely ==
    ASSUME AllInv, FlushErrors, UNCHANGED serverVars
    PROVE  AllInv'
  <1> USE DEF AllInv, DeliveryInv
  <1>1. /\ UNCHANGED <<metrics, errorLogs, buffer, shutdown, stopped, counted, pool>>
        /\ UNCHANGED <<handler, process, open, overdue, accepted>>
        /\ At("flushErrors") /\ errBuffer' = <<>> /\ GoesTo(Tail(loop))
    BY DEF FlushErrors, serverVars
  <1>2. \/ loop = <<"flushErrors", "select">> /\ loop' = <<"select">>
        \/ loop = <<"flushErrors", "done">> /\ loop' = <<"done">>
    BY <1>1, Stages DEF EndsInOrder, GoesTo
  <1>3. errBuffer \in Seq(Requests) /\ Once(errBuffer) /\ logged \in [Requests -> Nat] /\ faults \in Nat
    BY DEF TypeOK, ErrorInOnePlace, EndsInOrder
  <1>4. /\ faults' \in Nat /\ (faults' = 0 => faults = 0)
        /\ logged' \in [Requests -> Nat]
        /\ ErrorInOnePlace'
    <2>1. /\ Once(errorLogs)' /\ \A r : Holds(errorLogs, r)' <=> Holds(errorLogs, r)
          /\ Once(errBuffer') /\ \A r : ~Holds(errBuffer', r)
      BY <1>1, EmptyHolds DEF ErrorInOnePlace, Once, Holds
    <2>2. CASE /\ faults' = faults
               /\ logged' = [r \in Requests |->
                    logged[r] + Cardinality({i \in DOMAIN errBuffer : errBuffer[i] = r})]
      <3>1. ASSUME NEW r \in Requests
            PROVE  logged'[r] = IF Holds(errBuffer, r) THEN 1 ELSE logged[r]
        <4>1. Cardinality({i \in DOMAIN errBuffer : errBuffer[i] = r}) = IF Holds(errBuffer, r) THEN 1 ELSE 0
          BY <1>3, GroupSize
        <4>2. logged[r] \in Nat /\ (Holds(errBuffer, r) => logged[r] = 0)
          BY <1>3 DEF ErrorInOnePlace
        <4> QED BY <2>2, <4>1, <4>2
      <3>2. logged' \in [Requests -> Nat]
        <4>1. logged' = [r \in Requests |-> logged'[r]]
          BY <2>2
        <4>2. \A r \in Requests : logged'[r] \in Nat
          BY <1>3, <3>1
        <4> QED BY <4>1, <4>2
      <3>3. ErrorInOnePlace'
        <4>1. UNCHANGED <<handler, accepted, faults>>
          BY <1>1, <2>2
        <4>2. ASSUME NEW r \in Requests
              PROVE  /\ Holds(errBuffer, r) => logged'[r] = 1
                     /\ ~Holds(errBuffer, r) => logged'[r] = logged[r]
          BY <3>1
        <4>3. ASSUME NEW r \in Requests
              PROVE  /\ handler[r] \in {"absent", "running", "send error"} =>
                        /\ ~Holds(errorLogs, r) /\ logged'[r] = 0 /\ <<"error", r>> \notin accepted
                     /\ Holds(errorLogs, r) => logged'[r] = 0
                     /\ logged'[r] <= 1
                     /\ <<"error", r>> \in accepted /\ faults = 0 => Holds(errorLogs, r) \/ logged'[r] = 1
          <5>1. /\ handler[r] \in {"absent", "running", "send error"} =>
                    /\ ~Holds(errorLogs, r) /\ ~Holds(errBuffer, r)
                    /\ logged[r] = 0 /\ <<"error", r>> \notin accepted
                /\ Holds(errorLogs, r) => ~Holds(errBuffer, r) /\ logged[r] = 0
                /\ logged[r] <= 1
                /\ <<"error", r>> \in accepted /\ faults = 0 =>
                    Holds(errorLogs, r) \/ Holds(errBuffer, r) \/ logged[r] = 1
            BY DEF ErrorInOnePlace
          <5>2. CASE Holds(errBuffer, r)
            <6>1. logged'[r] = 1
              BY <4>2, <5>2
            <6>2. handler[r] \notin {"absent", "running", "send error"} /\ ~Holds(errorLogs, r)
              BY <5>1, <5>2
            <6>3. logged'[r] <= 1
              BY <6>1
            <6> QED BY <6>1, <6>2, <6>3
          <5>3. CASE ~Holds(errBuffer, r)
            BY <4>2, <5>1, <5>3
          <5> QED BY <5>2, <5>3
        <4> QED BY <2>1, <4>1, <4>3 DEF ErrorInOnePlace
      <3> QED BY <1>3, <2>2, <3>2, <3>3
    <2>3. CASE faults' = faults + 1 /\ logged' = logged
      <3>1. faults' \in Nat /\ faults' # 0
        BY <1>3, <2>3
      <3>2. UNCHANGED <<handler, accepted, logged>>
        BY <1>1, <2>3
      <3>3. ErrorInOnePlace'
        BY <2>1, <3>1, <3>2 DEF ErrorInOnePlace
      <3> QED BY <1>3, <2>3, <3>1, <3>3
    <2> QED BY <2>2, <2>3 DEF FlushErrors
  <1>5. MetricInOnePlace' /\ upserts' \subseteq {KeyOf[r] : r \in Requests}
    BY <1>1, <1>4, StageChanges DEF At
  <1>6. EndsInOrder'
    <2>1. /\ <<"select">> \in LoopStages
          /\ <<"flushErrors", "done">> \in LastStages \ {<<"drain">>}
          /\ <<"done">> \in LastStages
      BY StagesDiffer DEF LoopStages, LastStages
    <2>2. /\ loop' \in LoopStages \cup LastStages
          /\ loop' \in LastStages => loop = <<"flushErrors", "done">>
      BY <1>2, <2>1, StagesDiffer, Zenon
    <2>3. loop' = <<"flushErrors", "done">> => loop' \in LastStages
      BY <2>1
    <2>4. ~At("done")
      BY <1>1 DEF At
    <2>5. /\ loop' \in LastStages => stopped
          /\ ~overdue /\ loop' \in LastStages \ {<<"drain">>} => metrics' = <<>> /\ errorLogs' = <<>>
          /\ loop' \in {<<"flushErrors", "done">>, <<"done">>} => buffer' = <<>>
      BY <1>1, <2>1, <2>2 DEF EndsInOrder
    <2> QED BY <1>1, <1>4, <2>2, <2>4, <2>5, OrderKept
  <1>7. TypeOK'
    <2>1. errBuffer' \in Seq(Requests)
      BY <1>1
    <2> QED BY <1>1, <1>4, <1>5, <2>1 DEF TypeOK
  <1> QED BY <1>4, <1>5, <1>6, <1>7

----------------------------------------------------------------------------
(* The steps of the process. *)

(* The steps of the end, in the order of the defers.                       *)
LEMMA DefersOrder ==
    /\ DOMAIN Defers = {"drain", "retention", "set_shutdown", "close_stopChan", "await_done", "pool"}
    /\ Defers["drain"] = "retention" /\ Defers.drain = "retention"
    /\ Defers["retention"] = "set_shutdown"
    /\ Defers["set_shutdown"] = "close_stopChan"
    /\ Defers["close_stopChan"] = "await_done"
    /\ Defers["await_done"] = "pool"
    /\ Defers["pool"] = "exit"
  BY DEF Defers

(* A step of the process moves no metric and no event.                     *)
LEMMA ItemsStay ==
    ASSUME AllInv, UNCHANGED <<metrics, errorLogs, buffer, errBuffer, loop, upserts, counted, logged,
                               faults, handler, accepted>>
    PROVE  TypeOK' /\ MetricInOnePlace' /\ ErrorInOnePlace'
  <1> USE DEF AllInv, DeliveryInv
  <1>1. TypeOK'
    BY DEF TypeOK
  <1>2. MetricInOnePlace'
    BY DEF MetricInOnePlace, Once, Holds, At
  <1>3. ErrorInOnePlace'
    BY DEF ErrorInOnePlace, Once, Holds
  <1> QED BY <1>1, <1>2, <1>3

(* The steps of serve, from the signal to the exit.                        *)
LEMMA ProcessSafely ==
    ASSUME AllInv, Signal \/ ListenFails \/ Shutdown
    PROVE  AllInv'
  <1> USE DEF AllInv, DeliveryInv
  <1>1. UNCHANGED <<metrics, errorLogs, buffer, errBuffer, loop, upserts, counted, logged,
                    faults, handler, accepted>>
    BY DEF Signal, ListenFails, Shutdown, RequestsDrained, GraceExpires, StopRetention, SetShutdown,
           CloseStopChan, AwaitDone, ClosePool, ProcessStep, telemetryVars
  <1>2. TypeOK' /\ MetricInOnePlace' /\ ErrorInOnePlace'
    BY <1>1, ItemsStay
  <1>3. Finished' <=> Finished
    BY <1>1 DEF Finished
  <1> USE DEF EndsInOrder
  <1>4. CASE Signal
    BY <1>1, <1>2, <1>3, <1>4, DefersOrder DEF Signal, Doing, telemetryVars
  <1>5. CASE ListenFails
    BY <1>1, <1>2, <1>3, <1>5, DefersOrder DEF ListenFails, Doing, telemetryVars
  <1>6. CASE RequestsDrained
    BY <1>1, <1>2, <1>3, <1>6, DefersOrder DEF RequestsDrained, ProcessStep, Doing
  <1>7. CASE GraceExpires
    BY <1>1, <1>2, <1>3, <1>7, DefersOrder DEF GraceExpires, Doing, telemetryVars
  <1>8. CASE StopRetention
    BY <1>1, <1>2, <1>3, <1>8, DefersOrder DEF StopRetention, ProcessStep, Doing
  <1>9. CASE SetShutdown
    BY <1>1, <1>2, <1>3, <1>9, DefersOrder DEF SetShutdown, ProcessStep, Doing
  <1>10. CASE CloseStopChan
    BY <1>1, <1>2, <1>3, <1>10, DefersOrder DEF CloseStopChan, ProcessStep, Doing
  <1>11. CASE AwaitDone
    <2>1. loop = <<"done">>
      BY <1>11, Stages DEF AwaitDone, At
    <2> QED BY <1>1, <1>2, <1>3, <1>11, <2>1, DefersOrder DEF AwaitDone, ProcessStep, Doing
  <1>12. CASE ClosePool
    BY <1>1, <1>2, <1>3, <1>12, DefersOrder DEF ClosePool, ProcessStep, Doing
  <1> QED BY <1>4, <1>5, <1>6, <1>7, <1>8, <1>9, <1>10, <1>11, <1>12 DEF Shutdown

----------------------------------------------------------------------------
(* The invariant holds at first and every step keeps it. *)

(* Before the first request everything is empty and the loop cleans up.    *)
LEMMA InitDelivery == Init => AllInv
  <1> SUFFICES ASSUME Init PROVE AllInv
    OBVIOUS
  <1> USE DEF Init, TelemetryInit
  <1>1. TypeOK
    BY TelemetryAssumption DEF TypeOK
  <1>2. MetricInOnePlace
    BY EmptyHolds DEF MetricInOnePlace
  <1>3. ErrorInOnePlace
    BY EmptyHolds DEF ErrorInOnePlace
  <1>4. EndsInOrder
    <2>1. loop \in LoopStages /\ loop \notin LastStages
      BY StagesDiffer DEF LoopStages
    <2>2. <<"flushErrors", "done">> \in LastStages /\ <<"done">> \in LastStages
      BY DEF LastStages
    <2> QED BY <2>1, <2>2, DefersOrder DEF EndsInOrder
  <1> QED BY <1>1, <1>2, <1>3, <1>4 DEF AllInv, DeliveryInv

(* One case for each action of the requests, the loop and the process.     *)
LEMMA NextDelivery == AllInv /\ [Next]_vars => AllInv'
  <1> SUFFICES ASSUME AllInv, [Next]_vars PROVE AllInv'
    OBVIOUS
  <1>1. ASSUME NEW r \in Requests, Accept(r) \/ Handle(r) PROVE AllInv'
    <2>1. CASE Accept(r)
      BY <2>1, MovesSafely DEF Accept
    <2>2. CASE WriteError(r)
      BY <2>2, MovesSafely DEF WriteError
    <2>3. CASE SendError(r)
      BY <2>3, SendErrorSafely
    <2>4. CASE Answer(r)
      BY <2>4, MovesSafely DEF Answer
    <2>5. CASE AccessLog(r)
      BY <2>5, MovesSafely DEF AccessLog
    <2>6. CASE SendMetric(r)
      BY <2>6, SendMetricSafely
    <2> QED BY <1>1, <2>1, <2>2, <2>3, <2>4, <2>5, <2>6 DEF Handle
  <1>2. CASE LoopStep
    <2>1. FlushLoop /\ UNCHANGED serverVars
      BY <1>2 DEF LoopStep
    <2> QED BY <2>1, RunCleanupSafely, ReceiveMetricSafely, ReceiveErrorSafely, TickerFiresSafely,
               SeeStopSafely, DrainedSafely, UpsertSafely, FlushedSafely, FlushErrorsSafely DEF FlushLoop
  <1>3. CASE Signal \/ ListenFails \/ Shutdown
    BY <1>3, ProcessSafely
  <1>4. CASE UNCHANGED vars
    <2>1. UNCHANGED <<metrics, errorLogs, buffer, errBuffer, loop, upserts, counted, logged,
                      faults, handler, accepted>>
      BY <1>4 DEF vars, telemetryVars
    <2>2. TypeOK' /\ MetricInOnePlace' /\ ErrorInOnePlace'
      BY <2>1, ItemsStay
    <2>3. EndsInOrder'
      BY <1>4 DEF vars, telemetryVars, AllInv, DeliveryInv, EndsInOrder, Finished
    <2> QED BY <2>2, <2>3 DEF AllInv, DeliveryInv
  <1> QED BY <1>1, <1>2, <1>3, <1>4 DEF Next

(* Each metric and each event is in one place, and the loop and the        *)
(* process end in order: the inductive invariant of serve and flushLoop.   *)
THEOREM DeliveryCorrect == Spec => [](TypeOK /\ DeliveryInv)
  <1>1. Init => AllInv
    BY InitDelivery
  <1>2. AllInv /\ [Next]_vars => AllInv'
    BY NextDelivery
  <1>3. AllInv => TypeOK /\ DeliveryInv
    BY DEF AllInv
  <1> QED BY <1>1, <1>2, <1>3, PTL DEF Spec

(* No request is counted twice and no error event listed twice, however    *)
(* flushes by size, by ticker and at the end follow one another            *)
(* (flushLoop, service.go:159-196).                                        *)
THEOREM NothingCountedTwice == Spec => []CountedOnce
  <1>1. TypeOK /\ DeliveryInv => CountedOnce
    BY DEF DeliveryInv, MetricInOnePlace, ErrorInOnePlace, CountedOnce
  <1> QED BY <1>1, DeliveryCorrect, PTL

(* However many requests come and whatever fails, no channel of the        *)
(* telemetry ever holds more than its capacity, and what it holds are      *)
(* requests (RecordRequestAsync and RecordErrorAsync, service.go:286-301   *)
(* and 458-480).                                                           *)
THEOREM ChannelsWithinCapacity == Spec => []TypeOK
  <1> QED BY DeliveryCorrect, PTL

(* The pool is closed after the flush loop ended (the order of the defers  *)
(* of serve, main.go:81-90).                                               *)
THEOREM PoolOutlivesLoop == Spec => []FlushedWhileOpen
  <1>1. TypeOK /\ DeliveryInv => FlushedWhileOpen
    <2> SUFFICES ASSUME EndsInOrder, ~pool PROVE Head(loop) = "done"
      BY DEF DeliveryInv, FlushedWhileOpen
    <2>1. loop = <<"done">>
      BY DEF EndsInOrder
    <2> QED BY <2>1
  <1> QED BY <1>1, DeliveryCorrect, PTL

(* Unless a write failed, what found room in a channel is in the database  *)
(* at the exit, or was sent after the drain by a request that serve did    *)
(* not wait for; an orderly shutdown leaves no such rest                   *)
(* (RecordRequestAsync, service.go:286-301; flushLoop, 186-197).           *)
THEOREM OrderlyShutdownIsComplete == Spec => []OrderlyShutdownKeepsAll
  <1>1. TypeOK /\ DeliveryInv => OrderlyShutdownKeepsAll
    <2> SUFFICES ASSUME TypeOK, DeliveryInv, process = "exit", faults = 0
                 PROVE  /\ \A r \in Requests :
                            /\ <<"metric", r>> \in accepted => counted[r] = 1 \/ Holds(metrics, r)
                            /\ <<"error", r>> \in accepted => logged[r] = 1 \/ Holds(errorLogs, r)
                        /\ ~overdue => metrics = <<>> /\ errorLogs = <<>>
      BY DEF OrderlyShutdownKeepsAll, Doing
    <2>1. loop = <<"done">> /\ loop \in LastStages \ {<<"drain">>}
      BY StagesDiffer DEF DeliveryInv, EndsInOrder, LastStages
    <2>2. buffer = <<>> /\ errBuffer = <<>> /\ (~overdue => metrics = <<>> /\ errorLogs = <<>>)
      BY <2>1 DEF DeliveryInv, EndsInOrder
    <2>3. \A r : ~Holds(buffer, r) /\ ~Holds(errBuffer, r)
      BY <2>2, EmptyHolds
    <2> QED BY <2>2, <2>3 DEF DeliveryInv, MetricInOnePlace, ErrorInOnePlace
  <1> QED BY <1>1, DeliveryCorrect, PTL
=============================================================================
