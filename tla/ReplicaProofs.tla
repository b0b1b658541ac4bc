--------------------------- MODULE ReplicaProofs ---------------------------
(***************************************************************************)
(* Proofs about what the devices of CubeSync hold, for every value of the  *)
(* constants: retention never prunes the newest change (NewestChangeKept), *)
(* the server never believes that a device has applied more than it has    *)
(* (AckBehindClient), a replica consists of states the server had          *)
(* (ReplicaIsPastState), and a device that stays active can always catch   *)
(* up (NoSilentGap).                                                       *)
(*                                                                         *)
(* The second rests on the first.  A device whose cursor has expired       *)
(* starts again from 0, while requests with its old cursor may still be in *)
(* flight.  Only the watermark of its bootstrap puts its cursor past them  *)
(* all, and that needs the newest change to be in the log.                 *)
(***************************************************************************)
EXTENDS OutcomeProofs

-----------------------------------------------------------------------------
(* Cursors that have been reached *)

\* More changes only reach further.
LEMMA ReachedByMore ==
    ASSUME NEW k, NEW S, NEW T, S \subseteq T, Reached(k, S)
    PROVE  Reached(k, T)
  BY DEF Reached

\* A page of changes ends where the request stood or at a visible change after it.
LEMMA PageAdvances ==
    ASSUME NEW visible \in SUBSET Change, NEW k \in Nat,
           NEW o \in [Mutations -> Outcome \cup {NoOutcome}],
           NEW r \in SyncResponses(visible, k, o)
    PROVE  k <= r.next
<1> DEFINE found == ListChanges(visible, k)
           ids == {c.id : c \in found}
           ends == IF found = {} THEN {k} ELSE PageEnds(ids, ChangeLimit)
<1>1. \A i \in ids : i \in Nat /\ k <= i
    BY DEF ListChanges, Change
<1>2. \A i \in ends : k <= i
    BY <1>1 DEF PageEnds
<1>3. PICK end \in ends :
        r = [Bare("ok") EXCEPT !.changes = {BuildChange(c) : c \in {x \in found : x.id <= end}},
                               !.next = end,
                               !.more = \E x \in found : x.id > end,
                               !.outcome = o]
    BY Zenon DEF SyncResponses
<1>4. Bare("ok") \in Response
    BY EmptyResponseType DEF Status
<1> HIDE DEF found, ids, ends
<1>5. r.next = end
    BY <1>3, <1>4 DEF Response
<1> QED BY <1>2, <1>5

\* The watermark of a bootstrap is at or past every cursor that points into the
\* history, because the newest change is never pruned.
LEMMA WatermarkCovers ==
    ASSUME TypeOK, OrderInv, StoryInv, NewestChangeKept, NEW k \in Nat, Reached(k, history)
    PROVE  k <= LatestChangeCursor
<1>a. LatestChangeCursor \in Nat
    BY LatestChangeCursorType DEF TypeOK, OrderInv
<1>1. CASE k = 0
    BY <1>1, <1>a
<1>2. CASE k # 0
  <2> DEFINE ids == {c.id : c \in history}
  <2>1. PICK x \in history : k <= x.id
    BY <1>2 DEF Reached
  <2>2. ids \in SUBSET Nat /\ ids # {} /\ seq \in Nat /\ \A i \in ids : i <= seq
    BY <2>1 DEF TypeOK, DatabaseTypeOK, Change, OrderInv, IdsFromSequence
  <2> HIDE DEF ids
  <2>3. Max(ids) \in ids /\ \A i \in ids : i <= Max(ids)
    BY <2>2, MaxOfBoundedNaturals
  <2>4. PICK c \in history : c.id = Max(ids)
    BY <2>3 DEF ids
  <2>5. \A y \in history : y.id <= c.id
    BY <2>3, <2>4 DEF ids
  <2>6. c \in log
    BY <2>5 DEF NewestChangeKept
  <2> DEFINE kept == {y.id : y \in log}
  <2>7. /\ kept \in SUBSET Nat /\ kept # {} /\ \A i \in kept : i <= seq
        /\ c.id \in kept /\ c.id \in Nat /\ x.id \in Nat
    BY <2>6 DEF TypeOK, DatabaseTypeOK, Change, OrderInv, IdsFromSequence
  <2>8. LatestChangeCursor = Max(kept)
    BY <2>6 DEF LatestChangeCursor
  <2> HIDE DEF kept
  <2>9. c.id <= LatestChangeCursor
    BY <2>2, <2>7, <2>8, MaxOfBoundedNaturals
  <2> QED BY <1>a, <2>1, <2>5, <2>7, <2>9
<1> QED BY <1>1, <1>2

\* The floor of retention is a cursor that some device has acknowledged, or 0.
LEMMA FloorIsAcknowledged ==
    ASSUME DatabaseTypeOK, NEW t \in Int
    PROVE  \/ MinValidCursorForUser(t) = 0
           \/ \E d \in Devices : MinValidCursorForUser(t) = devices[d].ack
<1> DEFINE acks == {devices[d].ack : d \in ActiveAt(devices, t)}
<1>1. acks \in SUBSET Nat /\ \A k \in acks : \E d \in Devices : k = devices[d].ack
    BY DEF DatabaseTypeOK, Device, ActiveAt
<1> HIDE DEF acks
<1>2. acks # {} => Min(acks) \in acks
    BY <1>1, MinOfNaturals
<1> QED BY <1>1, <1>2 DEF MinValidCursorForUser, acks

-----------------------------------------------------------------------------
(* KeptInv *)

\* A step keeps KeptInv if it hands on cursors that point into the history.
LEMMA KeptByHandingOn ==
    ASSUME history \subseteq history', NewestChangeKept',
           \A d \in Devices : Reached(devices'[d].ack, history) /\ Reached(cursor'[d], history),
           \A g \in Handlers : /\ Reached(req'[g].cursor, history)
                               /\ Reached(resp'[g].next, history' \cup tx'[g].changes),
           Reached(ret'.min, history)
    PROVE  KeptInv'
<1>1. \A k : Reached(k, history) => Reached(k, history')
    BY ReachedByMore
<1>2. CursorsReached'
    BY <1>1 DEF CursorsReached, Reached
<1> QED BY <1>2 DEF KeptInv

\* The steps of a sync request.
LEMMA SyncKept ==
    ASSUME TypeOK, StoryInv, OrderInv, KeptInv, NEW h \in Handlers, SyncNext(h)
    PROVE  KeptInv'
<1>a. /\ req \in [Handlers -> Request] /\ resp \in [Handlers -> Response]
      /\ tx \in [Handlers -> Tx] /\ devices \in [Devices -> Device]
      /\ log \subseteq history /\ log \in SUBSET Change
      /\ req[h].cursor \in Nat /\ tx[h].changes \in SUBSET Change
      /\ tx[h].outcome \in [Mutations -> Outcome \cup {NoOutcome}]
      /\ pc[h] # "idle" => req[h].device \in Devices
    BY DEF TypeOK, DatabaseTypeOK, ApiTypeOK, TxTypeOK, StoryInv, LogIsRecentHistory, Request, Tx
<1>b. UNCHANGED <<ret, cursor>>
    BY DEF SyncNext, clientVars
<1>c. /\ \A d \in Devices : Reached(devices[d].ack, history) /\ Reached(cursor[d], history)
      /\ \A g \in Handlers : /\ Reached(req[g].cursor, history)
                             /\ Reached(resp[g].next, history \cup tx[g].changes)
      /\ Reached(ret.min, history)
    BY DEF KeptInv, CursorsReached
<1>d. \A k : k = 0 => \A S : Reached(k, S)
    BY DEF Reached
<1>e. ASSUME UNCHANGED <<log, history, req>>,
             \A d \in Devices : Reached(devices'[d].ack, history),
             \A g \in Handlers : Reached(resp'[g].next, history \cup tx'[g].changes)
      PROVE  KeptInv'
  <2>1. NewestChangeKept'
    BY <1>e DEF KeptInv, NewestChangeKept
  <2> QED BY <1>b, <1>c, <1>e, <2>1, KeptByHandingOn
\* Steps that leave the devices and the transactions' changes alone.
<1>f. ASSUME UNCHANGED <<log, history, req, devices, resp>>,
             \A g \in Handlers : tx[g].changes \subseteq tx'[g].changes
      PROVE  KeptInv'
  <2>1. \A g \in Handlers : Reached(resp[g].next, history \cup tx'[g].changes)
    BY <1>c, <1>f DEF Reached
  <2> QED BY <1>c, <1>e, <1>f, <2>1
\* Steps that answer with a bare status.
<1>g. ASSUME UNCHANGED <<log, history, req, devices>>, NEW s \in Status,
             resp' = [resp EXCEPT ![h] = Bare(s)],
             \A g \in Handlers \ {h} : tx'[g] = tx[g]
      PROVE  KeptInv'
  <2>1. resp'[h].next = 0 /\ \A g \in Handlers \ {h} : resp'[g] = resp[g]
    BY <1>a, <1>g, EmptyResponseNext
  <2> QED BY <1>c, <1>d, <1>e, <1>g, <2>1
<1>1. CASE RejectRequest(h)
    BY <1>1, <1>g DEF RejectRequest, Respond, Status, dbVars, tableVars
<1>2. CASE RejectExpired(h)
    BY <1>2, <1>g DEF RejectExpired, Respond, Status, dbVars, tableVars
<1>3. CASE PassCursorCheck(h)
    BY <1>3, <1>f DEF PassCursorCheck, dbVars, tableVars
<1>4. CASE PullUpsert(h)
  <2>1. \A d \in Devices : devices'[d].ack = devices[d].ack
    BY <1>4, <1>a DEF PullUpsert, UpsertDevice, Device
  <2> QED BY <1>4, <1>c, <1>e, <2>1 DEF PullUpsert, tableVars
<1>5. CASE PullList(h)
  <2>1. PICK r \in SyncResponses(log, req[h].cursor, NoOutcomes) : resp' = [resp EXCEPT ![h] = r]
    BY <1>5 DEF PullList
  <2>2. r.next = req[h].cursor \/ \E c \in log : r.next = c.id
    <3>1. NoOutcomes \in [Mutations -> Outcome \cup {NoOutcome}]
      BY DEF NoOutcomes
    <3> QED BY <1>a, <2>1, <3>1, SyncResponsesType
  <2>3. Reached(r.next, history)
    <3>1. \A c \in log : c.id <= c.id
      BY <1>a DEF Change
    <3> QED BY <1>a, <1>c, <2>2, <3>1 DEF Reached
  <2>4. \A g \in Handlers : Reached(resp'[g].next, history \cup tx[g].changes)
    <3>1. \A g \in Handlers : resp'[g] = IF g = h THEN r ELSE resp[g]
      BY <1>a, <2>1
    <3>2. Reached(r.next, history \cup tx[h].changes)
      BY <2>3 DEF Reached
    <3> QED BY <1>c, <3>1, <3>2
  <2> QED BY <1>5, <1>c, <1>e, <2>4 DEF PullList, dbVars, tableVars
<1>6. CASE BeginTx(h)
  <2>1. \A g \in Handlers : tx'[g].changes = tx[g].changes
    BY <1>6, <1>a DEF BeginTx, Tx
  <2> QED BY <1>6, <1>f, <2>1 DEF BeginTx, dbVars, tableVars
<1>7. CASE AcquireLock(h)
    BY <1>7, <1>f DEF AcquireLock, tableVars
<1>8. CASE ListInTx(h)
  <2>1. PICK r \in SyncResponses(log \cup tx[h].changes, req[h].cursor, tx[h].outcome) :
            resp' = [resp EXCEPT ![h] = r]
    BY <1>8 DEF ListInTx
  <2>2. r.next = req[h].cursor \/ \E c \in log \cup tx[h].changes : r.next = c.id
    <3>1. log \cup tx[h].changes \in SUBSET Change
      BY <1>a
    <3> QED BY <1>a, <2>1, <3>1, SyncResponsesType
  <2>3. Reached(r.next, history \cup tx[h].changes)
    <3>1. \A c \in log \cup tx[h].changes : c.id <= c.id
      BY <1>a DEF Change
    <3> QED BY <1>a, <1>c, <2>2, <3>1 DEF Reached
  <2>4. \A g \in Handlers : resp'[g] = IF g = h THEN r ELSE resp[g]
    BY <1>a, <2>1
  <2> QED BY <1>8, <1>c, <1>e, <2>3, <2>4 DEF ListInTx, dbVars, tableVars
<1>9. CASE Commit(h)
  <2>1. \A d \in Devices : devices'[d].ack = devices[d].ack
    BY <1>9, <1>a DEF Commit, UpsertDevice, Device
  <2>2. /\ log' = log \cup tx[h].changes /\ history' = history \cup tx[h].changes
        /\ UNCHANGED <<req, resp>>
    BY <1>9 DEF Commit
  <2>3. \A g \in Handlers \ {h} : tx'[g] = tx[g]
    BY <1>9, <1>a DEF Commit, EndTx
  <2>4. \A g \in Handlers : Reached(resp'[g].next, history' \cup tx'[g].changes)
    BY <1>c, <2>2, <2>3 DEF Reached
  <2>5. NewestChangeKept'
    BY <2>2 DEF KeptInv, NewestChangeKept
  <2> QED BY <1>b, <1>c, <2>1, <2>2, <2>4, <2>5, KeptByHandingOn
<1>10. ASSUME NEW m \in Mutations, ReplayMutation(h, m) \/ RefuseMutation(h, m) PROVE KeptInv'
  <2>1. \A g \in Handlers : tx'[g].changes = tx[g].changes
    <3>1. CASE ReplayMutation(h, m)
      BY <3>1, <1>a DEF ReplayMutation, Tx
    <3>2. CASE RefuseMutation(h, m)
      <4>1. PICK o : tx' = [tx EXCEPT ![h].outcome[m] = o, ![h].recorded = @ \cup {m}]
        BY <3>2 DEF RefuseMutation
      <4> QED BY <4>1, <1>a DEF Tx
    <3> QED BY <1>10, <3>1, <3>2
  <2> QED BY <1>10, <1>f, <2>1
          DEF ReplayMutation, RefuseMutation, dbVars, tableVars, apiVars
<1>11. ASSUME NEW m \in Mutations, ApplyMutation(h, m) PROVE KeptInv'
  <2>1. \A g \in Handlers : tx[g].changes \subseteq tx'[g].changes
    BY <1>11, ApplyEffect DEF AppliedAs
  <2> QED BY <1>11, <1>f, <2>1 DEF ApplyMutation, tableVars, apiVars
<1>12. ASSUME NEW m \in Mutations, AbortOnForeignKey(h, m) PROVE KeptInv'
  <2>1. \A g \in Handlers \ {h} : tx'[g] = tx[g]
    BY <1>12, <1>a DEF AbortOnForeignKey, EndTx
  <2> QED BY <1>12, <1>g, <2>1 DEF AbortOnForeignKey, Respond, Status, tableVars
<1>13. CASE SyncFails(h)
  <2>1. \A g \in Handlers \ {h} : tx'[g] = tx[g]
    BY <1>13, <1>a DEF SyncFails, EndTx
  <2> QED BY <1>13, <1>g, <2>1 DEF SyncFails, Respond, Status, tableVars
<1>14. CASE AckCursor(h)
  <2>1. \A d \in Devices : devices'[d].ack = devices[d].ack \/ devices'[d].ack = req[h].cursor
    BY <1>14, <1>a DEF AckCursor, UpdateDeviceAckCursor, Device
  <2>2. \A d \in Devices : Reached(devices'[d].ack, history)
    BY <1>c, <2>1
  <2> QED BY <1>14, <1>c, <1>e, <2>2 DEF AckCursor, tableVars
<1>15. CASE AckFails(h)
    BY <1>15, <1>f DEF AckFails, dbVars, tableVars
<1> QED BY <1>1, <1>2, <1>3, <1>4, <1>5, <1>6, <1>7, <1>8, <1>9, <1>10, <1>11, <1>12, <1>13,
           <1>14, <1>15 DEF SyncNext, SyncStep, SyncWork

\* The steps of a snapshot request: the watermark is the id of a committed change.
LEMMA SnapshotKept ==
    ASSUME TypeOK, StoryInv, OrderInv, KeptInv, NEW h \in Handlers, SnapshotNext(h)
    PROVE  KeptInv'
<1>a. /\ req \in [Handlers -> Request] /\ resp \in [Handlers -> Response]
      /\ devices \in [Devices -> Device] /\ log \subseteq history /\ log \in SUBSET Change
    BY DEF TypeOK, DatabaseTypeOK, ApiTypeOK, StoryInv, LogIsRecentHistory
<1>b. UNCHANGED <<ret, cursor, tx>>
    BY DEF SnapshotNext, clientVars
<1>c. /\ \A d \in Devices : Reached(devices[d].ack, history) /\ Reached(cursor[d], history)
      /\ \A g \in Handlers : /\ Reached(req[g].cursor, history)
                             /\ Reached(resp[g].next, history \cup tx[g].changes)
      /\ Reached(ret.min, history)
    BY DEF KeptInv, CursorsReached
<1>d. ASSUME UNCHANGED <<log, history>>,
             \A d \in Devices : devices'[d].ack = devices[d].ack,
             \A g \in Handlers : /\ Reached(req'[g].cursor, history)
                                 /\ Reached(resp'[g].next, history \cup tx[g].changes)
      PROVE  KeptInv'
  <2>1. NewestChangeKept'
    BY <1>d DEF KeptInv, NewestChangeKept
  <2> QED BY <1>b, <1>c, <1>d, <2>1, KeptByHandingOn
<1>1. CASE SnapshotUpsert(h)
  <2>1. \A d \in Devices : devices'[d].ack = devices[d].ack
    BY <1>1, <1>a DEF SnapshotUpsert, UpsertDevice, Device
  <2> QED BY <1>1, <1>c, <1>d, <2>1 DEF SnapshotUpsert, tableVars
<1>2. CASE SnapshotWatermark(h)
  <2>1. \A g \in Handlers : req'[g].cursor = IF g = h THEN LatestChangeCursor ELSE req[g].cursor
    BY <1>2, <1>a DEF SnapshotWatermark, Request
  <2>2. Reached(LatestChangeCursor, history)
    <3>1. CASE log = {}
      BY <3>1 DEF LatestChangeCursor, Reached
    <3>2. CASE log # {}
      <4>1. PICK c \in log : LatestChangeCursor = c.id
        BY <3>2, LatestChangeCursorType DEF TypeOK, OrderInv
      <4>2. c \in history /\ c.id <= c.id
        BY <1>a DEF Change
      <4> QED BY <4>1, <4>2 DEF Reached
    <3> QED BY <3>1, <3>2
  <2> QED BY <1>2, <1>c, <1>d, <2>1, <2>2 DEF SnapshotWatermark, dbVars, tableVars
<1>3. CASE SnapshotPage(h)
  <2>1. PICK r \in SnapshotPages(req[h]) : Respond(h, r)
    BY <1>3 DEF SnapshotPage
  <2>2. r.next = req[h].cursor
    BY <1>a, SnapshotPagesType
  <2>3. \A g \in Handlers : resp'[g] = IF g = h THEN r ELSE resp[g]
    BY <1>a, <2>1 DEF Respond
  <2>4. Reached(r.next, history \cup tx[h].changes)
    BY <1>c, <2>2 DEF Reached
  <2> QED BY <1>3, <1>c, <1>d, <2>3, <2>4 DEF SnapshotPage, dbVars, tableVars
<1>4. CASE SnapshotFails(h)
  <2>1. \A g \in Handlers : resp'[g] = IF g = h THEN Bare("error") ELSE resp[g]
    BY <1>4, <1>a DEF SnapshotFails, Respond
  <2>2. Reached(Bare("error").next, history \cup tx[h].changes)
    BY EmptyResponseNext DEF Status, Reached
  <2> QED BY <1>4, <1>c, <1>d, <2>1, <2>2 DEF SnapshotFails, dbVars, tableVars
<1> QED BY <1>1, <1>2, <1>3, <1>4 DEF SnapshotNext, SnapshotStep, SnapshotWork

\* The retention job: its floor was acknowledged by a device, so the newest change
\* is not below it, whatever has been committed since the floor was read.
LEMMA RetentionKept ==
    ASSUME TypeOK, StoryInv, KeptInv, RetentionNext
    PROVE  KeptInv'
<1>a. /\ UNCHANGED <<history, req, resp, tx, cursor, devices>>
      /\ log' = log \/ log' = PruneChangeLog(ret.min)
    BY DEF RetentionNext, RetentionStep, StartRun, ReadMinCursor, PruneLog, PruneMutations,
           RetentionStatementFails, dbVars, tableVars, clientVars
<1>b. /\ \A d \in Devices : Reached(devices[d].ack, history) /\ Reached(cursor[d], history)
      /\ \A g \in Handlers : /\ Reached(req[g].cursor, history)
                             /\ Reached(resp[g].next, history \cup tx[g].changes)
      /\ Reached(ret.min, history)
    BY DEF KeptInv, CursorsReached
<1>1. NewestChangeKept'
  <2> SUFFICES ASSUME NEW c \in history, \A x \in history : x.id <= c.id
               PROVE  c \in log'
    BY <1>a DEF NewestChangeKept
  <2>1. c \in log
    BY DEF KeptInv, NewestChangeKept
  <2>2. \A x \in history : x.id \in Nat
    BY DEF TypeOK, DatabaseTypeOK, Change
  <2>3. ret.min <= c.id
    <3>1. ret.min \in Nat
      BY DEF TypeOK, RetentionTypeOK
    <3> QED BY <1>b, <2>2, <3>1 DEF Reached
  <2>4. c.id >= ret.min
    BY <2>2, <2>3 DEF TypeOK, RetentionTypeOK
  <2> QED BY <1>a, <2>1, <2>4 DEF PruneChangeLog
<1>2. Reached(ret'.min, history)
  <2>a. ret \in [step : RetentionSteps, cutoff : Int, min : Nat]
    BY DEF TypeOK, RetentionTypeOK
  <2>0. Reached(RetWaiting.min, history)
    BY DEF RetWaiting, Reached
  <2>1. CASE StartRun
    <3>1. ret'.min = 0
      BY <2>1 DEF StartRun, RetWaiting
    <3> QED BY <3>1 DEF Reached
  <2>2. CASE ReadMinCursor
    <3>1. ret' = RetWaiting \/ ret'.min = MinValidCursorForUser(ret.cutoff)
      BY <2>2, <2>a DEF ReadMinCursor
    <3>2. Reached(MinValidCursorForUser(ret.cutoff), history)
      <4>1. DatabaseTypeOK /\ ret.cutoff \in Int
        BY <2>a DEF TypeOK
      <4> QED BY <1>b, <4>1, FloorIsAcknowledged DEF Reached
    <3> QED BY <2>0, <3>1, <3>2
  <2>3. CASE PruneLog
    <3>1. ret'.min = ret.min
      BY <2>3, <2>a DEF PruneLog
    <3> QED BY <1>b, <3>1
  <2>4. CASE PruneMutations
    BY <2>0, <2>4 DEF PruneMutations
  <2>5. CASE RetentionStatementFails
    <3>1. ret' = RetWaiting \/ ret'.min = ret.min
      BY <2>5, <2>a DEF RetentionStatementFails
    <3> QED BY <1>b, <2>0, <3>1
  <2> QED BY <2>1, <2>2, <2>3, <2>4, <2>5 DEF RetentionNext, RetentionStep
<1> QED BY <1>a, <1>b, <1>1, <1>2, KeptByHandingOn

\* Devices pass their cursors on, and take them from handlers that have finished.
LEMMA ClientKept ==
    ASSUME TypeOK, OrderInv, KeptInv, NEW d \in Devices, ClientNext(d)
    PROVE  KeptInv'
<1>a. /\ req \in [Handlers -> Request] /\ resp \in [Handlers -> Response]
      /\ cursor \in [Devices -> Nat]
    BY DEF TypeOK, ApiTypeOK, ClientTypeOK
<1>b. UNCHANGED <<log, history, devices, tx, ret>>
    BY DEF ClientNext, dbVars, tableVars
<1>c. /\ \A g \in Devices : Reached(devices[g].ack, history) /\ Reached(cursor[g], history)
      /\ \A g \in Handlers : /\ Reached(req[g].cursor, history)
                             /\ Reached(resp[g].next, history \cup tx[g].changes)
      /\ Reached(ret.min, history)
    BY DEF KeptInv, CursorsReached
<1>d. ASSUME \A g \in Devices : Reached(cursor'[g], history),
             \A g \in Handlers : /\ Reached(req'[g].cursor, history)
                                 /\ Reached(resp'[g].next, history \cup tx[g].changes)
      PROVE  KeptInv'
  <2>1. NewestChangeKept'
    BY <1>b DEF KeptInv, NewestChangeKept
  <2> QED BY <1>b, <1>c, <1>d, <2>1, KeptByHandingOn
<1>e. \A S : Reached(0, S)
    BY DEF Reached
<1>f. ASSUME NEW h \in Handlers, Answered(d, h), \A g \in Devices : Reached(cursor'[g], history)
      PROVE  KeptInv'
  <2>1. \A g \in Handlers : req'[g].cursor = IF g = h THEN 0 ELSE req[g].cursor
    BY <1>a, <1>f DEF Answered, Finish, NoRequest
  <2>2. \A g \in Handlers : resp'[g].next = IF g = h THEN 0 ELSE resp[g].next
    BY <1>a, <1>f, EmptyResponseNext DEF Answered, Finish, Status
  <2> QED BY <1>c, <1>d, <1>e, <1>f, <2>1, <2>2
<1>g. ASSUME NEW h \in Handlers, NEW r, r.cursor = cursor[d], NEW s, Send(d, h, r, s)
      PROVE  KeptInv'
  <2>1. \A g \in Handlers : req'[g].cursor = IF g = h THEN cursor[d] ELSE req[g].cursor
    BY <1>a, <1>g DEF Send
  <2> QED BY <1>c, <1>d, <1>g, <2>1 DEF Send
<1>1. ASSUME NEW m \in Mutations, Edit(d, m) PROVE KeptInv'
    BY <1>1, <1>c, <1>d DEF Edit
<1>2. ASSUME NEW h \in Handlers, NEW n \in 0..Len(outbox[d]), SendSync(d, h, n) PROVE KeptInv'
  <2> DEFINE r == [NoRequest EXCEPT !.device = d, !.cursor = cursor[d],
                                    !.batch = SubSeq(outbox[d], 1, n)]
  <2>1. r.cursor = cursor[d]
    BY DEF NoRequest
  <2>2. Send(d, h, r, "received")
    BY <1>2, Zenon DEF SendSync
  <2> HIDE DEF r
  <2> QED BY <1>g, <2>1, <2>2
<1>3. ASSUME NEW h \in Handlers, SendSnapshot(d, h) PROVE KeptInv'
  <2> DEFINE r == [NoRequest EXCEPT !.device = d, !.cursor = cursor[d],
                                    !.entity = phase[d], !.after = after[d]]
  <2>1. r.cursor = cursor[d]
    BY DEF NoRequest
  <2>2. Send(d, h, r, "snapUpsert")
    BY <1>3, Zenon DEF SendSnapshot
  <2> HIDE DEF r
  <2> QED BY <1>g, <2>1, <2>2
<1>4. ASSUME NEW h \in Handlers, Receive(d, h) PROVE KeptInv'
  <2>1. Answered(d, h)
    BY <1>4 DEF Receive, ReceiveSync, ReceiveExpired, ReceivePage, ReceiveError
  <2>2. Reached(resp[h].next, history)
    <3>1. tx[h].changes = {}
      BY <2>1 DEF Answered, OrderInv, LockHeld
    <3> QED BY <1>c, <3>1 DEF Reached
  <2>3. \/ cursor' = [cursor EXCEPT ![d] = resp[h].next]
        \/ cursor' = [cursor EXCEPT ![d] = 0]
        \/ cursor' = cursor
    BY <1>4 DEF Receive, ReceiveSync, ReceiveExpired, ReceivePage, ReceiveError
  <2>4. \A g \in Devices : Reached(cursor'[g], history)
    BY <1>a, <1>c, <1>e, <2>2, <2>3
  <2> QED BY <1>f, <2>1, <2>4
<1>5. CASE GiveUp(d)
    BY <1>5, <1>c, <1>d DEF GiveUp
<1> QED BY <1>1, <1>2, <1>3, <1>4, <1>5 DEF ClientNext, ClientStep

\* Every step keeps the newest change and every cursor at or below it.
LEMMA NextKept ==
    ASSUME TypeOK, OrderInv, StoryInv, KeptInv, [Next]_vars
    PROVE  KeptInv'
<1>a. req \in [Handlers -> Request] /\ resp \in [Handlers -> Response]
    BY DEF TypeOK, ApiTypeOK
<1>b. ASSUME UNCHANGED <<log, history, devices, tx, ret, cursor>>,
             \A g \in Handlers : req'[g].cursor \in {0, req[g].cursor}
                                    /\ resp'[g].next \in {0, resp[g].next}
      PROVE  KeptInv'
    BY <1>b DEF KeptInv, CursorsReached, NewestChangeKept, Reached
<1>1. ASSUME NEW h \in Handlers, DropNext(h) PROVE KeptInv'
  <2>1. \A g \in Handlers : req'[g].cursor \in {0, req[g].cursor}
    BY <1>1, <1>a DEF DropNext, DropAnswer, Finish, NoRequest
  <2>2. \A g \in Handlers : resp'[g].next \in {0, resp[g].next}
    BY <1>1, <1>a, EmptyResponseNext DEF DropNext, DropAnswer, Finish, Status
  <2> QED BY <1>1, <1>b, <2>1, <2>2 DEF DropNext, DropAnswer, dbVars, tableVars, clientVars
<1>2. CASE Environment \/ UNCHANGED vars
    BY <1>2, <1>b DEF Environment, Tick, OtherUserAppends, vars, dbVars, tableVars, apiVars,
                      clientVars
<1> QED BY <1>1, <1>2, SyncKept, SnapshotKept, RetentionKept, ClientKept DEF Next

\* At first every cursor is 0 and there is no change to keep.
LEMMA InitKept == Init => KeptInv
<1> SUFFICES ASSUME Init PROVE KeptInv
    OBVIOUS
<1>1. \A S : Reached(0, S)
    BY DEF Reached
<1>2. CursorsReached
    BY <1>1 DEF CursorsReached, Init, DatabaseInit, ApiInit, RetentionInit, ClientInit,
                RetWaiting, NoRequest, Bare
<1>3. NewestChangeKept
    BY DEF NewestChangeKept, Init, DatabaseInit
<1> QED BY <1>2, <1>3 DEF KeptInv

-----------------------------------------------------------------------------
(* AckInv *)

\* The server is told nothing new about a device by a step that sets its
\* acknowledged cursor, if at all, to the cursor of a request of that device, and
\* changes no sync request.
LEMMA ToldNothingNew ==
    ASSUME NEW d \in Devices, NEW k \in Nat, ToldAtMost(d, k),
           \/ devices'[d].ack = devices[d].ack
           \/ \E g \in Handlers : /\ req[g].device = d /\ req[g].entity = "none"
                                  /\ devices'[d].ack = req[g].cursor,
           \A g \in Handlers : \/ req'[g] = req[g]
                               \/ req'[g].device # d
                               \/ req'[g].entity # "none"
    PROVE  ToldAtMost(d, k)'
  BY DEF ToldAtMost

\* What a step of a sync request does to the handlers: it changes its own place
\* and response only, never answers with a smaller cursor, and acknowledges the
\* cursor of its request at most.
LEMMA SyncFootprint ==
    ASSUME TypeOK, RequestsAdvance, NEW h \in Handlers, SyncNext(h)
    PROVE  /\ pc[h] \in SyncSteps /\ req[h].entity = "none" /\ req' = req
           /\ pc'[h] \in SyncSteps \cup {"reply"}
           /\ \A g \in Handlers \ {h} : pc'[g] = pc[g] /\ resp'[g] = resp[g]
           /\ pc'[h] \in {"commit", "ack", "reply"} /\ resp'[h].status = "ok" =>
                 req[h].cursor <= resp'[h].next
           /\ \A d \in Devices :
                 \/ devices'[d].ack = devices[d].ack
                 \/ req[h].device = d /\ devices'[d].ack = req[h].cursor
<1>a. /\ req \in [Handlers -> Request] /\ resp \in [Handlers -> Response]
      /\ pc \in [Handlers -> {"idle", "reply"} \cup SyncSteps \cup SnapshotSteps]
      /\ devices \in [Devices -> Device] /\ log \in SUBSET Change
      /\ req[h].cursor \in Nat /\ tx[h].changes \in SUBSET Change
      /\ tx[h].outcome \in [Mutations -> Outcome \cup {NoOutcome}]
      /\ pc[h] # "idle" => req[h].device \in Devices
    BY DEF TypeOK, DatabaseTypeOK, ApiTypeOK, TxTypeOK, Request, Tx
<1>b. \A s : Bare(s).status = s
    BY DEF Bare
<1>c. pc[h] \in SyncSteps
    BY DEF SyncNext, SyncStep, SyncWork, RejectRequest, RejectExpired, PassCursorCheck,
           PullUpsert, PullList, BeginTx, AcquireLock, ListInTx, Commit, ReplayMutation,
           RefuseMutation, ApplyMutation, AbortOnForeignKey, AckCursor, AckFails, SyncFails,
           SyncSteps
<1>d. req[h].entity = "none"
    BY <1>c DEF RequestsAdvance
<1>e. req' = req
    BY DEF SyncNext, SyncStep, SyncWork, RejectRequest, RejectExpired, PassCursorCheck,
           PullUpsert, PullList, BeginTx, AcquireLock, ListInTx, Commit, ReplayMutation,
           RefuseMutation, ApplyMutation, AbortOnForeignKey, AckCursor, AckFails, SyncFails,
           apiVars
<1>f. \E s \in SyncSteps \cup {"reply"} : pc' = [pc EXCEPT ![h] = s]
  <2>1. pc' = pc => \E s \in SyncSteps \cup {"reply"} : pc' = [pc EXCEPT ![h] = s]
    BY <1>a, <1>c
  <2> QED BY <2>1 DEF SyncNext, SyncStep, SyncWork, RejectRequest, RejectExpired,
           PassCursorCheck, PullUpsert, PullList, BeginTx, AcquireLock, ListInTx, Commit,
           ReplayMutation, RefuseMutation, ApplyMutation, AbortOnForeignKey, AckCursor, AckFails,
           SyncFails, apiVars, Respond, Goto, SyncSteps
<1>g. \E r : resp' = [resp EXCEPT ![h] = r]
  <2>1. resp' = resp => \E r : resp' = [resp EXCEPT ![h] = r]
    BY <1>a
  <2> QED BY <2>1 DEF SyncNext, SyncStep, SyncWork, RejectRequest, RejectExpired,
           PassCursorCheck, PullUpsert, PullList, BeginTx, AcquireLock, ListInTx, Commit,
           ReplayMutation, RefuseMutation, ApplyMutation, AbortOnForeignKey, AckCursor, AckFails,
           SyncFails, apiVars, Respond
<1>h. ASSUME NEW d \in Devices
      PROVE  \/ devices'[d].ack = devices[d].ack
             \/ req[h].device = d /\ devices'[d].ack = req[h].cursor
  <2>1. CASE devices' = devices
    BY <2>1
  <2>2. CASE AckCursor(h)
    BY <2>2, <1>a DEF AckCursor, UpdateDeviceAckCursor, Device
  <2>3. ASSUME NEW t, devices' = UpsertDevice(req[h].device, t)
        PROVE  devices'[d].ack = devices[d].ack
    BY <2>3, <1>a DEF UpsertDevice, Device
  <2> QED BY <2>1, <2>2, <2>3 DEF SyncNext, SyncStep, SyncWork, RejectRequest, RejectExpired,
           PassCursorCheck, PullUpsert, PullList, BeginTx, AcquireLock, ListInTx, Commit,
           ReplayMutation, RefuseMutation, ApplyMutation, AbortOnForeignKey, AckFails,
           SyncFails, dbVars
<1> DEFINE Advances == pc'[h] \in {"commit", "ack", "reply"} /\ resp'[h].status = "ok" =>
                          req[h].cursor <= resp'[h].next
<1>i. Advances
  <2>1. CASE RejectRequest(h) \/ RejectExpired(h) \/ SyncFails(h)
             \/ \E m \in Mutations : AbortOnForeignKey(h, m)
    <3>1. \E s \in {"invalid", "cursor_expired", "error"} : resp'[h] = Bare(s)
      BY <2>1, <1>a DEF RejectRequest, RejectExpired, SyncFails, AbortOnForeignKey, Respond
    <3> QED BY <1>b, <3>1
  <2>2. CASE PassCursorCheck(h) \/ PullUpsert(h) \/ BeginTx(h) \/ AcquireLock(h)
    <3>1. pc'[h] \notin {"commit", "ack", "reply"}
      BY <2>2, <1>a DEF PassCursorCheck, PullUpsert, BeginTx, AcquireLock, Goto
    <3> QED BY <3>1
  <2>3. CASE PullList(h)
    <3>1. PICK r \in SyncResponses(log, req[h].cursor, NoOutcomes) : resp' = [resp EXCEPT ![h] = r]
      BY <2>3 DEF PullList
    <3>2. NoOutcomes \in [Mutations -> Outcome \cup {NoOutcome}]
      BY DEF NoOutcomes
    <3>3. req[h].cursor <= r.next
      BY <1>a, <3>2, PageAdvances
    <3> QED BY <1>a, <3>1, <3>3
  <2>4. CASE ListInTx(h)
    <3>1. PICK r \in SyncResponses(log \cup tx[h].changes, req[h].cursor, tx[h].outcome) :
              resp' = [resp EXCEPT ![h] = r]
      BY <2>4 DEF ListInTx
    <3>2. log \cup tx[h].changes \in SUBSET Change
      BY <1>a
    <3>3. req[h].cursor <= r.next
      BY <1>a, <3>2, PageAdvances
    <3> QED BY <1>a, <3>1, <3>3
  <2>5. CASE Commit(h) \/ AckCursor(h) \/ AckFails(h)
    <3>1. pc[h] \in {"commit", "ack"} /\ resp' = resp
      BY <2>5 DEF Commit, AckCursor, AckFails
    <3> QED BY <1>d, <3>1 DEF RequestsAdvance
  <2>6. ASSUME NEW m \in Mutations,
               ReplayMutation(h, m) \/ RefuseMutation(h, m) \/ ApplyMutation(h, m)
        PROVE  Advances
    <3>1. pc'[h] = "apply"
      BY <2>6 DEF ReplayMutation, RefuseMutation, ApplyMutation, apiVars
    <3> QED BY <3>1
  <2> QED BY <2>1, <2>2, <2>3, <2>4, <2>5, <2>6 DEF SyncNext, SyncStep, SyncWork
<1>j. \A g \in Handlers \ {h} : pc'[g] = pc[g] /\ resp'[g] = resp[g]
    BY <1>a, <1>f, <1>g
<1>k. pc'[h] \in SyncSteps \cup {"reply"}
    BY <1>a, <1>f
<1> QED BY <1>c, <1>d, <1>e, <1>h, <1>i, <1>j, <1>k

\* The steps of a sync request: an acknowledgement repeats what the request said.
LEMMA SyncAck ==
    ASSUME TypeOK, AckInv, NEW h \in Handlers, SyncNext(h)
    PROVE  AckInv'
<1>a. /\ pc[h] \in SyncSteps /\ req[h].entity = "none" /\ req' = req
      /\ pc'[h] \in SyncSteps \cup {"reply"}
      /\ \A g \in Handlers \ {h} : pc'[g] = pc[g] /\ resp'[g] = resp[g]
      /\ pc'[h] \in {"commit", "ack", "reply"} /\ resp'[h].status = "ok" =>
            req[h].cursor <= resp'[h].next
      /\ \A d \in Devices :
            \/ devices'[d].ack = devices[d].ack
            \/ req[h].device = d /\ devices'[d].ack = req[h].cursor
    BY SyncFootprint DEF AckInv
<1>b. UNCHANGED <<phase, cursor, after, waiting>>
    BY DEF SyncNext, clientVars
<1>c. \A d \in Devices, k \in Nat : ToldAtMost(d, k) => ToldAtMost(d, k)'
    BY <1>a, ToldNothingNew
<1>d. /\ \A d \in Devices : cursor[d] \in Nat
      /\ \A g \in Handlers : req[g].cursor \in Nat /\ resp[g].next \in Nat
    BY DEF TypeOK, ApiTypeOK, ClientTypeOK, Request, Response
<1>1. RequestsAdvance'
  <2>1. SyncSteps \cap SnapshotSteps = {} /\ "reply" \notin SnapshotSteps /\ "idle" \notin SyncSteps
    BY DEF SyncSteps, SnapshotSteps
  <2> QED BY <1>a, <2>1 DEF AckInv, RequestsAdvance
<1>2. WaitsForOwn'
  <2> SUFFICES ASSUME NEW d \in Devices, NEW g \in Handlers, waiting[d] = g
               PROVE  OwnRequest(d, g)'
    BY <1>b DEF WaitsForOwn
  <2>0. OwnRequest(d, g)
    BY DEF AckInv, WaitsForOwn
  <2>1. CASE g = h
    BY <1>a, <1>b, <2>0, <2>1 DEF OwnRequest, SyncSteps
  <2>2. CASE g # h
    <3>1. pc'[g] = pc[g] /\ req'[g] = req[g] /\ resp'[g] = resp[g]
      BY <1>a, <2>2
    <3>2. /\ ToldAtMost(d, req[g].cursor) => ToldAtMost(d, req[g].cursor)'
          /\ ToldAtMost(d, resp[g].next) => ToldAtMost(d, resp[g].next)'
      BY <1>c, <1>d, <3>1 DEF ToldAtMost
    <3> QED BY <1>b, <2>0, <3>1, <3>2 DEF OwnRequest
  <2> QED BY <2>1, <2>2
<1>3. \A d \in Devices : ~Unsettled(d)' => ToldAtMost(d, cursor[d])'
  <2>1. \A d \in Devices : Unsettled(d)' = Unsettled(d)
    BY <1>b DEF Unsettled
  <2>2. \A d \in Devices : ToldAtMost(d, cursor[d]) => ToldAtMost(d, cursor[d])'
    BY <1>b, <1>c, <1>d DEF ToldAtMost
  <2> QED BY <2>1, <2>2 DEF AckInv
<1> QED BY <1>1, <1>2, <1>3 DEF AckInv

\* The steps of a snapshot request: the watermark covers whatever the device has
\* reported before, also in requests that are still in flight.
LEMMA SnapshotAck ==
    ASSUME TypeOK, OrderInv, StoryInv, KeptInv, AckInv, NEW h \in Handlers, SnapshotNext(h)
    PROVE  AckInv'
<1>a. /\ req \in [Handlers -> Request] /\ resp \in [Handlers -> Response]
      /\ pc \in [Handlers -> {"idle", "reply"} \cup SyncSteps \cup SnapshotSteps]
      /\ devices \in [Devices -> Device] /\ LatestChangeCursor \in Nat
    BY LatestChangeCursorType DEF TypeOK, DatabaseTypeOK, ApiTypeOK, OrderInv
<1>b. UNCHANGED <<phase, cursor, after, waiting>>
    BY DEF SnapshotNext, clientVars
<1>c. pc[h] \in SnapshotSteps /\ req[h].entity # "none"
    BY DEF SnapshotNext, SnapshotStep, SnapshotWork, SnapshotUpsert, SnapshotWatermark,
           SnapshotPage, SnapshotFails, SnapshotSteps, AckInv, RequestsAdvance
<1>d. \A d \in Devices : devices'[d].ack = devices[d].ack
  <2>1. devices' = devices \/ devices' = UpsertDevice(req[h].device, now)
    BY DEF SnapshotNext, SnapshotStep, SnapshotWork, SnapshotUpsert, SnapshotWatermark,
           SnapshotPage, SnapshotFails, dbVars
  <2> QED BY <1>a, <2>1 DEF UpsertDevice, Device
<1>e. \E s \in SnapshotSteps \cup {"reply"} : pc' = [pc EXCEPT ![h] = s]
    BY DEF SnapshotNext, SnapshotStep, SnapshotWork, SnapshotUpsert, SnapshotWatermark,
           SnapshotPage, SnapshotFails, Respond, Goto, SnapshotSteps
<1>f. \A g \in Handlers \ {h} : pc'[g] = pc[g] /\ resp'[g] = resp[g] /\ req'[g] = req[g]
    BY <1>a DEF SnapshotNext, SnapshotStep, SnapshotWork, SnapshotUpsert, SnapshotWatermark,
           SnapshotPage, SnapshotFails, Respond, Goto
<1>g. /\ req'[h].entity = req[h].entity /\ req'[h].device = req[h].device
      /\ req'[h].after = req[h].after
      /\ pc[h] # "snapWatermark" => req'[h] = req[h]
      /\ pc[h] = "snapWatermark" => req' = req \/ req'[h].cursor = LatestChangeCursor
  <2>1. req' = req \/ (pc[h] = "snapWatermark" /\ req' = [req EXCEPT ![h].cursor = LatestChangeCursor])
    BY DEF SnapshotNext, SnapshotStep, SnapshotWork, SnapshotUpsert, SnapshotWatermark,
           SnapshotPage, SnapshotFails
  <2> QED BY <1>a, <2>1 DEF Request
<1>h. \A d \in Devices, k \in Nat : ToldAtMost(d, k) => ToldAtMost(d, k)'
  <2>1. \A g \in Handlers : req'[g] = req[g] \/ req'[g].entity # "none"
    BY <1>c, <1>f, <1>g
  <2> QED BY <1>d, <2>1, ToldNothingNew
<1>i. /\ \A d \in Devices : cursor[d] \in Nat /\ devices[d].ack \in Nat
      /\ \A g \in Handlers : req[g].cursor \in Nat /\ resp[g].next \in Nat
    BY <1>a DEF TypeOK, ClientTypeOK, Request, Response, Device
<1>1. RequestsAdvance'
  <2>1. pc'[h] \in SnapshotSteps \cup {"reply"}
    BY <1>a, <1>e
  <2>2. SyncSteps \cap (SnapshotSteps \cup {"reply"}) = {}
    BY DEF SyncSteps, SnapshotSteps
  <2> QED BY <1>c, <1>f, <1>g, <2>1, <2>2 DEF AckInv, RequestsAdvance
<1>2. WaitsForOwn'
  <2> SUFFICES ASSUME NEW d \in Devices, NEW g \in Handlers, waiting[d] = g
               PROVE  OwnRequest(d, g)'
    BY <1>b DEF WaitsForOwn
  <2>0. OwnRequest(d, g)
    BY DEF AckInv, WaitsForOwn
  <2>1. CASE g # h
    <3>1. pc'[g] = pc[g] /\ req'[g] = req[g] /\ resp'[g] = resp[g]
      BY <1>f, <2>1
    <3>2. /\ ToldAtMost(d, req[g].cursor) => ToldAtMost(d, req[g].cursor)'
          /\ ToldAtMost(d, resp[g].next) => ToldAtMost(d, resp[g].next)'
      BY <1>h, <1>i, <3>1 DEF ToldAtMost
    <3> QED BY <1>b, <2>0, <3>1, <3>2 DEF OwnRequest
  <2>2. CASE g = h
    <3>a. req'[h].device = d /\ req'[h].entity # "none" /\ req[h].device = d
      BY <1>c, <1>g, <2>0, <2>2 DEF OwnRequest
    <3>1. CASE SnapshotUpsert(h)
      <4>1. pc[h] = "snapUpsert" /\ req'[h] = req[h]
        BY <1>g, <3>1 DEF SnapshotUpsert
      <4>2. pc'[h] = "snapWatermark" \/ (pc'[h] = "snapPage" /\ ~IsFirstPage(req[h]))
        BY <1>a, <3>1 DEF SnapshotUpsert, Goto
      <4>3. ASSUME ~IsFirstPage(req[h]) PROVE ToldAtMost(d, req[h].cursor)'
        <5>1. req[h].cursor = cursor[d] /\ ~Unsettled(d)
          BY <1>c, <2>0, <2>2, <4>1, <4>3 DEF OwnRequest, Unsettled, IsFirstPage
        <5>2. ToldAtMost(d, cursor[d])
          BY <5>1 DEF AckInv
        <5> QED BY <1>h, <1>i, <4>1, <5>1, <5>2 DEF ToldAtMost
      <4> QED BY <2>2, <3>a, <4>1, <4>2, <4>3 DEF OwnRequest
    <3>2. CASE SnapshotWatermark(h)
      <4>1. req'[h].cursor = LatestChangeCursor /\ pc'[h] = "snapPage"
        BY <1>a, <3>2 DEF SnapshotWatermark, Goto, Request
      <4>2. ToldAtMost(d, LatestChangeCursor)
        <5>1. devices[d].ack <= LatestChangeCursor
          BY <1>i, WatermarkCovers DEF KeptInv, CursorsReached
        <5>2. \A x \in Handlers : req[x].cursor <= LatestChangeCursor
          BY <1>i, WatermarkCovers DEF KeptInv, CursorsReached
        <5> QED BY <5>1, <5>2 DEF ToldAtMost
      <4>3. ToldAtMost(d, req[h].cursor)'
        BY <1>a, <1>h, <4>1, <4>2 DEF ToldAtMost
      <4> QED BY <2>2, <3>a, <4>1, <4>3 DEF OwnRequest
    <3>3. CASE SnapshotPage(h)
      <4>1. PICK r \in SnapshotPages(req[h]) : Respond(h, r)
        BY <3>3 DEF SnapshotPage
      <4>2. r.next = req[h].cursor
        BY <1>a, SnapshotPagesType
      <4>3. resp'[h].next = req[h].cursor /\ pc'[h] = "reply" /\ pc[h] = "snapPage"
        BY <1>a, <3>3, <4>1, <4>2 DEF Respond, Goto, SnapshotPage
      <4>4. ToldAtMost(d, req[h].cursor)
        BY <1>c, <2>0, <2>2, <4>3 DEF OwnRequest
      <4>5. ToldAtMost(d, resp[h].next)'
        BY <1>h, <1>i, <4>3, <4>4 DEF ToldAtMost
      <4> QED BY <2>2, <3>a, <4>3, <4>5 DEF OwnRequest
    <3>4. CASE SnapshotFails(h)
      <4>1. resp'[h].status = "error" /\ pc'[h] = "reply"
        BY <1>a, <3>4 DEF SnapshotFails, Respond, Goto, Bare
      <4> QED BY <2>2, <3>a, <4>1 DEF OwnRequest
    <3> QED BY <3>1, <3>2, <3>3, <3>4 DEF SnapshotNext, SnapshotStep, SnapshotWork
  <2> QED BY <2>1, <2>2
<1>3. \A d \in Devices : ~Unsettled(d)' => ToldAtMost(d, cursor[d])'
  <2>1. \A d \in Devices : Unsettled(d)' = Unsettled(d)
    BY <1>b DEF Unsettled
  <2>2. \A d \in Devices : ToldAtMost(d, cursor[d]) => ToldAtMost(d, cursor[d])'
    BY <1>b, <1>h, <1>i DEF ToldAtMost
  <2> QED BY <2>1, <2>2 DEF AckInv
<1> QED BY <1>1, <1>2, <1>3 DEF AckInv

\* A handler that is free again tells nobody's progress.
LEMMA FinishAck ==
    ASSUME TypeOK, AckInv, NEW h \in Handlers, Finish(h),
           UNCHANGED devices,
           \A d \in Devices : waiting'[d] \in {waiting[d], NoHandler} /\ waiting'[d] # h
    PROVE  /\ RequestsAdvance'
           /\ \A d \in Devices, k \in Nat : ToldAtMost(d, k) => ToldAtMost(d, k)'
           /\ (\A d \in Devices : waiting'[d] # NoHandler => UNCHANGED <<cursor[d], phase[d], after[d]>>)
                 => WaitsForOwn'
<1>a. /\ req \in [Handlers -> Request] /\ resp \in [Handlers -> Response]
      /\ pc \in [Handlers -> {"idle", "reply"} \cup SyncSteps \cup SnapshotSteps]
      /\ \A g \in Handlers : req[g].cursor \in Nat /\ resp[g].next \in Nat
    BY DEF TypeOK, ApiTypeOK, Request, Response
<1>b. /\ pc'[h] = "idle" /\ req'[h] = NoRequest
      /\ \A g \in Handlers \ {h} : pc'[g] = pc[g] /\ resp'[g] = resp[g] /\ req'[g] = req[g]
    BY <1>a DEF Finish, Goto
<1>c. NoRequest.device \notin Devices
    BY ApiAssumption DEF NoRequest
<1>1. RequestsAdvance'
    BY <1>b DEF AckInv, RequestsAdvance, SyncSteps, SnapshotSteps
<1>2. \A d \in Devices, k \in Nat : ToldAtMost(d, k) => ToldAtMost(d, k)'
  <2>1. \A d \in Devices, g \in Handlers : req'[g] = req[g] \/ req'[g].device # d
    BY <1>b, <1>c
  <2> QED BY <2>1, ToldNothingNew
<1>3. ASSUME \A d \in Devices : waiting'[d] # NoHandler => UNCHANGED <<cursor[d], phase[d], after[d]>>
      PROVE  WaitsForOwn'
  <2> SUFFICES ASSUME NEW d \in Devices, NEW g \in Handlers, waiting'[d] = g
               PROVE  OwnRequest(d, g)'
    BY DEF WaitsForOwn
  <2>1. g # h /\ g # NoHandler /\ waiting[d] = g
    BY NullAssumption
  <2>2. OwnRequest(d, g)
    BY <2>1 DEF AckInv, WaitsForOwn
  <2>3. pc'[g] = pc[g] /\ req'[g] = req[g] /\ resp'[g] = resp[g]
    BY <1>b, <2>1
  <2>4. /\ ToldAtMost(d, req[g].cursor) => ToldAtMost(d, req[g].cursor)'
        /\ ToldAtMost(d, resp[g].next) => ToldAtMost(d, resp[g].next)'
    BY <1>2, <1>a, <2>3 DEF ToldAtMost
  <2>5. UNCHANGED <<cursor[d], phase[d], after[d]>>
    BY <1>3, <2>1
  <2> QED BY <2>2, <2>3, <2>4, <2>5 DEF OwnRequest
<1> QED BY <1>1, <1>2, <1>3

\* A device sends a request with its own cursor.
LEMMA SendAck ==
    ASSUME TypeOK, AckInv, NEW d \in Devices, NEW h \in Handlers, NEW r, NEW s,
           Send(d, h, r, s), UNCHANGED devices,
           r.device = d, r.cursor = cursor[d],
           \/ s = "received" /\ r.entity = "none" /\ phase[d] = "sync"
           \/ s = "snapUpsert" /\ r.entity = phase[d] /\ r.after = after[d] /\ phase[d] \in {"session", "solve"}
    PROVE  AckInv'
<1>a. /\ req \in [Handlers -> Request] /\ waiting \in [Devices -> Handlers \cup {NoHandler}]
      /\ pc \in [Handlers -> {"idle", "reply"} \cup SyncSteps \cup SnapshotSteps]
      /\ \A g \in Handlers : req[g].cursor \in Nat /\ resp[g].next \in Nat
      /\ \A x \in Devices : cursor[x] \in Nat
    BY DEF TypeOK, ApiTypeOK, ClientTypeOK, Request, Response
<1>b. /\ pc[h] = "idle" /\ pc'[h] = s /\ req'[h] = r /\ waiting'[d] = h
      /\ \A g \in Handlers \ {h} : pc'[g] = pc[g] /\ req'[g] = req[g]
      /\ \A x \in Devices \ {d} : waiting'[x] = waiting[x]
      /\ UNCHANGED <<resp, phase, cursor, after>>
    BY <1>a DEF Send, Goto
<1>c. \A x \in Devices \ {d}, k \in Nat : ToldAtMost(x, k) => ToldAtMost(x, k)'
  <2>1. \A x \in Devices \ {d}, g \in Handlers : req'[g] = req[g] \/ req'[g].device # x
    BY <1>b
  <2> QED BY <2>1, ToldNothingNew
<1>d. ToldAtMost(d, cursor[d]) => ToldAtMost(d, cursor[d])'
    BY <1>a, <1>b DEF ToldAtMost
<1>1. RequestsAdvance'
    BY <1>b DEF AckInv, RequestsAdvance, SyncSteps, SnapshotSteps
<1>2. WaitsForOwn'
  <2>1. OwnRequest(d, h)'
    BY <1>b DEF OwnRequest
  <2>2. ASSUME NEW x \in Devices \ {d}, NEW g \in Handlers, waiting[x] = g PROVE OwnRequest(x, g)'
    <3>1. OwnRequest(x, g)
      BY <2>2 DEF AckInv, WaitsForOwn
    <3>2. g # h
      BY <1>b, <3>1 DEF OwnRequest
    <3>3. pc'[g] = pc[g] /\ req'[g] = req[g] /\ resp'[g] = resp[g]
      BY <1>b, <3>2
    <3>4. /\ ToldAtMost(x, req[g].cursor) => ToldAtMost(x, req[g].cursor)'
          /\ ToldAtMost(x, resp[g].next) => ToldAtMost(x, resp[g].next)'
      BY <1>a, <1>c, <3>3 DEF ToldAtMost
    <3> QED BY <1>b, <3>1, <3>3, <3>4 DEF OwnRequest
  <2> QED BY <1>b, <2>1, <2>2 DEF WaitsForOwn
<1>3. \A x \in Devices : ~Unsettled(x)' => ToldAtMost(x, cursor[x])'
  <2>1. \A x \in Devices : Unsettled(x)' = Unsettled(x)
    BY <1>b DEF Unsettled
  <2>2. \A x \in Devices : ToldAtMost(x, cursor[x]) => ToldAtMost(x, cursor[x])'
    BY <1>a, <1>b, <1>c, <1>d DEF ToldAtMost
  <2> QED BY <2>1, <2>2 DEF AckInv
<1> QED BY <1>1, <1>2, <1>3 DEF AckInv

\* A device receives an answer: a sync moves its cursor forward only, a page
\* brings the watermark, and an expired cursor means that it starts again.
LEMMA ReceiveAck ==
    ASSUME TypeOK, AckInv, NEW d \in Devices, NEW h \in Handlers, Receive(d, h), UNCHANGED devices
    PROVE  AckInv'
<1>a. /\ waiting \in [Devices -> Handlers \cup {NoHandler}]
      /\ cursor \in [Devices -> Nat] /\ after \in [Devices -> Nat]
      /\ phase \in [Devices -> {"session", "solve", "sync"}]
      /\ \A g \in Handlers : req[g].cursor \in Nat /\ resp[g].next \in Nat
      /\ \A x \in Devices : devices[x].ack \in Nat
    BY DEF TypeOK, DatabaseTypeOK, ApiTypeOK, ClientTypeOK, Request, Response, Device
<1>b. Answered(d, h)
    BY DEF Receive, ReceiveSync, ReceiveExpired, ReceivePage, ReceiveError
<1>c. /\ Finish(h) /\ waiting[d] = h /\ pc[h] = "reply" /\ waiting'[d] = NoHandler
      /\ \A x \in Devices \ {d} : waiting'[x] = waiting[x]
    BY <1>a, <1>b DEF Answered
<1>d. OwnRequest(d, h)
    BY <1>c DEF AckInv, WaitsForOwn
<1>e. \A x \in Devices : waiting'[x] \in {waiting[x], NoHandler} /\ waiting'[x] # h
  <2>1. h # NoHandler
    BY NullAssumption
  <2>2. \A x \in Devices : waiting[x] = h => x = d
    BY <1>d DEF AckInv, WaitsForOwn, OwnRequest
  <2> QED BY <1>c, <2>1, <2>2
<1>f. \A x \in Devices \ {d} : UNCHANGED <<cursor[x], phase[x], after[x]>>
    BY <1>a DEF Receive, ReceiveSync, ReceiveExpired, ReceivePage, ReceiveError
<1>g. /\ RequestsAdvance'
      /\ \A x \in Devices, k \in Nat : ToldAtMost(x, k) => ToldAtMost(x, k)'
      /\ WaitsForOwn'
    BY <1>c, <1>e, <1>f, FinishAck
<1>1. \A x \in Devices \ {d} : ~Unsettled(x)' => ToldAtMost(x, cursor[x])'
  <2>1. \A x \in Devices \ {d} : Unsettled(x)' = Unsettled(x)
    BY <1>f DEF Unsettled
  <2>2. \A x \in Devices \ {d} : ToldAtMost(x, cursor[x]) => ToldAtMost(x, cursor[x])'
    BY <1>a, <1>f, <1>g DEF ToldAtMost
  <2> QED BY <2>1, <2>2 DEF AckInv
<1>2. ~Unsettled(d)' => ToldAtMost(d, cursor[d])'
  <2>1. CASE ReceiveSync(d, h)
    <3>1. cursor'[d] = resp[h].next /\ req[h].cursor <= resp[h].next
      BY <1>a, <1>c, <2>1 DEF ReceiveSync, AckInv, RequestsAdvance
    <3>2. req[h].cursor = cursor[d] /\ ~Unsettled(d)
      BY <1>d, <2>1 DEF ReceiveSync, OwnRequest, Unsettled
    <3>3. ToldAtMost(d, resp[h].next)
      BY <1>a, <3>1, <3>2 DEF AckInv, ToldAtMost
    <3> QED BY <1>a, <1>g, <3>1, <3>3 DEF ToldAtMost
  <2>2. CASE ReceiveExpired(d, h)
    BY <1>a, <2>2 DEF ReceiveExpired, Unsettled
  <2>3. CASE ReceivePage(d, h)
    <3>1. cursor'[d] = resp[h].next
      BY <1>a, <2>3 DEF ReceivePage
    <3>2. ToldAtMost(d, resp[h].next)
      BY <1>c, <1>d, <2>3 DEF ReceivePage, OwnRequest
    <3> QED BY <1>a, <1>g, <3>1, <3>2 DEF ToldAtMost
  <2>4. CASE ReceiveError(d, h)
    <3>1. UNCHANGED <<cursor, phase, after>>
      BY <2>4 DEF ReceiveError
    <3>2. Unsettled(d)' = Unsettled(d)
      BY <3>1 DEF Unsettled
    <3> QED BY <1>a, <1>g, <3>1, <3>2 DEF AckInv, ToldAtMost
  <2> QED BY <2>1, <2>2, <2>3, <2>4 DEF Receive
<1> QED BY <1>g, <1>1, <1>2 DEF AckInv

\* A step that touches neither requests, answers, cursors nor acknowledgements.
LEMMA AckQuiet ==
    ASSUME TypeOK, AckInv, UNCHANGED <<devices, pc, req, resp, phase, cursor, after>>,
           \A d \in Devices : waiting'[d] \in {waiting[d], NoHandler}
    PROVE  AckInv'
<1>1. \A d \in Devices, h \in Handlers : OwnRequest(d, h)' = OwnRequest(d, h)
    BY DEF OwnRequest, ToldAtMost
<1>2. WaitsForOwn'
    BY <1>1, NullAssumption DEF AckInv, WaitsForOwn
<1>3. RequestsAdvance'
    BY DEF AckInv, RequestsAdvance
<1>4. \A d \in Devices : ~Unsettled(d)' => ToldAtMost(d, cursor[d])'
    BY DEF AckInv, Unsettled, ToldAtMost
<1> QED BY <1>2, <1>3, <1>4 DEF AckInv

\* Every step keeps what the server believes behind what the device holds.
LEMMA NextAck ==
    ASSUME TypeOK, OrderInv, StoryInv, KeptInv, AckInv, [Next]_vars
    PROVE  AckInv'
<1>a. waiting \in [Devices -> Handlers \cup {NoHandler}] /\ cursor \in [Devices -> Nat]
    BY DEF TypeOK, ClientTypeOK
<1>1. ASSUME NEW h \in Handlers, SyncNext(h) PROVE AckInv'
    BY <1>1, SyncAck
<1>2. ASSUME NEW h \in Handlers, SnapshotNext(h) PROVE AckInv'
    BY <1>2, SnapshotAck
<1>3. ASSUME NEW h \in Handlers, DropNext(h) PROVE AckInv'
  <2>1. /\ Finish(h) /\ UNCHANGED <<devices, waiting, cursor, phase, after>>
        /\ \A d \in Devices : waiting'[d] # h
    BY <1>3 DEF DropNext, DropAnswer, dbVars, clientVars
  <2>2. /\ RequestsAdvance' /\ WaitsForOwn'
        /\ \A x \in Devices, k \in Nat : ToldAtMost(x, k) => ToldAtMost(x, k)'
    BY <2>1, FinishAck
  <2>3. \A d \in Devices : ~Unsettled(d)' => ToldAtMost(d, cursor[d])'
    <3>1. \A d \in Devices : Unsettled(d)' = Unsettled(d)
      BY <2>1 DEF Unsettled
    <3>2. \A d \in Devices : ToldAtMost(d, cursor[d]) => ToldAtMost(d, cursor[d])'
      BY <1>a, <2>1, <2>2 DEF ToldAtMost
    <3> QED BY <3>1, <3>2 DEF AckInv
  <2> QED BY <2>2, <2>3 DEF AckInv
<1>4. ASSUME NEW d \in Devices, ClientNext(d) PROVE AckInv'
  <2>1. UNCHANGED devices
    BY <1>4 DEF ClientNext, dbVars
  <2>2. ASSUME NEW m \in Mutations, Edit(d, m) PROVE AckInv'
    BY <2>1, <2>2, AckQuiet DEF Edit
  <2>3. ASSUME NEW h \in Handlers, NEW n \in 0..Len(outbox[d]), SendSync(d, h, n) PROVE AckInv'
    <3> DEFINE r == [NoRequest EXCEPT !.device = d, !.cursor = cursor[d],
                                      !.batch = SubSeq(outbox[d], 1, n)]
    <3>1. r.device = d /\ r.cursor = cursor[d] /\ r.entity = "none"
      BY DEF NoRequest
    <3>2. Send(d, h, r, "received") /\ phase[d] = "sync"
      BY <2>3, Zenon DEF SendSync
    <3> HIDE DEF r
    <3> QED BY <2>1, <3>1, <3>2, SendAck
  <2>4. ASSUME NEW h \in Handlers, SendSnapshot(d, h) PROVE AckInv'
    <3> DEFINE r == [NoRequest EXCEPT !.device = d, !.cursor = cursor[d],
                                      !.entity = phase[d], !.after = after[d]]
    <3>1. r.device = d /\ r.cursor = cursor[d] /\ r.entity = phase[d] /\ r.after = after[d]
      BY DEF NoRequest
    <3>2. Send(d, h, r, "snapUpsert")
      BY <2>4, Zenon DEF SendSnapshot
    <3>3. phase[d] \in {"session", "solve"}
      BY <2>4 DEF SendSnapshot, TypeOK, ClientTypeOK
    <3> HIDE DEF r
    <3> QED BY <2>1, <3>1, <3>2, <3>3, SendAck
  <2>5. ASSUME NEW h \in Handlers, Receive(d, h) PROVE AckInv'
    BY <2>1, <2>5, ReceiveAck
  <2>6. CASE GiveUp(d)
    BY <1>a, <2>1, <2>6, AckQuiet DEF GiveUp
  <2> QED BY <1>4, <2>2, <2>3, <2>4, <2>5, <2>6 DEF ClientNext, ClientStep
<1>5. CASE RetentionNext
  <2>1. UNCHANGED <<devices, pc, req, resp, phase, cursor, after, waiting>>
    BY <1>5 DEF RetentionNext, RetentionStep, StartRun, ReadMinCursor, PruneLog, PruneMutations,
                RetentionStatementFails, dbVars, clientVars
  <2> QED BY <2>1, AckQuiet
<1>6. CASE Environment \/ UNCHANGED vars
  <2>1. UNCHANGED <<devices, pc, req, resp, phase, cursor, after, waiting>>
    BY <1>6 DEF Environment, Tick, OtherUserAppends, vars, dbVars, apiVars, clientVars
  <2> QED BY <2>1, AckQuiet
<1> QED BY <1>1, <1>2, <1>3, <1>4, <1>5, <1>6 DEF Next

\* At first nobody has sent or acknowledged anything.
LEMMA InitAck == Init => AckInv
<1> SUFFICES ASSUME Init PROVE AckInv
    OBVIOUS
<1> USE DEF Init
<1>1. RequestsAdvance
    BY DEF RequestsAdvance, ApiInit, SyncSteps, SnapshotSteps
<1>2. WaitsForOwn
    BY NullAssumption DEF WaitsForOwn, ClientInit
<1>3. \A d \in Devices : ToldAtMost(d, cursor[d])
    BY ApiAssumption DEF ToldAtMost, DatabaseInit, ApiInit, ClientInit, NoRequest
<1> QED BY <1>1, <1>2, <1>3 DEF AckInv

-----------------------------------------------------------------------------
(* The theorems *)

\* All cursors point into the history, its newest change is retained, and what
\* the server was told of a device is behind that device, in every reachable
\* state (AckCursor in Sync, the watermark of Snapshot and PruneChangeLog).
THEOREM AcknowledgementsCorrect ==
    Spec => [](TypeOK /\ OrderInv /\ StoryInv /\ KeptInv /\ AckInv)
<1>1. Init => TypeOK /\ OrderInv /\ StoryInv /\ KeptInv /\ AckInv
    BY InitTypes, InitOrder, InitStory, InitKept, InitAck
<1>2. TypeOK /\ OrderInv /\ StoryInv /\ KeptInv /\ AckInv /\ [Next]_vars
         => (TypeOK /\ OrderInv /\ StoryInv /\ KeptInv /\ AckInv)'
    BY NextOrder, NextStory, NextKept, NextAck
<1> QED BY <1>1, <1>2, PTL DEF Spec

\* Retention never prunes the newest change, however stale its floor is when the
\* DELETE runs.
THEOREM RetentionKeepsNewest == Spec => []NewestChangeKept
<1>1. KeptInv => NewestChangeKept
    BY DEF KeptInv
<1> QED BY <1>1, AcknowledgementsCorrect, PTL

\* The acknowledged cursor of a device is never past the device's own cursor,
\* however late a request from before its last bootstrap is served.
THEOREM AcknowledgedIsApplied == Spec => []AckBehindClient
<1>1. AckInv => AckBehindClient
    BY DEF AckInv, AckBehindClient, Unsettled, ToldAtMost
<1> QED BY <1>1, AcknowledgementsCorrect, PTL

-----------------------------------------------------------------------------
(* Past states *)

\* TellsPast and AnswersPast with the mutations, the history, a transaction and
\* an answer as parameters, so that the facts below can be used across a step.
TellsPastOf(mut, m, o, changes) ==
    /\ o.status = "accepted" =>
          PastRow([version |-> o.version, deleted |-> mut[m].op = "delete",
                   data |-> IF mut[m].op = "delete" THEN mut[m].was.data ELSE m],
                  mut[m].entity, changes)
    /\ o.status = "conflict" /\ o.current.data # NoMutation =>
          PastRow(o.current, mut[m].entity, changes)

AnswerPastOf(mut, hist, t, r) ==
    /\ \A c \in t.changes : c.data # NoMutation
    /\ \A c \in r.changes : \E x \in hist \cup t.changes : c = BuildChange(x)
    /\ \A e \in Entities : PastRow(r.items[e], e, hist)
    /\ \A m \in Mutations : /\ TellsPastOf(mut, m, t.outcome[m], hist \cup t.changes)
                            /\ TellsPastOf(mut, m, r.outcome[m], hist \cup t.changes)

\* The two forms agree.
LEMMA PastForms ==
    /\ \A m, o, S : TellsPast(m, o, S) <=> TellsPastOf(mutation, m, o, S)
    /\ \A h \in Handlers :
          AnswerPastOf(mutation, history, tx[h], resp[h]) <=>
             AnswersPast(h) /\ \A c \in tx[h].changes : c.data # NoMutation
<1>1. \A m, o, S : TellsPast(m, o, S) <=> TellsPastOf(mutation, m, o, S)
    BY DEF TellsPast, TellsPastOf, AcceptedRow
<1> QED BY <1>1 DEF AnswersPast, AnswerPastOf

\* A past state stays one when changes are added.
LEMMA PastStays ==
    ASSUME NEW S, NEW T, S \subseteq T
    PROVE  /\ \A r, e : PastRow(r, e, S) => PastRow(r, e, T)
           /\ \A mut, m, o : TellsPastOf(mut, m, o, S) => TellsPastOf(mut, m, o, T)
<1>1. \A r, e : PastRow(r, e, S) => PastRow(r, e, T)
    BY DEF PastRow
<1> QED BY <1>1 DEF TellsPastOf

\* No outcome tells nothing.
LEMMA NothingTold ==
    \A mut, m, S : TellsPastOf(mut, m, NoOutcome, S)
  BY DEF TellsPastOf, NoOutcome

\* What is in an answer and a transaction stays a past state when the history
\* grows and other mutations are made.
LEMMA AnswerStaysPast ==
    ASSUME NEW mut, NEW mut2, NEW H, NEW H2, H \subseteq H2, NEW t, NEW r,
           \A m \in Mutations : \/ mut2[m] = mut[m]
                                \/ t.outcome[m] = NoOutcome /\ r.outcome[m] = NoOutcome,
           AnswerPastOf(mut, H, t, r)
    PROVE  AnswerPastOf(mut2, H2, t, r)
<1>1. H \cup t.changes \subseteq H2 \cup t.changes
    OBVIOUS
<1>2. \A m \in Mutations : /\ TellsPastOf(mut, m, t.outcome[m], H2 \cup t.changes)
                           /\ TellsPastOf(mut, m, r.outcome[m], H2 \cup t.changes)
    BY <1>1, PastStays DEF AnswerPastOf
<1>3. \A m \in Mutations : /\ TellsPastOf(mut2, m, t.outcome[m], H2 \cup t.changes)
                           /\ TellsPastOf(mut2, m, r.outcome[m], H2 \cup t.changes)
    BY <1>2, NothingTold DEF TellsPastOf
<1>4. \A e \in Entities : PastRow(r.items[e], e, H2)
    BY PastStays DEF AnswerPastOf
<1>5. \A c \in r.changes : \E x \in H2 \cup t.changes : c = BuildChange(x)
    BY <1>1 DEF AnswerPastOf
<1> QED BY <1>3, <1>4, <1>5 DEF AnswerPastOf

\* An answer without content tells nothing.
LEMMA BareIsPast ==
    ASSUME NEW mut, NEW H, NEW t, NEW s, \A c \in t.changes : c.data # NoMutation,
           \A m \in Mutations : TellsPastOf(mut, m, t.outcome[m], H \cup t.changes)
    PROVE  AnswerPastOf(mut, H, t, Bare(s))
<1>1. /\ Bare(s).changes = {} /\ \A m \in Mutations : Bare(s).outcome[m] = NoOutcome
      /\ \A e \in Entities : Bare(s).items[e].version = 0
    BY DEF Bare, NoOutcomes, NoItems, NoRow
<1>2. \A e \in Entities : PastRow(Bare(s).items[e], e, H)
    BY <1>1 DEF PastRow
<1> QED BY <1>1, <1>2, NothingTold DEF AnswerPastOf

\* A transaction that has written nothing, with an empty answer.
LEMMA EmptyIsPast ==
    \A mut, H, s : AnswerPastOf(mut, H, NoTx, Bare(s))
<1> TAKE mut, H, s
<1>1. NoTx.changes = {} /\ \A m \in Mutations : NoTx.outcome[m] = NoOutcome
    BY DEF NoTx, NoOutcomes
<1> QED BY <1>1, NothingTold, BareIsPast

\* PastInv after a step, from its parts.
LEMMA PastAfterwards ==
    ASSUME \A d \in Devices, e \in Entities : PastRow(replica'[d][e], e, history'),
           \A m \in Mutations : PastRow(mutation'[m].was, mutation'[m].entity, history'),
           \A p \in processed' : TellsPastOf(mutation', p.mutation, p.outcome, history'),
           \A c \in history' : c.data # NoMutation,
           \A h \in Handlers : AnswerPastOf(mutation', history', tx'[h], resp'[h])
    PROVE  PastInv'
<1>1. ReplicaIsPastState'
    BY DEF ReplicaIsPastState, PastRow
<1>2. \A p \in processed' : TellsPast(p.mutation, p.outcome, history)'
    BY DEF TellsPast, TellsPastOf, AcceptedRow
<1>3. \A h \in Handlers, m \in Mutations :
        /\ TellsPast(m, tx[h].outcome[m], history \cup tx[h].changes)'
        /\ TellsPast(m, resp[h].outcome[m], history \cup tx[h].changes)'
    BY DEF AnswerPastOf, TellsPast, TellsPastOf, AcceptedRow
<1>4. \A h \in Handlers : AnswersPast(h)' /\ \A c \in tx'[h].changes : c.data # NoMutation
    BY <1>3 DEF AnswerPastOf, AnswersPast
<1> QED BY <1>1, <1>2, <1>4 DEF PastInv

-----------------------------------------------------------------------------
(* What an outcome tells *)

\* The row that a transaction sees was left by a change it sees; so was the row
\* its mutation is based on, and at the same version they are the same.
LEMMA RowIsPast ==
    ASSUME TypeOK, StoryInv, PastInv, NEW h \in Handlers, NEW m \in Mutations,
           RowInTx(h, mutation[m].entity).version > 0
    PROVE  \E c \in history \cup tx[h].changes :
              /\ c.entity = mutation[m].entity /\ c.data # NoMutation
              /\ Leaves(c, RowInTx(h, mutation[m].entity))
              /\ mutation[m].was.version = c.version => Shows(mutation[m].was, c)
<1> DEFINE e == mutation[m].entity
           S == history \cup tx[h].changes
<1>1. e \in Entities /\ RowsInTx(h)[e] = RowInTx(h, e)
    BY DEF TypeOK, ApiTypeOK, Mutation, RowsInTx
<1>2. Explains(S, RowsInTx(h))
    BY DEF StoryInv, RowsExplained
<1>3. PICK c \in S : c.entity = e /\ Leaves(c, RowInTx(h, e))
    BY <1>1, <1>2 DEF Explains
<1>4. c.data # NoMutation
    BY DEF PastInv
<1>5. c.version > 0
    BY <1>2 DEF Explains
<1>6. ASSUME mutation[m].was.version = c.version PROVE Shows(mutation[m].was, c)
  <2>1. PICK x \in history : x.entity = e /\ Shows(mutation[m].was, x)
    BY <1>5, <1>6 DEF PastInv, PastRow
  <2>2. x.version = c.version
    BY <1>6, <2>1 DEF Shows
  <2>3. x \in S /\ x = c
    BY <1>2, <1>3, <2>1, <2>2 DEF Explains
  <2> QED BY <2>1, <2>3
<1> QED BY <1>3, <1>4, <1>6

\* A mutation that leaves its row alone is answered with a state of that row.
LEMMA RefusalTellsPast ==
    ASSUME TypeOK, StoryInv, PastInv, NEW h \in Handlers, NEW m \in Mutations,
           ~Writes(m, RowInTx(h, mutation[m].entity))
    PROVE  TellsPastOf(mutation, m, Verdict(mutation[m], RowInTx(h, mutation[m].entity)),
                       history \cup tx[h].changes)
<1> DEFINE e == mutation[m].entity
           S == history \cup tx[h].changes
           row == RowInTx(h, e)
           o == Verdict(mutation[m], row)
<1>1. /\ mutation[m] \in Mutation /\ mutation[m].op \in {"upsert", "delete"}
      /\ mutation[m].was.version \in Nat /\ mutation[m].valid \in BOOLEAN /\ e \in Entities
    BY DEF TypeOK, ApiTypeOK, Mutation, Row
<1>2. row \in Row /\ row.version \in Nat /\ row.deleted \in BOOLEAN
    BY <1>1, RowInTxType DEF Row
<1>3. \/ o = Rejected
      \/ o = Conflict(row) /\ row.version > 0
      \/ /\ o = Accepted(row.version) /\ row.version > 0 /\ mutation[m].was.version = row.version
         /\ mutation[m].op = "delete" /\ row.deleted
    BY <1>1, <1>2 DEF Verdict, Writes
<1> HIDE DEF row, o
<1>4. CASE o = Rejected
    BY <1>4 DEF o, row, Rejected, TellsPastOf
<1>5. ASSUME row.version > 0
      PROVE  \E c \in S : /\ c.entity = e /\ Leaves(c, row)
                          /\ mutation[m].was.version = c.version => Shows(mutation[m].was, c)
    BY <1>5, RowIsPast DEF row
<1>6. CASE o = Conflict(row) /\ row.version > 0
  <2>1. o.status = "conflict" /\ (o.current = row \/ o.current.data = NoMutation)
    BY <1>2, <1>6 DEF Conflict, Row
  <2>2. PastRow(row, e, S)
    BY <1>5, <1>6 DEF PastRow, Leaves, Shows
  <2> QED BY <2>1, <2>2 DEF TellsPastOf, o, row
<1>7. CASE /\ o = Accepted(row.version) /\ row.version > 0 /\ mutation[m].was.version = row.version
           /\ mutation[m].op = "delete" /\ row.deleted
  <2>1. PICK c \in S : /\ c.entity = e /\ Leaves(c, row)
                       /\ mutation[m].was.version = c.version => Shows(mutation[m].was, c)
    BY <1>5, <1>7
  <2>2. c.version = row.version /\ c.op = "delete" /\ Shows(mutation[m].was, c)
    BY <1>7, <2>1 DEF Leaves
  <2> DEFINE r == [version |-> o.version, deleted |-> mutation[m].op = "delete",
                   data |-> IF mutation[m].op = "delete" THEN mutation[m].was.data ELSE m]
  <2>3. /\ o.status = "accepted" /\ o.version = row.version
        /\ r.version = row.version /\ r.deleted = TRUE /\ r.data = mutation[m].was.data
    BY <1>7 DEF Accepted
  <2> HIDE DEF r
  <2>4. Shows(r, c)
    BY <2>2, <2>3 DEF Shows
  <2>5. PastRow(r, e, S)
    BY <2>1, <2>4 DEF PastRow
  <2> QED BY <2>3, <2>5 DEF TellsPastOf, o, row, r
<1> QED BY <1>3, <1>4, <1>6, <1>7

\* The data of a change: an upsert's own, or what the deleted row had.
LEMMA ApplyData ==
    ASSUME TypeOK, NEW h \in Handlers, NEW m \in Mutations, ApplyMutation(h, m),
           NEW c \in Change, NEW new \in Row, AppliedAs(h, m, c, new)
    PROVE  c.data = IF mutation[m].op = "delete" THEN RowInTx(h, mutation[m].entity).data ELSE m
<1> DEFINE e == mutation[m].entity
           row == RowInTx(h, e)
           w == Written(m, row)
           x == [id |-> seq + 1, entity |-> e, op |-> mutation[m].op, version |-> w.version,
                 data |-> w.data, by |-> m, at |-> tx[h].began]
           t == [tx[h] EXCEPT !.rows[e] = w, !.changes = @ \cup {x},
                              !.outcome[m] = Accepted(w.version), !.recorded = @ \cup {m}]
<1>1. tx' = [tx EXCEPT ![h] = t]
    BY Zenon DEF ApplyMutation
<1>2. tx \in [Handlers -> Tx] /\ tx[h] \in Tx /\ e \in Entities
    BY DEF TypeOK, TxTypeOK, ApiTypeOK, Mutation
<1>3. w.data = IF mutation[m].op = "delete" THEN row.data ELSE m
    BY DEF Written
<1> HIDE DEF w
<1>4. t.rows = [tx[h].rows EXCEPT ![e] = w]
    BY <1>2 DEF Tx
<1> HIDE DEF t
<1>5. tx'[h].rows = [tx[h].rows EXCEPT ![e] = w] /\ tx[h].rows \in [Entities -> Row]
    BY <1>1, <1>2, <1>4 DEF Tx
<1>6. new = w
  <2>1. tx'[h].rows[e] = w
    BY <1>2, <1>5
  <2>2. tx'[h].rows[e] = new
    BY <1>2, <1>5 DEF AppliedAs
  <2> QED BY <2>1, <2>2
<1> QED BY <1>3, <1>6 DEF AppliedAs, Leaves

\* A mutation that is applied is answered with the state that its change leaves.
LEMMA ApplyTellsPast ==
    ASSUME TypeOK, StoryInv, PastInv, NEW h \in Handlers, NEW m \in Mutations, ApplyMutation(h, m),
           NEW c \in Change, NEW new \in Row, AppliedAs(h, m, c, new)
    PROVE  /\ c.data # NoMutation
           /\ TellsPastOf(mutation, m, tx'[h].outcome[m], history \cup tx'[h].changes)
<1> DEFINE e == mutation[m].entity
           row == RowInTx(h, e)
           r == [version |-> c.version, deleted |-> mutation[m].op = "delete",
                 data |-> IF mutation[m].op = "delete" THEN mutation[m].was.data ELSE m]
<1>1. /\ mutation[m] \in Mutation /\ mutation[m].op \in {"upsert", "delete"}
      /\ mutation[m].was.version \in Nat /\ e \in Entities
    BY DEF TypeOK, ApiTypeOK, Mutation, Row
<1>2. row \in Row /\ row.version \in Nat
    BY <1>1, RowInTxType DEF Row
<1>3. /\ mutation[m].was.version = row.version
      /\ mutation[m].op = "delete" => mutation[m].was.version > 0
    BY <1>1, <1>2, WritesNextVersion DEF ApplyMutation
<1>4. /\ c \in tx'[h].changes /\ c.entity = e /\ c.op = mutation[m].op
      /\ tx'[h].outcome[m] = Accepted(c.version)
  <2>1. tx[h].outcome \in [Mutations -> Outcome \cup {NoOutcome}]
    BY DEF TypeOK, TxTypeOK, Tx
  <2> QED BY <2>1 DEF AppliedAs
<1>5. c.data = IF mutation[m].op = "delete" THEN row.data ELSE m
    BY ApplyData
<1>6. ASSUME mutation[m].op = "delete" PROVE Shows(r, c) /\ c.data # NoMutation
  <2>1. row.version > 0
    BY <1>3, <1>6
  <2>2. PICK x \in history \cup tx[h].changes :
            /\ x.entity = e /\ x.data # NoMutation /\ Leaves(x, row)
            /\ mutation[m].was.version = x.version => Shows(mutation[m].was, x)
    BY <2>1, RowIsPast
  <2>3. c.data = x.data /\ c.data # NoMutation
    BY <1>5, <1>6, <2>2 DEF Leaves
  <2>4. x.version = row.version /\ Shows(mutation[m].was, x)
    BY <1>3, <2>2 DEF Leaves
  <2> HIDE DEF row
  <2>5. Shows(r, c)
    <3>1. r.version = c.version /\ r.deleted = TRUE /\ r.data = mutation[m].was.data
      BY <1>6
    <3> HIDE DEF r
    <3>2. mutation[m].was.data = x.data \/ ProtoVersion >= 2
      BY <2>4 DEF Shows
    <3> QED BY <1>4, <1>6, <2>3, <3>1, <3>2 DEF Shows
  <2> QED BY <2>3, <2>5
<1>7. ASSUME mutation[m].op # "delete" PROVE Shows(r, c) /\ c.data # NoMutation
  <2>1. c.data = m /\ m # NoMutation
    BY <1>5, <1>7, NullAssumption
  <2>2. r.version = c.version /\ r.deleted = FALSE /\ r.data = m
    BY <1>7
  <2> HIDE DEF r
  <2>3. Shows(r, c)
    BY <1>4, <1>7, <2>1, <2>2 DEF Shows
  <2> QED BY <2>1, <2>3
<1>8. Shows(r, c) /\ c.data # NoMutation
    BY <1>6, <1>7
<1>9. PastRow(r, e, history \cup tx'[h].changes)
    BY <1>4, <1>8 DEF PastRow
<1>10. tx'[h].outcome[m].status = "accepted" /\ tx'[h].outcome[m].version = c.version
    BY <1>4 DEF Accepted
<1> QED BY <1>8, <1>9, <1>10 DEF TellsPastOf

-----------------------------------------------------------------------------
(* What a device learns *)

\* A page of changes has all visible changes between its two cursors, and no
\* others.
LEMMA PageIsExact ==
    ASSUME NEW visible, NEW k, NEW o, NEW r \in SyncResponses(visible, k, o)
    PROVE  /\ r.outcome = o /\ r.items = NoItems
           /\ r.changes = {BuildChange(c) : c \in {x \in visible : x.id > k /\ x.id <= r.next}}
<1> DEFINE found == ListChanges(visible, k)
           ids == {c.id : c \in found}
           ends == IF found = {} THEN {k} ELSE PageEnds(ids, ChangeLimit)
<1>1. PICK end \in ends :
        r = [Bare("ok") EXCEPT !.changes = {BuildChange(c) : c \in {x \in found : x.id <= end}},
                               !.next = end,
                               !.more = \E x \in found : x.id > end,
                               !.outcome = o]
    BY Zenon DEF SyncResponses
<1>2. \A n : {x \in found : x.id <= n} = {x \in visible : x.id > k /\ x.id <= n}
    BY DEF ListChanges
<1> HIDE DEF found, ids, ends
<1>3. /\ r.changes = {BuildChange(c) : c \in {x \in found : x.id <= end}} /\ r.next = end
      /\ r.outcome = o /\ r.items = NoItems
    BY <1>1 DEF Bare
<1> QED BY <1>2, <1>3

\* Protocol 2 takes only the data from a change.
LEMMA BuildKeeps ==
    ASSUME NEW c \in Change
    PROVE  /\ BuildChange(c).entity = c.entity /\ BuildChange(c).id = c.id
           /\ BuildChange(c).version = c.version /\ BuildChange(c).op = c.op
           /\ BuildChange(c) = c \/ (c.op = "delete" /\ ProtoVersion >= 2)
  BY DEF BuildChange, Change

\* A device that takes outcomes of past states for its rows holds past states,
\* none older than before.
LEMMA OutcomesTeachPast ==
    ASSUME TypeOK, NEW batch \in Seq(Mutations), NEW old \in [Entities -> Row],
           NEW outcome \in [Mutations -> Outcome \cup {NoOutcome}],
           NEW e \in Entities, NEW S, PastRow(old[e], e, S),
           \A m \in Mutations : TellsPastOf(mutation, m, outcome[m], S)
    PROVE  /\ PastRow(RowsByOutcomes(batch, outcome, old)[e], e, S)
           /\ old[e].version <= RowsByOutcomes(batch, outcome, old)[e].version
<1> DEFINE mine == {i \in DOMAIN batch : mutation[batch[i]].entity = e}
           told == {RowByOutcome(batch[i], outcome[batch[i]], old[e]) : i \in mine}
           newest == {row \in told : \A x \in told : x.version <= row.version}
           good(row) == PastRow(row, e, S) /\ old[e].version <= row.version
<1>a. old[e].version \in Nat
    BY DEF Row
<1>b. good(old[e])
    BY <1>a
<1>c. ASSUME NEW row \in Row, PastRow(row, e, S) PROVE good(Newer(row, old[e]))
    BY <1>a, <1>c DEF Newer, Row
<1>1. ASSUME NEW m \in Mutations, mutation[m].entity = e
      PROVE  good(RowByOutcome(m, outcome[m], old[e]))
  <2>1. /\ mutation[m] \in Mutation /\ mutation[m].was \in Row /\ NoRow \in Row
        /\ mutation[m].was.data \in Data
    BY DEF TypeOK, ApiTypeOK, Mutation, NoRow, Row, Data
  <2>2. outcome[m].version \in Nat /\ outcome[m].current \in Row
    BY <2>1 DEF Outcome, NoOutcome
  <2>3. AcceptedRow(m, outcome[m]) \in Row
    BY <2>1, <2>2 DEF AcceptedRow, Row, Data
  <2>4. CASE outcome[m].status = "accepted"
    <3>1. PastRow(AcceptedRow(m, outcome[m]), e, S)
      BY <1>1, <2>4 DEF TellsPastOf, AcceptedRow
    <3>2. RowByOutcome(m, outcome[m], old[e]) = Newer(AcceptedRow(m, outcome[m]), old[e])
      BY <2>4 DEF RowByOutcome
    <3> QED BY <1>c, <2>3, <3>1, <3>2
  <2>5. CASE outcome[m].status = "conflict" /\ outcome[m].current.data # NoMutation
    <3>1. PastRow(outcome[m].current, e, S)
      BY <1>1, <2>5 DEF TellsPastOf
    <3>2. RowByOutcome(m, outcome[m], old[e]) = Newer(outcome[m].current, old[e])
      BY <2>5 DEF RowByOutcome
    <3> QED BY <1>c, <2>2, <3>1, <3>2
  <2>6. CASE /\ outcome[m].status # "accepted"
             /\ ~(outcome[m].status = "conflict" /\ outcome[m].current.data # NoMutation)
    <3>1. RowByOutcome(m, outcome[m], old[e]) = old[e]
      BY <2>6 DEF RowByOutcome
    <3> QED BY <1>b, <3>1
  <2> QED BY <2>4, <2>5, <2>6
<1>2. \A row \in told : good(row)
    BY <1>1
<1>3. RowsByOutcomes(batch, outcome, old)[e] =
        IF newest = {} THEN old[e] ELSE CHOOSE row \in newest : TRUE
    BY DEF RowsByOutcomes
<1>4. \A row \in newest : good(row)
    BY <1>2
<1> HIDE DEF newest, good
<1>5. good(RowsByOutcomes(batch, outcome, old)[e])
    BY <1>b, <1>3, <1>4
<1> QED BY <1>5 DEF good

\* Among the changes of an entity the id decides: a later one has a later version.
LEMMA OrderOfChanges ==
    ASSUME NEW S \in SUBSET Change, NEW table, Explains(S, table),
           NEW x \in S, NEW y \in S, x.entity = y.entity
    PROVE  /\ x.id = y.id => x = y
           /\ x.id <= y.id => x.version <= y.version
<1>1. x.version \in Nat /\ y.version \in Nat /\ x.id \in Nat /\ y.id \in Nat
    BY DEF Change
<1>2. /\ x.version = y.version => x = y
      /\ x.version < y.version => x.id < y.id
      /\ y.version < x.version => y.id < x.id
    BY DEF Explains
<1> QED BY <1>1, <1>2

\* A device that applies a page of past changes holds past states, none older
\* than before.
LEMMA ChangesTeachPast ==
    ASSUME NEW S \in SUBSET Change, NEW table, Explains(S, table), \A x \in S : x.data # NoMutation,
           NEW changes \in SUBSET Change, \A c \in changes : \E x \in S : c = BuildChange(x),
           NEW old \in [Entities -> Row], NEW e \in Entities, PastRow(old[e], e, S)
    PROVE  /\ PastRow(RowsByChanges(changes, old)[e], e, S)
           /\ old[e].version <= RowsByChanges(changes, old)[e].version
<1> DEFINE last == LastOf({c \in changes : c.entity = e})
           full == LastOf({c \in changes : c.entity = e /\ c.data # NoMutation})
           change == CHOOSE c \in last : TRUE
           source == CHOOSE c \in full : TRUE
           new == [version |-> change.version, deleted |-> change.op = "delete",
                   data |-> IF full = {} THEN old[e].data ELSE source.data]
<1>1. RowsByChanges(changes, old)[e] = IF last = {} THEN old[e] ELSE Newer(new, old[e])
    BY DEF RowsByChanges
<1>2. /\ \A c \in last : c \in changes /\ c.entity = e
      /\ \A c \in last : \A x \in changes : x.entity = e => x.id <= c.id
      /\ \A c \in full : c \in changes /\ c.entity = e /\ c.data # NoMutation
      /\ \A c \in full : \A x \in changes : x.entity = e /\ x.data # NoMutation => x.id <= c.id
      /\ \A c \in last : c.data # NoMutation => c \in full
    BY DEF LastOf
<1> HIDE DEF last, full
<1>3. last # {} => change \in last
    OBVIOUS
<1>4. full # {} => source \in full
    OBVIOUS
<1> HIDE DEF change, source
<1>5. ASSUME last # {} PROVE PastRow(new, e, S)
  <2>1. change \in changes /\ change.entity = e
    BY <1>2, <1>3, <1>5
  <2>2. PICK x \in S : change = BuildChange(x)
    BY <2>1
  <2>3. /\ x \in Change /\ change.entity = x.entity /\ change.id = x.id
        /\ change.version = x.version /\ change.op = x.op
        /\ change = x \/ (x.op = "delete" /\ ProtoVersion >= 2)
    BY <2>2, BuildKeeps
  <2>4. new.version = x.version /\ new.deleted = (x.op = "delete")
    BY <2>3
  <2>5. new.data = x.data \/ (x.op = "delete" /\ ProtoVersion >= 2)
    <3> SUFFICES ASSUME ~(x.op = "delete" /\ ProtoVersion >= 2) PROVE new.data = x.data
      OBVIOUS
    <3>1. change = x /\ x.data # NoMutation
      BY <2>3
    <3>2. change \in full /\ source \in full
      BY <1>2, <1>3, <1>4, <1>5, <3>1
    <3>3. source \in changes /\ source.entity = e /\ source.id \in Nat /\ change.id \in Nat
      BY <1>2, <2>1, <3>2 DEF Change
    <3>4. source.id <= change.id /\ change.id <= source.id
      BY <1>2, <1>3, <1>5, <2>1, <3>1, <3>2, <3>3
    <3>5. source.id = change.id
      BY <3>3, <3>4
    <3>6. PICK y \in S : source = BuildChange(y)
      BY <3>3
    <3>7. y \in Change /\ y.entity = e /\ y.id = source.id
      BY <3>3, <3>6, BuildKeeps
    <3>8. y = x
      BY <2>1, <2>3, <3>5, <3>7, OrderOfChanges
    <3>9. source = change
      BY <2>2, <3>6, <3>8
    <3> QED BY <3>1, <3>2, <3>9
  <2> HIDE DEF new
  <2>6. Shows(new, x)
    BY <2>4, <2>5 DEF Shows
  <2> QED BY <2>1, <2>3, <2>6 DEF PastRow
<1>6. last # {} => new.version \in Nat
    BY <1>2, <1>3 DEF Change
<1>7. old[e].version \in Nat
    BY DEF Row
<1> HIDE DEF new
<1> QED BY <1>1, <1>5, <1>6, <1>7 DEF Newer

\* No change of the page is newer than what the device holds afterwards.
LEMMA PageIsHeld ==
    ASSUME NEW S \in SUBSET Change, NEW table, Explains(S, table),
           NEW changes \in SUBSET Change, \A c \in changes : \E x \in S : c = BuildChange(x),
           NEW n \in Nat, \A x \in S : x.id <= n,
           NEW old \in [Entities -> Row], NEW y \in S, BuildChange(y) \in changes
    PROVE  y.version <= RowsByChanges(changes, old)[y.entity].version
<1> DEFINE e == y.entity
           mine == {c \in changes : c.entity = e}
           ids == {c.id : c \in mine}
           last == LastOf(mine)
           full == LastOf({c \in changes : c.entity = e /\ c.data # NoMutation})
           change == CHOOSE c \in last : TRUE
           source == CHOOSE c \in full : TRUE
           new == [version |-> change.version, deleted |-> change.op = "delete",
                   data |-> IF full = {} THEN old[e].data ELSE source.data]
<1>0. e \in Entities /\ y \in Change /\ old[e].version \in Nat
    BY DEF Change, Row
<1>1. RowsByChanges(changes, old)[e] = IF last = {} THEN old[e] ELSE Newer(new, old[e])
    BY <1>0 DEF RowsByChanges
<1>2. BuildChange(y) \in mine /\ BuildChange(y).id = y.id
    BY <1>0, BuildKeeps
<1>3. \A c \in mine : \E x \in S : /\ c = BuildChange(x) /\ x.entity = e /\ x.id = c.id
                                   /\ x.version = c.version
  <2> SUFFICES ASSUME NEW c \in mine
               PROVE  \E x \in S : /\ c = BuildChange(x) /\ x.entity = e /\ x.id = c.id
                                   /\ x.version = c.version
    OBVIOUS
  <2>1. PICK x \in S : c = BuildChange(x)
    OBVIOUS
  <2> QED BY <2>1, BuildKeeps
<1>4. ids \subseteq Nat /\ ids # {} /\ \A k \in ids : k <= n
  <2>1. ids \subseteq Nat
    BY DEF Change
  <2> QED BY <1>2, <1>3, <2>1
<1>5. Max(ids) \in ids /\ \A k \in ids : k <= Max(ids)
    BY <1>4, MaxOfBoundedNaturals
<1>6. PICK c \in mine : c.id = Max(ids)
    BY <1>5
<1>7. c \in last
    BY <1>5, <1>6 DEF LastOf
<1>8. \A k \in last : k \in mine /\ \A x \in mine : x.id <= k.id
    BY DEF LastOf
<1> HIDE DEF last, full, mine
<1>9. change \in last
    BY <1>7
<1>10. y.version <= change.version /\ change.version \in Nat
  <2>1. PICK x \in S : x.entity = e /\ x.id = change.id /\ x.version = change.version
    BY <1>3, <1>8, <1>9
  <2>2. y.id <= x.id
    BY <1>2, <1>8, <1>9, <2>1
  <2>3. x.version \in Nat
    BY DEF Change
  <2> QED BY <2>1, <2>2, <2>3, OrderOfChanges
<1> HIDE DEF change, source
<1>11. new.version = change.version
    OBVIOUS
<1> HIDE DEF new
<1>12. y.version \in Nat
    BY DEF Change
<1> QED BY <1>0, <1>1, <1>9, <1>10, <1>11, <1>12 DEF Newer

-----------------------------------------------------------------------------
(* PastInv, step by step *)

\* What PastInv says of the answer and the transaction of a handler.
LEMMA AnswersArePast ==
    ASSUME PastInv
    PROVE  \A h \in Handlers : AnswerPastOf(mutation, history, tx[h], resp[h])
  BY PastForms DEF PastInv

\* A step of a sync request puts only past states into its transaction, its answer
\* and the record.
LEMMA SyncPast ==
    ASSUME TypeOK, TypeOK', StoryInv, PastInv, NEW h \in Handlers, OwnStep(h), SyncKind(h)
    PROVE  PastInv'
<1>a. /\ tx \in [Handlers -> Tx] /\ log \subseteq history /\ history \subseteq Change
      /\ UNCHANGED <<mutation, replica, req>>
    BY DEF TypeOK, TxTypeOK, DatabaseTypeOK, StoryInv, LogIsRecentHistory, OwnStep
<1>b. \A g \in Handlers : AnswerPastOf(mutation, history, tx[g], resp[g])
    BY AnswersArePast
<1>c. ASSUME history \subseteq history', \A c \in history' : c.data # NoMutation,
             \A p \in processed' : TellsPastOf(mutation, p.mutation, p.outcome, history'),
             AnswerPastOf(mutation, history', tx'[h], resp'[h])
      PROVE  PastInv'
  <2>1. \A d \in Devices, e \in Entities : PastRow(replica'[d][e], e, history')
    <3>1. \A d \in Devices, e \in Entities : PastRow(replica[d][e], e, history)
      BY DEF PastInv, ReplicaIsPastState, PastRow
    <3> QED BY <1>a, <1>c, <3>1, PastStays
  <2>2. \A m \in Mutations : PastRow(mutation'[m].was, mutation'[m].entity, history')
    BY <1>a, <1>c, PastStays DEF PastInv
  <2>3. \A g \in Handlers : AnswerPastOf(mutation', history', tx'[g], resp'[g])
    <3>1. ASSUME NEW g \in Handlers \ {h} PROVE AnswerPastOf(mutation, history', tx'[g], resp'[g])
      <4>1. tx'[g] = tx[g] /\ resp'[g] = resp[g]
        BY DEF OwnStep
      <4>2. AnswerPastOf(mutation, history', tx[g], resp[g])
        BY <1>b, <1>c, AnswerStaysPast
      <4> QED BY <4>1, <4>2
    <3> QED BY <1>a, <1>c, <3>1
  <2> QED BY <1>a, <1>c, <2>1, <2>2, <2>3, PastAfterwards
<1>d. ASSUME UNCHANGED <<history, processed>>,
             AnswerPastOf(mutation, history, tx'[h], resp'[h])
      PROVE  PastInv'
  <2>1. \A p \in processed : TellsPastOf(mutation, p.mutation, p.outcome, history)
    BY PastForms DEF PastInv
  <2> QED BY <1>c, <1>d, <2>1 DEF PastInv
<1> DEFINE S == history \cup tx[h].changes
<1>1. CASE Commit(h)
  <2>1. /\ history' = S /\ tx' = [tx EXCEPT ![h] = NoTx] /\ resp' = resp
        /\ processed' = processed \cup
              {[device |-> req[h].device, mutation |-> m, outcome |-> tx[h].outcome[m],
                at |-> tx[h].began] : m \in tx[h].recorded}
    BY <1>1 DEF Commit, EndTx
  <2>2. tx'[h] = NoTx /\ NoTx.changes = {} /\ \A m \in Mutations : NoTx.outcome[m] = NoOutcome
    BY <1>a, <2>1 DEF NoTx, NoOutcomes
  <2>3. \A c \in history' : c.data # NoMutation
    BY <2>1 DEF PastInv
  <2>4. /\ \A m \in Mutations : /\ TellsPastOf(mutation, m, tx[h].outcome[m], S)
                                /\ TellsPastOf(mutation, m, resp[h].outcome[m], S)
        /\ \A c \in resp[h].changes : \E x \in S : c = BuildChange(x)
        /\ \A e \in Entities : PastRow(resp[h].items[e], e, history)
    BY <1>b DEF AnswerPastOf
  <2>5. \A p \in processed' : TellsPastOf(mutation, p.mutation, p.outcome, S)
    <3>1. \A p \in processed : TellsPastOf(mutation, p.mutation, p.outcome, history)
      BY PastForms DEF PastInv
    <3>2. \A p \in processed : TellsPastOf(mutation, p.mutation, p.outcome, S)
      BY <3>1, PastStays
    <3>3. tx[h].recorded \subseteq Mutations
      BY <1>a DEF Tx
    <3>4. ASSUME NEW p \in processed' \ processed
          PROVE  TellsPastOf(mutation, p.mutation, p.outcome, S)
      <4>1. PICK m \in tx[h].recorded : p.mutation = m /\ p.outcome = tx[h].outcome[m]
        BY <2>1, <3>4
      <4> QED BY <2>4, <3>3, <4>1
    <3> QED BY <3>2, <3>4
  <2>6. S \cup NoTx.changes = S /\ history \subseteq S
    BY <2>2
  <2>7. \A e \in Entities : PastRow(resp[h].items[e], e, S)
    BY <2>4, <2>6, PastStays
  <2>8. AnswerPastOf(mutation, S, NoTx, resp[h])
    BY <2>2, <2>4, <2>6, <2>7, NothingTold DEF AnswerPastOf
  <2> QED BY <1>c, <2>1, <2>2, <2>3, <2>5, <2>6, <2>8
<1>2. CASE ~Commit(h)
  <2>0. UNCHANGED <<history, processed>>
    BY <1>2 DEF OwnStep
  <2>1. SUFFICES AnswerPastOf(mutation, history, tx'[h], resp'[h])
    BY <1>d, <2>0
  <2>t. /\ \A c \in tx[h].changes : c.data # NoMutation
        /\ \A c \in resp[h].changes : \E x \in S : c = BuildChange(x)
        /\ \A e \in Entities : PastRow(resp[h].items[e], e, history)
        /\ \A m \in Mutations : /\ TellsPastOf(mutation, m, tx[h].outcome[m], S)
                                /\ TellsPastOf(mutation, m, resp[h].outcome[m], S)
    BY <1>b DEF AnswerPastOf
  <2>2. CASE TxRests(h)
    <3>0. tx'[h].changes = tx[h].changes /\ tx'[h].outcome = tx[h].outcome
      BY <2>2 DEF TxRests
    <3>1. CASE resp'[h] = resp[h]
      BY <1>b, <3>0, <3>1 DEF AnswerPastOf
    <3>2. ASSUME NEW s, resp'[h] = Bare(s) PROVE AnswerPastOf(mutation, history, tx'[h], resp'[h])
      BY <2>t, <3>0, <3>2, BareIsPast
    <3>3. ASSUME NEW visible, visible \subseteq S, NEW o,
                 \A m \in Mutations : TellsPastOf(mutation, m, o[m], S),
                 resp'[h] \in SyncResponses(visible, req[h].cursor, o)
          PROVE  AnswerPastOf(mutation, history, tx'[h], resp'[h])
      <4>1. /\ resp'[h].outcome = o /\ resp'[h].items = NoItems
            /\ \A c \in resp'[h].changes : \E x \in visible : c = BuildChange(x)
        BY <3>3, PageIsExact
      <4>2. \A e \in Entities : PastRow(resp'[h].items[e], e, history)
        BY <4>1 DEF PastRow, NoItems, NoRow
      <4> QED BY <2>t, <3>0, <3>3, <4>1, <4>2 DEF AnswerPastOf
    <3>4. CASE \E r \in SyncResponses(log, req[h].cursor, NoOutcomes) : resp'[h] = r
      <4>1. log \subseteq S /\ \A m \in Mutations : TellsPastOf(mutation, m, NoOutcomes[m], S)
        BY <1>a, NothingTold DEF NoOutcomes
      <4> QED BY <3>3, <3>4, <4>1
    <3>5. CASE \E r \in SyncResponses(log \cup tx[h].changes, req[h].cursor, tx[h].outcome) :
                  resp'[h] = r
      <4>1. log \cup tx[h].changes \subseteq S
        BY <1>a
      <4> QED BY <2>t, <3>3, <3>5, <4>1
    <3> QED BY <1>2, <3>1, <3>2, <3>4, <3>5 DEF SyncKind, Breaks
  <2>3. ASSUME NEW m \in Mutations, NEW o, tx'[h].changes = tx[h].changes,
               tx'[h].outcome = [tx[h].outcome EXCEPT ![m] = o],
               resp'[h] = resp[h], TellsPastOf(mutation, m, o, S)
        PROVE  AnswerPastOf(mutation, history, tx'[h], resp'[h])
    <3>1. tx[h].outcome \in [Mutations -> Outcome \cup {NoOutcome}]
      BY <1>a DEF Tx
    <3>2. \A y \in Mutations : TellsPastOf(mutation, y, tx'[h].outcome[y], S)
      BY <2>t, <2>3, <3>1
    <3> QED BY <2>t, <2>3, <3>2 DEF AnswerPastOf
  <2>4. ASSUME NEW m \in Mutations, ReplayMutation(h, m), resp'[h] = resp[h]
        PROVE  AnswerPastOf(mutation, history, tx'[h], resp'[h])
    <3>1. PICK p \in GetProcessedMutation(req[h].device, m) : tx' = [tx EXCEPT ![h].outcome[m] = p.outcome]
      BY <2>4 DEF ReplayMutation
    <3>2. p \in processed /\ p.mutation = m
      BY DEF GetProcessedMutation
    <3>3. TellsPastOf(mutation, m, p.outcome, history)
      BY <3>2, PastForms DEF PastInv
    <3>4. TellsPastOf(mutation, m, p.outcome, S)
      BY <3>3, PastStays
    <3>5. /\ tx'[h].changes = tx[h].changes
          /\ tx'[h].outcome = [tx[h].outcome EXCEPT ![m] = p.outcome]
      BY <1>a, <3>1 DEF Tx
    <3> QED BY <2>3, <2>4, <3>4, <3>5
  <2>5. ASSUME NEW m \in Mutations, RefuseMutation(h, m), resp'[h] = resp[h]
        PROVE  AnswerPastOf(mutation, history, tx'[h], resp'[h])
    <3> DEFINE o == Verdict(mutation[m], RowInTx(h, mutation[m].entity))
    <3>1. tx' = [tx EXCEPT ![h].outcome[m] = o, ![h].recorded = @ \cup {m}]
      BY <2>5 DEF RefuseMutation
    <3>2. TellsPastOf(mutation, m, o, S)
      BY <2>5, RefusalTellsPast DEF RefuseMutation
    <3> HIDE DEF o
    <3>3. /\ tx'[h].changes = tx[h].changes
          /\ tx'[h].outcome = [tx[h].outcome EXCEPT ![m] = o]
      BY <1>a, <3>1 DEF Tx
    <3> QED BY <2>3, <2>5, <3>2, <3>3
  <2>6. ASSUME NEW m \in Mutations, ApplyMutation(h, m), resp'[h] = resp[h]
        PROVE  AnswerPastOf(mutation, history, tx'[h], resp'[h])
    <3>1. PICK c \in Change, new \in Row : AppliedAs(h, m, c, new)
      BY <2>6, ApplyEffect
    <3>2. /\ c.data # NoMutation
          /\ TellsPastOf(mutation, m, tx'[h].outcome[m], history \cup tx'[h].changes)
      BY <2>6, <3>1, ApplyTellsPast
    <3>3. /\ tx'[h].changes = tx[h].changes \cup {c}
          /\ tx'[h].outcome = [tx[h].outcome EXCEPT ![m] = Accepted(c.version)]
      BY <3>1 DEF AppliedAs
    <3>4. S \subseteq history \cup tx'[h].changes
      BY <3>3
    <3>5. \A y \in Mutations : /\ TellsPastOf(mutation, y, tx[h].outcome[y], history \cup tx'[h].changes)
                               /\ TellsPastOf(mutation, y, resp[h].outcome[y], history \cup tx'[h].changes)
      BY <2>t, <3>4, PastStays
    <3>6. tx[h].outcome \in [Mutations -> Outcome \cup {NoOutcome}]
      BY <1>a DEF Tx
    <3>7. \A y \in Mutations \ {m} : tx'[h].outcome[y] = tx[h].outcome[y]
      BY <3>3, <3>6
    <3>8. \A y \in Mutations : TellsPastOf(mutation, y, tx'[h].outcome[y], history \cup tx'[h].changes)
      BY <3>2, <3>5, <3>7
    <3>9. \A x \in tx'[h].changes : x.data # NoMutation
      BY <2>t, <3>2, <3>3
    <3>10. \A x \in resp[h].changes : \E y \in history \cup tx'[h].changes : x = BuildChange(y)
      BY <2>t, <3>4
    <3> QED BY <2>t, <2>6, <3>5, <3>8, <3>9, <3>10 DEF AnswerPastOf
  <2>7. CASE Breaks(h)
    BY <2>7, EmptyIsPast DEF Breaks
  <2> QED BY <1>2, <2>2, <2>4, <2>5, <2>6, <2>7 DEF SyncKind
<1> QED BY <1>1, <1>2

\* A device takes past states only, and its user edits what it holds.
LEMMA ClientPast ==
    ASSUME TypeOK, TypeOK', StoryInv, OutcomeInv, PastInv, NEW d \in Devices, ClientNext(d)
    PROVE  PastInv'
<1>a. /\ replica \in [Devices -> [Entities -> Row]] /\ mutation \in [Mutations -> Mutation]
      /\ resp \in [Handlers -> Response] /\ history \in SUBSET Change
      /\ UNCHANGED <<history, processed, tx>>
    BY DEF TypeOK, DatabaseTypeOK, ApiTypeOK, ClientTypeOK, ClientNext, dbVars, tableVars
<1>b. /\ \A x \in Devices, e \in Entities : PastRow(replica[x][e], e, history)
      /\ \A m \in Mutations : PastRow(mutation[m].was, mutation[m].entity, history)
      /\ \A p \in processed : TellsPastOf(mutation, p.mutation, p.outcome, history)
      /\ \A c \in history : c.data # NoMutation
      /\ \A g \in Handlers : AnswerPastOf(mutation, history, tx[g], resp[g])
    BY AnswersArePast, PastForms DEF PastInv, ReplicaIsPastState, PastRow
<1>c. ASSUME mutation' = mutation, NEW new, replica' = [replica EXCEPT ![d] = new],
             \A e \in Entities : PastRow(new[e], e, history),
             \A g \in Handlers : resp'[g] = resp[g] \/ \E s : resp'[g] = Bare(s)
      PROVE  PastInv'
  <2>1. \A x \in Devices, e \in Entities : PastRow(replica'[x][e], e, history)
    BY <1>a, <1>b, <1>c
  <2>2. ASSUME NEW g \in Handlers PROVE AnswerPastOf(mutation, history, tx[g], resp'[g])
    <3>1. ASSUME NEW s, resp'[g] = Bare(s) PROVE AnswerPastOf(mutation, history, tx[g], resp'[g])
      <4>1. AnswerPastOf(mutation, history, tx[g], resp[g])
        BY <1>b
      <4>2. /\ \A c \in tx[g].changes : c.data # NoMutation
            /\ \A m \in Mutations :
                  TellsPastOf(mutation, m, tx[g].outcome[m], history \cup tx[g].changes)
        BY <4>1 DEF AnswerPastOf
      <4>3. AnswerPastOf(mutation, history, tx[g], Bare(s))
        BY <4>2, BareIsPast
      <4> QED BY <3>1, <4>3
    <3> QED BY <1>b, <1>c, <3>1
  <2> QED BY <1>a, <1>b, <1>c, <2>1, <2>2, PastAfterwards
<1>d. ASSUME UNCHANGED <<mutation, replica, resp>> PROVE PastInv'
    BY <1>a, <1>b, <1>d, PastAfterwards
<1>e. ASSUME NEW h \in Handlers, Answered(d, h)
      PROVE  \A g \in Handlers : resp'[g] = resp[g] \/ \E s : resp'[g] = Bare(s)
    BY <1>a, <1>e DEF Answered, Finish
<1>f. ASSUME NEW h \in Handlers, pc[h] = "reply"
      PROVE  /\ Explains(history, rows)
             /\ \A m \in Mutations : TellsPastOf(mutation, m, resp[h].outcome[m], history)
             /\ \A c \in resp[h].changes : \E x \in history : c = BuildChange(x)
             /\ \A e \in Entities : PastRow(resp[h].items[e], e, history)
  <2>1. tx[h].changes = {} /\ history \cup tx[h].changes = history
    BY <1>f DEF StoryInv, PendingIsNew
  <2> QED BY <1>b, <2>1 DEF AnswerPastOf, StoryInv, RowsExplained
<1>1. ASSUME NEW m \in Mutations, Edit(d, m) PROVE PastInv'
  <2>1. PICK x \in Edits :
          mutation' = [mutation EXCEPT ![m] =
             [made |-> TRUE, entity |-> x.entity, op |-> x.op, was |-> replica[d][x.entity],
              session |-> x.session, valid |-> x.valid]]
    BY <1>1 DEF Edit
  <2>2. x.entity \in Entities
    BY ClientAssumption
  <2>3. mutation'[m].entity = x.entity /\ mutation'[m].was = replica[d][x.entity]
    BY <1>a, <2>1
  <2>4. \A y \in Mutations \ {m} : mutation'[y] = mutation[y]
    BY <1>a, <2>1
  <2>5. \A y \in Mutations : PastRow(mutation'[y].was, mutation'[y].entity, history)
    BY <1>b, <2>2, <2>3, <2>4
  <2>6. ~mutation[m].made /\ replica' = replica /\ resp' = resp
    BY <1>1 DEF Edit
  <2>7. \A g \in Handlers : tx[g].outcome[m] = NoOutcome /\ resp[g].outcome[m] = NoOutcome
    BY <2>6 DEF OutcomeInv, OutcomesTrue, Truthful
  <2>8. \A g \in Handlers : AnswerPastOf(mutation', history, tx[g], resp[g])
    <3> TAKE g \in Handlers
    <3>1. AnswerPastOf(mutation, history, tx[g], resp[g])
      BY <1>b
    <3>2. \A y \in Mutations : \/ mutation'[y] = mutation[y]
                               \/ tx[g].outcome[y] = NoOutcome /\ resp[g].outcome[y] = NoOutcome
      BY <2>4, <2>7
    <3> QED BY <3>1, <3>2, AnswerStaysPast
  <2>9. \A p \in processed : p.mutation # m /\ p.mutation \in Mutations
    <3>1. \A p \in processed : p.outcome \in Outcome /\ p.mutation \in Mutations
      BY DEF TypeOK, DatabaseTypeOK, Processed
    <3>2. NoOutcome \notin Outcome
      BY DEF NoOutcome, Outcome
    <3>3. \A p \in processed : mutation[p.mutation].made
      BY <3>1, <3>2 DEF OutcomeInv, OutcomesTrue, Truthful
    <3> QED BY <2>6, <3>1, <3>3
  <2>10. \A p \in processed : TellsPastOf(mutation', p.mutation, p.outcome, history)
    BY <1>b, <2>4, <2>9 DEF TellsPastOf
  <2> QED BY <1>a, <1>b, <2>5, <2>6, <2>8, <2>10, PastAfterwards
<1>2. ASSUME NEW h \in Handlers, NEW r, NEW s, Send(d, h, r, s) PROVE PastInv'
    BY <1>2, <1>d DEF Send
<1>3. ASSUME NEW h \in Handlers, ReceiveSync(d, h) PROVE PastInv'
  <2>1. Answered(d, h) /\ mutation' = mutation /\ pc[h] = "reply"
    BY <1>3 DEF ReceiveSync, Answered
  <2> DEFINE told == RowsByOutcomes(req[h].batch, resp[h].outcome, replica[d])
             new == RowsByChanges(resp[h].changes, told)
  <2>2. replica' = [replica EXCEPT ![d] = new]
    BY <1>3 DEF ReceiveSync
  <2>3. /\ req[h].batch \in Seq(Mutations) /\ resp[h].changes \in SUBSET Change
        /\ resp[h].outcome \in [Mutations -> Outcome \cup {NoOutcome}]
        /\ replica[d] \in [Entities -> Row]
    BY DEF TypeOK, ApiTypeOK, ClientTypeOK, Request, Response
  <2>4. told \in [Entities -> Row]
    BY <2>3, RowsByOutcomesType
  <2>5. \A e \in Entities : PastRow(told[e], e, history)
    BY <1>b, <1>f, <2>1, <2>3, OutcomesTeachPast
  <2> HIDE DEF told
  <2>6. \A e \in Entities : PastRow(new[e], e, history)
    BY <1>a, <1>b, <1>f, <2>1, <2>3, <2>4, <2>5, ChangesTeachPast
  <2> HIDE DEF new
  <2> QED BY <1>c, <1>e, <2>1, <2>2, <2>6
<1>4. ASSUME NEW h \in Handlers, ReceiveExpired(d, h) PROVE PastInv'
  <2>1. /\ Answered(d, h) /\ mutation' = mutation
        /\ replica' = [replica EXCEPT ![d] = NoItems]
    BY <1>4 DEF ReceiveExpired
  <2>2. \A e \in Entities : PastRow(NoItems[e], e, history)
    BY DEF PastRow, NoItems, NoRow
  <2> QED BY <1>c, <1>e, <2>1, <2>2
<1>5. ASSUME NEW h \in Handlers, ReceivePage(d, h) PROVE PastInv'
  <2> DEFINE new == [e \in Entities |-> Newer(resp[h].items[e], replica[d][e])]
  <2>1. Answered(d, h) /\ mutation' = mutation /\ pc[h] = "reply"
    BY <1>5 DEF ReceivePage, Answered
  <2>2. replica' = [replica EXCEPT ![d] = new]
    BY <1>5 DEF ReceivePage
  <2>3. \A e \in Entities : PastRow(new[e], e, history)
    BY <1>b, <1>f, <2>1 DEF Newer
  <2> HIDE DEF new
  <2> QED BY <1>c, <1>e, <2>1, <2>2, <2>3
<1>6. ASSUME NEW h \in Handlers, ReceiveError(d, h) PROVE PastInv'
  <2>1. Answered(d, h) /\ mutation' = mutation /\ replica' = [replica EXCEPT ![d] = replica[d]]
    BY <1>6, <1>a DEF ReceiveError
  <2> QED BY <1>b, <1>c, <1>e, <2>1
<1>7. CASE GiveUp(d)
    BY <1>7, <1>d DEF GiveUp
<1> QED BY <1>1, <1>2, <1>3, <1>4, <1>5, <1>6, <1>7
        DEF ClientNext, ClientStep, SendSync, SendSnapshot, Receive

\* A step that changes no table, transaction or replica, and answers with nothing
\* but past rows.
LEMMA PastByAnswers ==
    ASSUME PastInv, UNCHANGED <<history, mutation, replica, tx>>, processed' \subseteq processed,
           \A g \in Handlers :
              \/ resp'[g] = resp[g]
              \/ /\ resp'[g].changes = {} /\ resp'[g].outcome = NoOutcomes
                 /\ \A e \in Entities : PastRow(resp'[g].items[e], e, history)
    PROVE  PastInv'
<1>1. \A g \in Handlers : AnswerPastOf(mutation, history, tx[g], resp'[g])
  <2> TAKE g \in Handlers
  <2>1. AnswerPastOf(mutation, history, tx[g], resp[g])
    BY AnswersArePast
  <2>2. CASE resp'[g] = resp[g]
    BY <2>1, <2>2
  <2>3. CASE /\ resp'[g].changes = {} /\ resp'[g].outcome = NoOutcomes
             /\ \A e \in Entities : PastRow(resp'[g].items[e], e, history)
    <3>1. \A m \in Mutations : resp'[g].outcome[m] = NoOutcome
      BY <2>3 DEF NoOutcomes
    <3> QED BY <2>1, <2>3, <3>1, NothingTold DEF AnswerPastOf
  <2> QED BY <2>2, <2>3
<1>2. \A d \in Devices, e \in Entities : PastRow(replica[d][e], e, history)
    BY DEF PastInv, ReplicaIsPastState, PastRow
<1>3. \A p \in processed : TellsPastOf(mutation, p.mutation, p.outcome, history)
    BY PastForms DEF PastInv
<1>4. \A m \in Mutations : PastRow(mutation'[m].was, mutation'[m].entity, history')
    BY DEF PastInv
<1> QED BY <1>1, <1>2, <1>3, <1>4, PastAfterwards DEF PastInv

\* Every step leaves the devices with past states, and with answers that tell past
\* states.
LEMMA NextPast ==
    ASSUME TypeOK, TypeOK', StoryInv, OutcomeInv, PastInv, [Next]_vars
    PROVE  PastInv'
<1>a. resp \in [Handlers -> Response] /\ req \in [Handlers -> Request]
    BY DEF TypeOK, ApiTypeOK
<1>b. \A s : /\ Bare(s).changes = {} /\ Bare(s).outcome = NoOutcomes
             /\ \A e \in Entities : PastRow(Bare(s).items[e], e, history)
    BY DEF Bare, NoItems, NoRow, PastRow
<1>1. ASSUME NEW h \in Handlers, SyncNext(h) PROVE PastInv'
    BY <1>1, SyncOutcomeKinds, SyncPast
<1>2. ASSUME NEW h \in Handlers, SnapshotNext(h) PROVE PastInv'
  <2>1. UNCHANGED <<history, mutation, replica, tx, processed>>
    BY <1>2 DEF SnapshotNext, SnapshotStep, SnapshotWork, SnapshotUpsert, SnapshotWatermark,
                SnapshotPage, SnapshotFails, dbVars, tableVars, clientVars
  <2>2. CASE SnapshotPage(h)
    <3>1. PICK r \in SnapshotPages(req[h]) : resp' = [resp EXCEPT ![h] = r]
      BY <2>2 DEF SnapshotPage, Respond
    <3>2. /\ r.outcome = NoOutcomes /\ r.changes = {}
          /\ \A e \in Entities : r.items[e] \in {rows[e], NoRow}
      BY <1>a, SnapshotContent
    <3>3. \A e \in Entities : PastRow(r.items[e], e, history)
      <4>1. \A e \in Entities : PastRow(rows[e], e, history)
        BY DEF StoryInv, RowsExplained, Explains, Leaves, PastRow, Shows
      <4>2. \A e \in Entities : PastRow(NoRow, e, history)
        BY DEF PastRow, NoRow
      <4> QED BY <3>2, <4>1, <4>2
    <3>4. resp'[h] = r /\ \A g \in Handlers \ {h} : resp'[g] = resp[g]
      BY <1>a, <3>1
    <3> QED BY <2>1, <3>2, <3>3, <3>4, PastByAnswers
  <2>3. CASE SnapshotFails(h)
    <3>1. resp'[h] = Bare("error") /\ \A g \in Handlers \ {h} : resp'[g] = resp[g]
      BY <1>a, <2>3 DEF SnapshotFails, Respond
    <3> QED BY <1>b, <2>1, <3>1, PastByAnswers
  <2>4. CASE resp' = resp
    BY <2>1, <2>4, PastByAnswers
  <2> QED BY <1>2, <2>2, <2>3, <2>4
          DEF SnapshotNext, SnapshotStep, SnapshotWork, SnapshotUpsert, SnapshotWatermark
<1>3. ASSUME NEW h \in Handlers, DropNext(h) PROVE PastInv'
  <2>1. UNCHANGED <<history, mutation, replica, tx, processed>>
    BY <1>3 DEF DropNext, DropAnswer, dbVars, tableVars, clientVars
  <2>2. resp'[h] = Bare("ok") /\ \A g \in Handlers \ {h} : resp'[g] = resp[g]
    BY <1>a, <1>3 DEF DropNext, DropAnswer, Finish
  <2> QED BY <1>b, <2>1, <2>2, PastByAnswers
<1>4. ASSUME NEW d \in Devices, ClientNext(d) PROVE PastInv'
    BY <1>4, ClientPast
<1>5. CASE RetentionNext \/ Environment \/ UNCHANGED vars
  <2>1. UNCHANGED <<history, mutation, replica, tx, resp>>
    BY <1>5 DEF RetentionNext, RetentionStep, StartRun, ReadMinCursor, PruneLog, PruneMutations,
                RetentionStatementFails, Environment, Tick, OtherUserAppends, vars, dbVars,
                tableVars, apiVars, clientVars
  <2>2. processed' \subseteq processed
    BY <1>5 DEF RetentionNext, RetentionStep, StartRun, ReadMinCursor, PruneLog, PruneMutations,
                RetentionStatementFails, PruneProcessedMutations, Environment, Tick,
                OtherUserAppends, vars, dbVars, tableVars
  <2> QED BY <2>1, <2>2, PastByAnswers
<1> QED BY <1>1, <1>2, <1>3, <1>4, <1>5 DEF Next

\* At first nobody holds or has been told anything.
LEMMA InitPast == Init => PastInv
<1> SUFFICES ASSUME Init PROVE PastInv
    OBVIOUS
<1>1. \A g \in Handlers : tx[g] = NoTx /\ resp[g] = Bare("ok")
    BY DEF Init, TxInit, ApiInit
<1>2. \A g \in Handlers : AnswerPastOf(mutation, history, tx[g], resp[g])
    BY <1>1, EmptyIsPast
<1>3. \A g \in Handlers : AnswersPast(g) /\ \A c \in tx[g].changes : c.data # NoMutation
    BY <1>2, PastForms
<1>4. \A d \in Devices, e \in Entities : replica[d][e].version = 0
    BY DEF Init, ClientInit, NoItems, NoRow
<1>5. \A m \in Mutations : mutation[m].was.version = 0
    BY DEF Init, ApiInit, Unmade, NoRow
<1> QED BY <1>3, <1>4, <1>5 DEF PastInv, ReplicaIsPastState, PastRow, Init, DatabaseInit

-----------------------------------------------------------------------------
(* CatchUpInv *)

\* A later cursor has less ahead of it.
LEMMA KeptFurther ==
    ASSUME TypeOK, NEW k \in Nat, NEW n \in Nat, k <= n, KeptAfter(k)
    PROVE  KeptAfter(n)
<1>1. ret.min \in Nat /\ \A c \in history : c.id \in Nat
    BY DEF TypeOK, DatabaseTypeOK, RetentionTypeOK, Change
<1> QED BY <1>1 DEF KeptAfter

\* A device that is at the start of a bootstrap has passed nothing.
LEMMA NothingPassed == Passed("session", 0) = {}
  BY EntityAssumption DEF Passed

\* A handler's answer to d after a step: the same, or another full page of changes.
AnswerFollows(h) ==
    /\ req'[h] = req[h]
    /\ \/ UNCHANGED <<pc[h], resp[h]>> /\ tx'[h].changes \subseteq tx[h].changes
       \/ /\ req[h].entity = "none"
          /\ pc'[h] \in {"commit", "ack", "reply"} /\ resp'[h].status = "ok" => FullPage(h)'

\* What a step must leave alone for device d to remain caught up: its own state,
\* changes past its acknowledged cursor, and the answer that it waits for; newly
\* committed changes are past all that.
LEMMA StaysCaughtUp ==
    ASSUME TypeOK, AckInv, NEW d \in Devices, CatchesUp(d),
           UNCHANGED <<phase[d], after[d], cursor[d], replica[d]>>,
           d \in ActiveAt(devices', now' - Window),
           \A k \in Nat : devices[d].ack <= k /\ KeptAfter(k) => KeptAfter(k)',
           \A c \in history' \ history : cursor[d] < c.id,
           \A h \in Handlers : waiting'[d] = h =>
              /\ waiting[d] = h /\ AnswerFollows(h)
              /\ \A c \in history' \ history : resp[h].next < c.id \/ c \in tx[h].changes,
           \A h \in Handlers : req[h].entity # "none" =>
              \A c \in history' \ history : resp[h].next < c.id,
           history' \subseteq Change
    PROVE  CatchesUp(d)'
<1>a. /\ cursor[d] \in Nat /\ \A c \in history' : c.id \in Nat
      /\ \A h \in Handlers : req[h].cursor \in Nat /\ resp[h].next \in Nat
    BY DEF TypeOK, ApiTypeOK, ClientTypeOK, Request, Response, Change
<1>b. Unsettled(d)' = Unsettled(d)
    BY DEF Unsettled
<1>1. Unsettled(d)' \/ KeptAfter(cursor[d])'
  <2>1. CASE Unsettled(d)
    BY <1>b, <2>1
  <2>2. CASE ~Unsettled(d)
    <3>1. devices[d].ack <= cursor[d] /\ KeptAfter(cursor[d])
      BY <2>2 DEF AckInv, ToldAtMost, CatchesUp
    <3> QED BY <1>a, <3>1 DEF KeptAfter
  <2> QED BY <2>1, <2>2
<1>2. HoldsUpTo(cursor[d], Passed(phase[d], after[d]), replica[d])'
  <2>1. HoldsUpTo(cursor[d], Passed(phase[d], after[d]), replica[d])
    BY DEF CatchesUp
  <2>2. \A c \in history' : c.id <= cursor[d] => c \in history
    BY <1>a
  <2> QED BY <2>1, <2>2 DEF HoldsUpTo, Passed
<1>3. ASSUME NEW h \in Handlers, waiting'[d] = h, req'[h].entity # "none"
      PROVE  PageFits(d, h)'
  <2>1. /\ waiting[d] = h /\ req'[h] = req[h] /\ pc'[h] = pc[h] /\ resp'[h] = resp[h]
        /\ req[h].entity # "none"
    BY <1>3 DEF AnswerFollows
  <2>2. PageFits(d, h) /\ OwnRequest(d, h)
    BY <2>1 DEF CatchesUp, AckInv, WaitsForOwn
  <2>3. ASSUME pc[h] = "snapPage" PROVE KeptAfter(req[h].cursor)'
    <3>1. devices[d].ack <= req[h].cursor /\ KeptAfter(req[h].cursor)
      BY <2>1, <2>2, <2>3 DEF OwnRequest, ToldAtMost, PageFits
    <3> QED BY <1>a, <2>1, <3>1 DEF KeptAfter
  <2>4. ASSUME pc[h] = "reply", resp[h].status = "ok"
        PROVE  /\ KeptAfter(resp[h].next)'
               /\ HoldsUpTo(resp[h].next,
                            Passed(resp[h].entity, resp[h].after) \ Passed(phase[d], after[d]),
                            resp[h].items)'
    <3>1. /\ devices[d].ack <= resp[h].next /\ KeptAfter(resp[h].next)
          /\ HoldsUpTo(resp[h].next,
                       Passed(resp[h].entity, resp[h].after) \ Passed(phase[d], after[d]),
                       resp[h].items)
      BY <2>1, <2>2, <2>4 DEF OwnRequest, ToldAtMost, PageFits
    <3>2. KeptAfter(resp[h].next)'
      BY <1>a, <2>1, <3>1 DEF KeptAfter
    <3>3. \A c \in history' : c.id <= resp[h].next => c \in history
      BY <1>a, <2>1
    <3>4. HoldsUpTo(resp[h].next,
                    Passed(resp[h].entity, resp[h].after) \ Passed(phase[d], after[d]),
                    resp[h].items)'
      BY <2>1, <3>1, <3>3 DEF HoldsUpTo, Passed
    <3> QED BY <3>2, <3>4
  <2> QED BY <1>b, <2>1, <2>2, <2>3, <2>4 DEF PageFits
<1>4. ASSUME NEW h \in Handlers, waiting'[d] = h, req'[h].entity = "none",
             pc'[h] \in {"commit", "ack", "reply"}, resp'[h].status = "ok"
      PROVE  FullPage(h)'
  <2>1. waiting[d] = h /\ AnswerFollows(h) /\ req'[h] = req[h]
    BY <1>4 DEF AnswerFollows
  <2>2. CASE UNCHANGED <<pc[h], resp[h]>> /\ tx'[h].changes \subseteq tx[h].changes
    <3>1. FullPage(h)
      BY <1>4, <2>1, <2>2 DEF CatchesUp
    <3>2. \A c \in history' \cup tx'[h].changes :
             c \in history \cup tx[h].changes \/ ~(c.id <= resp[h].next)
      BY <1>4, <1>a, <2>2
    <3> QED BY <2>1, <2>2, <3>1, <3>2 DEF FullPage
  <2> QED BY <1>4, <2>1, <2>2 DEF AnswerFollows
<1> QED BY <1>1, <1>2, <1>3, <1>4 DEF CatchesUp

\* A sync request that device d waits for answers with all changes between its
\* two cursors: none of them has been pruned.
LEMMA SyncPageFull ==
    ASSUME TypeOK, TypeOK', StoryInv, AckInv, NEW d \in Devices, CatchesUp(d),
           NEW h \in Handlers, SyncNext(h), waiting[d] = h
    PROVE  AnswerFollows(h)
<1>a. /\ req \in [Handlers -> Request] /\ resp \in [Handlers -> Response]
      /\ pc \in [Handlers -> {"idle", "reply"} \cup SyncSteps \cup SnapshotSteps]
      /\ tx \in [Handlers -> Tx]
    BY DEF TypeOK, ApiTypeOK, TxTypeOK
<1>b. pc[h] \in SyncSteps /\ req[h].entity = "none" /\ req' = req
    BY SyncFootprint DEF AckInv
<1>c. OwnStep(h)
    BY SyncOutcomeKinds
<1>d. req[h].cursor = cursor[d] /\ ~Unsettled(d)
    BY <1>b DEF AckInv, WaitsForOwn, OwnRequest, Unsettled
<1>e. \A c \in history : c.id > req[h].cursor => c \in log
    BY <1>d DEF CatchesUp, KeptAfter
<1> DEFINE Full == pc'[h] \in {"commit", "ack", "reply"} /\ resp'[h].status = "ok" => FullPage(h)'
<1>1. SUFFICES Full
    BY <1>b DEF AnswerFollows
<1>f. ASSUME NEW visible, log \subseteq visible, tx'[h].changes \subseteq visible,
             NEW o, resp'[h] \in SyncResponses(visible, req[h].cursor, o), history' = history
      PROVE  Full
  <2>1. resp'[h].changes =
          {BuildChange(c) : c \in {x \in visible : x.id > req[h].cursor /\ x.id <= resp'[h].next}}
    BY <1>f, PageIsExact
  <2>2. /\ \A c \in history' \cup tx'[h].changes : c.id \in Nat
        /\ resp'[h].next \in Nat /\ req[h].cursor \in Nat
    <3>1. /\ history' \subseteq Change /\ tx' \in [Handlers -> Tx]
          /\ resp' \in [Handlers -> Response]
      BY DEF TypeOK, DatabaseTypeOK, ApiTypeOK, TxTypeOK
    <3>2. tx'[h].changes \subseteq Change
      BY <3>1 DEF Tx
    <3> QED BY <1>a, <3>1, <3>2 DEF Change, Response, Request
  <2>3. ASSUME NEW c \in history' \cup tx'[h].changes, req[h].cursor < c.id, c.id <= resp'[h].next
        PROVE  BuildChange(c) \in resp'[h].changes
    <3>1. c \in visible
      BY <1>e, <1>f, <2>2, <2>3
    <3> QED BY <2>1, <2>2, <2>3, <3>1
  <2> QED BY <1>b, <2>3 DEF FullPage
<1>2. CASE RejectRequest(h) \/ RejectExpired(h) \/ SyncFails(h)
           \/ \E m \in Mutations : AbortOnForeignKey(h, m)
  <2>1. \E s \in {"invalid", "cursor_expired", "error"} : resp'[h] = Bare(s)
    BY <1>2, <1>a DEF RejectRequest, RejectExpired, SyncFails, AbortOnForeignKey, Respond
  <2> QED BY <2>1 DEF Bare
<1>3. CASE PassCursorCheck(h) \/ PullUpsert(h) \/ BeginTx(h) \/ AcquireLock(h)
  <2>1. pc'[h] \notin {"commit", "ack", "reply"}
    BY <1>3, <1>a DEF PassCursorCheck, PullUpsert, BeginTx, AcquireLock, Goto
  <2> QED BY <2>1
<1>4. CASE PullList(h)
  <2>1. PICK r \in SyncResponses(log, req[h].cursor, NoOutcomes) : resp' = [resp EXCEPT ![h] = r]
    BY <1>4 DEF PullList
  <2>2. tx' = tx /\ tx[h].changes = {} /\ history' = history
    BY <1>4 DEF PullList, StoryInv, PendingIsNew, dbVars, tableVars
  <2> QED BY <1>a, <1>f, <2>1, <2>2
<1>5. CASE ListInTx(h)
  <2>1. PICK r \in SyncResponses(log \cup tx[h].changes, req[h].cursor, tx[h].outcome) :
            resp' = [resp EXCEPT ![h] = r]
    BY <1>5 DEF ListInTx
  <2>2. tx' = tx /\ history' = history
    BY <1>5 DEF ListInTx, dbVars, tableVars
  <2> QED BY <1>a, <1>f, <2>1, <2>2
<1>6. CASE Commit(h) \/ AckCursor(h) \/ AckFails(h)
  <2>1. pc[h] \in {"commit", "ack"} /\ resp' = resp
    BY <1>6 DEF Commit, AckCursor, AckFails
  <2>2. history' \cup tx'[h].changes \subseteq history \cup tx[h].changes
    <3>1. CASE Commit(h)
      BY <1>a, <3>1 DEF Commit, EndTx, NoTx
    <3>2. CASE AckCursor(h) \/ AckFails(h)
      BY <3>2 DEF AckCursor, AckFails, dbVars, tableVars
    <3> QED BY <1>6, <3>1, <3>2
  <2>3. resp[h].status = "ok" => FullPage(h)
    BY <1>b, <2>1 DEF CatchesUp
  <2> QED BY <1>b, <2>1, <2>2, <2>3 DEF FullPage
<1>7. ASSUME NEW m \in Mutations,
             ReplayMutation(h, m) \/ RefuseMutation(h, m) \/ ApplyMutation(h, m)
      PROVE  Full
  <2>1. pc'[h] = "apply"
    BY <1>7 DEF ReplayMutation, RefuseMutation, ApplyMutation, apiVars
  <2> QED BY <2>1
<1> QED BY <1>2, <1>3, <1>4, <1>5, <1>6, <1>7 DEF SyncNext, SyncStep, SyncWork

\* Changes become part of the history and of the log together, and only pruning
\* takes from the log.
LEMMA KeptOnCommit ==
    ASSUME log \subseteq log', history' \ history \subseteq log', UNCHANGED ret
    PROVE  \A k : KeptAfter(k) => KeptAfter(k)'
  BY DEF KeptAfter

\* The steps of a sync request: a device that writes to the log or reads from it
\* stays active, and nobody is told that it holds the new changes.
LEMMA SyncCatchUp ==
    ASSUME TypeOK, TypeOK', OrderInv, StoryInv, AckInv, CatchUpInv, NEW h \in Handlers, SyncNext(h)
    PROVE  CatchUpInv'
<1>a. /\ req \in [Handlers -> Request] /\ resp \in [Handlers -> Response]
      /\ devices \in [Devices -> Device] /\ tx \in [Handlers -> Tx] /\ tracked \subseteq Devices
      /\ now \in Nat /\ Window \in Nat /\ Window > 0 /\ history' \subseteq Change
    BY BoundAssumption DEF TypeOK, DatabaseTypeOK, ApiTypeOK, TxTypeOK
<1>b. /\ pc[h] \in SyncSteps /\ req[h].entity = "none" /\ req' = req
      /\ \A g \in Handlers \ {h} : pc'[g] = pc[g] /\ resp'[g] = resp[g]
    BY SyncFootprint DEF AckInv
<1>c. OwnStep(h)
    BY SyncOutcomeKinds
<1>d. UNCHANGED <<ret, phase, after, cursor, replica, waiting>>
    BY DEF SyncNext, clientVars
<1>e. req[h].device \in Devices
    BY <1>b DEF TypeOK, ApiTypeOK, SyncSteps
<1>1. history \subseteq history' /\ history' \ history \subseteq tx[h].changes
    BY <1>c DEF OwnStep, Commit
<1>2. log \subseteq log' /\ history' \ history \subseteq log'
    BY DEF SyncNext, SyncStep, SyncWork, RejectRequest, RejectExpired, PassCursorCheck,
           PullUpsert, PullList, BeginTx, AcquireLock, ListInTx, Commit, ReplayMutation,
           RefuseMutation, ApplyMutation, AbortOnForeignKey, AckCursor, AckFails, SyncFails,
           dbVars, tableVars
<1>3. \A d \in tracked' : d \in tracked /\ d \in ActiveAt(devices', now' - Window)
  <2>0. \A d \in tracked : d \in ActiveAt(devices, now - Window)
    BY DEF CatchUpInv, CatchesUp
  <2>1. CASE Commit(h)
    BY <2>1 DEF Commit, StillActive
  <2>2. CASE devices' = devices /\ tracked' = tracked
    BY <1>c, <2>0, <2>2 DEF OwnStep
  <2>3. CASE PullUpsert(h)
    <3>1. devices' = UpsertDevice(req[h].device, now) /\ tracked' = tracked /\ now' = now
      BY <2>3 DEF PullUpsert
    <3>2. \A d \in Devices : \/ devices'[d] = devices[d]
                             \/ devices'[d].known = TRUE /\ devices'[d].seen = now
      BY <1>a, <3>1 DEF UpsertDevice
    <3>3. now > now - Window
      BY <1>a
    <3> QED BY <1>a, <2>0, <3>1, <3>2, <3>3 DEF ActiveAt
  <2>4. CASE AckCursor(h)
    <3>1. tracked' = tracked /\ now' = now
      BY <2>4 DEF AckCursor
    <3>2. \A d \in Devices : devices'[d].known = devices[d].known /\ devices'[d].seen = devices[d].seen
      BY <1>a, <2>4 DEF AckCursor, UpdateDeviceAckCursor, Device
    <3> QED BY <1>a, <2>0, <3>1, <3>2 DEF ActiveAt
  <2> QED BY <2>1, <2>2, <2>3, <2>4
          DEF SyncNext, SyncStep, SyncWork, RejectRequest, RejectExpired, PassCursorCheck,
              PullList, BeginTx, AcquireLock, ListInTx, ReplayMutation, RefuseMutation,
              ApplyMutation, AbortOnForeignKey, AckFails, SyncFails, dbVars
<1> SUFFICES ASSUME NEW d \in tracked' PROVE CatchesUp(d)'
    BY DEF CatchUpInv
<1>4. d \in Devices /\ CatchesUp(d)
    BY <1>a, <1>3 DEF CatchUpInv
<1>5. \A k \in Nat : KeptAfter(k) => KeptAfter(k)'
    BY <1>d, <1>2, KeptOnCommit
<1>6. \A c \in history' \ history :
        /\ cursor[d] < c.id
        /\ \A g \in Handlers \ {h} : resp[g].next < c.id
    BY <1>1, <1>4 DEF OrderInv, PendingAbove
<1>7. \A g \in Handlers : req[g].entity # "none" =>
        \A c \in history' \ history : resp[g].next < c.id
    BY <1>b, <1>6
<1>8. ASSUME NEW g \in Handlers, waiting'[d] = g
      PROVE  /\ waiting[d] = g /\ AnswerFollows(g)
             /\ \A c \in history' \ history : resp[g].next < c.id \/ c \in tx[g].changes
  <2>1. CASE g = h
    BY <1>1, <1>4, <1>8, <1>d, <2>1, SyncPageFull
  <2>2. CASE g # h
    <3>1. tx'[g] = tx[g] /\ resp'[g] = resp[g] /\ pc'[g] = pc[g] /\ req'[g] = req[g]
      BY <1>b, <1>c, <2>2 DEF OwnStep
    <3> QED BY <1>6, <1>8, <1>d, <2>2, <3>1 DEF AnswerFollows
  <2> QED BY <2>1, <2>2
<1>9. UNCHANGED <<phase[d], after[d], cursor[d], replica[d]>>
    BY <1>d
<1> QED BY <1>a, <1>3, <1>4, <1>5, <1>6, <1>7, <1>8, <1>9, StaysCaughtUp

\* A page of a bootstrap has every row between where the request stood and where
\* it sends the device next, be that the same table or the next one.
LEMMA PageHasRows ==
    ASSUME TypeOK, NEW q \in Request, q.entity \in {"session", "solve"}, NEW r \in SnapshotPages(q)
    PROVE  \A e \in Passed(r.entity, r.after) \ Passed(q.entity, q.after) :
              r.items[e] = rows[e] \/ rows[e].version = 0
<1> DEFINE table == IF q.entity = "session" THEN Sessions ELSE Solves
           found == KeysetAfter(table, q.after)
           ends == IF found = {} THEN {0} ELSE PageEnds(found, SnapshotPageSize)
           more(end) == \E e \in found : e > end
           items(end) == [e \in Entities |-> IF e \in found /\ e <= end THEN rows[e] ELSE NoRow]
<1>1. PICK end \in ends :
        r = [Bare("ok") EXCEPT
             !.items = [e \in Entities |-> IF e \in found /\ e <= end THEN rows[e] ELSE NoRow],
             !.next = q.cursor,
             !.more = more(end),
             !.after = IF more(end) THEN end ELSE 0,
             !.entity = IF more(end) THEN q.entity
                        ELSE IF q.entity = "session" THEN "solve" ELSE "none"]
    BY Zenon DEF SnapshotPages
<1>2. /\ Sessions \subseteq Nat \ {0} /\ Solves \subseteq Nat \ {0} /\ Sessions \cap Solves = {}
      /\ q.after \in Nat /\ \A e \in Entities : rows[e].version \in Nat
    BY EntityAssumption DEF TypeOK, DatabaseTypeOK, Request, Row
<1>3. \A e \in table : e \in Entities /\ (e \in found <=> rows[e].version > 0 /\ e > q.after)
    BY DEF Entities, KeysetAfter
<1>4. end \in Nat
    BY <1>2 DEF PageEnds, KeysetAfter
<1> DEFINE m == more(end)
<1>5. /\ \A e \in Entities : items(end)[e] = IF e \in found /\ e <= end THEN rows[e] ELSE NoRow
      /\ \A e \in found : e > end => m
      /\ m \in BOOLEAN
    OBVIOUS
<1>6. /\ r.items = items(end) /\ r.after = (IF m THEN end ELSE 0)
      /\ r.entity = IF m THEN q.entity ELSE IF q.entity = "session" THEN "solve" ELSE "none"
  <2> HIDE DEF found, ends, more
  <2> QED BY <1>1 DEF Bare
<1> HIDE DEF found, ends, items, m
<1> SUFFICES ASSUME NEW e \in Passed(r.entity, r.after) \ Passed(q.entity, q.after),
                    rows[e].version # 0
             PROVE  r.items[e] = rows[e]
    OBVIOUS
<1>7. e \in table /\ ~(e <= q.after) /\ (m => e <= end)
  <2>1. CASE q.entity = "session" /\ m
    BY <1>6, <2>1 DEF Passed
  <2>2. CASE q.entity = "session" /\ ~m
    <3>1. Passed(r.entity, r.after) = Sessions \cup {x \in Solves : x <= 0}
      BY <1>6, <2>2 DEF Passed
    <3>2. Passed(q.entity, q.after) = {x \in Sessions : x <= q.after}
      BY <2>2 DEF Passed
    <3>3. {x \in Solves : x <= 0} = {}
      BY <1>2
    <3>4. e \in Sessions
      BY <3>1, <3>3
    <3> QED BY <2>2, <3>2, <3>4
  <2>3. CASE q.entity = "solve" /\ m
    <3>1. Passed(r.entity, r.after) = Sessions \cup {x \in Solves : x <= end}
      BY <1>6, <2>3 DEF Passed
    <3>2. Passed(q.entity, q.after) = Sessions \cup {x \in Solves : x <= q.after}
      BY <2>3 DEF Passed
    <3> QED BY <2>3, <3>1, <3>2
  <2>4. CASE q.entity = "solve" /\ ~m
    <3>1. Passed(r.entity, r.after) = Entities
      BY <1>6, <2>4 DEF Passed
    <3>2. Passed(q.entity, q.after) = Sessions \cup {x \in Solves : x <= q.after}
      BY <2>4 DEF Passed
    <3> QED BY <2>4, <3>1, <3>2 DEF Entities
  <2> QED BY <1>5, <2>1, <2>2, <2>3, <2>4
<1>8. e \in Entities /\ e \in found /\ e \in Nat
    BY <1>2, <1>3, <1>7
<1>9. e <= end
    BY <1>4, <1>5, <1>7, <1>8
<1> QED BY <1>5, <1>6, <1>8, <1>9

\* The watermark of a bootstrap has nothing ahead of it.
LEMMA KeptAfterWatermark ==
    ASSUME TypeOK, OrderInv, StoryInv, KeptInv
    PROVE  KeptAfter(LatestChangeCursor)
<1>1. \A c \in history : c.id \in Nat /\ Reached(c.id, history)
    BY DEF TypeOK, DatabaseTypeOK, Change, Reached
<1>2. \A c \in history : c.id <= LatestChangeCursor
    BY <1>1, WatermarkCovers DEF KeptInv
<1>3. ret.min <= LatestChangeCursor
    BY WatermarkCovers DEF KeptInv, CursorsReached, TypeOK, RetentionTypeOK
<1>4. LatestChangeCursor \in Nat
    BY LatestChangeCursorType DEF TypeOK, OrderInv
<1> QED BY <1>1, <1>2, <1>3, <1>4 DEF KeptAfter

\* The first page of a bootstrap is asked for by a device that has nothing yet.
LEMMA FirstPageUnsettled ==
    ASSUME AckInv, NEW d \in Devices, NEW h \in Handlers, waiting[d] = h, pc[h] = "snapUpsert"
    PROVE  /\ req[h].entity # "none" /\ req[h].device = d
           /\ req[h].cursor = cursor[d] /\ req[h].after = after[d] /\ req[h].entity = phase[d]
           /\ IsFirstPage(req[h]) <=> Unsettled(d)
<1>1. req[h].entity # "none" /\ OwnRequest(d, h)
    BY DEF AckInv, WaitsForOwn, RequestsAdvance, SnapshotSteps
<1> QED BY <1>1 DEF OwnRequest, IsFirstPage, Unsettled

\* What a snapshot step does to the tables, and to everyone's progress.
LEMMA SnapshotFootprint ==
    ASSUME TypeOK, AckInv, NEW h \in Handlers, SnapshotNext(h)
    PROVE  /\ UNCHANGED <<rows, log, history, ret, tx, phase, after, cursor, replica, waiting, now>>
           /\ pc[h] \in SnapshotSteps /\ req[h].entity # "none"
           /\ \A g \in Handlers \ {h} : pc'[g] = pc[g] /\ resp'[g] = resp[g] /\ req'[g] = req[g]
           /\ \A x \in Devices : \/ devices'[x] = devices[x]
                                 \/ devices'[x].known = TRUE /\ devices'[x].seen = now
           /\ pc[h] = "snapUpsert" /\ pc'[h] = "snapWatermark" =>
                 devices'[req[h].device].known = TRUE /\ devices'[req[h].device].seen = now
<1>a. /\ req \in [Handlers -> Request] /\ resp \in [Handlers -> Response]
      /\ pc \in [Handlers -> {"idle", "reply"} \cup SyncSteps \cup SnapshotSteps]
      /\ devices \in [Devices -> Device]
      /\ pc[h] # "idle" => req[h].device \in Devices
    BY DEF TypeOK, DatabaseTypeOK, ApiTypeOK
<1>1. UNCHANGED <<rows, log, history, ret, tx, phase, after, cursor, replica, waiting, now>>
    BY DEF SnapshotNext, SnapshotStep, SnapshotWork, SnapshotUpsert, SnapshotWatermark,
           SnapshotPage, SnapshotFails, dbVars, tableVars, clientVars
<1>2. pc[h] \in SnapshotSteps /\ req[h].entity # "none"
    BY DEF SnapshotNext, SnapshotStep, SnapshotWork, SnapshotUpsert, SnapshotWatermark,
           SnapshotPage, SnapshotFails, SnapshotSteps, AckInv, RequestsAdvance
<1>3. \A g \in Handlers \ {h} : pc'[g] = pc[g] /\ resp'[g] = resp[g] /\ req'[g] = req[g]
    BY <1>a DEF SnapshotNext, SnapshotStep, SnapshotWork, SnapshotUpsert, SnapshotWatermark,
           SnapshotPage, SnapshotFails, Respond, Goto
<1>4. SnapshotUpsert(h) \/ (devices' = devices /\ (pc[h] = "snapUpsert" => pc'[h] # "snapWatermark"))
    BY <1>a DEF SnapshotNext, SnapshotStep, SnapshotWork, SnapshotWatermark, SnapshotPage,
           SnapshotFails, Respond, Goto, dbVars
<1>5. ASSUME SnapshotUpsert(h)
      PROVE  /\ \A x \in Devices : \/ devices'[x] = devices[x]
                                   \/ devices'[x].known = TRUE /\ devices'[x].seen = now
             /\ devices'[req[h].device].known = TRUE /\ devices'[req[h].device].seen = now
  <2>1. devices' = UpsertDevice(req[h].device, now) /\ req[h].device \in Devices
    BY <1>5, <1>a DEF SnapshotUpsert
  <2> QED BY <1>a, <2>1 DEF UpsertDevice
<1> QED BY <1>1, <1>2, <1>3, <1>4, <1>5

\* The steps of a snapshot request: a page continues where its device stands, and
\* a device that is tracked from now on has passed nothing yet.
LEMMA SnapshotCatchUp ==
    ASSUME TypeOK, OrderInv, StoryInv, KeptInv, AckInv, CatchUpInv, NEW h \in Handlers, SnapshotNext(h)
    PROVE  CatchUpInv'
<1>a. /\ req \in [Handlers -> Request] /\ resp \in [Handlers -> Response]
      /\ pc \in [Handlers -> {"idle", "reply"} \cup SyncSteps \cup SnapshotSteps]
      /\ now \in Nat /\ Window \in Nat /\ Window > 0 /\ history \subseteq Change
      /\ tracked \subseteq Devices /\ tx \in [Handlers -> Tx]
    BY BoundAssumption DEF TypeOK, DatabaseTypeOK, ApiTypeOK, TxTypeOK
<1>b. /\ UNCHANGED <<rows, log, history, ret, tx, phase, after, cursor, replica, waiting, now>>
      /\ pc[h] \in SnapshotSteps /\ req[h].entity # "none"
      /\ \A g \in Handlers \ {h} : pc'[g] = pc[g] /\ resp'[g] = resp[g] /\ req'[g] = req[g]
      /\ \A x \in Devices : \/ devices'[x] = devices[x]
                            \/ devices'[x].known = TRUE /\ devices'[x].seen = now
      /\ pc[h] = "snapUpsert" /\ pc'[h] = "snapWatermark" =>
            devices'[req[h].device].known = TRUE /\ devices'[req[h].device].seen = now
    BY SnapshotFootprint
<1>c. \A x : /\ \A k : KeptAfter(k)' <=> KeptAfter(k)
             /\ \A k, S, T : HoldsUpTo(k, S, T)' <=> HoldsUpTo(k, S, T)
             /\ Unsettled(x)' <=> Unsettled(x)
    BY <1>b DEF KeptAfter, HoldsUpTo, Unsettled
<1> SUFFICES ASSUME NEW d \in tracked' PROVE CatchesUp(d)'
    BY DEF CatchUpInv
<1>1. \/ d \in tracked
      \/ /\ d = req[h].device /\ waiting[d] = h
         /\ pc[h] = "snapUpsert" /\ pc'[h] = "snapWatermark"
    BY DEF SnapshotNext, Tracks
<1>2. d \in Devices
  <2>1. pc[h] # "idle"
    BY <1>b DEF SnapshotSteps
  <2> QED BY <1>1, <1>a, <2>1 DEF TypeOK, ApiTypeOK
<1>3. d \in ActiveAt(devices', now - Window)
  <2>1. now > now - Window
    BY <1>a
  <2>2. CASE d \in tracked
    <3>1. d \in ActiveAt(devices, now - Window)
      BY <2>2 DEF CatchUpInv, CatchesUp
    <3> QED BY <1>2, <1>b, <2>1, <3>1 DEF ActiveAt
  <2>3. CASE d = req[h].device /\ pc[h] = "snapUpsert" /\ pc'[h] = "snapWatermark"
    BY <1>2, <1>b, <2>1, <2>3 DEF ActiveAt
  <2> QED BY <1>1, <2>2, <2>3
\* An upsert that leads to the watermark is the first step of a bootstrap.
<1>4. ASSUME waiting[d] = h, SnapshotUpsert(h)
      PROVE  /\ req'[h] = req[h] /\ req[h].entity = phase[d] /\ req[h].after = after[d]
             /\ \/ pc'[h] = "snapWatermark" /\ Unsettled(d)
                \/ pc'[h] = "snapPage" /\ ~Unsettled(d) /\ req[h].cursor = cursor[d]
  <2>1. /\ pc[h] = "snapUpsert" /\ req' = req
        /\ pc'[h] = IF IsFirstPage(req[h]) THEN "snapWatermark" ELSE "snapPage"
    BY <1>4, <1>a DEF SnapshotUpsert, Goto
  <2> QED BY <1>2, <1>4, <2>1, FirstPageUnsettled
<1>5. ASSUME pc[h] = "snapUpsert", pc'[h] = "snapWatermark" PROVE SnapshotUpsert(h)
    BY <1>5, <1>a DEF SnapshotNext, SnapshotStep, SnapshotWork, SnapshotWatermark, SnapshotPage,
           SnapshotFails, Respond, Goto
<1>6. Unsettled(d) \/ KeptAfter(cursor[d])
    BY <1>1, <1>4, <1>5 DEF CatchUpInv, CatchesUp
<1>7. HoldsUpTo(cursor[d], Passed(phase[d], after[d]), replica[d])
  <2>1. Unsettled(d) => Passed(phase[d], after[d]) = {}
    BY NothingPassed DEF Unsettled
  <2> QED BY <1>1, <1>4, <1>5, <2>1 DEF CatchUpInv, CatchesUp, HoldsUpTo
<1>8. ASSUME waiting[d] = h PROVE PageFits(d, h)'
  <2>0. d \in tracked \/ SnapshotUpsert(h)
    BY <1>1, <1>5
  <2>1. CASE SnapshotUpsert(h)
    BY <1>4, <1>6, <1>8, <1>b, <1>c, <2>1 DEF PageFits
  <2>2. ASSUME ~SnapshotUpsert(h) PROVE PageFits(d, h)
    BY <1>8, <1>b, <2>0, <2>2 DEF CatchUpInv, CatchesUp
  <2>3. CASE SnapshotWatermark(h)
    <3>1. /\ pc[h] = "snapWatermark" /\ pc'[h] = "snapPage" /\ req'[h].cursor = LatestChangeCursor
          /\ req'[h].entity = req[h].entity /\ req'[h].after = req[h].after
      BY <1>a, <2>3 DEF SnapshotWatermark, Goto, Request
    <3>2. Unsettled(d) /\ req[h].entity = phase[d] /\ req[h].after = after[d]
      BY <2>2, <2>3, <3>1 DEF PageFits, SnapshotUpsert
    <3>3. KeptAfter(req[h].cursor)'
      BY <1>b, <3>1, KeptAfterWatermark DEF KeptAfter
    <3> QED BY <1>b, <1>c, <3>1, <3>2, <3>3 DEF PageFits
  <2>4. CASE SnapshotPage(h)
    <3>1. PICK r \in SnapshotPages(req[h]) : Respond(h, r)
      BY <2>4 DEF SnapshotPage
    <3>2. /\ resp'[h] = r /\ pc'[h] = "reply" /\ pc[h] = "snapPage" /\ req' = req
          /\ r.next = req[h].cursor
      BY <1>a, <2>4, <3>1, SnapshotPagesType DEF SnapshotPage, Respond, Goto
    <3>3. /\ req[h].entity = phase[d] /\ req[h].after = after[d]
          /\ KeptAfter(req[h].cursor) /\ (Unsettled(d) \/ req[h].cursor = cursor[d])
      BY <2>2, <3>2 DEF PageFits, SnapshotUpsert
    <3>4. req[h] \in Request /\ req[h].entity \in {"session", "solve"}
      BY <1>a, <1>b DEF Request
    <3>5. \A e \in Passed(r.entity, r.after) \ Passed(phase[d], after[d]) :
            r.items[e] = rows[e] \/ rows[e].version = 0
      BY <3>3, <3>4, PageHasRows
    <3>6. \A c \in history : 0 < c.version /\ c.version <= rows[c.entity].version /\ c.version \in Nat
      BY <1>a DEF StoryInv, RowsExplained, Explains, Change
    <3>7. HoldsUpTo(r.next, Passed(r.entity, r.after) \ Passed(phase[d], after[d]), r.items)
      BY <3>5, <3>6 DEF HoldsUpTo
    <3>8. HoldsUpTo(resp[h].next,
                    Passed(resp[h].entity, resp[h].after) \ Passed(phase[d], after[d]),
                    resp[h].items)'
      BY <1>b, <3>2, <3>7 DEF HoldsUpTo, Passed
    <3>9. KeptAfter(resp[h].next)'
      BY <1>b, <3>2, <3>3 DEF KeptAfter
    <3> QED BY <1>b, <1>c, <3>2, <3>3, <3>8, <3>9 DEF PageFits
  <2>5. CASE SnapshotFails(h)
    <3>1. resp'[h].status = "error" /\ pc'[h] = "reply" /\ req' = req
      BY <1>a, <2>5 DEF SnapshotFails, Respond, Goto, Bare
    <3>2. req[h].entity = phase[d] /\ req[h].after = after[d]
      <4>1. CASE ~SnapshotUpsert(h)
        BY <2>2, <4>1 DEF PageFits
      <4>2. CASE SnapshotUpsert(h)
        BY <1>4, <1>8, <4>2
      <4> QED BY <4>1, <4>2
    <3> QED BY <1>b, <3>1, <3>2 DEF PageFits
  <2> QED BY <2>1, <2>3, <2>4, <2>5 DEF SnapshotNext, SnapshotStep, SnapshotWork
<1>9. ASSUME NEW g \in Handlers \ {h}, waiting[d] = g
      PROVE  /\ req[g].entity # "none" => PageFits(d, g)'
             /\ req[g].entity = "none" /\ pc[g] \in {"commit", "ack", "reply"}
                   /\ resp[g].status = "ok" => FullPage(g)'
  <2>1. d \in tracked
    BY <1>1, <1>9
  <2>2. pc'[g] = pc[g] /\ resp'[g] = resp[g] /\ req'[g] = req[g] /\ tx'[g] = tx[g]
    BY <1>9, <1>b
  <2>3. PageFits(d, g) => PageFits(d, g)'
    BY <1>b, <2>2 DEF PageFits, KeptAfter, HoldsUpTo, Unsettled, Passed
  <2>4. FullPage(g) => FullPage(g)'
    BY <1>b, <2>2 DEF FullPage
  <2> QED BY <1>9, <2>1, <2>3, <2>4 DEF CatchUpInv, CatchesUp
<1>10. Unsettled(d)' \/ KeptAfter(cursor[d])'
    BY <1>6, <1>b, <1>c DEF KeptAfter
<1>11. HoldsUpTo(cursor[d], Passed(phase[d], after[d]), replica[d])'
    BY <1>7, <1>b DEF HoldsUpTo, Passed
<1>12. \A g \in Handlers : waiting'[d] = g =>
          /\ req'[g].entity # "none" => PageFits(d, g)'
          /\ req'[g].entity = "none" /\ pc'[g] \in {"commit", "ack", "reply"}
                /\ resp'[g].status = "ok" => FullPage(g)'
  <2>1. req'[h].entity # "none"
    BY <1>a, <1>b DEF SnapshotNext, SnapshotStep, SnapshotWork, SnapshotUpsert, SnapshotWatermark,
           SnapshotPage, SnapshotFails, Request
  <2> QED BY <1>8, <1>9, <1>b, <2>1
<1> QED BY <1>3, <1>10, <1>11, <1>12, <1>b DEF CatchesUp

\* Everyone but the device that acts stays caught up when a device sends or
\* receives: a handler serves one device at a time.
LEMMA OthersStayCaughtUp ==
    ASSUME TypeOK, AckInv, CatchUpInv, NEW d \in Devices, NEW h \in Handlers,
           UNCHANGED <<dbVars, tx, ret>>, pc[h] = "idle" \/ req[h].device = d,
           \A g \in Handlers \ {h} : UNCHANGED <<pc[g], req[g], resp[g]>>,
           NEW x \in tracked, x # d,
           UNCHANGED <<phase[x], after[x], cursor[x], replica[x], waiting[x]>>
    PROVE  CatchesUp(x)'
<1>a. /\ x \in Devices /\ CatchesUp(x) /\ history' \subseteq Change
      /\ UNCHANGED <<log, history, devices, now, ret, tx>>
    BY DEF TypeOK, DatabaseTypeOK, CatchUpInv, dbVars, tableVars
<1>1. \A k \in Nat : KeptAfter(k) => KeptAfter(k)'
    BY <1>a DEF KeptAfter
<1>2. ASSUME NEW g \in Handlers, waiting'[x] = g PROVE waiting[x] = g /\ AnswerFollows(g)
  <2>1. waiting[x] = g /\ OwnRequest(x, g)
    BY <1>2, <1>a DEF AckInv, WaitsForOwn
  <2>2. g # h
    BY <2>1 DEF OwnRequest
  <2> QED BY <1>a, <2>1, <2>2 DEF AnswerFollows
<1>3. x \in ActiveAt(devices', now' - Window)
    BY <1>a DEF CatchesUp
<1> QED BY <1>a, <1>1, <1>2, <1>3, StaysCaughtUp

\* A device that sends a request stays caught up.
LEMMA SendCatchUp ==
    ASSUME TypeOK, AckInv, CatchUpInv, NEW d \in Devices, NEW h \in Handlers, NEW r, NEW s,
           Send(d, h, r, s), UNCHANGED <<dbVars, tx, ret>>,
           \/ s = "received" /\ r.entity = "none"
           \/ s = "snapUpsert" /\ r.entity = phase[d] /\ r.after = after[d] /\ r.entity # "none"
    PROVE  CatchUpInv'
<1>a. /\ req \in [Handlers -> Request] /\ waiting \in [Devices -> Handlers \cup {NoHandler}]
      /\ pc \in [Handlers -> {"idle", "reply"} \cup SyncSteps \cup SnapshotSteps]
      /\ UNCHANGED <<log, history, devices, now, tracked, ret, tx>>
    BY DEF TypeOK, ApiTypeOK, ClientTypeOK, dbVars, tableVars
<1>b. /\ pc[h] = "idle" /\ pc'[h] = s /\ req'[h] = r /\ waiting'[d] = h
      /\ \A g \in Handlers \ {h} : UNCHANGED <<pc[g], req[g], resp[g]>>
      /\ \A x \in Devices \ {d} : waiting'[x] = waiting[x]
      /\ UNCHANGED <<phase, cursor, after, replica>>
    BY <1>a DEF Send, Goto
<1>1. \A x \in tracked \ {d} : x \in Devices /\ CatchesUp(x)'
  <2> TAKE x \in tracked \ {d}
  <2>1. x \in Devices
    BY DEF TypeOK, DatabaseTypeOK
  <2> QED BY <1>b, <2>1, OthersStayCaughtUp
<1>2. ASSUME d \in tracked PROVE CatchesUp(d)'
  <2>0. CatchesUp(d)
    BY <1>2 DEF CatchUpInv
  <2>1. d \in ActiveAt(devices, now - Window)'
    BY <1>a, <2>0 DEF CatchesUp, ActiveAt
  <2>2. Unsettled(d)' \/ KeptAfter(cursor[d])'
    BY <1>a, <1>b, <2>0 DEF CatchesUp, Unsettled, KeptAfter
  <2>3. HoldsUpTo(cursor[d], Passed(phase[d], after[d]), replica[d])'
    BY <1>a, <1>b, <2>0 DEF CatchesUp, HoldsUpTo, Passed
  <2>4. r.entity # "none" => PageFits(d, h)'
    BY <1>b DEF PageFits
  <2>5. pc'[h] \notin {"commit", "ack", "reply"}
    BY <1>b
  <2> QED BY <1>b, <2>1, <2>2, <2>3, <2>4, <2>5 DEF CatchesUp
<1> QED BY <1>1, <1>2, <1>a DEF CatchUpInv

\* A device that has taken a sync answer holds all changes up to the new cursor:
\* those up to the old one it held before, the others are in the answer.
LEMMA ReceiveSyncHolds ==
    ASSUME TypeOK, OrderInv, StoryInv, AckInv, PastInv, NEW d \in tracked, CatchesUp(d),
           NEW h \in Handlers, ReceiveSync(d, h), UNCHANGED <<log, history, ret>>
    PROVE  /\ KeptAfter(cursor[d])'
           /\ HoldsUpTo(cursor[d], Passed(phase[d], after[d]), replica[d])'
<1>a. /\ d \in Devices /\ cursor \in [Devices -> Nat] /\ cursor[d] \in Nat
      /\ replica \in [Devices -> [Entities -> Row]] /\ replica[d] \in [Entities -> Row]
      /\ history \in SUBSET Change /\ seq \in Nat
      /\ req[h].batch \in Seq(Mutations) /\ req[h].cursor \in Nat
      /\ resp[h].next \in Nat /\ resp[h].changes \in SUBSET Change
      /\ resp[h].outcome \in [Mutations -> Outcome \cup {NoOutcome}]
    BY DEF TypeOK, DatabaseTypeOK, ApiTypeOK, ClientTypeOK, Request, Response
<1>b. /\ waiting[d] = h /\ pc[h] = "reply" /\ req[h].entity = "none" /\ resp[h].status = "ok"
      /\ phase' = phase /\ after' = after
    BY DEF ReceiveSync, Answered
<1>c. req[h].cursor = cursor[d] /\ phase[d] = "sync" /\ ~Unsettled(d)
    BY <1>a, <1>b DEF AckInv, WaitsForOwn, OwnRequest, Unsettled
<1>d. cursor[d] <= resp[h].next /\ cursor'[d] = resp[h].next
    BY <1>a, <1>b, <1>c DEF AckInv, RequestsAdvance, ReceiveSync
<1>e. FullPage(h) /\ KeptAfter(cursor[d]) /\ tx[h].changes = {}
    BY <1>b, <1>c DEF CatchesUp, StoryInv, PendingIsNew
<1>f. /\ Explains(history, rows) /\ \A c \in history : c.id <= seq /\ c.data # NoMutation
      /\ \A c \in resp[h].changes : \E x \in history : c = BuildChange(x)
      /\ \A m \in Mutations : TellsPastOf(mutation, m, resp[h].outcome[m], history)
      /\ \A e \in Entities : PastRow(replica[d][e], e, history)
  <2>1. AnswerPastOf(mutation, history, tx[h], resp[h]) /\ history \cup tx[h].changes = history
    BY <1>e, AnswersArePast
  <2>2. \A e \in Entities : PastRow(replica[d][e], e, history)
    BY <1>a DEF PastInv, ReplicaIsPastState, PastRow
  <2> QED BY <2>1, <2>2 DEF AnswerPastOf, StoryInv, RowsExplained, OrderInv, IdsFromSequence, PastInv
<1>1. KeptAfter(cursor[d])'
  <2>1. KeptAfter(resp[h].next)
    BY <1>a, <1>d, <1>e, KeptFurther
  <2> QED BY <1>d, <2>1 DEF KeptAfter
<1> DEFINE told == RowsByOutcomes(req[h].batch, resp[h].outcome, replica[d])
           new == RowsByChanges(resp[h].changes, told)
<1>2. replica'[d] = new
    BY <1>a DEF ReceiveSync
<1>3. told \in [Entities -> Row]
    BY <1>a, RowsByOutcomesType
<1>4. \A e \in Entities : /\ PastRow(told[e], e, history)
                          /\ replica[d][e].version <= told[e].version
    BY <1>a, <1>f, OutcomesTeachPast
<1> HIDE DEF told
<1>5. \A e \in Entities : told[e].version <= new[e].version
    BY <1>a, <1>3, <1>4, <1>f, ChangesTeachPast
<1>6. new \in [Entities -> Row]
    BY <1>a, <1>3, RowsByChangesType
<1>7. \A c \in history : BuildChange(c) \in resp[h].changes => c.version <= new[c.entity].version
    BY <1>a, <1>3, <1>f, PageIsHeld
<1> HIDE DEF new
<1>8. ASSUME NEW c \in history, c.id <= resp[h].next PROVE c.version <= new[c.entity].version
  <2>0. c.entity \in Entities /\ c.id \in Nat /\ c.version \in Nat
    BY <1>a DEF Change
  <2>1. CASE c.id <= cursor[d]
    <3>1. c.version <= replica[d][c.entity].version
      BY <1>c, <2>0, <2>1 DEF CatchesUp, HoldsUpTo, Passed
    <3>2. replica[d][c.entity].version \in Nat /\ told[c.entity].version \in Nat /\ new[c.entity].version \in Nat
      BY <1>a, <1>3, <1>6, <2>0 DEF Row
    <3> QED BY <1>4, <1>5, <2>0, <3>1, <3>2
  <2>2. CASE cursor[d] < c.id
    BY <1>7, <1>8, <1>c, <1>e, <2>2 DEF FullPage
  <2> QED BY <1>a, <2>0, <2>1, <2>2
<1>9. HoldsUpTo(cursor[d], Passed(phase[d], after[d]), replica[d])'
    BY <1>2, <1>8, <1>d DEF HoldsUpTo
<1> QED BY <1>1, <1>9

\* A device that has taken a page of a bootstrap holds all changes up to the
\* watermark to the entities it has passed.
LEMMA ReceivePageHolds ==
    ASSUME TypeOK, AckInv, NEW d \in tracked, CatchesUp(d),
           NEW h \in Handlers, ReceivePage(d, h), UNCHANGED <<log, history, ret>>
    PROVE  /\ KeptAfter(cursor[d])'
           /\ HoldsUpTo(cursor[d], Passed(phase[d], after[d]), replica[d])'
<1>a. /\ d \in Devices /\ cursor \in [Devices -> Nat] /\ cursor[d] \in Nat
      /\ replica \in [Devices -> [Entities -> Row]] /\ replica[d] \in [Entities -> Row]
      /\ phase \in [Devices -> {"session", "solve", "sync"}] /\ after \in [Devices -> Nat]
      /\ history \in SUBSET Change
      /\ resp[h].next \in Nat /\ resp[h].items \in [Entities -> Row]
      /\ resp[h].entity \in {"none", "session", "solve"}
    BY DEF TypeOK, DatabaseTypeOK, ApiTypeOK, ClientTypeOK, Response
<1>b. /\ waiting[d] = h /\ pc[h] = "reply" /\ req[h].entity # "none" /\ resp[h].status = "ok"
      /\ cursor'[d] = resp[h].next /\ after'[d] = resp[h].after
      /\ phase'[d] = IF resp[h].entity = "none" THEN "sync" ELSE resp[h].entity
    BY <1>a DEF ReceivePage, Answered
<1>c. /\ KeptAfter(resp[h].next) /\ (Unsettled(d) \/ resp[h].next = cursor[d])
      /\ HoldsUpTo(resp[h].next,
                   Passed(resp[h].entity, resp[h].after) \ Passed(phase[d], after[d]),
                   resp[h].items)
    BY <1>a, <1>b DEF CatchesUp, PageFits
<1>1. KeptAfter(cursor[d])'
    BY <1>b, <1>c DEF KeptAfter
<1>2. Passed(phase'[d], after'[d]) = Passed(resp[h].entity, resp[h].after)
    BY <1>a, <1>b DEF Passed
<1> DEFINE new == [e \in Entities |-> Newer(resp[h].items[e], replica[d][e])]
<1>3. replica'[d] = new
    BY <1>a DEF ReceivePage
<1>4. \A e \in Entities : /\ resp[h].items[e].version <= new[e].version
                          /\ replica[d][e].version <= new[e].version
                          /\ new[e].version \in Nat /\ resp[h].items[e].version \in Nat
                          /\ replica[d][e].version \in Nat
    BY <1>a DEF Newer, Row
<1> HIDE DEF new
<1>5. ASSUME NEW c \in history, c.entity \in Passed(resp[h].entity, resp[h].after),
             c.id <= resp[h].next
      PROVE  c.version <= new[c.entity].version
  <2>0. c.entity \in Entities /\ c.version \in Nat
    BY <1>a DEF Change
  <2>1. CASE c.entity \in Passed(phase[d], after[d])
    <3>1. ~Unsettled(d)
      BY <2>1, NothingPassed DEF Unsettled
    <3>2. c.version <= replica[d][c.entity].version
      BY <1>5, <1>c, <2>1, <3>1 DEF CatchesUp, HoldsUpTo
    <3> QED BY <1>4, <2>0, <3>2
  <2>2. CASE c.entity \notin Passed(phase[d], after[d])
    <3>1. c.version <= resp[h].items[c.entity].version
      BY <1>5, <1>c, <2>2 DEF HoldsUpTo
    <3> QED BY <1>4, <2>0, <3>1
  <2> QED BY <2>1, <2>2
<1>6. HoldsUpTo(cursor[d], Passed(phase[d], after[d]), replica[d])'
  <2>1. \A c \in history :
          c.entity \in Passed(phase'[d], after'[d]) /\ c.id <= cursor'[d] =>
             c.version <= replica'[d][c.entity].version
    BY <1>2, <1>3, <1>5, <1>b
  <2> QED BY <2>1 DEF HoldsUpTo, Passed
<1> QED BY <1>1, <1>6

\* A device that receives an answer has caught up to the new cursor.
LEMMA ReceiveCatchUp ==
    ASSUME TypeOK, OrderInv, StoryInv, AckInv, PastInv, CatchUpInv, NEW d \in Devices,
           NEW h \in Handlers, Receive(d, h), UNCHANGED <<dbVars, tx, ret>>
    PROVE  CatchUpInv'
<1>a. /\ waiting \in [Devices -> Handlers \cup {NoHandler}]
      /\ cursor \in [Devices -> Nat] /\ after \in [Devices -> Nat]
      /\ phase \in [Devices -> {"session", "solve", "sync"}]
      /\ replica \in [Devices -> [Entities -> Row]]
      /\ req \in [Handlers -> Request] /\ resp \in [Handlers -> Response]
      /\ pc \in [Handlers -> {"idle", "reply"} \cup SyncSteps \cup SnapshotSteps]
      /\ tracked \subseteq Devices
      /\ UNCHANGED <<log, history, devices, now, tracked, ret, tx>>
    BY DEF TypeOK, DatabaseTypeOK, ApiTypeOK, ClientTypeOK, dbVars, tableVars
<1>b. Answered(d, h)
    BY DEF Receive, ReceiveSync, ReceiveExpired, ReceivePage, ReceiveError
<1>c. /\ waiting[d] = h /\ waiting'[d] = NoHandler
      /\ \A x \in Devices \ {d} : waiting'[x] = waiting[x]
      /\ \A g \in Handlers \ {h} : UNCHANGED <<pc[g], req[g], resp[g]>>
    BY <1>a, <1>b DEF Answered, Finish, Goto
<1>d. req[h].device = d
    BY <1>c DEF AckInv, WaitsForOwn, OwnRequest
<1>e. \A x \in Devices \ {d} : UNCHANGED <<cursor[x], phase[x], after[x], replica[x]>>
    BY <1>a DEF Receive, ReceiveSync, ReceiveExpired, ReceivePage, ReceiveError
<1>1. \A x \in tracked \ {d} : CatchesUp(x)'
  <2> TAKE x \in tracked \ {d}
  <2>1. x \in Devices \ {d} /\ x \in tracked /\ x # d
    BY <1>a
  <2>2. UNCHANGED <<phase[x], after[x], cursor[x], replica[x], waiting[x]>>
    BY <1>c, <1>e, <2>1
  <2> QED BY <1>c, <1>d, <2>1, <2>2, OthersStayCaughtUp
<1>2. ASSUME d \in tracked PROVE CatchesUp(d)'
  <2>0. CatchesUp(d)
    BY <1>2 DEF CatchUpInv
  <2>1. d \in ActiveAt(devices, now - Window)'
    BY <1>a, <2>0 DEF CatchesUp, ActiveAt
  <2>2. \A g \in Handlers : waiting'[d] # g
    BY <1>c, NullAssumption
  <2>3. CASE ReceiveSync(d, h)
    BY <1>2, <1>a, <2>0, <2>1, <2>2, <2>3, ReceiveSyncHolds DEF CatchesUp
  <2>4. CASE ReceivePage(d, h)
    BY <1>2, <1>a, <2>0, <2>1, <2>2, <2>4, ReceivePageHolds DEF CatchesUp
  <2>5. CASE ReceiveExpired(d, h)
    <3>1. phase'[d] = "session" /\ after'[d] = 0 /\ cursor'[d] = 0
      BY <1>a, <2>5 DEF ReceiveExpired
    <3>2. Unsettled(d)'
      BY <3>1 DEF Unsettled
    <3>3. Passed(phase'[d], after'[d]) = {}
      BY <3>1, NothingPassed
    <3>4. HoldsUpTo(cursor[d], Passed(phase[d], after[d]), replica[d])'
      BY <3>3 DEF HoldsUpTo, Passed
    <3> QED BY <2>1, <2>2, <3>2, <3>4 DEF CatchesUp
  <2>6. CASE ReceiveError(d, h)
    <3>1. UNCHANGED <<cursor, phase, after, replica>>
      BY <2>6 DEF ReceiveError
    <3>2. Unsettled(d)' \/ KeptAfter(cursor[d])'
      BY <1>a, <2>0, <3>1 DEF CatchesUp, Unsettled, KeptAfter
    <3>3. HoldsUpTo(cursor[d], Passed(phase[d], after[d]), replica[d])'
      BY <1>a, <2>0, <3>1 DEF CatchesUp, HoldsUpTo, Passed
    <3> QED BY <2>1, <2>2, <3>2, <3>3 DEF CatchesUp
  <2> QED BY <2>3, <2>4, <2>5, <2>6 DEF Receive
<1> QED BY <1>1, <1>2, <1>a DEF CatchUpInv

\* A step that touches no device's state and no answer that is waited for.
LEMMA QuietCatchUp ==
    ASSUME TypeOK, AckInv, CatchUpInv,
           UNCHANGED <<history, phase, after, cursor, replica, tx>>,
           \A d \in tracked' : d \in tracked /\ d \in ActiveAt(devices', now' - Window),
           \A d \in tracked' : \A k \in Nat : devices[d].ack <= k /\ KeptAfter(k) => KeptAfter(k)',
           \A d \in Devices : waiting'[d] \in {waiting[d], NoHandler},
           \A d \in Devices, g \in Handlers : waiting'[d] = g => UNCHANGED <<pc[g], req[g], resp[g]>>
    PROVE  CatchUpInv'
<1> SUFFICES ASSUME NEW d \in tracked' PROVE CatchesUp(d)'
    BY DEF CatchUpInv
<1>1. d \in Devices /\ CatchesUp(d) /\ history' \subseteq Change
    BY DEF TypeOK, DatabaseTypeOK, CatchUpInv
<1>2. \A g \in Handlers : waiting'[d] = g => waiting[d] = g /\ AnswerFollows(g)
    BY <1>1, NullAssumption DEF AnswerFollows
<1> QED BY <1>1, <1>2, StaysCaughtUp

\* The retention job: the floor it has read is no further than what an active
\* device has acknowledged, and every tracked device is active.
LEMMA RetentionCatchUp ==
    ASSUME TypeOK, AckInv, OutcomeInv, CatchUpInv, RetentionNext
    PROVE  CatchUpInv'
<1>a. /\ UNCHANGED <<history, devices, now, tracked, pc, req, resp, tx, phase, after, cursor,
                     replica, waiting>>
      /\ log' = log \/ PruneLog
    BY DEF RetentionNext, RetentionStep, StartRun, ReadMinCursor, PruneLog, PruneMutations,
           RetentionStatementFails, dbVars, tableVars, clientVars
<1>b. /\ ret \in [step : RetentionSteps, cutoff : Int, min : Nat] /\ tracked \subseteq Devices
      /\ devices \in [Devices -> Device] /\ now \in Nat /\ Window \in Nat
      /\ \A c \in history : c.id \in Nat
    BY BoundAssumption DEF TypeOK, DatabaseTypeOK, RetentionTypeOK, Change
<1>1. ASSUME NEW d \in tracked, NEW k \in Nat, devices[d].ack <= k, KeptAfter(k)
      PROVE  KeptAfter(k)'
  <2>1. CASE StartRun
    <3>1. log' = log /\ ret'.step # "pruneLog"
      BY <2>1 DEF StartRun, RetWaiting, dbVars, tableVars
    <3> QED BY <1>1, <1>a, <3>1 DEF KeptAfter
  <2>2. CASE ReadMinCursor
    <3>1. log' = log /\ (ret' = RetWaiting \/ ret'.min = MinValidCursorForUser(ret.cutoff))
      BY <1>b, <2>2 DEF ReadMinCursor, dbVars, tableVars
    <3>2. ret.cutoff <= now - Window
      BY <2>2 DEF ReadMinCursor, OutcomeInv, ChangesRecorded
    <3>3. d \in ActiveAt(devices, ret.cutoff)
      <4>1. d \in Devices /\ devices[d].known /\ devices[d].seen > now - Window
        BY DEF CatchUpInv, CatchesUp, ActiveAt
      <4>2. devices[d].seen \in Nat
        BY <1>b, <4>1 DEF Device
      <4> QED BY <1>b, <3>2, <4>1, <4>2 DEF ActiveAt
    <3>4. MinValidCursorForUser(ret.cutoff) <= devices[d].ack
      <4> DEFINE acks == {devices[x].ack : x \in ActiveAt(devices, ret.cutoff)}
      <4>1. acks \in SUBSET Nat /\ devices[d].ack \in acks
        BY <1>b, <3>3 DEF Device, ActiveAt
      <4>2. MinValidCursorForUser(ret.cutoff) = Min(acks)
        BY <4>1 DEF MinValidCursorForUser
      <4> HIDE DEF acks
      <4>3. acks # {}
        BY <4>1
      <4>4. \A x \in acks : Min(acks) <= x
        BY <4>1, <4>3, MinOfNaturals
      <4> QED BY <4>1, <4>2, <4>4
    <3>5. ret'.step = "pruneLog" => ret'.min <= k
      <4>1. MinValidCursorForUser(ret.cutoff) \in Nat /\ devices[d].ack \in Nat
        <5>1. d \in Devices /\ DatabaseTypeOK /\ ret.cutoff \in Int
          BY <1>b DEF TypeOK
        <5> QED BY <1>b, <5>1, MinValidCursorType DEF Device
      <4>2. RetWaiting.step # "pruneLog"
        BY DEF RetWaiting
      <4> QED BY <1>1, <3>1, <3>4, <4>1, <4>2
    <3> QED BY <1>1, <1>a, <3>1, <3>5 DEF KeptAfter
  <2>3. CASE PruneLog
    <3>1. /\ ret.step = "pruneLog" /\ log' = PruneChangeLog(ret.min)
          /\ ret'.step = "pruneMutations"
      BY <1>b, <2>3 DEF PruneLog
    <3>2. ret.min <= k /\ ret.min \in Nat
      BY <1>1, <1>b, <3>1 DEF KeptAfter
    <3> QED BY <1>1, <1>a, <1>b, <3>1, <3>2 DEF KeptAfter, PruneChangeLog
  <2>4. CASE PruneMutations \/ RetentionStatementFails
    <3>1. log' = log /\ ret'.step # "pruneLog"
      BY <1>b, <2>4 DEF PruneMutations, RetentionStatementFails, RetWaiting, dbVars, tableVars
    <3> QED BY <1>1, <1>a, <3>1 DEF KeptAfter
  <2> QED BY <2>1, <2>2, <2>3, <2>4 DEF RetentionNext, RetentionStep
<1>2. \A d \in tracked : d \in ActiveAt(devices', now' - Window)
    BY <1>a DEF CatchUpInv, CatchesUp, ActiveAt
<1> QED BY <1>a, <1>1, <1>2, QuietCatchUp

\* Every step leaves the tracked devices caught up.
LEMMA NextCatchUp ==
    ASSUME TypeOK, TypeOK', OrderInv, StoryInv, KeptInv, AckInv, OutcomeInv, PastInv, CatchUpInv,
           [Next]_vars
    PROVE  CatchUpInv'
<1>a. waiting \in [Devices -> Handlers \cup {NoHandler}] /\ tracked \subseteq Devices
    BY DEF TypeOK, DatabaseTypeOK, ClientTypeOK
<1>b. ASSUME UNCHANGED <<log, history, ret>> PROVE \A k \in Nat : KeptAfter(k) => KeptAfter(k)'
    BY <1>b DEF KeptAfter
<1>c. \A d \in tracked : d \in ActiveAt(devices, now - Window)
    BY DEF CatchUpInv, CatchesUp
<1>1. ASSUME NEW h \in Handlers, SyncNext(h) PROVE CatchUpInv'
    BY <1>1, SyncCatchUp
<1>2. ASSUME NEW h \in Handlers, SnapshotNext(h) PROVE CatchUpInv'
    BY <1>2, SnapshotCatchUp
<1>3. ASSUME NEW h \in Handlers, DropNext(h) PROVE CatchUpInv'
  <2>1. /\ UNCHANGED <<log, history, devices, now, tracked, ret, tx, phase, after, cursor, replica, waiting>>
        /\ \A d \in Devices : waiting[d] # h
    BY <1>3 DEF DropNext, DropAnswer, dbVars, tableVars, clientVars
  <2>2. \A g \in Handlers \ {h} : UNCHANGED <<pc[g], req[g], resp[g]>>
    BY <1>3 DEF DropNext, DropAnswer, Finish, Goto, TypeOK, ApiTypeOK
  <2> QED BY <1>b, <1>c, <2>1, <2>2, QuietCatchUp
<1>4. ASSUME NEW d \in Devices, ClientNext(d) PROVE CatchUpInv'
  <2>a. /\ UNCHANGED <<dbVars, tx, ret>>
        /\ UNCHANGED <<log, history, devices, now, tracked>>
    BY <1>4 DEF ClientNext, dbVars, tableVars
  <2>b. ASSUME UNCHANGED <<pc, req, resp, phase, after, cursor, replica>>,
               \A x \in Devices : waiting'[x] \in {waiting[x], NoHandler}
        PROVE  CatchUpInv'
    BY <1>b, <1>c, <2>a, <2>b, QuietCatchUp
  <2>1. ASSUME NEW m \in Mutations, Edit(d, m) PROVE CatchUpInv'
    BY <2>1, <2>b DEF Edit
  <2>2. ASSUME NEW h \in Handlers, NEW n \in 0..Len(outbox[d]), SendSync(d, h, n) PROVE CatchUpInv'
    <3> DEFINE r == [NoRequest EXCEPT !.device = d, !.cursor = cursor[d],
                                      !.batch = SubSeq(outbox[d], 1, n)]
    <3>1. r.entity = "none"
      BY DEF NoRequest
    <3>2. Send(d, h, r, "received")
      BY <2>2, Zenon DEF SendSync
    <3> HIDE DEF r
    <3> QED BY <2>a, <3>1, <3>2, SendCatchUp
  <2>3. ASSUME NEW h \in Handlers, SendSnapshot(d, h) PROVE CatchUpInv'
    <3> DEFINE r == [NoRequest EXCEPT !.device = d, !.cursor = cursor[d],
                                      !.entity = phase[d], !.after = after[d]]
    <3>1. r.entity = phase[d] /\ r.after = after[d]
      BY DEF NoRequest
    <3>2. Send(d, h, r, "snapUpsert")
      BY <2>3, Zenon DEF SendSnapshot
    <3>3. phase[d] # "none"
      BY DEF TypeOK, ClientTypeOK
    <3> HIDE DEF r
    <3> QED BY <2>a, <3>1, <3>2, <3>3, SendCatchUp
  <2>4. ASSUME NEW h \in Handlers, Receive(d, h) PROVE CatchUpInv'
    BY <2>4, <2>a, ReceiveCatchUp
  <2>5. CASE GiveUp(d)
    BY <1>a, <2>5, <2>b DEF GiveUp
  <2> QED BY <1>4, <2>1, <2>2, <2>3, <2>4, <2>5 DEF ClientNext, ClientStep
<1>5. CASE RetentionNext
    BY <1>5, RetentionCatchUp
<1>6. CASE Environment \/ UNCHANGED vars
  <2>1. /\ UNCHANGED <<log, history, ret, tx, phase, after, cursor, replica, waiting, pc, req, resp>>
        /\ \A d \in tracked' : d \in tracked /\ d \in ActiveAt(devices', now' - Window)
    BY <1>6, <1>c DEF Environment, Tick, OtherUserAppends, StillActive, ActiveAt, vars, dbVars,
                      tableVars, apiVars, clientVars
  <2> QED BY <1>b, <2>1, QuietCatchUp
<1> QED BY <1>1, <1>2, <1>3, <1>4, <1>5, <1>6 DEF Next

\* At first no device is tracked.
LEMMA InitCatchUp == Init => CatchUpInv
  BY DEF Init, DatabaseInit, CatchUpInv

-----------------------------------------------------------------------------
(* The theorems *)

\* The whole inductive invariant of the sync side in one: the history tells the
\* story of the rows, every cursor points into it, outcomes recorded, in flight
\* or received are true, devices hold past states and miss nothing while they
\* are active, in every reachable state.
THEOREM CoreCorrect == Spec => [](TypeOK /\ CoreInv)
<1>1. Init => TypeOK /\ CoreInv
    BY InitTypes, InitOrder, InitStory, InitKept, InitAck, InitOutcomes, InitPast, InitCatchUp
       DEF CoreInv, CursorInv
<1>2. TypeOK /\ CoreInv /\ [Next]_vars => (TypeOK /\ CoreInv)'
  <2> SUFFICES ASSUME TypeOK, CoreInv, [Next]_vars PROVE (TypeOK /\ CoreInv)'
    OBVIOUS
  <2>1. OrderInv /\ StoryInv /\ KeptInv /\ AckInv /\ OutcomeInv /\ PastInv /\ CatchUpInv
    BY DEF CoreInv, CursorInv
  <2>2. TypeOK' /\ OrderInv' /\ StoryInv' /\ KeptInv' /\ AckInv'
    BY <2>1, NextOrder, NextStory, NextKept, NextAck
  <2>3. OutcomeInv' /\ PastInv' /\ CatchUpInv'
    BY <2>1, <2>2, NextOutcomes, NextPast, NextCatchUp
  <2> QED BY <2>2, <2>3 DEF CoreInv, CursorInv
<1> QED BY <1>1, <1>2, PTL DEF Spec

\* Every cursor points into the retained history and below all that is still to
\* be committed, and tracked devices miss nothing, in every reachable state.
THEOREM CursorsCorrect == Spec => []CursorInv
<1>1. CoreInv => CursorInv
    BY DEF CoreInv
<1> QED BY <1>1, CoreCorrect, PTL

\* What a device holds is what the server had, however it was put together from
\* pages, outcomes and changes, and whatever was retried, lost or pruned.
THEOREM ReplicasArePast == Spec => []ReplicaIsPastState
<1>1. CoreInv => ReplicaIsPastState
    BY DEF CoreInv, PastInv
<1> QED BY <1>1, CoreCorrect, PTL

\* A device that has been active since its bootstrap finds every version that it
\* does not hold in the log, after its cursor: neither pruning nor paging hides
\* a change from it.
THEOREM ActiveDevicesMissNothing == Spec => []NoSilentGap
<1>1. TypeOK /\ CoreInv => NoSilentGap
  <2> SUFFICES ASSUME TypeOK, CoreInv, NEW d \in tracked, phase[d] = "sync", NEW e \in Entities,
                      rows[e].version > replica[d][e].version
               PROVE  \E c \in log : c.entity = e /\ c.version = rows[e].version /\ c.id > cursor[d]
    BY DEF NoSilentGap
  <2>1. /\ d \in Devices /\ cursor[d] \in Nat /\ \A c \in history : c.id \in Nat
        /\ rows[e].version \in Nat /\ replica[d][e].version \in Nat
    BY DEF TypeOK, DatabaseTypeOK, ClientTypeOK, Change, Row
  <2>2. PICK c \in history : c.entity = e /\ c.version = rows[e].version
    BY <2>1 DEF CoreInv, StoryInv, RowsExplained, Explains, Leaves
  <2>3. KeptAfter(cursor[d]) /\ HoldsUpTo(cursor[d], Entities, replica[d])
    BY DEF CoreInv, CursorInv, CatchUpInv, CatchesUp, Unsettled, Passed
  <2>4. ~(c.id <= cursor[d])
    BY <2>1, <2>2, <2>3 DEF HoldsUpTo
  <2>5. c.id > cursor[d] /\ c \in log
    BY <2>1, <2>3, <2>4 DEF KeptAfter
  <2> QED BY <2>2, <2>5
<1> QED BY <1>1, CoreCorrect, PTL
============================================================================
