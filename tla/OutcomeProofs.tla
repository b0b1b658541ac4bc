--------------------------- MODULE OutcomeProofs ---------------------------
(***************************************************************************)
(* Proofs that the answers of CubeSync are true (HonestOutcomes) and that  *)
(* a solve never misses the session it travels with (SessionTravelsFirst), *)
(* for every value of the constants.                                       *)
(*                                                                         *)
(* An outcome is computed in a transaction, recorded, replayed to a retry  *)
(* and received much later, so it has to stay true while rows, changes and *)
(* the clock move on.  That needs an argument for refusals only: a         *)
(* mutation that was refused must never be applied afterwards.  It is not, *)
(* because nobody knows a version that was not committed, and so a         *)
(* base_version that does not match will never match again.                *)
(***************************************************************************)
EXTENDS CubeSyncProofs

-----------------------------------------------------------------------------
(* What keeps an outcome true *)

\* Hopeless and Truthful with the mutations and the clock as parameters, so that
\* the facts below can be used across a step.
HopelessOf(mut, m, table) ==
    \/ ~mut[m].valid
    \/ mut[m].op = "delete" /\ mut[m].was.version = 0
    \/ table[mut[m].entity].version > mut[m].was.version

TruthfulOf(mut, t, m, o, changes, table) ==
    o # NoOutcome =>
        /\ mut[m].made
        /\ o.version <= table[mut[m].entity].version
        /\ o.current.version <= table[mut[m].entity].version
        /\ o.status = "accepted" =>
              \E c \in changes : /\ c.entity = mut[m].entity
                                 /\ c.version = o.version /\ c.op = mut[m].op
        /\ o.status \in {"conflict", "rejected"} =>
              HopelessOf(mut, m, table) /\ \A c \in changes : c.by = m => c.at < t - Window
        /\ mut[m].valid /\ mut[m].op = "upsert" /\ mut[m].was.version = 0 =>
              table[mut[m].entity].version > 0

\* An outcome stays true while versions grow and changes are added, unless its
\* own mutation, once refused, is applied.
LEMMA TruthGrows ==
    ASSUME NEW mut \in [Mutations -> Mutation], NEW t \in Nat,
           NEW m \in Mutations, NEW o \in Outcome \cup {NoOutcome},
           NEW S \in SUBSET Change, NEW S2 \in SUBSET Change, S \subseteq S2,
           NEW T \in [Entities -> Row], NEW T2 \in [Entities -> Row],
           \A e \in Entities : T[e].version <= T2[e].version,
           HopelessOf(mut, m, T) => \A c \in S2 \ S : c.by # m,
           TruthfulOf(mut, t, m, o, S, T)
    PROVE  TruthfulOf(mut, t, m, o, S2, T2)
<1> SUFFICES ASSUME o # NoOutcome PROVE TruthfulOf(mut, t, m, o, S2, T2)
    BY DEF TruthfulOf
<1>1. mut[m].made
    BY DEF TruthfulOf
<1>2. /\ mut[m] \in Mutation /\ mut[m].entity \in Entities /\ mut[m].was.version \in Nat
      /\ o \in Outcome /\ o.version \in Nat /\ o.current.version \in Nat
      /\ \A e \in Entities : T[e].version \in Nat /\ T2[e].version \in Nat
    BY DEF Mutation, Row, Outcome
<1> DEFINE e == mut[m].entity
<1>3. o.version <= T2[e].version /\ o.current.version <= T2[e].version
    BY <1>2 DEF TruthfulOf
<1>4. o.status = "accepted" =>
        \E c \in S2 : c.entity = e /\ c.version = o.version /\ c.op = mut[m].op
    BY DEF TruthfulOf
<1>5. o.status \in {"conflict", "rejected"} =>
        HopelessOf(mut, m, T2) /\ \A c \in S2 : c.by = m => c.at < t - Window
  <2> SUFFICES ASSUME o.status \in {"conflict", "rejected"}
               PROVE  HopelessOf(mut, m, T2) /\ \A c \in S2 : c.by = m => c.at < t - Window
    OBVIOUS
  <2>1. HopelessOf(mut, m, T) /\ \A c \in S : c.by = m => c.at < t - Window
    BY DEF TruthfulOf
  <2>2. HopelessOf(mut, m, T2)
    BY <1>2, <2>1 DEF HopelessOf
  <2> QED BY <2>1, <2>2
<1>6. mut[m].valid /\ mut[m].op = "upsert" /\ mut[m].was.version = 0 => T2[e].version > 0
    BY <1>2 DEF TruthfulOf
<1> QED BY <1>1, <1>3, <1>4, <1>5, <1>6 DEF TruthfulOf

\* An outcome stays true while time passes and other mutations are made.
LEMMA TruthLasts ==
    ASSUME NEW mut \in [Mutations -> Mutation], NEW mut2 \in [Mutations -> Mutation],
           NEW t \in Nat, NEW t2 \in Nat, t <= t2,
           NEW m \in Mutations, NEW o, NEW S \in SUBSET Change, NEW T,
           mut[m].made => mut2[m] = mut[m],
           TruthfulOf(mut, t, m, o, S, T)
    PROVE  TruthfulOf(mut2, t2, m, o, S, T)
<1> SUFFICES ASSUME o # NoOutcome PROVE TruthfulOf(mut2, t2, m, o, S, T)
    BY DEF TruthfulOf
<1>1. mut2[m] = mut[m] /\ mut[m].made
    BY DEF TruthfulOf
<1>2. HopelessOf(mut, m, T) => HopelessOf(mut2, m, T)
    BY <1>1 DEF HopelessOf
<1>3. \A c \in S : c.at < t - Window => c.at < t2 - Window
  <2>1. \A c \in S : c.at \in Nat
    BY DEF Change
  <2> QED BY <2>1, BoundAssumption
<1> QED BY <1>1, <1>2, <1>3 DEF TruthfulOf

\* The two forms agree, before and after a step.
LEMMA TruthfulForms ==
    /\ \A m, o, S, T : Truthful(m, o, S, T) <=> TruthfulOf(mutation, now, m, o, S, T)
    /\ \A m, T : Hopeless(m, T) <=> HopelessOf(mutation, m, T)
  BY DEF Truthful, TruthfulOf, Hopeless, HopelessOf

\* No outcome is true of anything.
LEMMA NoOutcomeIsTrue ==
    \A mut, t, m, S, T : TruthfulOf(mut, t, m, NoOutcome, S, T)
  BY DEF TruthfulOf

\* What a transaction sees, and what is in its answer so far.
ViewType(h) ==
    /\ history \cup tx[h].changes \in SUBSET Change
    /\ RowsInTx(h) \in [Entities -> Row]
    /\ tx[h].outcome \in [Mutations -> Outcome \cup {NoOutcome}]
    /\ resp[h].outcome \in [Mutations -> Outcome \cup {NoOutcome}]

\* These are tables, changes and outcomes.
LEMMA ViewTypes ==
    ASSUME TypeOK
    PROVE  \A h \in Handlers : ViewType(h)
<1> TAKE h \in Handlers
<1>1. RowsInTx(h) \in [Entities -> Row]
    BY RowInTxType DEF RowsInTx
<1> QED BY <1>1 DEF ViewType, TypeOK, DatabaseTypeOK, TxTypeOK, Tx, ApiTypeOK, Response

-----------------------------------------------------------------------------
(* What a step of a request changes *)

\* A step of handler h leaves to the others what is theirs; only a commit
\* touches the tables.
OwnStep(h) ==
    /\ UNCHANGED <<req, mutation, now, ret, replica, outbox>>
    /\ Commit(h) \/ UNCHANGED <<rows, history, processed>>
    /\ \A g \in Handlers \ {h} : tx'[g] = tx[g] /\ resp'[g] = resp[g]

\* The transaction of h, except perhaps for its start, stays as it is.
TxRests(h) ==
    /\ tx'[h].rows = tx[h].rows /\ tx'[h].changes = tx[h].changes
    /\ tx'[h].outcome = tx[h].outcome /\ tx'[h].recorded = tx[h].recorded
    /\ tx'[h].began = tx[h].began \/ pc[h] = "begin"

\* h ends with an error and without a transaction.
Breaks(h) == tx'[h] = NoTx /\ \E s : resp'[h] = Bare(s)

\* The steps of a sync request by what they do to transaction and answer.
SyncKind(h) ==
    \/ TxRests(h) /\ (resp'[h] = resp[h] \/ \E s : resp'[h] = Bare(s))
    \/ TxRests(h) /\ \E r \in SyncResponses(log, req[h].cursor, NoOutcomes) : resp'[h] = r
    \/ TxRests(h) /\ \E r \in SyncResponses(log \cup tx[h].changes, req[h].cursor, tx[h].outcome) :
                        resp'[h] = r
    \/ /\ \E m \in Mutations : ReplayMutation(h, m) \/ RefuseMutation(h, m) \/ ApplyMutation(h, m)
       /\ resp'[h] = resp[h]
    \/ Commit(h) /\ tx'[h] = NoTx /\ resp'[h] = resp[h]
    \/ Breaks(h)

\* Every step of a sync request is one of these, and its handler's own.
LEMMA SyncOutcomeKinds ==
    ASSUME TypeOK, NEW h \in Handlers, SyncNext(h)
    PROVE  OwnStep(h) /\ SyncKind(h)
<1>a. tx \in [Handlers -> Tx] /\ resp \in [Handlers -> Response]
    BY DEF TypeOK, ApiTypeOK, TxTypeOK
<1>b. UNCHANGED <<req, mutation, now, ret, replica, outbox>>
    BY DEF SyncNext, SyncStep, SyncWork, RejectRequest, RejectExpired, PassCursorCheck,
           PullUpsert, PullList, BeginTx, AcquireLock, ListInTx, Commit, ReplayMutation,
           RefuseMutation, ApplyMutation, AbortOnForeignKey, AckCursor, AckFails, SyncFails,
           apiVars, dbVars, clientVars
<1>c. Commit(h) \/ UNCHANGED <<rows, history, processed>>
    BY DEF SyncNext, SyncStep, SyncWork, RejectRequest, RejectExpired, PassCursorCheck,
           PullUpsert, PullList, BeginTx, AcquireLock, ListInTx, ReplayMutation,
           RefuseMutation, ApplyMutation, AbortOnForeignKey, AckCursor, AckFails, SyncFails,
           dbVars, tableVars
<1> DEFINE Done == OwnStep(h) /\ SyncKind(h)
<1>d. ASSUME UNCHANGED tx PROVE TxRests(h) /\ \A g \in Handlers \ {h} : tx'[g] = tx[g]
    BY <1>d DEF TxRests
<1>e. ASSUME UNCHANGED resp PROVE \A g \in Handlers : resp'[g] = resp[g]
    BY <1>e
<1>f. ASSUME NEW r, resp' = [resp EXCEPT ![h] = r]
      PROVE  resp'[h] = r /\ \A g \in Handlers \ {h} : resp'[g] = resp[g]
    BY <1>a, <1>f
<1>g. ASSUME NEW t, tx' = [tx EXCEPT ![h] = t]
      PROVE  tx'[h] = t /\ \A g \in Handlers \ {h} : tx'[g] = tx[g]
    BY <1>a, <1>g
<1>1. CASE RejectRequest(h) \/ RejectExpired(h)
  <2>1. tx' = tx /\ \E s : resp' = [resp EXCEPT ![h] = Bare(s)]
    BY <1>1 DEF RejectRequest, RejectExpired, Respond
  <2> QED BY <1>b, <1>c, <1>d, <1>f, <2>1 DEF OwnStep, SyncKind
<1>2. CASE PassCursorCheck(h) \/ PullUpsert(h) \/ AcquireLock(h) \/ AckCursor(h) \/ AckFails(h)
  <2>1. tx' = tx /\ resp' = resp
    BY <1>2 DEF PassCursorCheck, PullUpsert, AcquireLock, AckCursor, AckFails
  <2> QED BY <1>b, <1>c, <1>d, <1>e, <2>1 DEF OwnStep, SyncKind
<1>3. CASE PullList(h)
  <2>1. PICK r \in SyncResponses(log, req[h].cursor, NoOutcomes) : resp' = [resp EXCEPT ![h] = r]
    BY <1>3 DEF PullList
  <2>2. tx' = tx
    BY <1>3 DEF PullList
  <2> QED BY <1>b, <1>c, <1>d, <1>f, <2>1, <2>2 DEF OwnStep, SyncKind
<1>4. CASE ListInTx(h)
  <2>1. PICK r \in SyncResponses(log \cup tx[h].changes, req[h].cursor, tx[h].outcome) :
            resp' = [resp EXCEPT ![h] = r]
    BY <1>4 DEF ListInTx
  <2>2. tx' = tx
    BY <1>4 DEF ListInTx
  <2> QED BY <1>b, <1>c, <1>d, <1>f, <2>1, <2>2 DEF OwnStep, SyncKind
<1>5. CASE BeginTx(h)
  <2>1. TxRests(h) /\ \A g \in Handlers \ {h} : tx'[g] = tx[g]
    BY <1>5, <1>a DEF BeginTx, TxRests, Tx
  <2>2. resp' = resp
    BY <1>5 DEF BeginTx
  <2> QED BY <1>b, <1>c, <1>e, <2>1, <2>2 DEF OwnStep, SyncKind
<1>6. ASSUME NEW m \in Mutations,
             ReplayMutation(h, m) \/ RefuseMutation(h, m) \/ ApplyMutation(h, m)
      PROVE  Done
  <2>1. resp' = resp
    BY <1>6 DEF ReplayMutation, RefuseMutation, ApplyMutation, apiVars
  <2>2. \A g \in Handlers \ {h} : tx'[g] = tx[g]
    BY <1>6, <1>a DEF ReplayMutation, RefuseMutation, ApplyMutation
  <2> QED BY <1>6, <1>b, <1>c, <1>e, <2>1, <2>2 DEF OwnStep, SyncKind
<1>7. CASE Commit(h)
  <2>1. tx' = [tx EXCEPT ![h] = NoTx] /\ resp' = resp
    BY <1>7 DEF Commit, EndTx
  <2> QED BY <1>7, <1>b, <1>c, <1>e, <1>g, <2>1 DEF OwnStep, SyncKind
<1>8. CASE SyncFails(h) \/ \E m \in Mutations : AbortOnForeignKey(h, m)
  <2>1. tx' = [tx EXCEPT ![h] = NoTx] /\ resp' = [resp EXCEPT ![h] = Bare("error")]
    BY <1>8 DEF SyncFails, AbortOnForeignKey, EndTx, Respond
  <2> QED BY <1>b, <1>c, <1>f, <1>g, <2>1 DEF OwnStep, SyncKind, Breaks
<1> QED BY <1>1, <1>2, <1>3, <1>4, <1>5, <1>6, <1>7, <1>8 DEF SyncNext, SyncStep, SyncWork

-----------------------------------------------------------------------------
(* Changes and their records *)

\* The part of ChangesRecorded that is about one open transaction.
RecordsOf(h) ==
    /\ \A c \in tx[h].changes : c.by \in tx[h].recorded /\ c.at = tx[h].began
    /\ \A m \in tx[h].recorded : \E i \in DOMAIN req[h].batch : req[h].batch[i] = m

\* The mutation that is applied next is one of the batch.
LEMMA NextIsInBatch ==
    ASSUME NEW h \in Handlers, NEW m, IsNextToApply(h, m)
    PROVE  \E i \in DOMAIN req[h].batch : req[h].batch[i] = m /\ tx[h].outcome[m] = NoOutcome
  BY DEF IsNextToApply, ToApply

\* A refused or applied mutation is recorded with its request.
LEMMA SyncRecords ==
    ASSUME TypeOK, StoryInv, ChangesRecorded, NEW h \in Handlers, OwnStep(h), SyncKind(h)
    PROVE  \A g \in Handlers : RecordsOf(g)'
<1>a. tx \in [Handlers -> Tx] /\ \A g \in Handlers : RecordsOf(g)
    BY DEF TypeOK, TxTypeOK, ChangesRecorded, RecordsOf
<1>b. req' = req
    BY DEF OwnStep
<1>1. \A g \in Handlers \ {h} : RecordsOf(g)'
    BY <1>a, <1>b DEF OwnStep, RecordsOf
<1>2. CASE TxRests(h)
  <2>1. tx'[h].began = tx[h].began \/ tx[h].changes = {}
    BY <1>2 DEF TxRests, StoryInv, PendingIsNew
  <2>2. RecordsOf(h)'
    BY <1>2, <1>a, <1>b, <2>1 DEF TxRests, RecordsOf
  <2> QED BY <1>1, <2>2
<1>3. ASSUME NEW m \in Mutations, ReplayMutation(h, m) PROVE RecordsOf(h)'
  <2>1. /\ tx'[h].changes = tx[h].changes /\ tx'[h].recorded = tx[h].recorded
        /\ tx'[h].began = tx[h].began
    BY <1>a, <1>3 DEF ReplayMutation, Tx
  <2> QED BY <1>a, <1>b, <2>1 DEF RecordsOf
<1>4. ASSUME NEW m \in Mutations, RefuseMutation(h, m) PROVE RecordsOf(h)'
  <2>1. /\ tx'[h].changes = tx[h].changes /\ tx'[h].recorded = tx[h].recorded \cup {m}
        /\ tx'[h].began = tx[h].began
    BY <1>a, <1>4 DEF RefuseMutation, Tx
  <2>2. \E i \in DOMAIN req[h].batch : req[h].batch[i] = m
    BY <1>4, NextIsInBatch DEF RefuseMutation
  <2> QED BY <1>a, <1>b, <2>1, <2>2 DEF RecordsOf
<1>5. ASSUME NEW m \in Mutations, ApplyMutation(h, m) PROVE RecordsOf(h)'
  <2>1. PICK c \in Change, new \in Row : AppliedAs(h, m, c, new)
    BY <1>5, ApplyEffect
  <2>2. \E i \in DOMAIN req[h].batch : req[h].batch[i] = m
    BY <1>5, NextIsInBatch DEF ApplyMutation
  <2> QED BY <1>a, <1>b, <2>1, <2>2 DEF RecordsOf, AppliedAs
<1>6. CASE tx'[h] = NoTx
    BY <1>1, <1>6 DEF RecordsOf, NoTx
<1> QED BY <1>1, <1>2, <1>3, <1>4, <1>5, <1>6 DEF SyncKind, Breaks

\* A commit records its changes with them, and retention only forgets what is
\* older than the window.
LEMMA NextRecorded ==
    ASSUME TypeOK, StoryInv, ChangesRecorded, [Next]_vars
    PROVE  ChangesRecorded'
<1>a. /\ now \in Nat /\ history \subseteq Change /\ processed \subseteq Processed
      /\ tx \in [Handlers -> Tx] /\ req \in [Handlers -> Request] /\ ret.cutoff \in Int
      /\ \A c \in history : c.at \in Nat
      /\ Window \in Nat
    BY BoundAssumption DEF TypeOK, DatabaseTypeOK, TxTypeOK, ApiTypeOK, RetentionTypeOK, Change
<1>b. \A g \in Handlers : RecordsOf(g)
    BY DEF ChangesRecorded, RecordsOf
<1>c. ASSUME \A g \in Handlers : RecordsOf(g)',
             \A c \in history' : c.at >= now' - Window =>
                \E p \in processed' : p.mutation = c.by /\ p.at = c.at,
             ret'.step # "waiting" => ret'.cutoff <= now' - Window
      PROVE  ChangesRecorded'
    BY <1>c DEF ChangesRecorded, RecordsOf
<1>d. ASSUME UNCHANGED tx,
             \A g \in Handlers : req'[g].batch = req[g].batch \/ pc[g] \in {"idle", "reply"}
      PROVE  \A g \in Handlers : RecordsOf(g)'
  <2> TAKE g \in Handlers
  <2>1. CASE req'[g].batch = req[g].batch
    BY <1>b, <1>d, <2>1 DEF RecordsOf
  <2>2. CASE pc[g] \in {"idle", "reply"}
    <3>1. tx[g].changes = {} /\ tx[g].recorded = {}
      BY <2>2 DEF StoryInv, PendingIsNew
    <3> QED BY <1>d, <3>1 DEF RecordsOf
  <2> QED BY <1>d, <2>1, <2>2
<1>e. ASSUME UNCHANGED <<history, processed, now, ret>>, \A g \in Handlers : RecordsOf(g)'
      PROVE  ChangesRecorded'
    BY <1>c, <1>e DEF ChangesRecorded
<1>1. ASSUME NEW h \in Handlers, SyncNext(h) PROVE ChangesRecorded'
  <2>1. OwnStep(h) /\ SyncKind(h)
    BY <1>1, SyncOutcomeKinds
  <2>2. \A g \in Handlers : RecordsOf(g)'
    BY <2>1, SyncRecords
  <2>3. CASE UNCHANGED <<rows, history, processed>>
    BY <1>e, <2>1, <2>2, <2>3 DEF OwnStep
  <2>4. CASE Commit(h)
    <3>1. /\ history' = history \cup tx[h].changes
          /\ processed' = processed \cup
              {[device |-> req[h].device, mutation |-> m, outcome |-> tx[h].outcome[m],
                at |-> tx[h].began] : m \in tx[h].recorded}
      BY <2>4 DEF Commit
    <3>2. ASSUME NEW c \in tx[h].changes
          PROVE  \E p \in processed' : p.mutation = c.by /\ p.at = c.at
      <4>1. c.by \in tx[h].recorded /\ c.at = tx[h].began
        BY <1>b DEF RecordsOf
      <4> DEFINE p == [device |-> req[h].device, mutation |-> c.by,
                       outcome |-> tx[h].outcome[c.by], at |-> tx[h].began]
      <4>2. p \in processed' /\ p.mutation = c.by /\ p.at = c.at
        BY <3>1, <4>1
      <4> QED BY <4>2
    <3>3. UNCHANGED <<now, ret>>
      BY <2>1 DEF OwnStep
    <3> QED BY <1>c, <2>2, <3>1, <3>2, <3>3 DEF ChangesRecorded
  <2> QED BY <2>1, <2>3, <2>4 DEF OwnStep
<1>2. ASSUME NEW h \in Handlers, SnapshotNext(h) PROVE ChangesRecorded'
  <2>1. UNCHANGED <<history, processed, now, ret, tx>>
    BY <1>2 DEF SnapshotNext, SnapshotStep, SnapshotWork, SnapshotUpsert, SnapshotWatermark,
                SnapshotPage, SnapshotFails, dbVars, tableVars
  <2>2. \A g \in Handlers : req'[g].batch = req[g].batch
    BY <1>2, <1>a DEF SnapshotNext, SnapshotStep, SnapshotWork, SnapshotUpsert,
                      SnapshotWatermark, SnapshotPage, SnapshotFails, Request
  <2> QED BY <1>d, <1>e, <2>1, <2>2
<1>3. ASSUME NEW h \in Handlers, DropNext(h) PROVE ChangesRecorded'
  <2>1. UNCHANGED <<history, processed, now, ret, tx>>
    BY <1>3 DEF DropNext, dbVars, tableVars
  <2>2. \A g \in Handlers : req'[g].batch = req[g].batch \/ pc[g] \in {"idle", "reply"}
    BY <1>3, <1>a DEF DropNext, DropAnswer, Finish
  <2> QED BY <1>d, <1>e, <2>1, <2>2
<1>4. ASSUME NEW d \in Devices, ClientNext(d) PROVE ChangesRecorded'
  <2>1. UNCHANGED <<history, processed, now, ret, tx>>
    BY <1>4 DEF ClientNext, dbVars, tableVars
  <2>2. \/ req' = req
        \/ \E h \in Handlers : \E r : req' = [req EXCEPT ![h] = r] /\ pc[h] \in {"idle", "reply"}
    BY <1>4 DEF ClientNext, ClientStep, Edit, SendSync, SendSnapshot, Send, Receive, ReceiveSync,
                ReceiveExpired, ReceivePage, ReceiveError, Answered, Finish, GiveUp
  <2>3. \A g \in Handlers : req'[g].batch = req[g].batch \/ pc[g] \in {"idle", "reply"}
    BY <1>a, <2>2
  <2> QED BY <1>d, <1>e, <2>1, <2>3
<1>5. ASSUME RetentionNext PROVE ChangesRecorded'
  <2>1. UNCHANGED <<history, now, tx, req>>
    BY <1>5 DEF RetentionNext, RetentionStep, StartRun, ReadMinCursor, PruneLog, PruneMutations,
                RetentionStatementFails, dbVars, tableVars
  <2>2. \A g \in Handlers : RecordsOf(g)'
    BY <1>d, <2>1
  <2>3. ret'.step # "waiting" => ret'.cutoff <= now - Window
    <3>1. RetWaiting.step = "waiting"
      BY DEF RetWaiting
    <3>2. ret \in [step : RetentionSteps, cutoff : Int, min : Nat]
      BY DEF TypeOK, RetentionTypeOK
    <3>3. CASE StartRun
      BY <1>a, <3>3 DEF StartRun, RetWaiting
    <3>4. CASE ret' = RetWaiting
      BY <3>1, <3>4
    <3>5. CASE ret.step # "waiting" /\ ret'.cutoff = ret.cutoff
      BY <3>5 DEF ChangesRecorded
    <3>6. StartRun \/ ret' = RetWaiting \/ (ret.step # "waiting" /\ ret'.cutoff = ret.cutoff)
      BY <1>5, <3>2 DEF RetentionNext, RetentionStep, ReadMinCursor, PruneLog, PruneMutations,
                  RetentionStatementFails
    <3> QED BY <3>3, <3>4, <3>5, <3>6
  <2>4. processed' = processed \/ (ret.step # "waiting" /\ processed' = PruneProcessedMutations(ret.cutoff))
    BY <1>5 DEF RetentionNext, RetentionStep, StartRun, ReadMinCursor, PruneLog, PruneMutations,
                RetentionStatementFails, dbVars, tableVars
  <2>5. ASSUME NEW c \in history, c.at >= now - Window
        PROVE  \E p \in processed' : p.mutation = c.by /\ p.at = c.at
    <3>1. PICK p \in processed : p.mutation = c.by /\ p.at = c.at
      BY <2>5 DEF ChangesRecorded
    <3>2. ret.step # "waiting" => p.at >= ret.cutoff
      BY <1>a, <2>5, <3>1 DEF ChangesRecorded
    <3>3. p \in processed'
      BY <2>4, <3>2 DEF PruneProcessedMutations
    <3> QED BY <3>1, <3>3
  <2> QED BY <1>c, <2>1, <2>2, <2>3, <2>5
<1>6. CASE Environment
  <2>1. UNCHANGED <<history, processed, ret, tx, req>> /\ now' \in {now, now + 1}
    BY <1>6 DEF Environment, Tick, OtherUserAppends, tableVars, apiVars
  <2>2. \A g \in Handlers : RecordsOf(g)'
    BY <1>d, <2>1
  <2>3. \A c \in history : c.at >= now' - Window => c.at >= now - Window
    BY <1>a, <2>1
  <2>4. ret.cutoff <= now - Window => ret.cutoff <= now' - Window
    BY <1>a, <2>1
  <2> QED BY <1>c, <2>1, <2>2, <2>3, <2>4 DEF ChangesRecorded
<1>7. CASE UNCHANGED vars
    BY <1>b, <1>d, <1>e, <1>7 DEF vars, dbVars, tableVars, apiVars
<1> QED BY <1>1, <1>2, <1>3, <1>4, <1>5, <1>6, <1>7 DEF Next

-----------------------------------------------------------------------------
(* Whose mutation it is *)

\* Mutations stay with their device when they only move between outbox, requests
\* and records.
LEMMA OwnedByMoving ==
    ASSUME MutationsOwned,
           \A m \in Mutations : mutation[m].made => mutation'[m].made,
           \A d \in Devices, m \in Mutations : Uses(d, m)' => Uses(d, m)
    PROVE  MutationsOwned'
<1>1. \A d \in Devices, m \in Mutations : Uses(d, m) =>
         mutation[m].made /\ \A x \in Devices : Uses(x, m) => x = d
    BY DEF MutationsOwned
<1> SUFFICES ASSUME NEW d \in Devices, NEW m \in Mutations, Uses(d, m)'
             PROVE  mutation'[m].made /\ \A x \in Devices : Uses(x, m)' => x = d
    BY DEF MutationsOwned
<1> QED BY <1>1

\* A new mutation is in the outbox of the device that made it and nowhere else;
\* the others travel from there to a request and to a record.
LEMMA NextOwned ==
    ASSUME TypeOK, ChangesRecorded, MutationsOwned, [Next]_vars
    PROVE  MutationsOwned'
<1>a. /\ req \in [Handlers -> Request] /\ outbox \in [Devices -> Seq(Mutations)]
      /\ processed \subseteq Processed /\ mutation \in [Mutations -> Mutation]
      /\ NoDevice \notin Devices
    BY ApiAssumption DEF TypeOK, ApiTypeOK, ClientTypeOK, DatabaseTypeOK
<1>b. ASSUME mutation' = mutation, outbox' = outbox, processed' \subseteq processed,
             \A g \in Handlers : /\ req'[g].device \in {req[g].device, NoDevice}
                                 /\ req'[g].batch = req[g].batch \/ req'[g].device = NoDevice
      PROVE  MutationsOwned'
  <2>1. \A d \in Devices, m \in Mutations : Uses(d, m)' => Uses(d, m)
    BY <1>a, <1>b DEF Uses
  <2> QED BY <1>b, <2>1, OwnedByMoving
<1>1. ASSUME NEW h \in Handlers, SyncNext(h) PROVE MutationsOwned'
  <2>1. OwnStep(h)
    BY <1>1, SyncOutcomeKinds
  <2>2. mutation' = mutation /\ outbox' = outbox /\ req' = req
    BY <2>1 DEF OwnStep
  <2>3. CASE UNCHANGED <<rows, history, processed>>
    BY <1>b, <2>2, <2>3
  <2>4. CASE Commit(h)
    <3>1. \A p \in processed' : \/ p \in processed
                                \/ /\ p.device = req[h].device
                                   /\ p.mutation \in tx[h].recorded
      BY <2>4 DEF Commit
    <3>2. \A m \in tx[h].recorded : \E i \in DOMAIN req[h].batch : req[h].batch[i] = m
      BY DEF ChangesRecorded
    <3>3. ASSUME NEW d \in Devices, NEW m \in Mutations, Uses(d, m)' PROVE Uses(d, m)
      <4>1. CASE \E p \in processed' : p.device = d /\ p.mutation = m
        BY <3>1, <3>2, <4>1 DEF Uses
      <4>2. CASE ~\E p \in processed' : p.device = d /\ p.mutation = m
        BY <2>2, <3>3, <4>2 DEF Uses
      <4> QED BY <4>1, <4>2
    <3> QED BY <2>2, <3>3, OwnedByMoving
  <2> QED BY <2>1, <2>3, <2>4 DEF OwnStep
<1>2. ASSUME NEW h \in Handlers, SnapshotNext(h) PROVE MutationsOwned'
  <2>1. UNCHANGED <<processed, mutation, outbox>>
    BY <1>2 DEF SnapshotNext, SnapshotStep, SnapshotWork, SnapshotUpsert, SnapshotWatermark,
                SnapshotPage, SnapshotFails, dbVars, tableVars, clientVars
  <2>2. \A g \in Handlers : req'[g].batch = req[g].batch /\ req'[g].device = req[g].device
    <3>1. req' = req \/ req' = [req EXCEPT ![h].cursor = LatestChangeCursor]
      BY <1>2 DEF SnapshotNext, SnapshotStep, SnapshotWork, SnapshotUpsert,
                  SnapshotWatermark, SnapshotPage, SnapshotFails
    <3>2. CASE req' = req
      BY <3>2
    <3>3. CASE req' = [req EXCEPT ![h].cursor = LatestChangeCursor]
      <4>1. [req[h] EXCEPT !.cursor = LatestChangeCursor].batch = req[h].batch
        BY <1>a DEF Request
      <4>2. [req[h] EXCEPT !.cursor = LatestChangeCursor].device = req[h].device
        BY <1>a DEF Request
      <4>3. req' = [req EXCEPT ![h] = [req[h] EXCEPT !.cursor = LatestChangeCursor]]
        BY <3>3
      <4> HIDE <3>3
      <4> QED BY <1>a, <4>1, <4>2, <4>3
    <3> QED BY <3>1, <3>2, <3>3
  <2> QED BY <1>b, <2>1, <2>2
<1>c. ASSUME NEW h \in Handlers, req' = [req EXCEPT ![h] = NoRequest]
      PROVE  \A g \in Handlers : /\ req'[g].device \in {req[g].device, NoDevice}
                                 /\ req'[g].batch = req[g].batch \/ req'[g].device = NoDevice
    BY <1>a, <1>c DEF NoRequest
<1>3. ASSUME NEW h \in Handlers, DropNext(h) PROVE MutationsOwned'
  <2>1. UNCHANGED <<processed, mutation, outbox>> /\ req' = [req EXCEPT ![h] = NoRequest]
    BY <1>3 DEF DropNext, DropAnswer, Finish, dbVars, tableVars, clientVars
  <2> QED BY <1>b, <1>c, <2>1
<1>4. ASSUME NEW d \in Devices, ClientNext(d) PROVE MutationsOwned'
  <2>a. processed' = processed
    BY <1>4 DEF ClientNext, dbVars, tableVars
  <2>1. ASSUME NEW m \in Mutations, Edit(d, m) PROVE MutationsOwned'
    <3>1. /\ req' = req /\ ~mutation[m].made
          /\ outbox' = [outbox EXCEPT ![d] = Append(outbox[d], m)]
      BY <2>1 DEF Edit
    <3>2. mutation'[m].made /\ \A x \in Mutations \ {m} : mutation'[x] = mutation[x]
      BY <1>a, <2>1 DEF Edit
    <3>3. ASSUME NEW x \in Devices, NEW y \in Mutations, Uses(x, y)'
          PROVE  Uses(x, y) \/ (x = d /\ y = m)
      <4>1. CASE \E i \in DOMAIN outbox'[x] : outbox'[x][i] = y
        <5>1. outbox[x] \in Seq(Mutations)
          BY <1>a
        <5>2. CASE x # d
          BY <1>a, <3>1, <4>1, <5>2 DEF Uses
        <5>3. CASE x = d
          <6>1. PICK i \in DOMAIN Append(outbox[d], m) : Append(outbox[d], m)[i] = y
            BY <1>a, <3>1, <4>1, <5>3
          <6>2. y = m \/ (i \in DOMAIN outbox[d] /\ outbox[d][i] = y)
            BY <5>1, <5>3, <6>1
          <6> QED BY <5>3, <6>2 DEF Uses
        <5> QED BY <5>2, <5>3
      <4>2. CASE ~\E i \in DOMAIN outbox'[x] : outbox'[x][i] = y
        BY <2>a, <3>1, <3>3, <4>2 DEF Uses
      <4> QED BY <4>1, <4>2
    <3>4. \A x \in Devices : ~Uses(x, m)
      BY <3>1 DEF MutationsOwned
    <3>5. \A x \in Devices, y \in Mutations : Uses(x, y) =>
             mutation[y].made /\ \A z \in Devices : Uses(z, y) => z = x
      BY DEF MutationsOwned
    <3> SUFFICES ASSUME NEW x \in Devices, NEW y \in Mutations, Uses(x, y)'
                 PROVE  mutation'[y].made /\ \A z \in Devices : Uses(z, y)' => z = x
      BY DEF MutationsOwned
    <3> QED BY <3>2, <3>3, <3>4, <3>5
  <2>2. ASSUME NEW h \in Handlers, NEW n \in 0..Len(outbox[d]), SendSync(d, h, n) PROVE MutationsOwned'
    <3> DEFINE r == [NoRequest EXCEPT !.device = d, !.cursor = cursor[d],
                                      !.batch = SubSeq(outbox[d], 1, n)]
    <3>1. Send(d, h, r, "received")
      BY <2>2, Zenon DEF SendSync
    <3>2. r.batch = SubSeq(outbox[d], 1, n) /\ r.device = d
      BY DEF NoRequest
    <3>3. \A i \in DOMAIN r.batch : i \in DOMAIN outbox[d] /\ r.batch[i] = outbox[d][i]
      BY <1>a, <3>2, SubSeqProperties
    <3> HIDE DEF r
    <3>4. UNCHANGED <<mutation, outbox>> /\ req' = [req EXCEPT ![h] = r]
      BY <3>1 DEF Send
    <3>5. ASSUME NEW x \in Devices, NEW m \in Mutations, Uses(x, m)' PROVE Uses(x, m)
      <4>1. req'[h] = r /\ \A g \in Handlers \ {h} : req'[g] = req[g]
        BY <1>a, <3>4
      <4> QED BY <2>a, <3>2, <3>3, <3>4, <3>5, <4>1 DEF Uses
    <3> QED BY <3>4, <3>5, OwnedByMoving
  <2>3. ASSUME NEW h \in Handlers, SendSnapshot(d, h) PROVE MutationsOwned'
    <3> DEFINE r == [NoRequest EXCEPT !.device = d, !.cursor = cursor[d],
                                      !.entity = phase[d], !.after = after[d]]
    <3>1. Send(d, h, r, "snapUpsert")
      BY <2>3, Zenon DEF SendSnapshot
    <3>2. r.batch = <<>>
      BY DEF NoRequest
    <3> HIDE DEF r
    <3>4. UNCHANGED <<mutation, outbox>> /\ req' = [req EXCEPT ![h] = r]
      BY <3>1 DEF Send
    <3>5. ASSUME NEW x \in Devices, NEW m \in Mutations, Uses(x, m)' PROVE Uses(x, m)
      <4>1. req'[h] = r /\ \A g \in Handlers \ {h} : req'[g] = req[g]
        BY <1>a, <3>4
      <4>2. DOMAIN r.batch = {}
        BY <3>2
      <4> QED BY <2>a, <3>4, <3>5, <4>1, <4>2 DEF Uses
    <3> QED BY <3>4, <3>5, OwnedByMoving
  <2>4. ASSUME NEW h \in Handlers, Receive(d, h) PROVE MutationsOwned'
    <3>1. mutation' = mutation /\ req' = [req EXCEPT ![h] = NoRequest]
      BY <2>4 DEF Receive, ReceiveSync, ReceiveExpired, ReceivePage, ReceiveError, Answered, Finish
    <3>2. CASE outbox' = outbox
      BY <1>b, <1>c, <2>a, <3>1, <3>2
    <3>3. CASE ReceiveSync(d, h)
      <4> DEFINE k == Len(req[h].batch) + 1
                 s == outbox[d]
      <4>1. outbox' = [outbox EXCEPT ![d] = SubSeq(s, k, Len(s))]
        BY <3>3 DEF ReceiveSync
      <4>2. s \in Seq(Mutations) /\ k \in Nat \ {0} /\ Len(s) \in Nat
        <5>1. req[h].batch \in Seq(Mutations)
          BY <1>a DEF Request
        <5> QED BY <1>a, <5>1
      <4> HIDE DEF k, s
      <4>3. \A i \in DOMAIN SubSeq(s, k, Len(s)) : \E j \in DOMAIN s : SubSeq(s, k, Len(s))[i] = s[j]
        <5>1. CASE k > Len(s)
          BY <4>2, <5>1
        <5>2. CASE k <= Len(s)
          BY <4>2, <5>2
        <5> QED BY <4>2, <5>1, <5>2
      <4>4. ASSUME NEW x \in Devices, NEW m \in Mutations, Uses(x, m)' PROVE Uses(x, m)
        <5>1. \A i \in DOMAIN outbox'[x] : \E j \in DOMAIN outbox[x] : outbox'[x][i] = outbox[x][j]
          BY <1>a, <4>1, <4>3 DEF s
        <5>2. \A g \in Handlers : req'[g] = req[g] \/ req'[g].device \notin Devices
          BY <1>a, <3>1 DEF NoRequest
        <5> QED BY <2>a, <4>4, <5>1, <5>2 DEF Uses
      <4> QED BY <3>1, <4>4, OwnedByMoving
    <3> QED BY <2>4, <3>2, <3>3 DEF Receive, ReceiveExpired, ReceivePage, ReceiveError
  <2>5. CASE GiveUp(d)
    BY <1>b, <2>a, <2>5 DEF GiveUp
  <2> QED BY <1>4, <2>1, <2>2, <2>3, <2>4, <2>5 DEF ClientNext, ClientStep
<1>5. ASSUME RetentionNext PROVE MutationsOwned'
  <2>1. UNCHANGED <<req, mutation, outbox>> /\ processed' \subseteq processed
    BY <1>5 DEF RetentionNext, RetentionStep, StartRun, ReadMinCursor, PruneLog, PruneMutations,
                RetentionStatementFails, dbVars, tableVars, clientVars, PruneProcessedMutations
  <2> QED BY <1>b, <2>1
<1>6. CASE Environment \/ UNCHANGED vars
  <2>1. UNCHANGED <<req, mutation, outbox, processed>>
    BY <1>6 DEF Environment, Tick, OtherUserAppends, vars, dbVars, tableVars, apiVars, clientVars
  <2> QED BY <1>b, <2>1
<1> QED BY <1>1, <1>2, <1>3, <1>4, <1>5, <1>6 DEF Next

-----------------------------------------------------------------------------
(* Known versions *)

\* An answer to a sync carries the outcomes it was given, and of the visible
\* changes some, at most without their data.
LEMMA PageContent ==
    ASSUME NEW visible, NEW k, NEW o, NEW r \in SyncResponses(visible, k, o), visible \subseteq Change
    PROVE  /\ r.outcome = o /\ r.items = NoItems
           /\ \A x \in r.changes : \E c \in visible : x.entity = c.entity /\ x.version = c.version
<1> DEFINE found == ListChanges(visible, k)
           ids == {c.id : c \in found}
           ends == IF found = {} THEN {k} ELSE PageEnds(ids, ChangeLimit)
           page(end) == {BuildChange(c) : c \in {x \in found : x.id <= end}}
<1>1. PICK end \in ends :
        r = [Bare("ok") EXCEPT !.changes = {BuildChange(c) : c \in {x \in found : x.id <= end}},
                               !.next = end,
                               !.more = \E x \in found : x.id > end,
                               !.outcome = o]
    BY Zenon DEF SyncResponses
<1>2. \A c \in Change : BuildChange(c).entity = c.entity /\ BuildChange(c).version = c.version
    BY DEF BuildChange, Change
<1>3. found \subseteq visible
    BY DEF ListChanges
<1>4. \A x \in page(end) : \E c \in visible : x.entity = c.entity /\ x.version = c.version
    BY <1>2, <1>3
<1> HIDE DEF found, ids, ends
<1>5. r.changes = page(end) /\ r.outcome = o /\ r.items = NoItems
    BY <1>1 DEF Bare
<1> QED BY <1>4, <1>5

\* An answer to a snapshot request carries committed rows, and nothing else.
LEMMA SnapshotContent ==
    ASSUME TypeOK, NEW q \in Request, NEW r \in SnapshotPages(q)
    PROVE  /\ r.outcome = NoOutcomes /\ r.changes = {}
           /\ \A e \in Entities : r.items[e] \in {rows[e], NoRow}
<1> DEFINE found == KeysetAfter(IF q.entity = "session" THEN Sessions ELSE Solves, q.after)
           ends == IF found = {} THEN {0} ELSE PageEnds(found, SnapshotPageSize)
           more(end) == \E e \in found : e > end
           items(end) == [e \in Entities |-> IF e \in found /\ e <= end THEN rows[e] ELSE NoRow]
<1>1. PICK end \in ends :
        r = [Bare("ok") EXCEPT
             !.items = [e \in Entities |-> IF e \in found /\ e <= end THEN rows[e] ELSE NoRow],
             !.next = q.cursor,
             !.more = more(end),
             !.after = IF more(end) THEN end ELSE 0,
             !.entity = IF more(end) THEN q.entity
                        ELSE IF q.entity = "session" THEN "solve" ELSE "none"]
    BY Zenon DEF SnapshotPages
<1>2. \A e \in Entities : items(end)[e] \in {rows[e], NoRow}
    OBVIOUS
<1> HIDE DEF found, ends, more
<1>3. r.outcome = NoOutcomes /\ r.changes = {} /\ r.items = items(end)
    BY <1>1 DEF Bare
<1> QED BY <1>2, <1>3

\* What a device concludes from outcomes is no newer than the outcomes.
LEMMA OutcomesTeach ==
    ASSUME TypeOK, NEW batch \in Seq(Mutations), NEW old \in [Entities -> Row],
           NEW outcome \in [Mutations -> Outcome \cup {NoOutcome}],
           NEW e \in Entities, NEW n \in Nat, old[e].version <= n,
           \A m \in Mutations : mutation[m].entity = e /\ outcome[m] # NoOutcome =>
              outcome[m].version <= n /\ outcome[m].current.version <= n
    PROVE  RowsByOutcomes(batch, outcome, old)[e].version <= n
<1> DEFINE mine == {i \in DOMAIN batch : mutation[batch[i]].entity = e}
           told == {RowByOutcome(batch[i], outcome[batch[i]], old[e]) : i \in mine}
           newest == {row \in told : \A x \in told : x.version <= row.version}
<1>1. ASSUME NEW m \in Mutations, mutation[m].entity = e
      PROVE  RowByOutcome(m, outcome[m], old[e]).version <= n
  <2>1. CASE outcome[m] = NoOutcome
    BY <2>1 DEF NoOutcome, RowByOutcome
  <2>2. CASE outcome[m] # NoOutcome
    <3>1. outcome[m].version <= n /\ outcome[m].current.version <= n
      BY <1>1, <2>2
    <3> QED BY <3>1 DEF RowByOutcome, AcceptedRow, Newer
  <2> QED BY <2>1, <2>2
<1>2. \A row \in told : row.version <= n
    BY <1>1
<1>3. RowsByOutcomes(batch, outcome, old)[e] =
        IF newest = {} THEN old[e] ELSE CHOOSE row \in newest : TRUE
    BY DEF RowsByOutcomes
<1>4. \A row \in newest : row.version <= n
    BY <1>2
<1> HIDE DEF newest
<1> QED BY <1>3, <1>4

\* What a device concludes from changes is no newer than the changes.
LEMMA ChangesTeach ==
    ASSUME NEW changes \in SUBSET Change, NEW old \in [Entities -> Row],
           NEW e \in Entities, NEW n \in Nat, old[e].version <= n,
           \A c \in changes : c.entity = e => c.version <= n
    PROVE  RowsByChanges(changes, old)[e].version <= n
<1> DEFINE last == LastOf({c \in changes : c.entity = e})
           full == LastOf({c \in changes : c.entity = e /\ c.data # NoMutation})
           change == CHOOSE c \in last : TRUE
           source == CHOOSE c \in full : TRUE
           new == [version |-> change.version, deleted |-> change.op = "delete",
                   data |-> IF full = {} THEN old[e].data ELSE source.data]
<1>1. RowsByChanges(changes, old)[e] = IF last = {} THEN old[e] ELSE Newer(new, old[e])
    BY DEF RowsByChanges
<1>2. \A c \in last : c.version <= n
    BY DEF LastOf
<1> HIDE DEF last, full
<1>3. last # {} => change.version <= n
    BY <1>2
<1> HIDE DEF change, source
<1>4. last # {} => new.version <= n
    BY <1>3
<1> HIDE DEF new
<1> QED BY <1>1, <1>4 DEF Newer

\* The part of VersionsKnown that is about one answer.
AnswerKnown(h) ==
    /\ \A c \in resp[h].changes : c.version <= RowInTx(h, c.entity).version
    /\ \A e \in Entities : resp[h].items[e].version <= rows[e].version

\* What was known stays known while versions grow.
LEMMA StaysKnown ==
    ASSUME TypeOK, TypeOK', VersionsKnown,
           \A e \in Entities : rows[e].version <= rows'[e].version,
           \A d \in Devices, e \in Entities : replica'[d][e].version <= rows[e].version,
           \A m \in Mutations : mutation'[m].was.version <= rows[mutation'[m].entity].version,
           \A g \in Handlers : AnswerKnown(g)'
    PROVE  VersionsKnown'
<1>1. /\ \A e \in Entities : rows[e].version \in Nat /\ rows'[e].version \in Nat
      /\ \A d \in Devices, e \in Entities : replica'[d][e].version \in Nat
      /\ \A m \in Mutations : /\ mutation'[m].was.version \in Nat
                              /\ mutation'[m].entity \in Entities
    BY DEF TypeOK, DatabaseTypeOK, ApiTypeOK, ClientTypeOK, Mutation, Row
<1>2. \A d \in Devices, e \in Entities : replica'[d][e].version <= rows'[e].version
    BY <1>1
<1>3. \A m \in Mutations : mutation'[m].was.version <= rows'[mutation'[m].entity].version
    BY <1>1
<1> QED BY <1>2, <1>3 DEF VersionsKnown, AnswerKnown

\* An answer without changes and items knows nothing.
LEMMA NothingKnown ==
    ASSUME TypeOK', NEW h \in Handlers, resp'[h].changes = {},
           \A e \in Entities : resp'[h].items[e] \in {rows'[e], NoRow}
    PROVE  AnswerKnown(h)'
<1>1. \A e \in Entities : rows'[e].version \in Nat /\ NoRow.version = 0
    BY DEF TypeOK, DatabaseTypeOK, Row, NoRow
<1> QED BY <1>1 DEF AnswerKnown

\* A response that carries only a status.
LEMMA BareKnown ==
    ASSUME TypeOK', NEW h \in Handlers, NEW s, resp'[h] = Bare(s)
    PROVE  AnswerKnown(h)'
<1>1. resp'[h].changes = {} /\ \A e \in Entities : resp'[h].items[e] = NoRow
    BY DEF Bare, NoItems
<1> QED BY <1>1, NothingKnown

\* The answers of a sync request only show what its transaction sees.
LEMMA SyncAnswersKnown ==
    ASSUME TypeOK, TypeOK', OrderInv, StoryInv, VersionsKnown, NEW h \in Handlers,
           OwnStep(h), SyncKind(h)
    PROVE  /\ \A e \in Entities : rows[e].version <= rows'[e].version
           /\ \A g \in Handlers : AnswerKnown(g)'
<1>a. /\ rows \in [Entities -> Row] /\ tx \in [Handlers -> Tx]
      /\ history \subseteq Change /\ log \subseteq history
      /\ \A g \in Handlers : /\ tx[g].changes \subseteq Change
                             /\ resp[g].changes \subseteq Change
                             /\ resp[g].items \in [Entities -> Row]
      /\ \A e \in Entities : rows[e].version \in Nat
      /\ \A g \in Handlers, e \in Entities : RowInTx(g, e).version \in Nat
      /\ \A c \in Change : c.entity \in Entities /\ c.version \in Nat
    BY RowInTxType DEF TypeOK, DatabaseTypeOK, TxTypeOK, Tx, ApiTypeOK, Response, Row, Change,
                       StoryInv, LogIsRecentHistory
<1>b. \A g \in Handlers : AnswerKnown(g)
    BY DEF VersionsKnown, AnswerKnown
<1>c. \A g \in Handlers, e \in Entities : RowsInTx(g)[e] = RowInTx(g, e)
    BY DEF RowsInTx
<1>d. \A c \in history \cup tx[h].changes : c.version <= RowInTx(h, c.entity).version
    BY <1>a, <1>c DEF StoryInv, RowsExplained, Explains
<1>1. CASE Commit(h)
  <2>1. \A e \in Entities : rows'[e] = RowInTx(h, e)
    BY <1>1 DEF Commit
  <2>2. \A e \in Entities : rows[e].version <= rows'[e].version
    BY <1>a, <2>1, TxSeesNewer
  <2>3. resp' = resp /\ pc[h] = "commit" /\ tx' = [tx EXCEPT ![h] = NoTx]
    BY <1>1 DEF Commit, EndTx
  <2>4. \A g \in Handlers \ {h} : tx[g].rows = NoItems
    BY <2>3, OnePending DEF OrderInv, StoryInv, PendingIsNew
  <2>5. \A g \in Handlers : tx'[g].rows = NoItems
    BY <1>a, <2>3, <2>4 DEF NoTx
  <2>6. \A g \in Handlers, e \in Entities : RowInTx(g, e)' = rows'[e]
    BY <2>5 DEF RowInTx, NoItems, NoRow
  <2>7. \A g \in Handlers \ {h}, e \in Entities : RowInTx(g, e) = rows[e]
    BY <2>4 DEF RowInTx, NoItems, NoRow
  <2>8. ASSUME NEW g \in Handlers PROVE AnswerKnown(g)'
    <3>1. \A c \in resp[g].changes : c.version <= rows'[c.entity].version
      <4>1. CASE g = h
        BY <1>a, <1>b, <2>1, <4>1 DEF AnswerKnown
      <4>2. CASE g # h
        <5>1. \A c \in resp[g].changes :
                 /\ c.entity \in Entities /\ c.version \in Nat
                 /\ c.version <= rows[c.entity].version
          BY <1>a, <1>b, <2>7, <4>2 DEF AnswerKnown
        <5> QED BY <1>a, <2>1, <2>2, <5>1
      <4> QED BY <4>1, <4>2
    <3>2. \A e \in Entities : resp[g].items[e].version <= rows'[e].version
      <4>1. \A e \in Entities : resp[g].items[e].version \in Nat /\ rows'[e].version \in Nat
        BY <1>a, <2>1 DEF Row
      <4> QED BY <1>a, <1>b, <2>2, <4>1 DEF AnswerKnown
    <3>3. \A c \in resp[g].changes : c.version <= RowInTx(g, c.entity)'.version
      BY <1>a, <2>6, <3>1
    <3> QED BY <2>3, <3>2, <3>3 DEF AnswerKnown
  <2> QED BY <2>2, <2>8
<1>2. CASE ~Commit(h)
  <2>1. rows' = rows /\ \A g \in Handlers \ {h} : tx'[g] = tx[g] /\ resp'[g] = resp[g]
    BY <1>2 DEF OwnStep
  <2>2. \A g \in Handlers \ {h} : AnswerKnown(g)'
    BY <1>b, <2>1 DEF AnswerKnown, RowInTx
  <2>k. SUFFICES AnswerKnown(h)'
    BY <1>a, <2>1, <2>2
  <2>3. CASE TxRests(h)
    <3>1. \A e : RowInTx(h, e)' = RowInTx(h, e)
      BY <2>1, <2>3 DEF RowInTx, TxRests
    <3>2. CASE resp'[h] = resp[h]
      BY <1>b, <2>1, <3>1, <3>2 DEF AnswerKnown
    <3>3. ASSUME NEW s, resp'[h] = Bare(s) PROVE AnswerKnown(h)'
      BY <3>3, BareKnown
    <3>4. ASSUME NEW visible, NEW o, visible \subseteq history \cup tx[h].changes,
                 resp'[h] \in SyncResponses(visible, req[h].cursor, o)
          PROVE  AnswerKnown(h)'
      <4>1. visible \subseteq Change
        BY <1>a, <3>4
      <4>2. /\ resp'[h].items = NoItems
            /\ \A x \in resp'[h].changes :
                  \E c \in visible : x.entity = c.entity /\ x.version = c.version
        BY <3>4, <4>1, PageContent
      <4>3. \A x \in resp'[h].changes : x.version <= RowInTx(h, x.entity).version
        BY <1>d, <3>4, <4>2
      <4>4. \A e \in Entities : resp'[h].items[e].version <= rows[e].version
        BY <1>a, <4>2 DEF NoItems, NoRow
      <4> QED BY <2>1, <3>1, <4>3, <4>4 DEF AnswerKnown
    <3>5. CASE \E r \in SyncResponses(log, req[h].cursor, NoOutcomes) : resp'[h] = r
      <4>1. log \subseteq history \cup tx[h].changes
        BY <1>a
      <4> QED BY <3>4, <3>5, <4>1
    <3>6. CASE \E r \in SyncResponses(log \cup tx[h].changes, req[h].cursor, tx[h].outcome) :
                  resp'[h] = r
      <4>1. log \cup tx[h].changes \subseteq history \cup tx[h].changes
        BY <1>a
      <4> QED BY <3>4, <3>6, <4>1
    <3> QED BY <1>2, <3>2, <3>3, <3>5, <3>6 DEF SyncKind, Breaks
  <2>4. ASSUME NEW m \in Mutations, ReplayMutation(h, m) \/ RefuseMutation(h, m),
               resp'[h] = resp[h]
        PROVE  AnswerKnown(h)'
    <3>1. tx'[h].rows = tx[h].rows
      <4>1. CASE ReplayMutation(h, m)
        BY <4>1, <1>a DEF ReplayMutation, Tx
      <4>2. CASE RefuseMutation(h, m)
        <5>1. PICK o : tx' = [tx EXCEPT ![h].outcome[m] = o, ![h].recorded = @ \cup {m}]
          BY <4>2 DEF RefuseMutation
        <5> QED BY <5>1, <1>a DEF Tx
      <4> QED BY <2>4, <4>1, <4>2
    <3> QED BY <1>b, <2>1, <2>4, <3>1 DEF AnswerKnown, RowInTx
  <2>5. ASSUME NEW m \in Mutations, ApplyMutation(h, m), resp'[h] = resp[h] PROVE AnswerKnown(h)'
    <3>1. PICK c \in Change, new \in Row : AppliedAs(h, m, c, new)
      BY <2>5, ApplyEffect
    <3>2. /\ tx'[h].rows = [tx[h].rows EXCEPT ![c.entity] = new]
          /\ new.version = RowInTx(h, c.entity).version + 1
      BY <3>1 DEF AppliedAs, Leaves
    <3>3. ASSUME NEW e \in Entities PROVE RowInTx(h, e).version <= RowInTx(h, e)'.version
      <4>1. tx[h].rows \in [Entities -> Row] /\ c.entity \in Entities /\ new.version \in Nat
        BY <1>a DEF Tx, Row
      <4> QED BY <1>a, <2>1, <3>2, <4>1 DEF RowInTx
    <3>4. \A e \in Entities : RowInTx(h, e)'.version \in Nat
      <4>1. tx'[h].rows \in [Entities -> Row]
        BY DEF TypeOK, TxTypeOK, Tx
      <4> QED BY <1>a, <2>1, <4>1 DEF RowInTx, Row
    <3>5. \A x \in resp[h].changes : /\ x.entity \in Entities /\ x.version \in Nat
                                     /\ x.version <= RowInTx(h, x.entity).version
      BY <1>a, <1>b DEF AnswerKnown
    <3>6. \A x \in resp[h].changes : x.version <= RowInTx(h, x.entity)'.version
      BY <1>a, <3>3, <3>4, <3>5
    <3> QED BY <1>b, <2>1, <2>5, <3>6 DEF AnswerKnown
  <2>6. CASE Breaks(h)
    BY <2>6, BareKnown DEF Breaks
  <2> QED BY <1>2, <2>3, <2>4, <2>5, <2>6 DEF SyncKind
<1> QED BY <1>1, <1>2

\* An answer that has left its transaction tells the truth about committed rows.
LEMMA AnswerIsCommitted ==
    ASSUME TypeOK, StoryInv, OutcomeInv, NEW h \in Handlers, pc[h] = "reply"
    PROVE  /\ tx[h].changes = {} /\ RowsInTx(h) = rows
           /\ \A m \in Mutations : Truthful(m, resp[h].outcome[m], history, rows)
           /\ \A c \in resp[h].changes : c.version <= rows[c.entity].version
           /\ \A e \in Entities : resp[h].items[e].version <= rows[e].version
<1>1. tx[h].changes = {} /\ tx[h].rows = NoItems
    BY DEF StoryInv, PendingIsNew
<1>2. RowsInTx(h) = rows
    BY <1>1, OutsideTx DEF TypeOK, DatabaseTypeOK
<1>3. history \cup tx[h].changes = history
    BY <1>1
<1>4. \A m \in Mutations : Truthful(m, resp[h].outcome[m], history, rows)
    BY <1>2, <1>3 DEF OutcomeInv, OutcomesTrue
<1>5. \A e \in Entities : RowInTx(h, e) = rows[e]
    BY <1>1 DEF RowInTx, NoItems, NoRow
<1>6. \A c \in resp[h].changes : c.entity \in Entities
    BY DEF TypeOK, ApiTypeOK, Response, Change
<1> QED BY <1>1, <1>2, <1>4, <1>5, <1>6 DEF OutcomeInv, VersionsKnown

\* Devices learn committed versions only, and make their edits on those.
LEMMA ClientVersions ==
    ASSUME TypeOK, TypeOK', StoryInv, OutcomeInv, NEW d \in Devices, ClientNext(d)
    PROVE  VersionsKnown'
<1>a. /\ replica \in [Devices -> [Entities -> Row]] /\ rows \in [Entities -> Row]
      /\ mutation \in [Mutations -> Mutation] /\ resp \in [Handlers -> Response]
      /\ \A e \in Entities : rows[e].version \in Nat
      /\ \A m \in Mutations : mutation[m].entity \in Entities
    BY DEF TypeOK, DatabaseTypeOK, ApiTypeOK, ClientTypeOK, Mutation, Row
<1>b. rows' = rows /\ tx' = tx
    BY DEF ClientNext, dbVars, tableVars
<1>c. /\ \A x \in Devices, e \in Entities : replica[x][e].version <= rows[e].version
      /\ \A m \in Mutations : mutation[m].was.version <= rows[mutation[m].entity].version
      /\ \A g \in Handlers : AnswerKnown(g)
    BY DEF OutcomeInv, VersionsKnown, AnswerKnown
<1>d. \A g \in Handlers : resp'[g] = resp[g] => AnswerKnown(g)'
    BY <1>b, <1>c DEF AnswerKnown, RowInTx
<1>e. ASSUME NEW h \in Handlers, Answered(d, h) PROVE \A g \in Handlers : AnswerKnown(g)'
  <2>1. resp'[h] = Bare("ok") /\ \A g \in Handlers \ {h} : resp'[g] = resp[g]
    BY <1>a, <1>e DEF Answered, Finish
  <2> QED BY <1>d, <2>1, BareKnown
<1>f. ASSUME \A g \in Handlers : AnswerKnown(g)', mutation' = mutation,
             NEW new, replica' = [replica EXCEPT ![d] = new],
             \A e \in Entities : new[e].version <= rows[e].version
      PROVE  VersionsKnown'
  <2>1. \A x \in Devices, e \in Entities : replica'[x][e].version <= rows[e].version
    BY <1>a, <1>c, <1>f
  <2> QED BY <1>a, <1>b, <1>c, <1>f, <2>1, StaysKnown DEF OutcomeInv
<1>g. ASSUME \A g \in Handlers : AnswerKnown(g)', mutation' = mutation, replica' = replica
      PROVE  VersionsKnown'
    BY <1>a, <1>b, <1>c, <1>g, StaysKnown DEF OutcomeInv
<1>1. ASSUME NEW m \in Mutations, Edit(d, m) PROVE VersionsKnown'
  <2>1. PICK x \in Edits :
          mutation' = [mutation EXCEPT ![m] =
             [made |-> TRUE, entity |-> x.entity, op |-> x.op, was |-> replica[d][x.entity],
              session |-> x.session, valid |-> x.valid]]
    BY <1>1 DEF Edit
  <2>2. x.entity \in Entities
    BY ClientAssumption
  <2>3. mutation'[m].entity = x.entity /\ mutation'[m].was = replica[d][x.entity]
    BY <1>a, <2>1
  <2>4. \A y \in Mutations \ {m} : mutation'[y] = mutation[y]
    BY <1>a, <2>1
  <2>5. \A y \in Mutations : mutation'[y].was.version <= rows[mutation'[y].entity].version
    BY <1>c, <2>2, <2>3, <2>4
  <2>6. replica' = replica /\ \A g \in Handlers : AnswerKnown(g)'
    BY <1>1, <1>d DEF Edit
  <2> QED BY <1>a, <1>b, <1>c, <2>5, <2>6, StaysKnown DEF OutcomeInv
<1>2. ASSUME NEW h \in Handlers, NEW r, NEW s, Send(d, h, r, s) PROVE VersionsKnown'
    BY <1>2, <1>d, <1>g DEF Send
<1>3. ASSUME NEW h \in Handlers, ReceiveSync(d, h) PROVE VersionsKnown'
  <2>1. Answered(d, h) /\ mutation' = mutation /\ pc[h] = "reply"
    BY <1>3 DEF ReceiveSync, Answered
  <2> DEFINE told == RowsByOutcomes(req[h].batch, resp[h].outcome, replica[d])
             new == RowsByChanges(resp[h].changes, told)
  <2>2. replica' = [replica EXCEPT ![d] = new]
    BY <1>3 DEF ReceiveSync
  <2>3. /\ req[h].batch \in Seq(Mutations) /\ resp[h].changes \in SUBSET Change
        /\ resp[h].outcome \in [Mutations -> Outcome \cup {NoOutcome}]
        /\ replica[d] \in [Entities -> Row]
    BY DEF TypeOK, ApiTypeOK, ClientTypeOK, Request, Response
  <2>4. told \in [Entities -> Row]
    BY <2>3, RowsByOutcomesType
  <2>5. /\ \A m \in Mutations : Truthful(m, resp[h].outcome[m], history, rows)
        /\ \A c \in resp[h].changes : c.version <= rows[c.entity].version
    BY <2>1, AnswerIsCommitted
  <2>6. ASSUME NEW e \in Entities PROVE told[e].version <= rows[e].version
    <3>1. \A m \in Mutations : mutation[m].entity = e /\ resp[h].outcome[m] # NoOutcome =>
              /\ resp[h].outcome[m].version <= rows[e].version
              /\ resp[h].outcome[m].current.version <= rows[e].version
      BY <2>5 DEF Truthful
    <3>2. rows[e].version \in Nat /\ replica[d][e].version <= rows[e].version
      BY <1>a, <1>c
    <3> QED BY <2>3, <3>1, <3>2, OutcomesTeach
  <2> HIDE DEF told
  <2>7. ASSUME NEW e \in Entities PROVE new[e].version <= rows[e].version
    <3>1. rows[e].version \in Nat /\ told[e].version <= rows[e].version
      BY <1>a, <2>6
    <3>2. \A c \in resp[h].changes : c.entity = e => c.version <= rows[e].version
      BY <2>5
    <3> QED BY <2>3, <2>4, <3>1, <3>2, ChangesTeach
  <2> HIDE DEF new
  <2> QED BY <1>e, <1>f, <2>1, <2>2, <2>7
<1>4. ASSUME NEW h \in Handlers, ReceiveExpired(d, h) PROVE VersionsKnown'
  <2>1. /\ Answered(d, h) /\ mutation' = mutation
        /\ replica' = [replica EXCEPT ![d] = NoItems]
    BY <1>4 DEF ReceiveExpired
  <2>2. \A e \in Entities : NoItems[e].version <= rows[e].version
    BY <1>a DEF NoItems, NoRow
  <2> QED BY <1>e, <1>f, <2>1, <2>2
<1>5. ASSUME NEW h \in Handlers, ReceivePage(d, h) PROVE VersionsKnown'
  <2> DEFINE new == [e \in Entities |-> Newer(resp[h].items[e], replica[d][e])]
  <2>1. Answered(d, h) /\ mutation' = mutation /\ pc[h] = "reply"
    BY <1>5 DEF ReceivePage, Answered
  <2>2. replica' = [replica EXCEPT ![d] = new]
    BY <1>5 DEF ReceivePage
  <2>3. \A e \in Entities : resp[h].items[e].version <= rows[e].version
    BY <2>1, AnswerIsCommitted
  <2>4. \A e \in Entities : new[e].version <= rows[e].version
    BY <1>c, <2>3 DEF Newer
  <2> HIDE DEF new
  <2> QED BY <1>e, <1>f, <2>1, <2>2, <2>4
<1>6. ASSUME NEW h \in Handlers, ReceiveError(d, h) PROVE VersionsKnown'
    BY <1>6, <1>e, <1>g DEF ReceiveError
<1>7. CASE GiveUp(d)
    BY <1>7, <1>d, <1>g DEF GiveUp
<1> QED BY <1>1, <1>2, <1>3, <1>4, <1>5, <1>6, <1>7
        DEF ClientNext, ClientStep, SendSync, SendSnapshot, Receive

\* Nobody learns a version before it is committed.
LEMMA NextVersions ==
    ASSUME TypeOK, TypeOK', OrderInv, StoryInv, OutcomeInv, [Next]_vars
    PROVE  VersionsKnown'
<1>a. /\ resp \in [Handlers -> Response] /\ req \in [Handlers -> Request]
      /\ \A e \in Entities : rows[e].version \in Nat
      /\ \A d \in Devices, e \in Entities : replica[d][e].version <= rows[e].version
      /\ \A m \in Mutations : mutation[m].was.version <= rows[mutation[m].entity].version
      /\ \A g \in Handlers : AnswerKnown(g)
    BY DEF TypeOK, DatabaseTypeOK, ApiTypeOK, Row, OutcomeInv, VersionsKnown, AnswerKnown
<1>b. ASSUME UNCHANGED <<mutation, replica>>,
             \A e \in Entities : rows[e].version <= rows'[e].version,
             \A g \in Handlers : AnswerKnown(g)'
      PROVE  VersionsKnown'
    BY <1>a, <1>b, StaysKnown DEF OutcomeInv
<1>c. ASSUME UNCHANGED <<mutation, replica, rows, tx>>,
             \A g \in Handlers : AnswerKnown(g)' \/ resp'[g] = resp[g]
      PROVE  VersionsKnown'
  <2>1. \A g \in Handlers : resp'[g] = resp[g] => AnswerKnown(g)'
    BY <1>a, <1>c DEF AnswerKnown, RowInTx
  <2> QED BY <1>a, <1>b, <1>c, <2>1
<1>1. ASSUME NEW h \in Handlers, SyncNext(h) PROVE VersionsKnown'
  <2>1. OwnStep(h) /\ SyncKind(h)
    BY <1>1, SyncOutcomeKinds
  <2> QED BY <1>b, <2>1, SyncAnswersKnown DEF OwnStep, OutcomeInv
<1>2. ASSUME NEW h \in Handlers, SnapshotNext(h) PROVE VersionsKnown'
  <2>1. UNCHANGED <<mutation, replica, rows, tx>>
    BY <1>2 DEF SnapshotNext, SnapshotStep, SnapshotWork, SnapshotUpsert, SnapshotWatermark,
                SnapshotPage, SnapshotFails, dbVars, tableVars, clientVars
  <2>2. CASE SnapshotPage(h)
    <3>1. PICK r \in SnapshotPages(req[h]) : resp' = [resp EXCEPT ![h] = r]
      BY <2>2 DEF SnapshotPage, Respond
    <3>2. r.changes = {} /\ \A e \in Entities : r.items[e] \in {rows[e], NoRow}
      BY <1>a, SnapshotContent
    <3>3. AnswerKnown(h)'
      BY <1>a, <2>1, <3>1, <3>2, NothingKnown
    <3> QED BY <1>a, <1>c, <2>1, <3>1, <3>3
  <2>3. CASE SnapshotFails(h)
    <3>1. resp'[h] = Bare("error") /\ \A g \in Handlers \ {h} : resp'[g] = resp[g]
      BY <1>a, <2>3 DEF SnapshotFails, Respond
    <3> QED BY <1>c, <2>1, <3>1, BareKnown
  <2>4. CASE resp' = resp
    BY <1>c, <2>1, <2>4
  <2> QED BY <1>2, <2>2, <2>3, <2>4
          DEF SnapshotNext, SnapshotStep, SnapshotWork, SnapshotUpsert, SnapshotWatermark
<1>3. ASSUME NEW h \in Handlers, DropNext(h) PROVE VersionsKnown'
  <2>1. UNCHANGED <<mutation, replica, rows, tx>>
    BY <1>3 DEF DropNext, DropAnswer, dbVars, tableVars, clientVars
  <2>2. resp'[h] = Bare("ok") /\ \A g \in Handlers \ {h} : resp'[g] = resp[g]
    BY <1>a, <1>3 DEF DropNext, DropAnswer, Finish
  <2> QED BY <1>c, <2>1, <2>2, BareKnown
<1>4. ASSUME NEW d \in Devices, ClientNext(d) PROVE VersionsKnown'
    BY <1>4, ClientVersions
<1>5. CASE RetentionNext \/ Environment \/ UNCHANGED vars
  <2>1. UNCHANGED <<mutation, replica, rows, tx, resp>>
    BY <1>5 DEF RetentionNext, RetentionStep, StartRun, ReadMinCursor, PruneLog, PruneMutations,
                RetentionStatementFails, Environment, Tick, OtherUserAppends, vars, dbVars,
                tableVars, apiVars, clientVars
  <2> QED BY <1>c, <2>1
<1> QED BY <1>1, <1>2, <1>3, <1>4, <1>5 DEF Next

-----------------------------------------------------------------------------
(* Outcomes stay true *)

\* What OutcomesTrue says after a step, in terms of TruthfulOf.
LEMMA TrueAfterwards ==
    ASSUME \A p \in processed' :
              TruthfulOf(mutation', now', p.mutation, p.outcome, history', rows'),
           \A g \in Handlers, m \in Mutations :
              /\ TruthfulOf(mutation', now', m, tx'[g].outcome[m], history' \cup tx'[g].changes,
                            RowsInTx(g)')
              /\ TruthfulOf(mutation', now', m, resp'[g].outcome[m], history' \cup tx'[g].changes,
                            RowsInTx(g)')
    PROVE  OutcomesTrue'
<1>1. \A p \in processed' : Truthful(p.mutation, p.outcome, history, rows)'
    BY DEF Truthful, TruthfulOf, Hopeless, HopelessOf
<1>2. ASSUME NEW g \in Handlers, NEW m \in Mutations
      PROVE  /\ Truthful(m, tx[g].outcome[m], history \cup tx[g].changes, RowsInTx(g))'
             /\ Truthful(m, resp[g].outcome[m], history \cup tx[g].changes, RowsInTx(g))'
    BY DEF Truthful, TruthfulOf, Hopeless, HopelessOf
<1> QED BY <1>1, <1>2 DEF OutcomesTrue

\* The answers of g are gone, or true of what its transaction sees as before.
AnswersKept(g) ==
    \/ tx'[g].outcome = NoOutcomes /\ resp'[g].outcome = NoOutcomes
    \/ /\ tx'[g].changes = tx[g].changes /\ tx'[g].rows = tx[g].rows
       /\ \A m \in Mutations :
             /\ Truthful(m, tx'[g].outcome[m], history \cup tx[g].changes, RowsInTx(g))
             /\ Truthful(m, resp'[g].outcome[m], history \cup tx[g].changes, RowsInTx(g))

\* Steps that add no change keep the outcomes that are true.
LEMMA OutcomesKept ==
    ASSUME TypeOK, TypeOK', OutcomesTrue, UNCHANGED <<rows, history>>,
           processed' \subseteq processed, now <= now',
           \A m \in Mutations : mutation[m].made => mutation'[m] = mutation[m],
           \A g \in Handlers : AnswersKept(g)
    PROVE  OutcomesTrue'
<1>a. /\ mutation \in [Mutations -> Mutation] /\ mutation' \in [Mutations -> Mutation]
      /\ now \in Nat /\ now' \in Nat
      /\ history \in SUBSET Change /\ rows \in [Entities -> Row]
      /\ processed \subseteq Processed
    BY DEF TypeOK, DatabaseTypeOK, ApiTypeOK
<1>b. ASSUME NEW m \in Mutations, NEW o \in Outcome \cup {NoOutcome},
             NEW S \in SUBSET Change, NEW T \in [Entities -> Row], Truthful(m, o, S, T)
      PROVE  TruthfulOf(mutation', now', m, o, S, T)
  <2>1. TruthfulOf(mutation, now, m, o, S, T)
    BY <1>b, TruthfulForms
  <2> QED BY <1>a, <2>1, TruthLasts
<1>1. \A p \in processed' :
         TruthfulOf(mutation', now', p.mutation, p.outcome, history', rows')
  <2>1. \A p \in processed' : /\ p.mutation \in Mutations /\ p.outcome \in Outcome
                              /\ Truthful(p.mutation, p.outcome, history, rows)
    BY <1>a DEF OutcomesTrue, Processed
  <2> QED BY <1>a, <1>b, <2>1
<1>2. ASSUME NEW g \in Handlers, NEW m \in Mutations
      PROVE  /\ TruthfulOf(mutation', now', m, tx'[g].outcome[m], history' \cup tx'[g].changes,
                           RowsInTx(g)')
             /\ TruthfulOf(mutation', now', m, resp'[g].outcome[m], history' \cup tx'[g].changes,
                           RowsInTx(g)')
  <2>1. CASE tx'[g].outcome = NoOutcomes /\ resp'[g].outcome = NoOutcomes
    <3>1. tx'[g].outcome[m] = NoOutcome /\ resp'[g].outcome[m] = NoOutcome
      BY <2>1 DEF NoOutcomes
    <3> QED BY <3>1, NoOutcomeIsTrue
  <2>2. CASE ~(tx'[g].outcome = NoOutcomes /\ resp'[g].outcome = NoOutcomes)
    <3>1. /\ tx'[g].changes = tx[g].changes /\ tx'[g].rows = tx[g].rows
          /\ Truthful(m, tx'[g].outcome[m], history \cup tx[g].changes, RowsInTx(g))
          /\ Truthful(m, resp'[g].outcome[m], history \cup tx[g].changes, RowsInTx(g))
      BY <2>2 DEF AnswersKept
    <3>2. /\ history \cup tx[g].changes \in SUBSET Change
          /\ RowsInTx(g) \in [Entities -> Row]
      BY ViewTypes DEF ViewType
    <3>3. /\ tx'[g].outcome[m] \in Outcome \cup {NoOutcome}
          /\ resp'[g].outcome[m] \in Outcome \cup {NoOutcome}
      BY DEF TypeOK, TxTypeOK, Tx, ApiTypeOK, Response
    <3>4. RowsInTx(g)' = RowsInTx(g) /\ history' \cup tx'[g].changes = history \cup tx[g].changes
      BY <3>1 DEF RowsInTx, RowInTx
    <3>5. /\ TruthfulOf(mutation', now', m, tx'[g].outcome[m], history \cup tx[g].changes,
                        RowsInTx(g))
          /\ TruthfulOf(mutation', now', m, resp'[g].outcome[m], history \cup tx[g].changes,
                        RowsInTx(g))
      BY <1>b, <3>1, <3>2, <3>3
    <3> QED BY <3>4, <3>5
  <2> QED BY <2>1, <2>2
<1> QED BY <1>1, <1>2, TrueAfterwards

\* The outcome of a mutation that leaves its row alone is true.  A refusal is
\* true because the mutation has no record, so that it was not applied within the
\* window, and because its base_version will never match again.
LEMMA RefusalIsTrue ==
    ASSUME TypeOK, StoryInv, OutcomeInv, NEW h \in Handlers, NEW m \in Mutations,
           RefuseMutation(h, m)
    PROVE  Truthful(m, Verdict(mutation[m], RowInTx(h, mutation[m].entity)),
                    history \cup tx[h].changes, RowsInTx(h))
<1> DEFINE e == mutation[m].entity
           w == mutation[m].was.version
           row == RowInTx(h, e)
           o == Verdict(mutation[m], row)
           S == history \cup tx[h].changes
<1>a. /\ e \in Entities /\ w \in Nat /\ row \in Row /\ row.version \in Nat
      /\ mutation[m].op \in {"upsert", "delete"} /\ mutation[m].valid \in BOOLEAN
      /\ rows[e].version \in Nat
      /\ row.deleted \in BOOLEAN
    BY RowInTxType DEF TypeOK, ApiTypeOK, DatabaseTypeOK, Mutation, Row
<1>b. RowsInTx(h)[e] = row
    BY <1>a DEF RowsInTx
<1>c. w <= row.version
  <2>1. w <= rows[e].version
    BY DEF OutcomeInv, VersionsKnown
  <2>2. row.version >= rows[e].version
    BY <1>a, TxSeesNewer
  <2> QED BY <1>a, <2>1, <2>2
<1>d. /\ GetProcessedMutation(req[h].device, m) = {} /\ ~Writes(m, row) /\ pc[h] = "apply"
      /\ \E i \in DOMAIN req[h].batch : req[h].batch[i] = m /\ tx[h].outcome[m] = NoOutcome
    BY NextIsInBatch DEF RefuseMutation
<1>e. req[h].device \in Devices
    BY <1>d DEF TypeOK, ApiTypeOK
<1>f. Uses(req[h].device, m) /\ mutation[m].made
    BY <1>d, <1>e DEF Uses, OutcomeInv, MutationsOwned
<1>1. \A c \in S : c.by = m => c.at < now - Window
  <2>1. ASSUME NEW c \in history, c.by = m, ~(c.at < now - Window) PROVE FALSE
    <3>1. c.at \in Nat /\ now \in Nat /\ Window \in Nat
      BY BoundAssumption DEF TypeOK, DatabaseTypeOK, Change
    <3>2. PICK p \in processed : p.mutation = m
      BY <2>1, <3>1 DEF OutcomeInv, ChangesRecorded
    <3>3. p.device \in Devices /\ Uses(p.device, m)
      BY <3>2 DEF TypeOK, DatabaseTypeOK, Processed, Uses
    <3>4. p.device = req[h].device
      BY <1>e, <1>f, <3>3 DEF OutcomeInv, MutationsOwned
    <3> QED BY <1>d, <3>2, <3>4 DEF GetProcessedMutation
  <2>2. ASSUME NEW c \in tx[h].changes, c.by = m PROVE FALSE
    <3>1. m \in tx[h].recorded
      BY <2>2 DEF OutcomeInv, ChangesRecorded
    <3>2. tx[h].outcome[m] \in Outcome
      BY <3>1 DEF TypeOK, TxTypeOK
    <3> QED BY <1>d, <3>2 DEF Outcome, NoOutcome
  <2> QED BY <2>1, <2>2
<1>2. /\ \A v : /\ Accepted(v).status = "accepted" /\ Accepted(v).version = v
                /\ Accepted(v).current.version = 0
      /\ Rejected.status = "rejected" /\ Rejected.version = 0 /\ Rejected.current.version = 0
      /\ Conflict(row).status = "conflict" /\ Conflict(row).version = row.version
      /\ Conflict(row).current.version = row.version
    BY <1>a DEF Accepted, Rejected, Conflict, NoRow, Row
<1>3. CASE ~mutation[m].valid
  <2>1. o = Rejected /\ Hopeless(m, RowsInTx(h))
    BY <1>3 DEF Verdict, Hopeless
  <2> QED BY <1>1, <1>2, <1>3, <1>a, <1>b, <1>f, <2>1 DEF Truthful
<1>4. CASE mutation[m].valid /\ row.version = 0 /\ (mutation[m].op = "delete" \/ w # 0)
  <2>1. o = Rejected /\ w = 0 /\ mutation[m].op = "delete"
    BY <1>4, <1>a, <1>c DEF Verdict
  <2>2. Hopeless(m, RowsInTx(h))
    BY <2>1 DEF Hopeless
  <2> QED BY <1>1, <1>2, <1>a, <1>b, <1>f, <2>1, <2>2 DEF Truthful
<1>5. CASE mutation[m].valid /\ row.version > 0 /\ row.version # w
  <2>1. o = Conflict(row)
    BY <1>5, <1>a DEF Verdict
  <2>2. Hopeless(m, RowsInTx(h))
    BY <1>5, <1>a, <1>b, <1>c DEF Hopeless
  <2> QED BY <1>1, <1>2, <1>5, <1>a, <1>b, <1>f, <2>1, <2>2 DEF Truthful
<1>6. CASE mutation[m].valid /\ row.version > 0 /\ row.version = w
             /\ mutation[m].op = "delete" /\ row.deleted
  <2>1. o = Accepted(row.version)
    BY <1>6, <1>a DEF Verdict
  <2>2. PICK c \in S : c.entity = e /\ Leaves(c, row)
    BY <1>6, <1>a, <1>b DEF StoryInv, RowsExplained, Explains
  <2>3. c.version = row.version /\ c.op = "delete"
    BY <1>6, <2>2 DEF Leaves
  <2> QED BY <1>2, <1>6, <1>a, <1>b, <1>f, <2>1, <2>2, <2>3 DEF Truthful
<1>7. CASE ~(~mutation[m].valid)
             /\ ~(mutation[m].valid /\ row.version = 0 /\ (mutation[m].op = "delete" \/ w # 0))
             /\ ~(mutation[m].valid /\ row.version > 0 /\ row.version # w)
             /\ ~(mutation[m].valid /\ row.version > 0 /\ row.version = w
                    /\ mutation[m].op = "delete" /\ row.deleted)
  <2>1. o = Accepted(row.version + 1)
    BY <1>7 DEF Verdict
  <2> QED BY <1>d, <2>1 DEF Writes
<1> QED BY <1>3, <1>4, <1>5, <1>6, <1>7

\* A mutation that cannot be applied any more is not about to be applied either.
LEMMA RefusedNotPending ==
    ASSUME TypeOK, StoryInv, NEW m \in Mutations, Hopeless(m, rows),
           NEW h \in Handlers, NEW c \in tx[h].changes
    PROVE  c.by # m
<1> SUFFICES ASSUME c.by = m PROVE FALSE
    OBVIOUS
<1>1. CausedBy(c, m)
    BY DEF StoryInv, ChangesHaveCauses
<1>2. c.version > rows[c.entity].version
    BY DEF StoryInv, PendingIsNew
<1>3. /\ c \in Change /\ c.version \in Nat /\ c.entity \in Entities
      /\ rows[c.entity].version \in Nat /\ mutation[m].was.version \in Nat
    BY DEF TypeOK, DatabaseTypeOK, TxTypeOK, Tx, ApiTypeOK, Mutation, Row, Change
<1> QED BY <1>1, <1>2, <1>3 DEF CausedBy, Hopeless

\* What is true of the committed rows is true in every transaction.
LEMMA TruthInTx ==
    ASSUME TypeOK, StoryInv, NEW h \in Handlers, NEW m \in Mutations,
           NEW o \in Outcome \cup {NoOutcome}, Truthful(m, o, history, rows)
    PROVE  Truthful(m, o, history \cup tx[h].changes, RowsInTx(h))
<1> DEFINE S2 == history \cup tx[h].changes
           T2 == RowsInTx(h)
<1>1. S2 \in SUBSET Change /\ T2 \in [Entities -> Row]
    BY ViewTypes DEF ViewType
<1>2. \A e \in Entities : rows[e].version <= T2[e].version
  <2>1. \A e \in Entities : /\ T2[e] = RowInTx(h, e) /\ T2[e].version \in Nat
                            /\ rows[e].version \in Nat
    BY RowInTxType DEF RowsInTx, TypeOK, DatabaseTypeOK, Row
  <2> QED BY <2>1, TxSeesNewer
<1>3. HopelessOf(mutation, m, rows) => \A c \in S2 \ history : c.by # m
    BY TruthfulForms, RefusedNotPending
<1>4. TruthfulOf(mutation, now, m, o, history, rows)
    BY TruthfulForms
<1>5. /\ mutation \in [Mutations -> Mutation] /\ now \in Nat /\ now <= now
      /\ history \in SUBSET Change /\ rows \in [Entities -> Row] /\ history \subseteq S2
    BY DEF TypeOK, DatabaseTypeOK, ApiTypeOK
<1> HIDE DEF S2, T2
<1>6. TruthfulOf(mutation, now, m, o, S2, T2)
    BY <1>1, <1>2, <1>3, <1>4, <1>5, TruthGrows
<1> QED BY <1>6, TruthfulForms DEF S2, T2

\* The recorded outcome that is replayed is true for the request that repeats it.
LEMMA ReplayIsTrue ==
    ASSUME TypeOK, StoryInv, OutcomeInv, NEW h \in Handlers, NEW m \in Mutations,
           NEW p \in GetProcessedMutation(req[h].device, m)
    PROVE  Truthful(m, p.outcome, history \cup tx[h].changes, RowsInTx(h))
<1>1. p \in processed /\ p.mutation = m /\ p.outcome \in Outcome
    BY DEF GetProcessedMutation, TypeOK, DatabaseTypeOK, Processed
<1>2. Truthful(m, p.outcome, history, rows)
    BY <1>1 DEF OutcomeInv, OutcomesTrue
<1> QED BY <1>1, <1>2, TruthInTx

\* Applying a mutation makes its own outcome true and leaves the others true.
LEMMA ApplyIsTrue ==
    ASSUME TypeOK, TypeOK', StoryInv, OutcomeInv, NEW h \in Handlers, NEW m \in Mutations,
           ApplyMutation(h, m), OwnStep(h), resp'[h] = resp[h]
    PROVE  OutcomesTrue'
<1>a. /\ mutation \in [Mutations -> Mutation] /\ now \in Nat
      /\ rows \in [Entities -> Row] /\ tx \in [Handlers -> Tx]
      /\ processed \subseteq Processed
    BY DEF TypeOK, DatabaseTypeOK, ApiTypeOK, TxTypeOK
<1>b. UNCHANGED <<rows, history, processed, mutation, now>>
    BY DEF ApplyMutation, tableVars, apiVars
<1>c. \A g \in Handlers \ {h} : tx'[g] = tx[g] /\ resp'[g] = resp[g]
    BY DEF OwnStep
<1>d. PICK c \in Change, new \in Row : AppliedAs(h, m, c, new)
    BY ApplyEffect
<1>e. /\ c.by = m /\ CausedBy(c, m) /\ Leaves(c, new)
      /\ c.entity = mutation[m].entity /\ c.op = mutation[m].op
      /\ c.version = RowInTx(h, c.entity).version + 1
      /\ tx'[h].rows = [tx[h].rows EXCEPT ![c.entity] = new]
      /\ tx'[h].changes = tx[h].changes \cup {c}
      /\ tx'[h].outcome = [tx[h].outcome EXCEPT ![m] = Accepted(c.version)]
    BY <1>d DEF AppliedAs
<1> DEFINE S == history \cup tx[h].changes
           T == RowsInTx(h)
           S2 == history' \cup tx'[h].changes
           T2 == RowsInTx(h)'
<1>f. S \in SUBSET Change /\ T \in [Entities -> Row]
    BY ViewTypes DEF ViewType
<1>g. S2 \in SUBSET Change /\ S2 = S \cup {c}
    BY <1>b, <1>e, <1>f
<1>h. /\ c.entity \in Entities /\ c.version \in Nat /\ c.version > 0 /\ new.version = c.version
      /\ T[c.entity].version \in Nat /\ c.version = T[c.entity].version + 1
  <2>1. /\ c.entity \in Entities /\ new.version = c.version
        /\ T[c.entity] = RowInTx(h, c.entity)
    BY <1>e DEF Change, Leaves, RowsInTx
  <2>2. T[c.entity].version \in Nat
    BY <1>f, <2>1 DEF Row
  <2> QED BY <1>e, <2>1, <2>2
<1>i. \A e \in Entities : T2[e] = IF e = c.entity THEN new ELSE T[e]
  <2>1. tx[h].rows \in [Entities -> Row]
    BY <1>a DEF Tx
  <2> QED BY <1>b, <1>e, <1>h, <2>1 DEF RowsInTx, RowInTx
<1>j. T2 \in [Entities -> Row]
    BY <1>f, <1>i DEF RowsInTx
<1>k. \A e \in Entities : T[e].version <= T2[e].version
  <2>1. \A e \in Entities : T[e].version \in Nat
    BY <1>f DEF Row
  <2> QED BY <1>h, <1>i, <2>1
<1> HIDE DEF S, T, S2, T2
<1>l. ASSUME NEW x \in Mutations, NEW o \in Outcome \cup {NoOutcome}, Truthful(x, o, S, T)
      PROVE  TruthfulOf(mutation', now', x, o, S2, T2)
  <2>1. TruthfulOf(mutation, now, x, o, S, T)
    BY <1>l, TruthfulForms
  <2>2. ~HopelessOf(mutation, m, T)
    <3>1. mutation[m].was.version \in Nat
      BY <1>a DEF Mutation, Row
    <3> QED BY <1>e, <1>h, <3>1 DEF HopelessOf, CausedBy
  <2>3. HopelessOf(mutation, x, T) => \A y \in S2 \ S : y.by # x
    BY <1>e, <1>g, <2>2
  <2>4. S \subseteq S2 /\ now <= now
    BY <1>a, <1>g
  <2>5. TruthfulOf(mutation, now, x, o, S2, T2)
    BY <1>a, <1>f, <1>g, <1>j, <1>k, <2>1, <2>3, <2>4, TruthGrows
  <2> QED BY <1>b, <2>5
<1>m. TruthfulOf(mutation', now', m, Accepted(c.version), S2, T2)
  <2>1. /\ Accepted(c.version).status = "accepted" /\ Accepted(c.version).version = c.version
        /\ Accepted(c.version).current.version = 0
    BY DEF Accepted, NoRow
  <2>2. mutation[m].made
    BY <1>e DEF CausedBy, StoryInv, ChangesHaveCauses
  <2>3. T2[mutation[m].entity].version = c.version
    BY <1>e, <1>h, <1>i
  <2>4. c \in S2
    BY <1>g
  <2> QED BY <1>b, <1>e, <1>h, <2>1, <2>2, <2>3, <2>4 DEF TruthfulOf
<1>n. \A x \in Mutations :
         /\ tx[h].outcome[x] \in Outcome \cup {NoOutcome}
         /\ resp[h].outcome[x] \in Outcome \cup {NoOutcome}
         /\ Truthful(x, tx[h].outcome[x], S, T)
         /\ Truthful(x, resp[h].outcome[x], S, T)
    BY ViewTypes DEF ViewType, OutcomeInv, OutcomesTrue, S, T
<1>o. tx[h].outcome \in [Mutations -> Outcome \cup {NoOutcome}]
    BY ViewTypes DEF ViewType
<1>1. \A p \in processed' :
         TruthfulOf(mutation', now', p.mutation, p.outcome, history', rows')
    BY <1>b, TruthfulForms DEF OutcomeInv, OutcomesTrue
<1>2. ASSUME NEW g \in Handlers \ {h}, NEW x \in Mutations
      PROVE  /\ TruthfulOf(mutation', now', x, tx'[g].outcome[x], history' \cup tx'[g].changes,
                           RowsInTx(g)')
             /\ TruthfulOf(mutation', now', x, resp'[g].outcome[x], history' \cup tx'[g].changes,
                           RowsInTx(g)')
  <2>1. RowsInTx(g)' = RowsInTx(g)
    BY <1>b, <1>c DEF RowsInTx, RowInTx
  <2>2. /\ TruthfulOf(mutation, now, x, tx[g].outcome[x], history \cup tx[g].changes, RowsInTx(g))
        /\ TruthfulOf(mutation, now, x, resp[g].outcome[x], history \cup tx[g].changes, RowsInTx(g))
    BY TruthfulForms DEF OutcomeInv, OutcomesTrue
  <2> QED BY <1>b, <1>c, <2>1, <2>2
<1>3. ASSUME NEW x \in Mutations
      PROVE  /\ TruthfulOf(mutation', now', x, tx'[h].outcome[x], S2, T2)
             /\ TruthfulOf(mutation', now', x, resp'[h].outcome[x], S2, T2)
  <2>1. tx'[h].outcome[x] = IF x = m THEN Accepted(c.version) ELSE tx[h].outcome[x]
    BY <1>e, <1>o
  <2> QED BY <1>l, <1>m, <1>n, <2>1
<1>4. \A g \in Handlers, x \in Mutations :
         /\ TruthfulOf(mutation', now', x, tx'[g].outcome[x], history' \cup tx'[g].changes,
                       RowsInTx(g)')
         /\ TruthfulOf(mutation', now', x, resp'[g].outcome[x], history' \cup tx'[g].changes,
                       RowsInTx(g)')
    BY <1>2, <1>3 DEF S2, T2
<1> QED BY <1>1, <1>4, TrueAfterwards

\* A commit makes true for everybody what was true in its transaction.
LEMMA CommitIsTrue ==
    ASSUME TypeOK, TypeOK', OrderInv, StoryInv, OutcomeInv, NEW h \in Handlers, Commit(h)
    PROVE  OutcomesTrue'
<1>a. tx \in [Handlers -> Tx] /\ rows' \in [Entities -> Row] /\ processed \subseteq Processed
    BY DEF TypeOK, TxTypeOK, DatabaseTypeOK
<1> DEFINE S == history \cup tx[h].changes
           T == RowsInTx(h)
<1>b. /\ rows' = T /\ history' = S /\ pc[h] = "commit"
      /\ UNCHANGED <<now, mutation, resp>>
      /\ tx' = [tx EXCEPT ![h] = NoTx]
    BY DEF Commit, RowsInTx, EndTx
<1>c. \A p \in processed' :
         \/ p \in processed
         \/ \E m \in tx[h].recorded : p.mutation = m /\ p.outcome = tx[h].outcome[m]
    BY DEF Commit
<1>d. \A g \in Handlers \ {h} : /\ tx[g].rows = NoItems /\ tx[g].changes = {}
                                /\ tx[g].outcome = NoOutcomes
    BY <1>b, OnePending DEF OrderInv, StoryInv, PendingIsNew
<1>e. \A g \in Handlers : /\ tx'[g].rows = NoItems /\ tx'[g].changes = {}
                          /\ tx'[g].outcome = NoOutcomes
    BY <1>a, <1>b, <1>d DEF NoTx
<1>f. ASSUME NEW g \in Handlers PROVE RowsInTx(g)' = T /\ history' \cup tx'[g].changes = S
  <2>1. \A e \in Entities : RowInTx(g, e)' = rows'[e]
    BY <1>e DEF RowInTx, NoItems, NoRow
  <2>2. RowsInTx(g)' = rows'
    BY <1>a, <2>1 DEF RowsInTx
  <2> QED BY <1>b, <1>e, <2>2
<1>g. ASSUME NEW m \in Mutations, NEW o \in Outcome \cup {NoOutcome}, Truthful(m, o, history, rows)
      PROVE  Truthful(m, o, S, T)
    BY <1>g, TruthInTx
<1>h. ASSUME NEW g \in Handlers, NEW m \in Mutations
      PROVE  Truthful(m, resp[g].outcome[m], S, T)
  <2>1. CASE g = h
    BY <2>1 DEF OutcomeInv, OutcomesTrue
  <2>2. CASE g # h
    <3>1. RowsInTx(g) = rows /\ history \cup tx[g].changes = history
      BY <1>d, <2>2, OutsideTx DEF TypeOK, DatabaseTypeOK
    <3>2. Truthful(m, resp[g].outcome[m], history, rows)
      BY <3>1 DEF OutcomeInv, OutcomesTrue
    <3>3. resp[g].outcome[m] \in Outcome \cup {NoOutcome}
      BY ViewTypes DEF ViewType
    <3> QED BY <1>g, <3>2, <3>3
  <2> QED BY <2>1, <2>2
<1>i. \A m \in Mutations : Truthful(m, tx[h].outcome[m], S, T)
    BY DEF OutcomeInv, OutcomesTrue
<1>j. ASSUME NEW p \in processed' PROVE Truthful(p.mutation, p.outcome, S, T)
  <2>1. CASE p \in processed
    <3>1. /\ p.mutation \in Mutations /\ p.outcome \in Outcome
          /\ Truthful(p.mutation, p.outcome, history, rows)
      BY <1>a, <2>1 DEF Processed, OutcomeInv, OutcomesTrue
    <3> QED BY <1>g, <3>1
  <2>2. CASE \E m \in tx[h].recorded : p.mutation = m /\ p.outcome = tx[h].outcome[m]
    <3>1. tx[h].recorded \subseteq Mutations
      BY <1>a DEF Tx
    <3> QED BY <1>i, <2>2, <3>1
  <2> QED BY <1>c, <2>1, <2>2
<1> HIDE DEF S, T
<1>1. \A p \in processed' :
         TruthfulOf(mutation', now', p.mutation, p.outcome, history', rows')
    BY <1>b, <1>j, TruthfulForms
<1>2. ASSUME NEW g \in Handlers, NEW m \in Mutations
      PROVE  /\ TruthfulOf(mutation', now', m, tx'[g].outcome[m], history' \cup tx'[g].changes,
                           RowsInTx(g)')
             /\ TruthfulOf(mutation', now', m, resp'[g].outcome[m], history' \cup tx'[g].changes,
                           RowsInTx(g)')
  <2>1. tx'[g].outcome[m] = NoOutcome
    BY <1>e DEF NoOutcomes
  <2>2. TruthfulOf(mutation, now, m, resp[g].outcome[m], S, T)
    BY <1>h, TruthfulForms
  <2> QED BY <1>b, <1>f, <2>1, <2>2, NoOutcomeIsTrue
<1> QED BY <1>1, <1>2, TrueAfterwards

\* The steps of a sync request that add no change.
LEMMA SyncIsTrue ==
    ASSUME TypeOK, TypeOK', OrderInv, StoryInv, OutcomeInv, NEW h \in Handlers, SyncNext(h)
    PROVE  OutcomesTrue'
<1>a. OwnStep(h) /\ SyncKind(h)
    BY SyncOutcomeKinds
<1>b. tx \in [Handlers -> Tx] /\ now \in Nat
    BY DEF TypeOK, TxTypeOK, DatabaseTypeOK
<1>c. \A g \in Handlers, m \in Mutations :
         /\ Truthful(m, tx[g].outcome[m], history \cup tx[g].changes, RowsInTx(g))
         /\ Truthful(m, resp[g].outcome[m], history \cup tx[g].changes, RowsInTx(g))
    BY DEF OutcomeInv, OutcomesTrue
<1>d. \A m, S, T : Truthful(m, NoOutcome, S, T)
    BY DEF Truthful
<1>1. CASE Commit(h)
    BY <1>1, CommitIsTrue
<1>2. ASSUME NEW m \in Mutations, ApplyMutation(h, m) PROVE OutcomesTrue'
  <2>1. resp'[h] = resp[h]
    BY <1>2 DEF ApplyMutation, apiVars
  <2> QED BY <1>2, <1>a, <2>1, ApplyIsTrue
<1>3. ASSUME ~Commit(h), AnswersKept(h) PROVE OutcomesTrue'
  <2>1. /\ UNCHANGED <<rows, history, processed, mutation, now>>
        /\ \A g \in Handlers \ {h} : tx'[g] = tx[g] /\ resp'[g] = resp[g]
    BY <1>3, <1>a DEF OwnStep
  <2>2. \A g \in Handlers \ {h} : AnswersKept(g)
    BY <1>c, <2>1 DEF AnswersKept
  <2>3. now <= now'
    BY <1>b, <2>1
  <2> QED BY <1>3, <2>1, <2>2, <2>3, OutcomesKept DEF OutcomeInv
<1>4. ASSUME TxRests(h), resp'[h].outcome = NoOutcomes \/ resp'[h].outcome = tx[h].outcome
                            \/ resp'[h] = resp[h]
      PROVE  AnswersKept(h)
  <2>1. tx'[h].changes = tx[h].changes /\ tx'[h].rows = tx[h].rows /\ tx'[h].outcome = tx[h].outcome
    BY <1>4 DEF TxRests
  <2>2. ASSUME NEW m \in Mutations
        PROVE  Truthful(m, resp'[h].outcome[m], history \cup tx[h].changes, RowsInTx(h))
    <3>1. CASE resp'[h].outcome = NoOutcomes
      <4>1. resp'[h].outcome[m] = NoOutcome
        BY <3>1 DEF NoOutcomes
      <4> QED BY <1>d, <4>1
    <3>2. CASE resp'[h].outcome = tx[h].outcome \/ resp'[h] = resp[h]
      BY <1>c, <3>2
    <3> QED BY <1>4, <3>1, <3>2
  <2> QED BY <1>c, <2>1, <2>2 DEF AnswersKept
<1>5. \A s : Bare(s).outcome = NoOutcomes
    BY DEF Bare
<1>6. ASSUME TxRests(h),
             \/ resp'[h] = resp[h] \/ \E s : resp'[h] = Bare(s)
             \/ \E r \in SyncResponses(log, req[h].cursor, NoOutcomes) : resp'[h] = r
             \/ \E r \in SyncResponses(log \cup tx[h].changes, req[h].cursor, tx[h].outcome) :
                   resp'[h] = r
      PROVE  AnswersKept(h)
  <2>1. log \subseteq Change /\ log \cup tx[h].changes \subseteq Change
    BY DEF TypeOK, DatabaseTypeOK, TxTypeOK, Tx
  <2>2. \A r \in SyncResponses(log, req[h].cursor, NoOutcomes) : r.outcome = NoOutcomes
    BY <2>1, PageContent
  <2>3. \A r \in SyncResponses(log \cup tx[h].changes, req[h].cursor, tx[h].outcome) :
           r.outcome = tx[h].outcome
    BY <2>1, PageContent
  <2> QED BY <1>4, <1>5, <1>6, <2>2, <2>3
<1>7. ASSUME NEW m \in Mutations, ReplayMutation(h, m) \/ RefuseMutation(h, m), resp'[h] = resp[h]
      PROVE  AnswersKept(h)
  <2>1. \E o : /\ tx'[h].changes = tx[h].changes /\ tx'[h].rows = tx[h].rows
               /\ tx'[h].outcome = [tx[h].outcome EXCEPT ![m] = o]
               /\ Truthful(m, o, history \cup tx[h].changes, RowsInTx(h))
    <3>1. CASE ReplayMutation(h, m)
      <4>1. PICK p \in GetProcessedMutation(req[h].device, m) :
              tx' = [tx EXCEPT ![h].outcome[m] = p.outcome]
        BY <3>1 DEF ReplayMutation
      <4>2. Truthful(m, p.outcome, history \cup tx[h].changes, RowsInTx(h))
        BY ReplayIsTrue
      <4>3. /\ tx'[h].changes = tx[h].changes /\ tx'[h].rows = tx[h].rows
            /\ tx'[h].outcome = [tx[h].outcome EXCEPT ![m] = p.outcome]
        BY <1>b, <4>1 DEF Tx
      <4> QED BY <4>2, <4>3
    <3>2. CASE RefuseMutation(h, m)
      <4> DEFINE o == Verdict(mutation[m], RowInTx(h, mutation[m].entity))
      <4>1. tx' = [tx EXCEPT ![h].outcome[m] = o, ![h].recorded = @ \cup {m}]
        BY <3>2 DEF RefuseMutation
      <4>2. Truthful(m, o, history \cup tx[h].changes, RowsInTx(h))
        BY <3>2, RefusalIsTrue
      <4> HIDE DEF o
      <4>3. /\ tx'[h].changes = tx[h].changes /\ tx'[h].rows = tx[h].rows
            /\ tx'[h].outcome = [tx[h].outcome EXCEPT ![m] = o]
        BY <1>b, <4>1 DEF Tx
      <4> QED BY <4>2, <4>3
    <3> QED BY <1>7, <3>1, <3>2
  <2>2. tx[h].outcome \in [Mutations -> Outcome \cup {NoOutcome}]
    BY ViewTypes DEF ViewType
  <2>3. \A x \in Mutations :
           Truthful(x, tx'[h].outcome[x], history \cup tx[h].changes, RowsInTx(h))
    BY <1>c, <2>1, <2>2
  <2> QED BY <1>7, <1>c, <2>1, <2>3 DEF AnswersKept
<1>8. CASE Breaks(h)
  <2>1. tx'[h].outcome = NoOutcomes /\ resp'[h].outcome = NoOutcomes
    BY <1>8, <1>5 DEF Breaks, NoTx
  <2>2. AnswersKept(h)
    BY <2>1 DEF AnswersKept
  <2> QED BY <1>1, <1>3, <2>2
<1> QED BY <1>1, <1>2, <1>3, <1>6, <1>7, <1>8, <1>a DEF SyncKind

\* Outcomes stay true.
LEMMA NextIsTrue ==
    ASSUME TypeOK, TypeOK', OrderInv, StoryInv, OutcomeInv, [Next]_vars
    PROVE  OutcomesTrue'
<1>a. /\ resp \in [Handlers -> Response] /\ req \in [Handlers -> Request] /\ now \in Nat
      /\ mutation \in [Mutations -> Mutation]
    BY DEF TypeOK, DatabaseTypeOK, ApiTypeOK
<1>b. \A g \in Handlers, m \in Mutations :
         /\ Truthful(m, tx[g].outcome[m], history \cup tx[g].changes, RowsInTx(g))
         /\ Truthful(m, resp[g].outcome[m], history \cup tx[g].changes, RowsInTx(g))
    BY DEF OutcomeInv, OutcomesTrue
<1>c. \A m \in Mutations : \A S, T : Truthful(m, NoOutcomes[m], S, T)
    BY DEF Truthful, NoOutcomes
<1>d. ASSUME UNCHANGED <<rows, history, tx>>, processed' \subseteq processed, now' \in {now, now + 1},
             \A m \in Mutations : mutation[m].made => mutation'[m] = mutation[m],
             \A g \in Handlers : resp'[g].outcome \in {resp[g].outcome, NoOutcomes}
      PROVE  OutcomesTrue'
  <2>1. \A g \in Handlers : AnswersKept(g)
    BY <1>b, <1>c, <1>d DEF AnswersKept
  <2>2. now <= now'
    BY <1>a, <1>d
  <2> QED BY <1>d, <2>1, <2>2, OutcomesKept DEF OutcomeInv
<1>e. \A s : Bare(s).outcome = NoOutcomes
    BY DEF Bare
<1>1. ASSUME NEW h \in Handlers, SyncNext(h) PROVE OutcomesTrue'
    BY <1>1, SyncIsTrue
<1>2. ASSUME NEW h \in Handlers, SnapshotNext(h) PROVE OutcomesTrue'
  <2>1. UNCHANGED <<rows, history, tx, processed, now, mutation>>
    BY <1>2 DEF SnapshotNext, SnapshotStep, SnapshotWork, SnapshotUpsert, SnapshotWatermark,
                SnapshotPage, SnapshotFails, dbVars, tableVars
  <2>2. \A r \in SnapshotPages(req[h]) : r.outcome = NoOutcomes
    BY <1>a, SnapshotContent
  <2>3. \/ resp' = resp
        \/ \E r \in SnapshotPages(req[h]) : resp' = [resp EXCEPT ![h] = r]
        \/ resp' = [resp EXCEPT ![h] = Bare("error")]
    BY <1>2 DEF SnapshotNext, SnapshotStep, SnapshotWork, SnapshotUpsert, SnapshotWatermark,
                SnapshotPage, SnapshotFails, Respond
  <2>4. \A g \in Handlers : resp'[g].outcome \in {resp[g].outcome, NoOutcomes}
    BY <1>a, <1>e, <2>2, <2>3
  <2> QED BY <1>d, <2>1, <2>4
<1>f. ASSUME NEW h \in Handlers, Finish(h)
      PROVE  \A g \in Handlers : resp'[g].outcome \in {resp[g].outcome, NoOutcomes}
    BY <1>a, <1>e, <1>f DEF Finish
<1>3. ASSUME NEW h \in Handlers, DropNext(h) PROVE OutcomesTrue'
  <2>1. UNCHANGED <<rows, history, tx, processed, now, mutation>> /\ Finish(h)
    BY <1>3 DEF DropNext, DropAnswer, dbVars, tableVars
  <2> QED BY <1>d, <1>f, <2>1
<1>4. ASSUME NEW d \in Devices, ClientNext(d) PROVE OutcomesTrue'
  <2>1. UNCHANGED <<rows, history, tx, processed, now>>
    BY <1>4 DEF ClientNext, dbVars, tableVars
  <2>2. ASSUME NEW m \in Mutations, Edit(d, m) PROVE OutcomesTrue'
    <3>1. resp' = resp /\ \A x \in Mutations : mutation[x].made => mutation'[x] = mutation[x]
      BY <1>a, <2>2 DEF Edit
    <3> QED BY <1>d, <2>1, <3>1
  <2>3. ASSUME NEW h \in Handlers, NEW r, NEW s, Send(d, h, r, s) PROVE OutcomesTrue'
    BY <1>d, <2>1, <2>3 DEF Send
  <2>4. ASSUME NEW h \in Handlers, Receive(d, h) PROVE OutcomesTrue'
    <3>1. mutation' = mutation /\ Finish(h)
      BY <2>4 DEF Receive, ReceiveSync, ReceiveExpired, ReceivePage, ReceiveError, Answered
    <3> QED BY <1>d, <1>f, <2>1, <3>1
  <2>5. CASE GiveUp(d)
    BY <1>d, <2>1, <2>5 DEF GiveUp
  <2> QED BY <1>4, <2>2, <2>3, <2>4, <2>5 DEF ClientNext, ClientStep, SendSync, SendSnapshot
<1>5. CASE RetentionNext \/ Environment \/ UNCHANGED vars
  <2>1. /\ UNCHANGED <<rows, history, tx, mutation, resp>> /\ processed' \subseteq processed
        /\ now' \in {now, now + 1}
    BY <1>5 DEF RetentionNext, RetentionStep, StartRun, ReadMinCursor, PruneLog, PruneMutations,
                RetentionStatementFails, PruneProcessedMutations, Environment, Tick,
                OtherUserAppends, vars, dbVars, tableVars, apiVars, clientVars
  <2> QED BY <1>d, <2>1
<1> QED BY <1>1, <1>2, <1>3, <1>4, <1>5 DEF Next

\* At first nothing is known, used, recorded or answered.
LEMMA InitOutcomes == Init => OutcomeInv
<1> SUFFICES ASSUME Init PROVE OutcomeInv
    OBVIOUS
<1>a. /\ rows = [e \in Entities |-> NoRow] /\ history = {} /\ processed = {}
      /\ tx = [h \in Handlers |-> NoTx] /\ mutation = [m \in Mutations |-> Unmade]
      /\ req = [h \in Handlers |-> NoRequest] /\ resp = [h \in Handlers |-> Bare("ok")]
      /\ outbox = [d \in Devices |-> <<>>] /\ replica = [d \in Devices |-> NoItems]
      /\ ret = RetWaiting
    BY DEF Init, DatabaseInit, TxInit, ApiInit, ClientInit, RetentionInit
<1>b. TypeOK
    BY InitTypes
<1>1. VersionsKnown
  <2>1. \A d \in Devices, e \in Entities : replica[d][e].version <= rows[e].version
    BY <1>a DEF NoItems, NoRow
  <2>2. \A m \in Mutations : mutation[m].was.version <= rows[mutation[m].entity].version
    <3>1. \A m \in Mutations : mutation[m].entity \in Entities
      BY <1>b DEF TypeOK, ApiTypeOK, Mutation
    <3> QED BY <1>a, <3>1 DEF Unmade, NoRow
  <2>3. \A h \in Handlers : resp[h].changes = {} /\ resp[h].items = NoItems
    BY <1>a DEF Bare
  <2>4. \A e \in Entities : NoItems[e].version <= rows[e].version
    BY <1>a DEF NoItems, NoRow
  <2> QED BY <2>1, <2>2, <2>3, <2>4 DEF VersionsKnown
<1>2. MutationsOwned
  <2>1. \A d \in Devices, m \in Mutations : ~Uses(d, m)
    BY <1>a DEF Uses, NoRequest
  <2> QED BY <2>1 DEF MutationsOwned
<1>3. ChangesRecorded
    BY <1>a DEF ChangesRecorded, NoTx, RetWaiting
<1>4. OutcomesTrue
  <2>1. \A h \in Handlers, m \in Mutations : tx[h].outcome[m] = NoOutcome /\ resp[h].outcome[m] = NoOutcome
    BY <1>a DEF NoTx, Bare, NoOutcomes
  <2> QED BY <1>a, <2>1 DEF OutcomesTrue, Truthful
<1> QED BY <1>1, <1>2, <1>3, <1>4 DEF OutcomeInv

\* Every step keeps outcomes true.
LEMMA NextOutcomes ==
    ASSUME TypeOK, TypeOK', OrderInv, StoryInv, OutcomeInv, [Next]_vars
    PROVE  OutcomeInv'
<1>1. VersionsKnown'
    BY NextVersions
<1>2. MutationsOwned'
    BY NextOwned DEF OutcomeInv
<1>3. ChangesRecorded'
    BY NextRecorded DEF OutcomeInv
<1>4. OutcomesTrue'
    BY NextIsTrue
<1> QED BY <1>1, <1>2, <1>3, <1>4 DEF OutcomeInv

-----------------------------------------------------------------------------
(* The theorems *)

\* In every reachable state the outcomes on record, in open transactions and in
\* answers are true, and no refused mutation can be applied any more.
THEOREM OutcomesCorrect == Spec => [](TypeOK /\ OrderInv /\ StoryInv /\ OutcomeInv)
<1>1. Init => TypeOK /\ OrderInv /\ StoryInv /\ OutcomeInv
    BY InitTypes, InitOrder, InitStory, InitOutcomes
<1>2. TypeOK /\ OrderInv /\ StoryInv /\ OutcomeInv /\ [Next]_vars
         => (TypeOK /\ OrderInv /\ StoryInv /\ OutcomeInv)'
    BY NextOrder, NextStory, NextOutcomes
<1> QED BY <1>1, <1>2, PTL DEF Spec

\* An accepted mutation names a committed version of its entity, and a mutation
\* that was applied within the window is never answered with a refusal, however
\* often it is retried.
THEOREM AnswersAreHonest == Spec => []HonestOutcomes
<1>1. TypeOK /\ StoryInv /\ OutcomeInv => HonestOutcomes
  <2> SUFFICES ASSUME TypeOK, StoryInv, OutcomeInv, NEW h \in Handlers, pc[h] = "reply",
                      NEW i \in DOMAIN req[h].batch
               PROVE  LET m == req[h].batch[i]
                          o == resp[h].outcome[m]
                      IN  /\ o.status = "accepted" =>
                                \E c \in history : /\ c.entity = mutation[m].entity
                                                   /\ c.version = o.version
                                                   /\ c.op = mutation[m].op
                          /\ o.status \in {"conflict", "rejected"} =>
                                \A c \in history : c.by = m => c.at < now - Window
    BY DEF HonestOutcomes
  <2> DEFINE m == req[h].batch[i]
             o == resp[h].outcome[m]
  <2>1. m \in Mutations
    <3>1. req[h].batch \in Seq(Mutations)
      BY DEF TypeOK, ApiTypeOK, Request
    <3> QED BY <3>1
  <2>2. Truthful(m, o, history, rows)
    BY <2>1, AnswerIsCommitted
  <2>3. NoOutcome.status = "none"
    BY DEF NoOutcome
  <2> QED BY <2>2, <2>3 DEF Truthful
<1> QED BY <1>1, OutcomesCorrect, PTL

\* When a solve that names a session is refused by the foreign key, the session
\* is not created by the same request: the sort has put it first.
THEOREM SessionsComeFirst == Spec => []SessionTravelsFirst
<1>1. TypeOK /\ StoryInv /\ OutcomeInv => SessionTravelsFirst
  <2> SUFFICES ASSUME TypeOK, StoryInv, OutcomeInv, NEW h \in Handlers, NEW m \in Mutations,
                      pc[h] = "apply", IsNextToApply(h, m), ViolatesForeignKey(h, m),
                      NEW j \in DOMAIN req[h].batch,
                      mutation[req[h].batch[j]].entity = mutation[m].session,
                      mutation[req[h].batch[j]].valid,
                      mutation[req[h].batch[j]].op = "upsert",
                      mutation[req[h].batch[j]].was.version = 0
               PROVE  FALSE
    BY DEF SessionTravelsFirst
  <2> DEFINE s == req[h].batch[j]
             e == mutation[s].entity
  <2>1. s \in Mutations
    <3>1. req[h].batch \in Seq(Mutations)
      BY DEF TypeOK, ApiTypeOK, Request
    <3> QED BY <3>1
  <2>2. e \in Sessions /\ mutation[m].entity \in Solves /\ RowInTx(h, e).version = 0
    BY DEF ViolatesForeignKey
  <2>3. EntityRank(e) = 0 /\ EntityRank(mutation[m].entity) = 1
    BY <2>2, EntityAssumption DEF EntityRank
  <2>4. tx[h].outcome[s] # NoOutcome
    <3> SUFFICES ASSUME tx[h].outcome[s] = NoOutcome PROVE FALSE
      OBVIOUS
    <3>1. j \in ToApply(h)
      BY DEF ToApply
    <3>2. PICK i \in ToApply(h) : /\ m = req[h].batch[i]
                                  /\ i = j \/ Precedes(req[h].batch, i, j)
      BY <3>1 DEF IsNextToApply
    <3>3. i # j
      BY <2>3, <3>2
    <3> QED BY <2>2, <2>3, <3>2, <3>3, EntityAssumption DEF Precedes
  <2>5. Truthful(s, tx[h].outcome[s], history \cup tx[h].changes, RowsInTx(h))
    BY <2>1 DEF OutcomeInv, OutcomesTrue
  <2>6. RowsInTx(h)[e].version > 0
    BY <2>4, <2>5 DEF Truthful
  <2>7. RowsInTx(h)[e] = RowInTx(h, e)
    BY <2>2 DEF RowsInTx, Entities
  <2> QED BY <2>2, <2>6, <2>7
<1> QED BY <1>1, OutcomesCorrect, PTL
=============================================================================
