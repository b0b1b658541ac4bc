------------------------- MODULE CubeSyncInvariants -------------------------
(***************************************************************************)
(* Why the safety properties of CubeSync hold: the inductive invariants    *)
(* behind them.  Each one says, besides the property itself, what has to   *)
(* be true of requests in flight, of open transactions and of the          *)
(* retention job for the next step to keep it.                             *)
(***************************************************************************)
EXTENDS CubeSync

-----------------------------------------------------------------------------
(* Rows and changes: behind LogMatchesRows and AppliedAtMostOnce *)

\* The table as the transaction of h sees it.
RowsInTx(h) == [e \in Entities |-> RowInTx(h, e)]

\* Change c is what brought its row to the state r.
Leaves(c, r) ==
    c.version = r.version /\ c.data = r.data /\ (c.op = "delete") = r.deleted

\* A set of changes accounts for a table: an entity's versions are taken once
\* each, in id order and without a hole up to the version of its row, and the
\* last one left the row as it is.
Explains(changes, table) ==
    /\ \A c \in changes : 0 < c.version /\ c.version <= table[c.entity].version
    /\ \A c, x \in changes :
          c.entity = x.entity => /\ c.version = x.version => c = x
                                 /\ c.version < x.version => c.id < x.id
    /\ \A c \in changes : c.version < table[c.entity].version =>
          \E x \in changes : x.entity = c.entity /\ x.version = c.version + 1
    /\ \A e \in Entities : table[e].version > 0 =>
          \E c \in changes : c.entity = e /\ Leaves(c, table[e])

\* The committed changes account for the committed rows, and with the changes of
\* an open transaction for the rows that the transaction sees.
RowsExplained ==
    /\ Explains(history, rows)
    /\ \A h \in Handlers : Explains(history \cup tx[h].changes, RowsInTx(h))

\* What a transaction has not committed is newer than everything committed, and
\* a handler outside its transaction has written nothing.
PendingIsNew ==
    \A h \in Handlers :
        /\ pc[h] \notin {"apply", "commit"} =>
              /\ tx[h].rows = NoItems
              /\ tx[h].changes = {}
              /\ tx[h].recorded = {}
              /\ tx[h].outcome = NoOutcomes
        /\ \A c \in tx[h].changes :
              c.version > rows[c.entity].version /\ \A x \in history : x.id < c.id

\* Pruning takes the oldest changes: what is left is an end piece of the history.
LogIsRecentHistory ==
    /\ log \subseteq history
    /\ \A c \in log, x \in history : x.id > c.id => x \in log

\* A change does what its mutation asked for, on top of the version the mutation
\* was based on.
CausedBy(c, m) ==
    /\ mutation[m].valid
    /\ c.entity = mutation[m].entity
    /\ c.op = mutation[m].op
    /\ c.version = mutation[m].was.version + 1
    /\ mutation[m].op = "delete" => mutation[m].was.version > 0

ChangesHaveCauses ==
    /\ \A m \in Mutations : mutation[m].valid => mutation[m].made
    /\ \A c \in history : CausedBy(c, c.by)
    /\ \A h \in Handlers : \A c \in tx[h].changes : CausedBy(c, c.by)

\* The rows, the log and the changes of an open transaction always agree, so a
\* commit, a rollback and a pruning each leave a log that tells how the rows came
\* to be (applySession, applySolve and their change-log inserts, service.go): behind
\* LogMatchesRows and AppliedAtMostOnce.
StoryInv == RowsExplained /\ PendingIsNew /\ LogIsRecentHistory /\ ChangesHaveCauses

-----------------------------------------------------------------------------
(* Cursors: behind NewestChangeKept and AckBehindClient *)

\* Cursor k does not point past the last change of a set.
Reached(k, changes) == k = 0 \/ \E c \in changes : k <= c.id

\* No cursor anywhere points past the newest committed change; only the answer
\* of an open transaction may point to what that transaction has written.
CursorsReached ==
    /\ \A d \in Devices : Reached(devices[d].ack, history) /\ Reached(cursor[d], history)
    /\ \A h \in Handlers :
          /\ Reached(req[h].cursor, history)
          /\ Reached(resp[h].next, history \cup tx[h].changes)
    /\ Reached(ret.min, history)

\* No cursor runs ahead of the history, so a pruning up to the least of them never
\* takes the newest change (PruneChangeLog, sync.sql.go): behind NewestChangeKept.
KeptInv == CursorsReached /\ NewestChangeKept

\* The device has yet to receive the first page of a bootstrap.
Unsettled(d) == phase[d] = "session" /\ after[d] = 0 /\ cursor[d] = 0

\* Nothing that the server was told of d's progress, or may be told by a sync
\* request still in flight, is past k.
ToldAtMost(d, k) ==
    /\ devices[d].ack <= k
    /\ \A h \in Handlers :
          req[h].device = d /\ req[h].entity = "none" => req[h].cursor <= k

\* A sync request never moves a cursor back.
RequestsAdvance ==
    \A h \in Handlers :
        /\ pc[h] \in SyncSteps => req[h].entity = "none"
        /\ pc[h] \in SnapshotSteps => req[h].entity # "none"
        /\ req[h].entity = "none" /\ pc[h] \in {"commit", "ack", "reply"}
              /\ resp[h].status = "ok" => req[h].cursor <= resp[h].next

\* What a device waits for was asked with its current state, and an answer to a
\* page of a bootstrap starts from a watermark that covers all it ever reported.
OwnRequest(d, h) ==
    /\ pc[h] # "idle" /\ req[h].device = d
    /\ req[h].entity = "none" => req[h].cursor = cursor[d] /\ phase[d] = "sync"
    /\ req[h].entity # "none" =>
          /\ pc[h] = "snapUpsert" =>
                /\ req[h].cursor = cursor[d] /\ req[h].after = after[d]
                /\ req[h].entity = phase[d]
          /\ pc[h] = "snapPage" => ToldAtMost(d, req[h].cursor)
          /\ pc[h] = "reply" /\ resp[h].status = "ok" => ToldAtMost(d, resp[h].next)

WaitsForOwn ==
    \A d \in Devices : \A h \in Handlers : waiting[d] = h => OwnRequest(d, h)

\* The server never believes that a device is further than it is, not even by a
\* request from before a bootstrap (the acknowledgement after the commit in Sync,
\* service.go): behind AckBehindClient.
AckInv ==
    /\ RequestsAdvance
    /\ WaitsForOwn
    /\ \A d \in Devices : ~Unsettled(d) => ToldAtMost(d, cursor[d])

-----------------------------------------------------------------------------
(* Outcomes: behind HonestOutcomes and SessionTravelsFirst *)

\* Nobody knows a version that has not been committed; an answer may know what
\* its own transaction has written.
VersionsKnown ==
    /\ \A d \in Devices, e \in Entities : replica[d][e].version <= rows[e].version
    /\ \A m \in Mutations : mutation[m].was.version <= rows[mutation[m].entity].version
    /\ \A h \in Handlers :
          /\ \A c \in resp[h].changes : c.version <= RowInTx(h, c.entity).version
          /\ \A e \in Entities : resp[h].items[e].version <= rows[e].version

\* Mutation m is in the hands of device d: queued, in a request or on record.
Uses(d, m) ==
    \/ \E i \in DOMAIN outbox[d] : outbox[d][i] = m
    \/ \E h \in Handlers :
          req[h].device = d /\ \E i \in DOMAIN req[h].batch : req[h].batch[i] = m
    \/ \E p \in processed : p.device = d /\ p.mutation = m

\* Mutation ids are unique among the devices.
MutationsOwned ==
    \A d \in Devices, m \in Mutations : Uses(d, m) =>
        mutation[m].made /\ \A x \in Devices : Uses(x, m) => x = d

\* A change that is not older than the window has its mutation on record, and
\* the changes and outcomes of an open transaction belong to its request.
ChangesRecorded ==
    /\ \A c \in history :
          c.at >= now - Window => \E p \in processed : p.mutation = c.by /\ p.at = c.at
    /\ \A h \in Handlers :
          /\ \A c \in tx[h].changes : c.by \in tx[h].recorded /\ c.at = tx[h].began
          /\ \A m \in tx[h].recorded : \E i \in DOMAIN req[h].batch : req[h].batch[i] = m
    /\ ret.step # "waiting" => ret.cutoff <= now - Window

\* No row that is at or past those of the table lets m be applied.
Hopeless(m, table) ==
    \/ ~mutation[m].valid
    \/ mutation[m].op = "delete" /\ mutation[m].was.version = 0
    \/ table[mutation[m].entity].version > mutation[m].was.version

\* Outcome o of mutation m is true of these changes and rows, and stays true.
Truthful(m, o, changes, table) ==
    o # NoOutcome =>
        /\ mutation[m].made
        /\ o.version <= table[mutation[m].entity].version
        /\ o.current.version <= table[mutation[m].entity].version
        /\ o.status = "accepted" =>
              \E c \in changes : /\ c.entity = mutation[m].entity
                                 /\ c.version = o.version /\ c.op = mutation[m].op
        /\ o.status \in {"conflict", "rejected"} =>
              Hopeless(m, table) /\ \A c \in changes : c.by = m => c.at < now - Window
        /\ mutation[m].valid /\ mutation[m].op = "upsert" /\ mutation[m].was.version = 0 =>
              table[mutation[m].entity].version > 0

\* Outcomes on record, in an open transaction and in an answer are true.
OutcomesTrue ==
    /\ \A p \in processed : Truthful(p.mutation, p.outcome, history, rows)
    /\ \A h \in Handlers, m \in Mutations :
          /\ Truthful(m, tx[h].outcome[m], history \cup tx[h].changes, RowsInTx(h))
          /\ Truthful(m, resp[h].outcome[m], history \cup tx[h].changes, RowsInTx(h))

\* What is answered, recorded or about to be is true, and a mutation that was
\* refused can never be applied later (applyMutation and its processed_mutations,
\* service.go): behind HonestOutcomes and SessionTravelsFirst.
OutcomeInv == VersionsKnown /\ MutationsOwned /\ ChangesRecorded /\ OutcomesTrue

-----------------------------------------------------------------------------
(* Replicas: behind ReplicaIsPastState *)

\* Row r of entity e is a state in which one of the changes left the entity.
PastRow(r, e, changes) ==
    r.version > 0 => \E c \in changes : c.entity = e /\ Shows(r, c)

\* What outcome o tells a device about the row of mutation m is such a state.
TellsPast(m, o, changes) ==
    /\ o.status = "accepted" => PastRow(AcceptedRow(m, o), mutation[m].entity, changes)
    /\ o.status = "conflict" /\ o.current.data # NoMutation =>
          PastRow(o.current, mutation[m].entity, changes)

\* An answer consists of the committed past and of what its own transaction has
\* written.
AnswersPast(h) ==
    LET changes == history \cup tx[h].changes
    IN  /\ \A c \in resp[h].changes : \E x \in changes : c = BuildChange(x)
        /\ \A e \in Entities : PastRow(resp[h].items[e], e, history)
        /\ \A m \in Mutations : /\ TellsPast(m, tx[h].outcome[m], changes)
                                /\ TellsPast(m, resp[h].outcome[m], changes)

\* Whatever a device may build a row from is a state the server had: the row its
\* user edited, outcomes on record and in answers, pages of rows and of changes
\* (buildChanges and sessionConflict in models.go, snapshotSessions in snapshot.go):
\* behind ReplicaIsPastState.
PastInv ==
    /\ ReplicaIsPastState
    /\ \A m \in Mutations : PastRow(mutation[m].was, mutation[m].entity, history)
    /\ \A p \in processed : TellsPast(p.mutation, p.outcome, history)
    /\ \A c \in history : c.data # NoMutation
    /\ \A h \in Handlers : AnswersPast(h) /\ \A c \in tx[h].changes : c.data # NoMutation

-----------------------------------------------------------------------------
(* Catching up: behind NoSilentGap *)

\* No change after cursor k was pruned, or is about to be.
KeptAfter(k) ==
    /\ \A c \in history : c.id > k => c \in log
    /\ ret.step = "pruneLog" => ret.min <= k

\* A table is as new as the changes up to k to the entities of S.
HoldsUpTo(k, S, table) ==
    \A c \in history : c.entity \in S /\ c.id <= k => c.version <= table[c.entity].version

\* The entities that a bootstrap has gone past when it is about to ask for the
\* page of this kind after this id; all of them when there is no such page.
Passed(kind, id) ==
    CASE kind = "session" -> {e \in Sessions : e <= id}
      [] kind = "solve" -> Sessions \cup {e \in Solves : e <= id}
      [] OTHER -> Entities

\* The sync answer of h leaves out no change between its two cursors.
FullPage(h) ==
    \A c \in history \cup tx[h].changes :
        req[h].cursor < c.id /\ c.id <= resp[h].next => BuildChange(c) \in resp[h].changes

\* The snapshot request that device d waits for takes up where d stands, with d's
\* cursor or, on the first page, with a watermark; nothing after it is pruned
\* meanwhile, and the page has all rows that it goes past.
PageFits(d, h) ==
    /\ req[h].entity = phase[d] /\ req[h].after = after[d]
    /\ pc[h] = "snapWatermark" => Unsettled(d)
    /\ pc[h] = "snapPage" =>
          KeptAfter(req[h].cursor) /\ (Unsettled(d) \/ req[h].cursor = cursor[d])
    /\ pc[h] = "reply" /\ resp[h].status = "ok" =>
          /\ KeptAfter(resp[h].next) /\ (Unsettled(d) \/ resp[h].next = cursor[d])
          /\ HoldsUpTo(resp[h].next,
                       Passed(resp[h].entity, resp[h].after) \ Passed(phase[d], after[d]),
                       resp[h].items)

\* Device d holds all that its cursor has passed, and the log has the rest; what
\* it waits for will leave that so.
CatchesUp(d) ==
    /\ d \in ActiveAt(devices, now - Window)
    /\ Unsettled(d) \/ KeptAfter(cursor[d])
    /\ HoldsUpTo(cursor[d], Passed(phase[d], after[d]), replica[d])
    /\ \A h \in Handlers : waiting[d] = h =>
          /\ req[h].entity # "none" => PageFits(d, h)
          /\ req[h].entity = "none" /\ pc[h] \in {"commit", "ack", "reply"}
                /\ resp[h].status = "ok" => FullPage(h)

\* A device that has been active since it began its bootstrap holds all that its
\* cursor has passed, and retention leaves it what comes after (checkCursorNotExpired
\* in service.go, runOnce in retention.go, Snapshot in snapshot.go): behind
\* NoSilentGap.
CatchUpInv == \A d \in tracked : CatchesUp(d)

-----------------------------------------------------------------------------
\* Every cursor is one the server has handed out, points into the retained
\* history, and is above no change that is still to be committed; what the
\* server knows of a device is behind that device, and a device that stays active
\* misses nothing up to its cursor and finds all the rest in the log (Sync,
\* Snapshot and runOnce with the cursors they read and write): behind
\* NoLateChange, NewestChangeKept, AckBehindClient and NoSilentGap.
CursorInv == OrderInv /\ KeptInv /\ AckInv /\ CatchUpInv

\* All that every step of a request, a client and the retention job relies on and
\* leaves as it found it: the cursors, what the log says of the rows, that answers
\* are true, and that replicas are past states (Sync, Snapshot and runOnce with the
\* queries they run).
CoreInv == CursorInv /\ StoryInv /\ OutcomeInv /\ PastInv
=============================================================================
