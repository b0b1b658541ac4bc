---------------------------- MODULE SyncService ----------------------------
(***************************************************************************)
(* POST /v1/sync (src/internal/sync/service.go).  A request without        *)
(* mutations is served by statements that commit one by one (pullOnly); a  *)
(* request with mutations runs in one READ COMMITTED transaction under the *)
(* user's advisory lock.                                                   *)
(*                                                                         *)
(* What a transaction has written and not yet committed is kept in tx.     *)
(* Only the holder of the advisory lock writes rows, changes or processed  *)
(* mutations, so row locks never make it wait and are left out.            *)
(***************************************************************************)
EXTENDS ApiServer

CONSTANTS
    MaxMutations,   \* at most this many mutations per request
    ChangeLimit,    \* changes per page
    ProtoVersion    \* X-Sync-Protocol the clients speak, 1 or 2

ASSUME SyncAssumption ==
    /\ MaxMutations \in Nat
    /\ ChangeLimit \in Nat \ {0}
    /\ ProtoVersion \in {1, 2}

VARIABLE tx     \* the open transaction of each handler

Tx == [began : Nat, rows : [Entities -> Row], changes : SUBSET Change,
       outcome : [Mutations -> Outcome \cup {NoOutcome}], recorded : SUBSET Mutations]

NoTx == [began |-> 0, rows |-> NoItems, changes |-> {}, outcome |-> NoOutcomes, recorded |-> {}]

TxTypeOK ==
    /\ tx \in [Handlers -> Tx]
    /\ \A h \in Handlers : \A m \in tx[h].recorded : tx[h].outcome[m] \in Outcome

TxInit == tx = [h \in Handlers |-> NoTx]

-----------------------------------------------------------------------------
(* Before the transaction: validation and cursor expiry *)

IsInjectiveBatch(b) == \A i, j \in DOMAIN b : b[i] = b[j] => i = j

\* Mutation ids unique within the request and not too many of them.  A cursor
\* is never negative and ids are never nil here.
ValidRequest(r) == Len(r.batch) <= MaxMutations /\ IsInjectiveBatch(r.batch)

\* checkCursorNotExpired: the oldest cursor that an active device has
\* acknowledged is the oldest that is still served; cursor 0 always passes.
CursorExpired(cursor) ==
    LET minValid == MinValidCursorForUser(now - Window)
    IN  cursor > 0 /\ minValid > 0 /\ cursor < minValid

RejectRequest(h) ==
    /\ pc[h] = "received"
    /\ ~ValidRequest(req[h])
    /\ Respond(h, Bare("invalid"))
    /\ UNCHANGED <<dbVars, req, mutation, faults, tx>>

RejectExpired(h) ==
    /\ pc[h] = "received"
    /\ ValidRequest(req[h])
    /\ CursorExpired(req[h].cursor)
    /\ Respond(h, Bare("cursor_expired"))
    /\ UNCHANGED <<dbVars, req, mutation, faults, tx>>

PassCursorCheck(h) ==
    /\ pc[h] = "received"
    /\ ValidRequest(req[h])
    /\ ~CursorExpired(req[h].cursor)
    /\ Goto(h, IF req[h].batch = <<>> THEN "pull" ELSE "begin")
    /\ UNCHANGED <<dbVars, req, resp, mutation, faults, tx>>

-----------------------------------------------------------------------------
(* Pages of changes *)

\* Mutant: protocol 2 strips every change, not only deletions.
MutStripAll(c) == IF ProtoVersion >= 2 THEN [c EXCEPT !.data = NoMutation] ELSE c

\* buildChanges: protocol 2 sends a deletion without the tombstoned entity.
BuildChange(c) ==
    IF ProtoVersion >= 2 /\ c.op = "delete" THEN [c EXCEPT !.data = NoMutation] ELSE c

\* The answers to a listing of the visible changes from a cursor on: an
\* initial piece of them, has_more if something is left, and the cursor of the
\* last change included; an empty page keeps the cursor.
SyncResponses(visible, cursor, outcome) ==
    LET found == ListChanges(visible, cursor)
        ids == {c.id : c \in found}
        ends == IF found = {} THEN {cursor} ELSE PageEnds(ids, ChangeLimit)
    IN  {[Bare("ok") EXCEPT !.changes = {BuildChange(c) : c \in {x \in found : x.id <= end}},
                            !.next = end,
                            !.more = \E x \in found : x.id > end,
                            !.outcome = outcome] : end \in ends}

-----------------------------------------------------------------------------
(* pullOnly *)

\* An open transaction that upserted the device keeps its row locked.
DeviceRowFree(d) ==
    \A h \in Handlers : pc[h] \in {"apply", "commit"} => req[h].device # d

PullUpsert(h) ==
    /\ pc[h] = "pull"
    /\ DeviceRowFree(req[h].device)
    /\ devices' = UpsertDevice(req[h].device, now)
    /\ Goto(h, "pullList")
    /\ UNCHANGED <<tableVars, seq, lock, now, tracked, req, resp, mutation, faults, tx>>

PullList(h) ==
    /\ pc[h] = "pullList"
    /\ \E r \in SyncResponses(log, req[h].cursor, NoOutcomes) :
          resp' = [resp EXCEPT ![h] = r]
    /\ Goto(h, "ack")
    /\ UNCHANGED <<dbVars, req, mutation, faults, tx>>

-----------------------------------------------------------------------------
(* The mutation transaction *)

BeginTx(h) ==
    /\ pc[h] = "begin"
    /\ tx' = [tx EXCEPT ![h].began = now]
    /\ Goto(h, "lock")
    /\ UNCHANGED <<dbVars, req, resp, mutation, faults>>

\* Mutant: the transaction does not wait for the advisory lock.
MutNoLock(h) ==
    /\ pc[h] = "lock"
    /\ lock' = h
    /\ Goto(h, "apply")
    /\ UNCHANGED <<tableVars, devices, seq, now, tracked, req, resp, mutation, faults, tx>>

\* The advisory lock, and the device's upsert right after it: until the commit
\* that upsert only shows as a lock on the device's row.
AcquireLock(h) ==
    /\ pc[h] = "lock"
    /\ lock = NoHandler
    /\ lock' = h
    /\ Goto(h, "apply")
    /\ UNCHANGED <<tableVars, devices, seq, now, tracked, req, resp, mutation, faults, tx>>

\* The row as the transaction sees it: its own write, else the committed row.
RowInTx(h, e) == IF tx[h].rows[e].version > 0 THEN tx[h].rows[e] ELSE rows[e]

\* Mutant: sessions and solves are sorted together.
MutOneRank(e) == 0

EntityRank(e) == IF e \in Sessions THEN 0 ELSE 1

\* The stable sort of the batch: sessions first, then by entity id, then in
\* request order.
Precedes(b, i, j) ==
    LET e == mutation[b[i]].entity
        f == mutation[b[j]].entity
    IN  \/ EntityRank(e) < EntityRank(f)
        \/ EntityRank(e) = EntityRank(f) /\ e < f
        \/ e = f /\ i < j

\* The positions of the batch that have no outcome yet.
ToApply(h) == {i \in DOMAIN req[h].batch : tx[h].outcome[req[h].batch[i]] = NoOutcome}

IsNextToApply(h, m) ==
    \E i \in ToApply(h) :
        /\ m = req[h].batch[i]
        /\ \A j \in ToApply(h) : i = j \/ Precedes(req[h].batch, i, j)

Accepted(version) == [status |-> "accepted", version |-> version, current |-> NoRow]

Rejected == [status |-> "rejected", version |-> 0, current |-> NoRow]

\* sessionConflict and solveConflict: protocol 2 sends a stub without the data.
Conflict(row) ==
    [status |-> "conflict", version |-> row.version,
     current |-> IF ProtoVersion >= 2 THEN [row EXCEPT !.data = NoMutation] ELSE row]

\* Mutant: an upsert does not compare base_version.
MutBlindUpsert(m, row) ==
    CASE ~m.valid -> Rejected
      [] m.valid /\ m.op = "delete" /\ row.version = 0 -> Rejected
      [] m.valid /\ m.op = "delete" /\ row.version > 0 /\ row.version # m.was.version ->
            Conflict(row)
      [] m.valid /\ m.op = "delete" /\ row.version > 0 /\ row.version = m.was.version
                 /\ row.deleted -> Accepted(row.version)
      [] OTHER -> Accepted(row.version + 1)

\* applySession and applySolve up to the write: what becomes of mutation m
\* against the row it names.
Verdict(m, row) ==
    CASE ~m.valid -> Rejected
      [] m.valid /\ row.version = 0 /\ (m.op = "delete" \/ m.was.version # 0) -> Rejected
      [] m.valid /\ row.version > 0 /\ row.version # m.was.version -> Conflict(row)
      [] m.valid /\ row.version > 0 /\ row.version = m.was.version
                 /\ m.op = "delete" /\ row.deleted -> Accepted(row.version)
      [] OTHER -> Accepted(row.version + 1)

\* Mutant: a delete leaves the version alone.
MutSameVersion(m, row) ==
    [version |-> IF mutation[m].op = "delete" THEN row.version ELSE row.version + 1,
     deleted |-> mutation[m].op = "delete",
     data |-> IF mutation[m].op = "delete" THEN row.data ELSE m]

\* Insert, update and delete all leave the next version; an upsert brings its
\* data and revives a tombstone, a delete keeps the data.
Written(m, row) ==
    [version |-> row.version + 1, deleted |-> mutation[m].op = "delete",
     data |-> IF mutation[m].op = "delete" THEN row.data ELSE m]

Writes(m, row) == Verdict(mutation[m], row) = Accepted(row.version + 1)

\* FOREIGN KEY (user_id, session_id): the session must have a row, deleted or
\* not, when a solve that names it is written.
ViolatesForeignKey(h, m) ==
    /\ mutation[m].entity \in Solves
    /\ mutation[m].op = "upsert"
    /\ mutation[m].session \in Sessions
    /\ Writes(m, RowInTx(h, mutation[m].entity))
    /\ RowInTx(h, mutation[m].session).version = 0

\* applyMutation, when the outcome of an earlier request is on record.
ReplayMutation(h, m) ==
    /\ pc[h] = "apply"
    /\ IsNextToApply(h, m)
    /\ \E p \in GetProcessedMutation(req[h].device, m) :
          tx' = [tx EXCEPT ![h].outcome[m] = p.outcome]
    /\ UNCHANGED <<dbVars, apiVars>>

\* applyMutation, when the mutation leaves its row alone.
RefuseMutation(h, m) ==
    LET row == RowInTx(h, mutation[m].entity)
    IN  /\ pc[h] = "apply"
        /\ IsNextToApply(h, m)
        /\ GetProcessedMutation(req[h].device, m) = {}
        /\ ~Writes(m, row)
        /\ tx' = [tx EXCEPT ![h].outcome[m] = Verdict(mutation[m], row),
                            ![h].recorded = @ \cup {m}]
        /\ UNCHANGED <<dbVars, apiVars>>

\* applyMutation, when the mutation is applied: the row's next version, and a
\* change with the next change_id, which the sequence hands out for good.
ApplyMutation(h, m) ==
    LET e == mutation[m].entity
        row == RowInTx(h, e)
        new == Written(m, row)
    IN  /\ pc[h] = "apply"
        /\ IsNextToApply(h, m)
        /\ GetProcessedMutation(req[h].device, m) = {}
        /\ Writes(m, row)
        /\ ~ViolatesForeignKey(h, m)
        /\ seq' = seq + 1
        /\ tx' = [tx EXCEPT ![h] = [tx[h] EXCEPT
              !.rows[e] = new,
              !.changes = @ \cup {[id |-> seq + 1, entity |-> e, op |-> mutation[m].op,
                                   version |-> new.version, data |-> new.data,
                                   by |-> m, at |-> tx[h].began]},
              !.outcome[m] = Accepted(new.version),
              !.recorded = @ \cup {m}]]
        /\ UNCHANGED <<tableVars, devices, lock, now, tracked, apiVars>>

\* Mutant: a session level lock, which survives the transaction.
MutKeepLock(h) == lock' = lock

\* pg_advisory_xact_lock is released when the transaction ends.
ReleaseLock(h) == lock' = IF lock = h THEN NoHandler ELSE lock

\* The transaction ends: what it wrote is kept only by Commit, and the change_ids
\* of a rolled back one are gone.
EndTx(h) ==
    /\ tx' = [tx EXCEPT ![h] = NoTx]
    /\ ReleaseLock(h)

\* applySolve answers a foreign key violation with "rejected", but the failed
\* statement has aborted the transaction: recording that outcome fails too, and
\* the request ends in an error.
AbortOnForeignKey(h, m) ==
    /\ pc[h] = "apply"
    /\ IsNextToApply(h, m)
    /\ GetProcessedMutation(req[h].device, m) = {}
    /\ ViolatesForeignKey(h, m)
    /\ EndTx(h)
    /\ Respond(h, Bare("error"))
    /\ UNCHANGED <<tableVars, devices, seq, now, tracked, req, mutation, faults>>

\* All mutations have their outcome: list the changes, own writes included.
ListInTx(h) ==
    /\ pc[h] = "apply"
    /\ ToApply(h) = {}
    /\ \E r \in SyncResponses(log \cup tx[h].changes, req[h].cursor, tx[h].outcome) :
          resp' = [resp EXCEPT ![h] = r]
    /\ Goto(h, "commit")
    /\ UNCHANGED <<dbVars, req, mutation, faults, tx>>

Commit(h) ==
    LET d == req[h].device
    IN  /\ pc[h] = "commit"
        /\ rows' = [e \in Entities |-> RowInTx(h, e)]
        /\ log' = log \cup tx[h].changes
        /\ history' = history \cup tx[h].changes
        /\ processed' = processed \cup
              {[device |-> d, mutation |-> m, outcome |-> tx[h].outcome[m],
                at |-> tx[h].began] : m \in tx[h].recorded}
        /\ devices' = UpsertDevice(d, tx[h].began)
        /\ tracked' = StillActive(devices', now)
        /\ EndTx(h)
        /\ Goto(h, "ack")
        /\ UNCHANGED <<seq, now, req, resp, mutation, faults>>

-----------------------------------------------------------------------------
(* After the answer is built *)

\* Mutant: the cursor just returned is acknowledged, not the one reported.
MutAckNext(h) ==
    /\ pc[h] = "ack"
    /\ devices[req[h].device].ack < resp[h].next => DeviceRowFree(req[h].device)
    /\ devices' = UpdateDeviceAckCursor(req[h].device, resp[h].next)
    /\ Goto(h, "reply")
    /\ UNCHANGED <<tableVars, seq, lock, now, tracked, req, resp, mutation, faults, tx>>

\* The cursor the client reports as applied becomes the device's
\* last_ack_cursor, in a statement of its own.
AckCursor(h) ==
    /\ pc[h] = "ack"
    /\ devices[req[h].device].ack < req[h].cursor => DeviceRowFree(req[h].device)
    /\ devices' = UpdateDeviceAckCursor(req[h].device, req[h].cursor)
    /\ Goto(h, "reply")
    /\ UNCHANGED <<tableVars, seq, lock, now, tracked, req, resp, mutation, faults, tx>>

\* An error of that statement is ignored.
AckFails(h) ==
    /\ pc[h] = "ack"
    /\ req[h].cursor > 0
    /\ Fault
    /\ Goto(h, "reply")
    /\ UNCHANGED <<dbVars, req, resp, mutation, tx>>

\* Any other statement fails, its context is cancelled or the server dies: an
\* open transaction is rolled back.
SyncFails(h) ==
    /\ pc[h] \in SyncSteps \ {"ack"}
    /\ Fault
    /\ EndTx(h)
    /\ Respond(h, Bare("error"))
    /\ UNCHANGED <<tableVars, devices, seq, now, tracked, req, mutation>>

\* What a handler does when nothing fails.
SyncWork(h) ==
    \/ RejectRequest(h) \/ RejectExpired(h) \/ PassCursorCheck(h)
    \/ PullUpsert(h) \/ PullList(h)
    \/ BeginTx(h) \/ AcquireLock(h) \/ ListInTx(h) \/ Commit(h)
    \/ \E m \in Mutations :
          ReplayMutation(h, m) \/ RefuseMutation(h, m) \/ ApplyMutation(h, m)
             \/ AbortOnForeignKey(h, m)
    \/ AckCursor(h)

SyncStep(h) == SyncWork(h) \/ AckFails(h) \/ SyncFails(h)
=============================================================================
