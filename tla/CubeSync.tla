------------------------------ MODULE CubeSync ------------------------------
(***************************************************************************)
(* The synchronization system: the devices of one user, the sync and       *)
(* snapshot endpoints, and the retention job, over one database.           *)
(***************************************************************************)
EXTENDS SyncService, SnapshotService, RetentionService, SyncClient

vars == <<dbVars, apiVars, tx, ret, clientVars>>

Init ==
    /\ DatabaseInit
    /\ ApiInit
    /\ TxInit
    /\ RetentionInit
    /\ ClientInit

-----------------------------------------------------------------------------
(* One step of one component leaves the state of the others alone *)

\* A handler works on a sync request.
SyncNext(h) == SyncStep(h) /\ UNCHANGED <<ret, clientVars>>

\* The device that waits for the first page of its bootstrap is tracked from its
\* upsert on.  A first page that the device has given up on may be served much
\* later, and says nothing about the bootstrap the device is at by then.
Tracks(h) ==
    LET d == req[h].device
    IN  tracked' = IF /\ pc[h] = "snapUpsert" /\ pc'[h] = "snapWatermark"
                      /\ waiting[d] = h
                   THEN tracked \cup {d} ELSE tracked

\* A handler works on a snapshot request.
SnapshotNext(h) == SnapshotStep(h) /\ Tracks(h) /\ UNCHANGED <<tx, ret, clientVars>>

RetentionNext ==
    /\ \/ RetentionStep /\ UNCHANGED faults
       \/ RetentionStatementFails /\ Fault
    /\ UNCHANGED <<pc, req, resp, mutation, tx, clientVars>>

\* A device sends, receives, or its user edits.
ClientNext(d) == ClientStep(d) /\ UNCHANGED <<dbVars, tx, ret>>

DropNext(h) == DropAnswer(h) /\ UNCHANGED <<dbVars, tx, ret>>

\* Time passes, and other users take change ids.
Environment ==
    /\ Tick \/ OtherUserAppends
    /\ UNCHANGED <<apiVars, tx, ret, clientVars>>

Next ==
    \/ \E h \in Handlers : SyncNext(h) \/ SnapshotNext(h) \/ DropNext(h)
    \/ \E d \in Devices : ClientNext(d)
    \/ RetentionNext
    \/ Environment

Spec == Init /\ [][Next]_vars

-----------------------------------------------------------------------------
(* Fairness *)

\* The device's sync loop takes another turn: the oldest queued mutations, as
\* many as a request may carry, or a plain pull, or the next snapshot page.
Turn(d) ==
    /\ \E h \in Handlers :
          \/ SendSnapshot(d, h)
          \/ SendSync(d, h, Min({Len(outbox[d]), MaxMutations}))
    /\ UNCHANGED <<dbVars, tx, ret>>

\* A handler that can go on does, and PostgreSQL grants the lock in the order in
\* which it was asked for.  A device that waits takes the answer when it is
\* there, and keeps its sync loop running.  Nothing is assumed about edits,
\* faults, time, other users or retention.
Fairness ==
    /\ \A h \in Handlers :
          /\ WF_vars(SyncWork(h) /\ UNCHANGED <<ret, clientVars>>)
          /\ SF_vars(AcquireLock(h) /\ UNCHANGED <<ret, clientVars>>)
          /\ WF_vars(SnapshotWork(h) /\ Tracks(h) /\ UNCHANGED <<tx, ret, clientVars>>)
          /\ WF_vars(DropNext(h))
    /\ \A d \in Devices :
          /\ WF_vars((\E h \in Handlers : Receive(d, h)) /\ UNCHANGED <<dbVars, tx, ret>>)
          /\ SF_vars(Turn(d))

FairSpec == Spec /\ Fairness

-----------------------------------------------------------------------------
(* Types *)

\* Every table, request, transaction and client state has the shape the code
\* gives it, and a handler that serves a request knows its device.
TypeOK ==
    /\ DatabaseTypeOK
    /\ ApiTypeOK
    /\ TxTypeOK
    /\ RetentionTypeOK
    /\ ClientTypeOK

-----------------------------------------------------------------------------
(* Safety *)

\* A change never becomes visible at or below a cursor that some device already
\* holds, be it from a sync or the watermark of its bootstrap: change ids are
\* handed out before the commit, and only the advisory lock makes their commit
\* order the id order.
NoLateChange ==
    [][\A c \in log' \ log : \A d \in Devices : c.id > cursor[d]]_vars

\* The rows and the log tell the same story: among the changes of an entity,
\* version order is id order, retained versions have no hole up to the row's own
\* version, and the last one has the row's content.
LogMatchesRows ==
    \A c \in log :
        /\ c.version <= rows[c.entity].version
        /\ c.version = rows[c.entity].version =>
              /\ c.data = rows[c.entity].data
              /\ (c.op = "delete") = rows[c.entity].deleted
        /\ c.version < rows[c.entity].version =>
              \E x \in log : x.entity = c.entity /\ x.version = c.version + 1 /\ x.id > c.id

\* However often a mutation is sent, whatever was lost, and even after its
\* record was pruned, it changes its entity at most once.
AppliedAtMostOnce ==
    \A c, x \in history : c.by = x.by => c = x

\* An answer tells the truth about its mutations: "accepted" names a version that
\* was committed for that entity; a mutation that was applied is never answered
\* with a conflict or a rejection, unless it was applied longer ago than the
\* window in which processed mutations are kept.
HonestOutcomes ==
    \A h \in Handlers : pc[h] = "reply" =>
        \A i \in DOMAIN req[h].batch :
            LET m == req[h].batch[i]
                o == resp[h].outcome[m]
            IN  /\ o.status = "accepted" =>
                      \E c \in history : c.entity = mutation[m].entity /\ c.version = o.version
                                            /\ c.op = mutation[m].op
                /\ o.status \in {"conflict", "rejected"} =>
                      \A c \in history : c.by = m => c.at < now - Window

\* Row r is what change c left behind, except that protocol 2 sends a deletion
\* without its data: a device that was told nothing else of the entity has none.
Shows(r, c) ==
    /\ r.version = c.version
    /\ r.deleted = (c.op = "delete")
    /\ r.data = c.data \/ (r.deleted /\ ProtoVersion >= 2)

\* What a device holds of an entity is what the server had at that version, by
\* whatever mixture of pages, outcomes and changes the device came to it.
ReplicaIsPastState ==
    \A d \in Devices, e \in Entities :
        replica[d][e].version > 0 => \E c \in history : c.entity = e /\ Shows(replica[d][e], c)

\* A device that has been active since its bootstrap can always catch up: an
\* entity it does not hold at its latest version has that version in the log,
\* after the device's cursor.
NoSilentGap ==
    \A d \in tracked : phase[d] = "sync" =>
        \A e \in Entities : rows[e].version > replica[d][e].version =>
            \E c \in log : c.entity = e /\ c.version = rows[e].version /\ c.id > cursor[d]

\* The server never believes that a device has applied more than it has, so
\* retention never prunes a change on the strength of an unapplied page.
AckBehindClient ==
    \A d \in Devices : phase[d] = "sync" => devices[d].ack <= cursor[d]

\* Retention never prunes the newest change: a snapshot's watermark and the
\* acknowledged cursors stay meaningful.
NewestChangeKept ==
    \A c \in history : (\A x \in history : x.id <= c.id) => c \in log

\* A solve may name a session that travels in the same request: sessions are
\* applied first, so the session that the batch creates is there when the solve
\* is written.
SessionTravelsFirst ==
    \A h \in Handlers, m \in Mutations :
        pc[h] = "apply" /\ IsNextToApply(h, m) /\ ViolatesForeignKey(h, m) =>
            \A i \in DOMAIN req[h].batch :
                LET s == mutation[req[h].batch[i]]
                IN  ~(s.entity = mutation[m].session /\ s.valid /\ s.op = "upsert"
                         /\ s.was.version = 0)

\* What docs/sync-protocol.md says of expiry: a cursor from before the oldest
\* retained change is answered with cursor_expired, so that an answer that is
\* not an error never leaves a change out.
ServedInFull ==
    \A h \in Handlers :
        pc[h] = "reply" /\ req[h].entity = "none" /\ resp[h].status = "ok" /\ req[h].cursor > 0 =>
            \A c \in history : c.id > req[h].cursor /\ c.id <= resp[h].next =>
                \E x \in resp[h].changes : x.id = c.id

\* What docs/sync-protocol.md and applySolve say of a solve with an unknown
\* session: its outcome is "rejected", it does not fail the request it is in.
RejectedNotFailed ==
    \A h \in Handlers : pc[h] = "reply" /\ faults = 0 => resp[h].status # "error"

-----------------------------------------------------------------------------
(* Why the log is read in the right order: the inductive invariant behind *)
(* NoLateChange.                                                          *)

\* Every change id and every cursor anywhere in the system comes from the
\* sequence.
IdsFromSequence ==
    /\ \A c \in log \cup history : c.id <= seq
    /\ \A h \in Handlers : \A c \in tx[h].changes : c.id <= seq
    /\ \A h \in Handlers : req[h].cursor <= seq /\ resp[h].next <= seq
    /\ \A d \in Devices : cursor[d] <= seq

\* Whoever has a transaction past the advisory lock holds the lock, and nobody
\* else has uncommitted changes.
LockHeld ==
    \A h \in Handlers :
        /\ pc[h] \in {"apply", "commit"} => lock = h
        /\ pc[h] \notin {"apply", "commit"} => tx[h].changes = {}

\* An uncommitted change has a larger id than every committed change and every
\* cursor that anyone else has been given.
PendingAbove ==
    \A h \in Handlers : \A c \in tx[h].changes :
        /\ \A x \in log : x.id < c.id
        /\ \A d \in Devices : cursor[d] < c.id
        /\ \A g \in Handlers : req[g].cursor < c.id /\ (g # h => resp[g].next < c.id)

OrderInv == IdsFromSequence /\ LockHeld /\ PendingAbove

-----------------------------------------------------------------------------
(* Liveness *)

\* A device that stays active ends up with exactly the server's rows, once
\* its user and the others have stopped editing.
Converges ==
    \A d \in Devices : <>[](d \in tracked) => <>[](replica[d] = rows)

\* Every mutation in an outbox is answered in the end, whatever was lost.
OutboxDrains ==
    \A d \in Devices : []<>(outbox[d] = <<>>)
=============================================================================
