-------------------------- MODULE SnapshotService --------------------------
(***************************************************************************)
(* POST /v1/snapshot (src/internal/sync/snapshot.go): one page of the      *)
(* materialized rows per request, in statements that commit one by one.    *)
(***************************************************************************)
EXTENDS ApiServer

CONSTANT SnapshotPageSize

ASSUME SnapshotAssumption == SnapshotPageSize \in Nat \ {0}

\* The watermark is taken on the very first page of a bootstrap only.
IsFirstPage(r) == r.cursor = 0 /\ r.entity = "session" /\ r.after = 0

\* UpsertDevice: from here on the device counts as active (and may be tracked).
SnapshotUpsert(h) ==
    LET d == req[h].device
    IN  /\ pc[h] = "snapUpsert"
        /\ \A g \in Handlers : pc[g] \in {"apply", "commit"} => req[g].device # d
        /\ devices' = UpsertDevice(d, now)
        /\ Goto(h, IF IsFirstPage(req[h]) THEN "snapWatermark" ELSE "snapPage")
        /\ UNCHANGED <<tableVars, seq, lock, now, req, resp, mutation, faults>>

\* LatestChangeCursor becomes the cursor of the whole bootstrap.
SnapshotWatermark(h) ==
    /\ pc[h] = "snapWatermark"
    /\ req' = [req EXCEPT ![h].cursor = LatestChangeCursor]
    /\ Goto(h, "snapPage")
    /\ UNCHANGED <<dbVars, resp, mutation, faults>>

\* The keys of a table's rows after a given id, tombstones included.
KeysetAfter(ids, after) == {e \in ids : rows[e].version > 0 /\ e > after}

\* snapshotSessions and snapshotSolves: a page in id order, cut by the page
\* size or the byte budget; when the sessions are exhausted the client goes on
\* with the solves, and when those are, the bootstrap is complete.
SnapshotPages(r) ==
    LET found == KeysetAfter(IF r.entity = "session" THEN Sessions ELSE Solves, r.after)
        ends == IF found = {} THEN {0} ELSE PageEnds(found, SnapshotPageSize)
        more(end) == \E e \in found : e > end
    IN  {[Bare("ok") EXCEPT
             !.items = [e \in Entities |-> IF e \in found /\ e <= end THEN rows[e] ELSE NoRow],
             !.next = r.cursor,
             !.more = more(end),
             !.after = IF more(end) THEN end ELSE 0,
             !.entity = IF more(end) THEN r.entity
                        ELSE IF r.entity = "session" THEN "solve" ELSE "none"] : end \in ends}

SnapshotPage(h) ==
    /\ pc[h] = "snapPage"
    /\ \E r \in SnapshotPages(req[h]) : Respond(h, r)
    /\ UNCHANGED <<dbVars, req, mutation, faults>>

SnapshotFails(h) ==
    /\ pc[h] \in SnapshotSteps
    /\ Fault
    /\ Respond(h, Bare("error"))
    /\ UNCHANGED <<dbVars, req, mutation>>

SnapshotWork(h) == SnapshotUpsert(h) \/ SnapshotWatermark(h) \/ SnapshotPage(h)

SnapshotStep(h) == SnapshotWork(h) \/ SnapshotFails(h)
=============================================================================
