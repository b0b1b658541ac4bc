----------------------------- MODULE SyncClient -----------------------------
(***************************************************************************)
(* The client of the protocol, as src/docs/sync-protocol.md and the        *)
(* services expect it: it bootstraps page by page, keeps its edits in an   *)
(* outbox until they are answered, repeats an unanswered request with the  *)
(* same mutation ids, and advances its cursor only with a response whose   *)
(* changes it has applied.  It has one request in flight at a time, but    *)
(* may give up on a request that the server is still serving.              *)
(***************************************************************************)
EXTENDS ApiServer

CONSTANTS
    Edits,          \* the edits a user may make: entity, op, session, valid
    FreshSync       \* devices that start at cursor 0 without a snapshot

ASSUME ClientAssumption ==
    /\ Edits \subseteq [entity : Entities, op : {"upsert", "delete"},
                        session : Sessions \cup {NoSession}, valid : BOOLEAN]
    /\ FreshSync \subseteq Devices

VARIABLES
    phase,      \* bootstrapping "session" or "solve" pages, or in "sync"
    cursor,     \* the last applied cursor; the watermark during a bootstrap
    after,      \* next_after_id of the bootstrap
    replica,    \* the server's rows as this device knows them
    outbox,     \* unanswered mutations, oldest first
    waiting     \* the handler this device waits for

clientVars == <<phase, cursor, after, replica, outbox, waiting>>

ClientTypeOK ==
    /\ phase \in [Devices -> {"session", "solve", "sync"}]
    /\ cursor \in [Devices -> Nat]
    /\ after \in [Devices -> Nat]
    /\ replica \in [Devices -> [Entities -> Row]]
    /\ outbox \in [Devices -> Seq(Mutations)]
    /\ waiting \in [Devices -> Handlers \cup {NoHandler}]

ClientInit ==
    /\ phase = [d \in Devices |-> IF d \in FreshSync THEN "sync" ELSE "session"]
    /\ cursor = [d \in Devices |-> 0]
    /\ after = [d \in Devices |-> 0]
    /\ replica = [d \in Devices |-> NoItems]
    /\ outbox = [d \in Devices |-> <<>>]
    /\ waiting = [d \in Devices |-> NoHandler]

\* The user edits an entity the device knows, or creates one.
Edit(d, m) ==
    /\ phase[d] = "sync"
    /\ ~mutation[m].made
    /\ \E x \in Edits :
          mutation' = [mutation EXCEPT ![m] =
             [made |-> TRUE, entity |-> x.entity, op |-> x.op, was |-> replica[d][x.entity],
              session |-> x.session, valid |-> x.valid]]
    /\ outbox' = [outbox EXCEPT ![d] = Append(@, m)]
    /\ UNCHANGED <<pc, req, resp, faults, phase, cursor, after, replica, waiting>>

Send(d, h, r, step) ==
    /\ waiting[d] = NoHandler
    /\ pc[h] = "idle"
    /\ req' = [req EXCEPT ![h] = r]
    /\ Goto(h, step)
    /\ waiting' = [waiting EXCEPT ![d] = h]
    /\ UNCHANGED <<resp, mutation, faults, phase, cursor, after, replica, outbox>>

\* The n oldest mutations of the outbox, with the current cursor.
SendSync(d, h, n) ==
    /\ phase[d] = "sync"
    /\ n > 0 => seq + n <= MaxSeq
    /\ Send(d, h, [NoRequest EXCEPT !.device = d, !.cursor = cursor[d],
                                    !.batch = SubSeq(outbox[d], 1, n)], "received")

SendSnapshot(d, h) ==
    /\ phase[d] # "sync"
    /\ Send(d, h, [NoRequest EXCEPT !.device = d, !.cursor = cursor[d],
                                    !.entity = phase[d], !.after = after[d]], "snapUpsert")

\* The handler is free again.
Finish(h) ==
    /\ Goto(h, "idle")
    /\ req' = [req EXCEPT ![h] = NoRequest]
    /\ resp' = [resp EXCEPT ![h] = Bare("ok")]

Answered(d, h) ==
    /\ waiting[d] = h
    /\ pc[h] = "reply"
    /\ waiting' = [waiting EXCEPT ![d] = NoHandler]
    /\ Finish(h)

Newer(row, old) == IF row.version > old.version THEN row ELSE old

\* The row of a mutation that was accepted, as its device knows it.
AcceptedRow(m, o) ==
    [version |-> o.version, deleted |-> mutation[m].op = "delete",
     data |-> IF mutation[m].op = "delete" THEN mutation[m].was.data ELSE m]

\* What an outcome tells the device about the entity: an accepted mutation is
\* the row's new version; a conflict carries the server's row (not in protocol 2).
RowByOutcome(m, o, old) ==
    CASE o.status = "accepted" -> Newer(AcceptedRow(m, o), old)
      [] o.status = "conflict" /\ o.current.data # NoMutation -> Newer(o.current, old)
      [] OTHER -> old

\* The rows after the outcomes of the batch: for each entity the newest of what
\* its mutations were told.
RowsByOutcomes(batch, outcome, old) ==
    [e \in Entities |->
        LET mine == {i \in DOMAIN batch : mutation[batch[i]].entity = e}
            told == {RowByOutcome(batch[i], outcome[batch[i]], old[e]) : i \in mine}
            newest == {row \in told : \A x \in told : x.version <= row.version}
        IN  IF newest = {} THEN old[e] ELSE CHOOSE row \in newest : TRUE]

LastOf(changes) == {c \in changes : \A x \in changes : x.id <= c.id}

\* The rows after the changes of a page, applied in order: the last change of an
\* entity stays; a deletion without data keeps the data from before it.
RowsByChanges(changes, old) ==
    [e \in Entities |->
        LET last == LastOf({c \in changes : c.entity = e})
            full == LastOf({c \in changes : c.entity = e /\ c.data # NoMutation})
            change == CHOOSE c \in last : TRUE
            source == CHOOSE c \in full : TRUE
        IN  IF last = {} THEN old[e]
            ELSE Newer([version |-> change.version, deleted |-> change.op = "delete",
                        data |-> IF full = {} THEN old[e].data ELSE source.data], old[e])]

\* Outcomes first, then the changes in order, then the new cursor.
ReceiveSync(d, h) ==
    /\ Answered(d, h)
    /\ req[h].entity = "none"
    /\ resp[h].status = "ok"
    /\ replica' = [replica EXCEPT ![d] =
          RowsByChanges(resp[h].changes, RowsByOutcomes(req[h].batch, resp[h].outcome, @))]
    /\ cursor' = [cursor EXCEPT ![d] = resp[h].next]
    /\ outbox' = [outbox EXCEPT ![d] = SubSeq(@, Len(req[h].batch) + 1, Len(@))]
    /\ UNCHANGED <<mutation, faults, phase, after>>

\* cursor_expired: discard the cursor and the replica, and bootstrap.
ReceiveExpired(d, h) ==
    /\ Answered(d, h)
    /\ resp[h].status = "cursor_expired"
    /\ phase' = [phase EXCEPT ![d] = "session"]
    /\ cursor' = [cursor EXCEPT ![d] = 0]
    /\ after' = [after EXCEPT ![d] = 0]
    /\ replica' = [replica EXCEPT ![d] = NoItems]
    /\ UNCHANGED <<mutation, faults, outbox>>

ReceivePage(d, h) ==
    /\ Answered(d, h)
    /\ req[h].entity # "none"
    /\ resp[h].status = "ok"
    /\ replica' = [replica EXCEPT ![d] =
          [e \in Entities |-> Newer(resp[h].items[e], @[e])]]
    /\ cursor' = [cursor EXCEPT ![d] = resp[h].next]
    /\ after' = [after EXCEPT ![d] = resp[h].after]
    /\ phase' = [phase EXCEPT ![d] = IF resp[h].entity = "none" THEN "sync" ELSE resp[h].entity]
    /\ UNCHANGED <<mutation, faults, outbox>>

\* An error leaves everything for a retry.
ReceiveError(d, h) ==
    /\ Answered(d, h)
    /\ resp[h].status \in {"error", "invalid"}
    /\ UNCHANGED <<mutation, faults, phase, cursor, after, replica, outbox>>

\* The device stops waiting; the server may still be at work.
GiveUp(d) ==
    /\ waiting[d] # NoHandler
    /\ Fault
    /\ waiting' = [waiting EXCEPT ![d] = NoHandler]
    /\ UNCHANGED <<pc, req, resp, mutation, phase, cursor, after, replica, outbox>>

\* An answer nobody waits for is lost.
DropAnswer(h) ==
    /\ pc[h] = "reply"
    /\ \A d \in Devices : waiting[d] # h
    /\ Finish(h)
    /\ UNCHANGED <<mutation, faults, clientVars>>

Receive(d, h) ==
    ReceiveSync(d, h) \/ ReceiveExpired(d, h) \/ ReceivePage(d, h) \/ ReceiveError(d, h)

ClientStep(d) ==
    \/ \E m \in Mutations : Edit(d, m)
    \/ \E h \in Handlers :
          \/ \E n \in 0..Len(outbox[d]) : SendSync(d, h, n)
          \/ SendSnapshot(d, h)
          \/ Receive(d, h)
    \/ GiveUp(d)
=============================================================================
