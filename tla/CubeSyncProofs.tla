--------------------------- MODULE CubeSyncProofs ---------------------------
(***************************************************************************)
(* Proofs about CubeSync, for every value of the constants: every state    *)
(* has its type, a committed change is always after every cursor that a    *)
(* device holds, the rows and the change log tell the same story           *)
(* (LogMatchesRows), and a mutation changes its entity at most once        *)
(* (AppliedAtMostOnce).                                                    *)
(*                                                                         *)
(* TypeOK is inductive only together with the order of the log: the        *)
(* watermark of a bootstrap is the largest id of the log, and only because *)
(* ids come from the sequence is there a largest one.                      *)
(*                                                                         *)
(* The story follows from StoryInv: the changes ever committed, together   *)
(* with the ones that an open transaction has written, account for the     *)
(* rows that this transaction sees.  Then a commit has nothing left to     *)
(* prove, and ApplyMutation only has to add one change on top of its row.  *)
(***************************************************************************)
EXTENDS CubeSyncInvariants, SequenceTheorems, WellFoundedInduction, NaturalsInduction, TLAPS

-----------------------------------------------------------------------------
(* Smallest and largest elements *)

\* The order on the naturals, as the relation of the induction theorems.
LEMMA LessThanRelation ==
    ASSUME NEW x \in Nat, NEW y \in Nat, y < x
    PROVE  <<y, x>> \in OpToRel(<, Nat)
  BY DEF OpToRel

\* A non-empty set of naturals has a smallest element.
LEMMA SmallestExists ==
    ASSUME NEW S \in SUBSET Nat, S # {}
    PROVE  \E x \in S : \A y \in S : x <= y
<1>1. PICK x \in S : \A y \in S : ~(<<y, x>> \in OpToRel(<, Nat))
    BY WFMin, NatLessThanWellFounded, Zenon
<1>2. ASSUME NEW y \in S, ~(x <= y) PROVE FALSE
  <2>1. x \in Nat /\ y \in Nat /\ y < x
    BY <1>2
  <2> QED BY <1>1, <2>1, LessThanRelation
<1> QED BY <1>2

\* MinValidCursorForUser is well defined: a set of acknowledged cursors has a
\* smallest one.
LEMMA MinOfNaturals ==
    ASSUME NEW S \in SUBSET Nat, S # {}
    PROVE  Min(S) \in S /\ \A x \in S : Min(S) <= x
  BY SmallestExists DEF Min

\* LatestChangeCursor is well defined: the ids of a log have a largest one.
LEMMA MaxOfBoundedNaturals ==
    ASSUME NEW S \in SUBSET Nat, S # {}, NEW n \in Nat, \A x \in S : x <= n
    PROVE  Max(S) \in S /\ \A x \in S : x <= Max(S)
<1> DEFINE T == {n - x : x \in S}
<1>1. T \in SUBSET Nat /\ T # {}
  <2>1. \A x \in S : x \in Nat /\ n - x \in Nat
    OBVIOUS
  <2> QED BY <2>1
<1>2. PICK t \in T : \A y \in T : t <= y
    BY <1>1, SmallestExists
<1>3. PICK m \in S : t = n - m
    OBVIOUS
<1>4. \A x \in S : x <= m
    BY <1>2, <1>3
<1> QED BY <1>4 DEF Max

-----------------------------------------------------------------------------
(* Types of the queries and of the parts of a response *)

\* The floor of CursorExpired and of retention is a natural number.
LEMMA MinValidCursorType ==
    ASSUME DatabaseTypeOK, NEW t \in Int
    PROVE  MinValidCursorForUser(t) \in Nat
<1> DEFINE acks == {devices[d].ack : d \in ActiveAt(devices, t)}
<1>1. acks \in SUBSET Nat
    BY DEF DatabaseTypeOK, Device, ActiveAt
<1>2. acks # {} => Min(acks) \in Nat
    BY <1>1, MinOfNaturals
<1> QED BY <1>2 DEF MinValidCursorForUser

\* The watermark is 0 for an empty log and else the id of a committed change.
LEMMA LatestChangeCursorType ==
    ASSUME DatabaseTypeOK, IdsFromSequence
    PROVE  /\ LatestChangeCursor \in Nat
           /\ LatestChangeCursor <= seq
           /\ log # {} => \E c \in log : LatestChangeCursor = c.id
<1> DEFINE ids == {c.id : c \in log}
<1>1. ids \in SUBSET Nat /\ seq \in Nat /\ \A x \in ids : x <= seq
    BY DEF DatabaseTypeOK, Change, IdsFromSequence
<1>2. log # {} => Max(ids) \in ids
  <2> HAVE log # {}
  <2>1. ids # {}
    OBVIOUS
  <2> HIDE DEF ids
  <2> QED BY <1>1, <2>1, MaxOfBoundedNaturals
<1> QED BY <1>1, <1>2 DEF LatestChangeCursor

\* Both updates of the devices table leave a devices table.
LEMMA DeviceTableType ==
    ASSUME DatabaseTypeOK, NEW d \in Devices, NEW t \in Nat
    PROVE  /\ UpsertDevice(d, t) \in [Devices -> Device]
           /\ UpdateDeviceAckCursor(d, t) \in [Devices -> Device]
  BY DEF DatabaseTypeOK, Device, UpsertDevice, UpdateDeviceAckCursor

\* A response that carries only a status is a response.
LEMMA EmptyResponseType ==
    ASSUME NEW s \in Status
    PROVE  Bare(s) \in Response
<1>1. NoRow \in Row
    BY DEF NoRow, Row, Data
<1>2. NoOutcomes \in [Mutations -> Outcome \cup {NoOutcome}]
    BY DEF NoOutcomes
<1>3. NoItems \in [Entities -> Row]
    BY <1>1 DEF NoItems
<1> QED BY <1>2, <1>3 DEF Bare, Response

\* A page of changes ends at an id of the visible changes, or stays where it
\* began.
LEMMA SyncResponsesType ==
    ASSUME NEW visible \in SUBSET Change, NEW k \in Nat,
           NEW o \in [Mutations -> Outcome \cup {NoOutcome}],
           NEW r \in SyncResponses(visible, k, o)
    PROVE  /\ r \in Response
           /\ r.next = k \/ \E c \in visible : r.next = c.id
<1> DEFINE found == ListChanges(visible, k)
           ids == {c.id : c \in found}
           ends == IF found = {} THEN {k} ELSE PageEnds(ids, ChangeLimit)
<1>1. found \in SUBSET Change /\ found \subseteq visible
    BY DEF ListChanges
<1>2. ids \subseteq Nat /\ \A i \in ids : \E c \in visible : i = c.id
    BY <1>1 DEF Change
<1>3. ends \subseteq Nat /\ \A i \in ends : i = k \/ \E c \in visible : i = c.id
    BY <1>2 DEF PageEnds
<1>4. \A c \in Change : BuildChange(c) \in Change
    BY DEF BuildChange, Change, Data
<1>5. PICK end \in ends :
        r = [Bare("ok") EXCEPT !.changes = {BuildChange(c) : c \in {x \in found : x.id <= end}},
                               !.next = end,
                               !.more = \E x \in found : x.id > end,
                               !.outcome = o]
    BY Zenon DEF SyncResponses
<1>6. {BuildChange(c) : c \in {x \in found : x.id <= end}} \in SUBSET Change
    BY <1>1, <1>4
<1>7. Bare("ok") \in Response
    BY EmptyResponseType DEF Status
<1>8. (\E x \in found : x.id > end) \in BOOLEAN
    OBVIOUS
<1> HIDE DEF found, ids, ends
<1>9. r \in Response
    BY <1>3, <1>5, <1>6, <1>7, <1>8 DEF Response
<1>10. r.next = end
    BY <1>5, <1>7 DEF Response
<1> QED BY <1>3, <1>9, <1>10

\* A transaction reads a row, its own or the committed one.
LEMMA RowInTxType ==
    ASSUME TypeOK, NEW h \in Handlers, NEW e \in Entities
    PROVE  RowInTx(h, e) \in Row
  BY DEF TypeOK, DatabaseTypeOK, TxTypeOK, Tx, RowInTx

\* applySession and applySolve always come to an outcome that can be recorded.
LEMMA VerdictType ==
    ASSUME NEW m \in Mutation, NEW row \in Row
    PROVE  Verdict(m, row) \in Outcome
<1>1. NoRow \in Row
    BY DEF NoRow, Row, Data
<1>2. \A v \in Nat : Accepted(v) \in Outcome
    BY <1>1 DEF Accepted, Outcome
<1>3. Rejected \in Outcome
    BY <1>1 DEF Rejected, Outcome
<1>4. [row EXCEPT !.data = NoMutation] \in Row
    BY DEF Row, Data
<1>5. Conflict(row) \in Outcome
    BY <1>4 DEF Conflict, Outcome, Row
<1>6. row.version \in Nat /\ row.version + 1 \in Nat
    BY DEF Row
<1> QED BY <1>2, <1>3, <1>5, <1>6 DEF Verdict

\* Insert, update and delete leave a row.
LEMMA WrittenType ==
    ASSUME TypeOK, NEW m \in Mutations, NEW row \in Row
    PROVE  Written(m, row) \in Row
  BY DEF Written, Row, Data

\* A snapshot page is a response, and hands the watermark of its request on.
LEMMA SnapshotPagesType ==
    ASSUME TypeOK, NEW q \in Request, NEW r \in SnapshotPages(q)
    PROVE  r \in Response /\ r.next = q.cursor
<1> DEFINE found == KeysetAfter(IF q.entity = "session" THEN Sessions ELSE Solves, q.after)
           ends == IF found = {} THEN {0} ELSE PageEnds(found, SnapshotPageSize)
           more(end) == \E e \in found : e > end
<1>1. found \subseteq Nat
    BY EntityAssumption DEF KeysetAfter
<1>2. ends \subseteq Nat
    BY <1>1 DEF PageEnds
<1>3. PICK end \in ends :
        r = [Bare("ok") EXCEPT
             !.items = [e \in Entities |-> IF e \in found /\ e <= end THEN rows[e] ELSE NoRow],
             !.next = q.cursor,
             !.more = more(end),
             !.after = IF more(end) THEN end ELSE 0,
             !.entity = IF more(end) THEN q.entity
                        ELSE IF q.entity = "session" THEN "solve" ELSE "none"]
    BY Zenon DEF SnapshotPages
<1>4. NoRow \in Row
    BY DEF NoRow, Row, Data
<1>5. [e \in Entities |-> IF e \in found /\ e <= end THEN rows[e] ELSE NoRow] \in [Entities -> Row]
    BY <1>4 DEF TypeOK, DatabaseTypeOK
<1>6. more(end) \in BOOLEAN
    OBVIOUS
<1>7. Bare("ok") \in Response
    BY EmptyResponseType DEF Status
<1> HIDE DEF found, ends, more
<1>8. end \in Nat /\ q.cursor \in Nat /\ q.entity \in {"none", "session", "solve"}
    BY <1>2 DEF Request
<1> QED BY <1>3, <1>5, <1>6, <1>7, <1>8 DEF Response

\* Outcomes leave the replica a table of rows.
LEMMA RowsByOutcomesType ==
    ASSUME TypeOK, NEW batch \in Seq(Mutations), NEW old \in [Entities -> Row],
           NEW outcome \in [Mutations -> Outcome \cup {NoOutcome}]
    PROVE  RowsByOutcomes(batch, outcome, old) \in [Entities -> Row]
<1>1. ASSUME NEW m \in Mutations, NEW o \in Outcome \cup {NoOutcome}, NEW row \in Row
      PROVE  RowByOutcome(m, o, row) \in Row
  <2>1. mutation[m] \in Mutation
    BY DEF TypeOK, ApiTypeOK
  <2>2. NoRow \in Row
    BY DEF NoRow, Row, Data
  <2>3. o.version \in Nat /\ o.current \in Row
    BY <2>2 DEF Outcome, NoOutcome
  <2>4. AcceptedRow(m, o) \in Row
    BY <2>1, <2>3 DEF AcceptedRow, Mutation, Row, Data
  <2> QED BY <2>3, <2>4 DEF RowByOutcome, Newer
<1> SUFFICES ASSUME NEW e \in Entities
             PROVE  RowsByOutcomes(batch, outcome, old)[e] \in Row
    BY DEF RowsByOutcomes
<1> DEFINE mine == {i \in DOMAIN batch : mutation[batch[i]].entity = e}
           told == {RowByOutcome(batch[i], outcome[batch[i]], old[e]) : i \in mine}
           newest == {row \in told : \A x \in told : x.version <= row.version}
<1>2. \A i \in mine : batch[i] \in Mutations
    OBVIOUS
<1>3. \A i \in mine : RowByOutcome(batch[i], outcome[batch[i]], old[e]) \in Row
    BY <1>1, <1>2
<1>4. newest \subseteq Row
    BY <1>3
<1>5. RowsByOutcomes(batch, outcome, old)[e] =
        IF newest = {} THEN old[e] ELSE CHOOSE row \in newest : TRUE
    BY DEF RowsByOutcomes
<1> HIDE DEF newest
<1> QED BY <1>4, <1>5

\* Changes leave the replica a table of rows.
LEMMA RowsByChangesType ==
    ASSUME NEW changes \in SUBSET Change, NEW old \in [Entities -> Row]
    PROVE  RowsByChanges(changes, old) \in [Entities -> Row]
<1> SUFFICES ASSUME NEW e \in Entities
             PROVE  RowsByChanges(changes, old)[e] \in Row
    BY DEF RowsByChanges
<1> DEFINE last == LastOf({c \in changes : c.entity = e})
           full == LastOf({c \in changes : c.entity = e /\ c.data # NoMutation})
           change == CHOOSE c \in last : TRUE
           source == CHOOSE c \in full : TRUE
           new == [version |-> change.version, deleted |-> change.op = "delete",
                   data |-> IF full = {} THEN old[e].data ELSE source.data]
<1>1. last \subseteq Change /\ full \subseteq Change
    BY DEF LastOf
<1>2. RowsByChanges(changes, old)[e] = IF last = {} THEN old[e] ELSE Newer(new, old[e])
    BY DEF RowsByChanges
<1> HIDE DEF last, full
<1>3. last # {} => change \in Change
    BY <1>1
<1>4. full # {} => source \in Change
    BY <1>1
<1> HIDE DEF change, source
<1>5. last # {} => new \in Row
    BY <1>3, <1>4 DEF Change, Row
<1> QED BY <1>2, <1>5 DEF Newer

\* A transaction that ends leaves no transaction behind, and the lock to its holder or nobody.
LEMMA EndTxTypes ==
    ASSUME TypeOK, NEW h \in Handlers, EndTx(h)
    PROVE  TxTypeOK' /\ lock' \in Handlers \cup {NoHandler}
<1>1. NoRow \in Row
    BY DEF NoRow, Row, Data
<1>2. NoTx \in Tx /\ NoTx.recorded = {}
    BY <1>1 DEF NoTx, Tx, NoItems, NoOutcomes
<1>3. tx' = [tx EXCEPT ![h] = NoTx]
    BY DEF EndTx
<1>4. tx' \in [Handlers -> Tx]
    BY <1>2, <1>3 DEF TypeOK, TxTypeOK
<1>5. ASSUME NEW g \in Handlers, NEW m \in tx'[g].recorded PROVE tx'[g].outcome[m] \in Outcome
  <2>1. CASE g = h
    BY <1>2, <1>3, <1>5, <2>1 DEF TypeOK, TxTypeOK
  <2>2. CASE g # h
    BY <1>3, <1>5, <2>2 DEF TypeOK, TxTypeOK
  <2> QED BY <2>1, <2>2
<1>6. lock' \in Handlers \cup {NoHandler}
    BY DEF EndTx, ReleaseLock, TypeOK, DatabaseTypeOK
<1> QED BY <1>4, <1>5, <1>6 DEF TxTypeOK

\* A handler notes the outcome of one mutation and maybe records it.
LEMMA OutcomeTypes ==
    ASSUME TypeOK, NEW h \in Handlers, NEW m \in Mutations, NEW o \in Outcome,
           NEW t \in Tx, tx' = [tx EXCEPT ![h] = t],
           t.outcome = [tx[h].outcome EXCEPT ![m] = o],
           t.recorded \subseteq tx[h].recorded \cup {m}
    PROVE  TxTypeOK'
<1> USE DEF TypeOK, TxTypeOK
<1>1. tx' \in [Handlers -> Tx]
    OBVIOUS
<1>2. tx[h] \in Tx /\ tx[h].outcome \in [Mutations -> Outcome \cup {NoOutcome}]
    BY DEF Tx
<1>3. t.recorded \subseteq Mutations
    BY DEF Tx
<1>4. ASSUME NEW g \in Handlers, NEW n \in tx'[g].recorded PROVE tx'[g].outcome[n] \in Outcome
  <2>1. CASE g # h
    BY <1>4, <2>1
  <2>2. CASE g = h /\ n = m
    BY <1>2, <1>4, <2>2
  <2>3. CASE g = h /\ n # m
    <3>1. n \in tx[h].recorded /\ n \in Mutations
      BY <1>3, <1>4, <2>3
    <3>2. tx[h].outcome[n] \in Outcome
      BY <3>1
    <3> QED BY <1>2, <2>3, <3>1, <3>2
  <2> QED BY <2>1, <2>2, <2>3
<1> QED BY <1>1, <1>4

-----------------------------------------------------------------------------
(* Type correctness, one step per action *)

\* A step of a sync request keeps every type.
LEMMA SyncTypes ==
    ASSUME TypeOK, IdsFromSequence, NEW h \in Handlers, SyncNext(h)
    PROVE  TypeOK'
<1> USE DEF TypeOK, DatabaseTypeOK, ApiTypeOK, TxTypeOK, RetentionTypeOK, ClientTypeOK,
            dbVars, tableVars, apiVars, clientVars, SyncSteps, SnapshotSteps
<1>a. /\ req[h] \in Request /\ req[h].cursor \in Nat /\ req[h].batch \in Seq(Mutations)
      /\ pc[h] # "idle" => req[h].device \in Devices
      /\ tx[h] \in Tx /\ tx[h].began \in Nat /\ tx[h].changes \in SUBSET Change
      /\ tx[h].outcome \in [Mutations -> Outcome \cup {NoOutcome}]
    BY DEF Request, Tx
<1>b. \A s \in Status : Bare(s) \in Response
    BY EmptyResponseType
<1>1. CASE RejectRequest(h)
    BY <1>1, <1>a, <1>b DEF SyncNext, RejectRequest, Respond, Goto, Status
<1>2. CASE RejectExpired(h)
    BY <1>2, <1>a, <1>b DEF SyncNext, RejectExpired, Respond, Goto, Status
<1>3. CASE PassCursorCheck(h)
    BY <1>3, <1>a DEF SyncNext, PassCursorCheck, Goto
<1>4. CASE PullUpsert(h)
    BY <1>4, <1>a, DeviceTableType DEF SyncNext, PullUpsert, Goto
<1>5. CASE PullList(h)
  <2>1. PICK r \in SyncResponses(log, req[h].cursor, NoOutcomes) : resp' = [resp EXCEPT ![h] = r]
    BY <1>5 DEF PullList
  <2>2. NoOutcomes \in [Mutations -> Outcome \cup {NoOutcome}]
    BY DEF NoOutcomes
  <2>3. r \in Response
    BY <1>a, <2>2, SyncResponsesType
  <2> QED BY <1>5, <1>a, <2>1, <2>3 DEF SyncNext, PullList, Goto
<1>6. CASE BeginTx(h)
    BY <1>6, <1>a DEF SyncNext, BeginTx, Goto, Tx
<1>7. CASE AcquireLock(h)
    BY <1>7, <1>a DEF SyncNext, AcquireLock, Goto
<1>8. CASE ListInTx(h)
  <2>1. PICK r \in SyncResponses(log \cup tx[h].changes, req[h].cursor, tx[h].outcome) :
            resp' = [resp EXCEPT ![h] = r]
    BY <1>8 DEF ListInTx
  <2>2. log \cup tx[h].changes \in SUBSET Change
    BY <1>a
  <2>3. r \in Response
    BY <1>a, <2>2, SyncResponsesType
  <2> QED BY <1>8, <1>a, <2>1, <2>3 DEF SyncNext, ListInTx, Goto
<1>9. CASE Commit(h)
  <2> DEFINE d == req[h].device
             recorded == {[device |-> d, mutation |-> m, outcome |-> tx[h].outcome[m],
                           at |-> tx[h].began] : m \in tx[h].recorded}
  <2>1. d \in Devices
    BY <1>9, <1>a DEF Commit
  <2>2. rows' \in [Entities -> Row]
    BY <1>9, RowInTxType DEF Commit
  <2>3. recorded \subseteq Processed
    <3>1. \A m \in tx[h].recorded : m \in Mutations /\ tx[h].outcome[m] \in Outcome
      BY <1>a DEF Tx
    <3> QED BY <1>a, <2>1, <3>1 DEF Processed
  <2>4. processed' \subseteq Processed
    BY <1>9, <2>3 DEF Commit
  <2>5. devices' \in [Devices -> Device]
    BY <1>9, <1>a, <2>1, DeviceTableType DEF Commit
  <2>6. TxTypeOK' /\ lock' \in Handlers \cup {NoHandler}
    BY <1>9, EndTxTypes DEF Commit
  <2>8. log' \subseteq Change /\ history' \subseteq Change /\ tracked' \subseteq Devices
    BY <1>9, <1>a DEF Commit, StillActive
  <2> HIDE DEF recorded
  <2> QED BY <1>9, <1>a, <2>2, <2>4, <2>5, <2>6, <2>8 DEF SyncNext, Commit, Goto
<1>10. ASSUME NEW m \in Mutations, ReplayMutation(h, m) PROVE TypeOK'
  <2>1. PICK p \in GetProcessedMutation(req[h].device, m) :
            tx' = [tx EXCEPT ![h].outcome[m] = p.outcome]
    BY <1>10 DEF ReplayMutation
  <2>2. p.outcome \in Outcome
    BY DEF GetProcessedMutation, Processed
  <2>3. [tx[h] EXCEPT !.outcome[m] = p.outcome] \in Tx
    BY <1>a, <2>2 DEF Tx
  <2>4. TxTypeOK'
    BY <1>a, <2>1, <2>2, <2>3, OutcomeTypes DEF Tx
  <2> QED BY <1>10, <1>a, <2>4 DEF SyncNext, ReplayMutation
<1>11. ASSUME NEW m \in Mutations, RefuseMutation(h, m) PROVE TypeOK'
  <2>1. mutation[m] \in Mutation /\ mutation[m].entity \in Entities
    BY DEF Mutation
  <2>2. Verdict(mutation[m], RowInTx(h, mutation[m].entity)) \in Outcome
    BY <2>1, RowInTxType, VerdictType
  <2> DEFINE o == Verdict(mutation[m], RowInTx(h, mutation[m].entity))
             t == [tx[h] EXCEPT !.outcome[m] = o, !.recorded = @ \cup {m}]
  <2>3. tx' = [tx EXCEPT ![h] = t]
    BY <1>11, <1>a DEF RefuseMutation
  <2> HIDE DEF o
  <2>4. t \in Tx /\ t.outcome = [tx[h].outcome EXCEPT ![m] = o]
          /\ t.recorded = tx[h].recorded \cup {m}
    BY <1>a, <2>2 DEF Tx, o
  <2> HIDE DEF t
  <2>5. TxTypeOK'
    BY <2>2, <2>3, <2>4, OutcomeTypes DEF o
  <2> QED BY <1>11, <1>a, <2>5 DEF SyncNext, RefuseMutation
<1>12. ASSUME NEW m \in Mutations, ApplyMutation(h, m) PROVE TypeOK'
  <2> DEFINE e == mutation[m].entity
             new == Written(m, RowInTx(h, e))
             c == [id |-> seq + 1, entity |-> e, op |-> mutation[m].op, version |-> new.version,
                   data |-> new.data, by |-> m, at |-> tx[h].began]
  <2>1. mutation[m] \in Mutation /\ e \in Entities /\ mutation[m].op \in {"upsert", "delete"}
    BY DEF Mutation
  <2>2. new \in Row
    BY <2>1, RowInTxType, WrittenType
  <2>3. c \in Change
    BY <1>a, <2>1, <2>2 DEF Change, Row
  <2>4. Accepted(new.version) \in Outcome
  <3>1. NoRow \in Row
    BY DEF NoRow, Row, Data
  <3> QED BY <2>2, <3>1 DEF Accepted, Outcome, Row
  <2> DEFINE t == [tx[h] EXCEPT !.rows[e] = new, !.changes = @ \cup {c},
                                !.outcome[m] = Accepted(new.version), !.recorded = @ \cup {m}]
  <2>5. tx' = [tx EXCEPT ![h] = t]
    BY <1>12, Zenon DEF ApplyMutation
  <2> HIDE DEF e, new, c
  <2>6. t \in Tx /\ t.outcome = [tx[h].outcome EXCEPT ![m] = Accepted(new.version)]
          /\ t.recorded = tx[h].recorded \cup {m}
    BY <1>a, <2>1, <2>2, <2>3, <2>4 DEF Tx
  <2> HIDE DEF t
  <2>7. TxTypeOK'
    BY <2>4, <2>5, <2>6, OutcomeTypes
  <2> HIDE DEF TxTypeOK
  <2> QED BY <1>12, <1>a, <2>7 DEF SyncNext, ApplyMutation
<1>13. ASSUME NEW m \in Mutations, AbortOnForeignKey(h, m) PROVE TypeOK'
  <2>1. TxTypeOK' /\ lock' \in Handlers \cup {NoHandler}
    BY <1>13, EndTxTypes DEF AbortOnForeignKey
  <2> HIDE DEF TxTypeOK
  <2> QED BY <1>13, <1>a, <1>b, <2>1 DEF SyncNext, AbortOnForeignKey, Respond, Goto, Status
<1>14. CASE AckCursor(h)
    BY <1>14, <1>a, DeviceTableType DEF SyncNext, AckCursor, Goto
<1>15. CASE AckFails(h)
    BY <1>15, <1>a, ApiAssumption DEF SyncNext, AckFails, Fault, Goto
<1>16. CASE SyncFails(h)
  <2>1. TxTypeOK' /\ lock' \in Handlers \cup {NoHandler}
    BY <1>16, EndTxTypes DEF SyncFails
  <2> HIDE DEF TxTypeOK
  <2> QED BY <1>16, <1>a, <1>b, <2>1, ApiAssumption
          DEF SyncNext, SyncFails, Fault, Respond, Goto, Status
<1> QED BY <1>1, <1>2, <1>3, <1>4, <1>5, <1>6, <1>7, <1>8, <1>9, <1>10, <1>11, <1>12, <1>13,
           <1>14, <1>15, <1>16 DEF SyncNext, SyncStep, SyncWork

\* A step of a snapshot request keeps every type.
LEMMA SnapshotTypes ==
    ASSUME TypeOK, IdsFromSequence, NEW h \in Handlers, SnapshotNext(h)
    PROVE  TypeOK'
<1> USE DEF TypeOK, DatabaseTypeOK, ApiTypeOK, RetentionTypeOK, ClientTypeOK,
            dbVars, tableVars, apiVars, clientVars, SyncSteps, SnapshotSteps
<1>a. /\ req[h] \in Request
      /\ pc[h] # "idle" => req[h].device \in Devices
    BY DEF Request
<1>b. TxTypeOK'
    BY DEF SnapshotNext, TxTypeOK
<1>1. CASE SnapshotUpsert(h)
  <2>1. tracked' \subseteq Devices
    BY <1>1, <1>a DEF SnapshotNext, SnapshotUpsert, Tracks
  <2> QED BY <1>1, <1>a, <1>b, <2>1, DeviceTableType DEF SnapshotNext, SnapshotUpsert, Goto
<1>2. CASE SnapshotWatermark(h)
  <2>1. [req[h] EXCEPT !.cursor = LatestChangeCursor] \in Request
    BY <1>a, LatestChangeCursorType DEF Request
  <2>2. req' = [req EXCEPT ![h] = [req[h] EXCEPT !.cursor = LatestChangeCursor]]
    BY <1>2 DEF SnapshotWatermark
  <2>3. \A g \in Handlers : req'[g].device = req[g].device
    BY <1>a, <2>2 DEF Request
  <2> QED BY <1>2, <1>a, <1>b, <2>1, <2>2, <2>3 DEF SnapshotNext, SnapshotWatermark, Goto
<1>3. CASE SnapshotPage(h)
  <2>1. PICK r \in SnapshotPages(req[h]) : Respond(h, r)
    BY <1>3 DEF SnapshotPage
  <2>2. r \in Response
    BY <1>a, SnapshotPagesType
  <2> QED BY <1>3, <1>a, <1>b, <2>1, <2>2 DEF SnapshotNext, SnapshotPage, Respond, Goto
<1>4. CASE SnapshotFails(h)
    BY <1>4, <1>a, <1>b, EmptyResponseType, ApiAssumption
       DEF SnapshotNext, SnapshotFails, Fault, Respond, Goto, Status
<1> QED BY <1>1, <1>2, <1>3, <1>4 DEF SnapshotNext, SnapshotStep, SnapshotWork

\* A step of the retention job keeps every type.
LEMMA RetentionTypes ==
    ASSUME TypeOK, RetentionNext
    PROVE  TypeOK'
<1> DEFINE Ret == [step : RetentionSteps, cutoff : Int, min : Nat]
<1>a. ret \in Ret /\ RetWaiting \in Ret
    BY DEF TypeOK, RetentionTypeOK, RetWaiting, RetentionSteps
<1>b. ApiTypeOK' /\ TxTypeOK' /\ ClientTypeOK'
  <2>1. faults' \in 0..MaxFaults
    BY ApiAssumption DEF RetentionNext, Fault, TypeOK, ApiTypeOK
  <2> QED BY <2>1 DEF RetentionNext, TypeOK, ApiTypeOK, TxTypeOK, ClientTypeOK, clientVars
<1>c. UNCHANGED dbVars => DatabaseTypeOK'
    BY DEF TypeOK, DatabaseTypeOK, dbVars, tableVars
<1>1. CASE StartRun
  <2>1. now - Window \in Int
    BY BoundAssumption DEF TypeOK, DatabaseTypeOK
  <2>2. ret' \in Ret
    BY <1>1, <1>a, <2>1 DEF StartRun, RetentionSteps
  <2> QED BY <1>1, <1>b, <1>c, <2>2 DEF StartRun, TypeOK, RetentionTypeOK
<1>2. CASE ReadMinCursor
  <2>1. MinValidCursorForUser(ret.cutoff) \in Nat
    BY <1>a, MinValidCursorType DEF TypeOK
  <2>2. ret' \in Ret
    BY <1>2, <1>a, <2>1 DEF ReadMinCursor, RetentionSteps
  <2> QED BY <1>2, <1>b, <1>c, <2>2 DEF ReadMinCursor, TypeOK, RetentionTypeOK
<1>3. CASE PruneLog
  <2>1. ret' \in Ret
    BY <1>3, <1>a DEF PruneLog, RetentionSteps
  <2>2. DatabaseTypeOK'
    BY <1>3 DEF PruneLog, PruneChangeLog, TypeOK, DatabaseTypeOK
  <2> QED BY <1>b, <2>1, <2>2 DEF TypeOK, RetentionTypeOK
<1>4. CASE PruneMutations
  <2>1. DatabaseTypeOK'
    BY <1>4 DEF PruneMutations, PruneProcessedMutations, TypeOK, DatabaseTypeOK
  <2> QED BY <1>4, <1>a, <1>b, <2>1 DEF PruneMutations, TypeOK, RetentionTypeOK
<1>5. CASE RetentionStatementFails
  <2>1. ret' \in Ret
    BY <1>5, <1>a DEF RetentionStatementFails, RetentionSteps
  <2> QED BY <1>5, <1>b, <1>c, <2>1 DEF RetentionStatementFails, TypeOK, RetentionTypeOK
<1> QED BY <1>1, <1>2, <1>3, <1>4, <1>5 DEF RetentionNext, RetentionStep

\* A step of a device keeps every type.
LEMMA ClientTypes ==
    ASSUME TypeOK, NEW d \in Devices, ClientNext(d)
    PROVE  TypeOK'
<1> USE DEF TypeOK, ApiTypeOK, ClientTypeOK, apiVars, clientVars, SyncSteps, SnapshotSteps
<1>a. DatabaseTypeOK' /\ TxTypeOK' /\ RetentionTypeOK'
    BY DEF ClientNext, dbVars, tableVars, DatabaseTypeOK, TxTypeOK, RetentionTypeOK
<1>b. NoRequest \in Request /\ Bare("ok") \in Response
    BY EmptyResponseType DEF NoRequest, Request, Status
<1>c. NoItems \in [Entities -> Row]
    BY DEF NoItems, NoRow, Row, Data
<1>d. ASSUME NEW h \in Handlers, NEW r \in Request, r.device = d,
             NEW step \in {"received", "snapUpsert"}, Send(d, h, r, step)
      PROVE  ApiTypeOK' /\ ClientTypeOK'
    BY <1>d DEF Send, Goto
<1>e. ASSUME NEW h \in Handlers, Answered(d, h)
      PROVE  /\ pc' = [pc EXCEPT ![h] = "idle"]
             /\ req' \in [Handlers -> Request]
             /\ resp' \in [Handlers -> Response]
             /\ waiting' \in [Devices -> Handlers \cup {NoHandler}]
             /\ \A g \in Handlers : pc'[g] # "idle" => req'[g].device \in Devices
    BY <1>b, <1>e DEF Answered, Finish, Goto
<1>1. ASSUME NEW m \in Mutations, Edit(d, m) PROVE TypeOK'
  <2>1. PICK x \in Edits :
          mutation' = [mutation EXCEPT ![m] =
             [made |-> TRUE, entity |-> x.entity, op |-> x.op, was |-> replica[d][x.entity],
              session |-> x.session, valid |-> x.valid]]
    BY <1>1 DEF Edit
  <2>2. mutation' \in [Mutations -> Mutation]
    BY <2>1, ClientAssumption DEF Mutation
  <2>3. outbox' \in [Devices -> Seq(Mutations)]
    BY <1>1 DEF Edit
  <2> QED BY <1>1, <1>a, <2>2, <2>3 DEF Edit
<1>2. ASSUME NEW h \in Handlers, NEW n \in 0..Len(outbox[d]), SendSync(d, h, n) PROVE TypeOK'
  <2> DEFINE r == [NoRequest EXCEPT !.device = d, !.cursor = cursor[d],
                                    !.batch = SubSeq(outbox[d], 1, n)]
  <2>1. SubSeq(outbox[d], 1, n) \in Seq(Mutations)
    BY SubSeqProperties
  <2>2. r \in Request /\ r.device = d
    BY <1>b, <2>1 DEF Request
  <2>3. Send(d, h, r, "received")
    BY <1>2, Zenon DEF SendSync
  <2> HIDE DEF r
  <2> QED BY <1>a, <1>d, <2>2, <2>3
<1>3. ASSUME NEW h \in Handlers, SendSnapshot(d, h) PROVE TypeOK'
  <2> DEFINE r == [NoRequest EXCEPT !.device = d, !.cursor = cursor[d],
                                    !.entity = phase[d], !.after = after[d]]
  <2>1. phase[d] \in {"session", "solve"}
    BY <1>3 DEF SendSnapshot
  <2>2. r \in Request /\ r.device = d
    BY <1>b, <2>1 DEF Request
  <2>3. Send(d, h, r, "snapUpsert")
    BY <1>3, Zenon DEF SendSnapshot
  <2> HIDE DEF r
  <2> QED BY <1>a, <1>d, <2>2, <2>3
<1>4. ASSUME NEW h \in Handlers, ReceiveSync(d, h) PROVE TypeOK'
  <2>1. resp[h] \in Response /\ resp[h].next \in Nat /\ resp[h].changes \in SUBSET Change
          /\ resp[h].outcome \in [Mutations -> Outcome \cup {NoOutcome}]
    BY DEF Response
  <2>2. req[h].batch \in Seq(Mutations)
    BY DEF Request
  <2>3. RowsByChanges(resp[h].changes, RowsByOutcomes(req[h].batch, resp[h].outcome, replica[d]))
          \in [Entities -> Row]
    BY <2>1, <2>2, RowsByOutcomesType, RowsByChangesType
  <2>4. SubSeq(outbox[d], Len(req[h].batch) + 1, Len(outbox[d])) \in Seq(Mutations)
    BY <2>2, SubSeqProperties
  <2>5. Answered(d, h)
    BY <1>4 DEF ReceiveSync
  <2> QED BY <1>4, <1>a, <1>e, <2>1, <2>3, <2>4, <2>5 DEF ReceiveSync
<1>5. ASSUME NEW h \in Handlers, ReceiveExpired(d, h) PROVE TypeOK'
  <2>1. Answered(d, h)
    BY <1>5 DEF ReceiveExpired
  <2> QED BY <1>5, <1>a, <1>c, <1>e, <2>1 DEF ReceiveExpired
<1>6. ASSUME NEW h \in Handlers, ReceivePage(d, h) PROVE TypeOK'
  <2>1. /\ resp[h].items \in [Entities -> Row] /\ resp[h].next \in Nat /\ resp[h].after \in Nat
        /\ resp[h].entity \in {"none", "session", "solve"}
    BY DEF Response
  <2>2. [e \in Entities |-> Newer(resp[h].items[e], replica[d][e])] \in [Entities -> Row]
    BY <2>1 DEF Newer
  <2>3. Answered(d, h)
    BY <1>6 DEF ReceivePage
  <2> QED BY <1>6, <1>a, <1>e, <2>1, <2>2, <2>3 DEF ReceivePage
<1>7. ASSUME NEW h \in Handlers, ReceiveError(d, h) PROVE TypeOK'
  <2>1. Answered(d, h)
    BY <1>7 DEF ReceiveError
  <2> QED BY <1>7, <1>a, <1>e, <2>1 DEF ReceiveError
<1>8. CASE GiveUp(d)
    BY <1>8, <1>a, ApiAssumption DEF GiveUp, Fault
<1> QED BY <1>1, <1>2, <1>3, <1>4, <1>5, <1>6, <1>7, <1>8 DEF ClientNext, ClientStep, Receive

\* Time, other users, lost answers and stuttering keep every type.
LEMMA OtherTypes ==
    ASSUME TypeOK, Environment \/ (\E h \in Handlers : DropNext(h)) \/ UNCHANGED vars
    PROVE  TypeOK'
<1> USE DEF TypeOK, DatabaseTypeOK, ApiTypeOK, TxTypeOK, RetentionTypeOK, ClientTypeOK,
            vars, dbVars, tableVars, apiVars, clientVars
<1>1. CASE Environment
    BY <1>1 DEF Environment, Tick, OtherUserAppends, StillActive
<1>2. ASSUME NEW h \in Handlers, DropNext(h) PROVE TypeOK'
  <2>1. NoRequest \in Request /\ Bare("ok") \in Response
    BY EmptyResponseType DEF NoRequest, Request, Status
  <2> QED BY <1>2, <2>1 DEF DropNext, DropAnswer, Finish, Goto
<1>3. CASE UNCHANGED vars
    BY <1>3
<1> QED BY <1>1, <1>2, <1>3

\* The empty database with idle handlers and new devices has every type.
LEMMA InitTypes == Init => TypeOK
<1> SUFFICES ASSUME Init PROVE TypeOK
    OBVIOUS
<1> USE DEF Init
<1>1. NoRow \in Row
    BY DEF NoRow, Row, Data
<1>2. NoItems \in [Entities -> Row] /\ NoOutcomes \in [Mutations -> Outcome \cup {NoOutcome}]
    BY <1>1 DEF NoItems, NoOutcomes
<1>3. DatabaseTypeOK
    BY <1>1 DEF DatabaseInit, DatabaseTypeOK, Device
<1>4. ApiTypeOK
  <2>1. Unmade \in Mutation
    BY <1>1, ApiAssumption DEF Unmade, Mutation
  <2>2. NoRequest \in Request /\ Bare("ok") \in Response
    BY EmptyResponseType DEF NoRequest, Request, Status
  <2> QED BY <2>1, <2>2, ApiAssumption DEF ApiInit, ApiTypeOK
<1>5. TxTypeOK
  <2>1. NoTx \in Tx /\ NoTx.recorded = {}
    BY <1>2 DEF NoTx, Tx
  <2> QED BY <2>1 DEF TxInit, TxTypeOK
<1>6. RetentionTypeOK
    BY DEF RetentionInit, RetWaiting, RetentionTypeOK, RetentionSteps
<1>7. ClientTypeOK
    BY <1>2 DEF ClientInit, ClientTypeOK
<1> QED BY <1>3, <1>4, <1>5, <1>6, <1>7 DEF TypeOK

\* Every step keeps every type.
LEMMA NextTypes ==
    ASSUME TypeOK, IdsFromSequence, [Next]_vars
    PROVE  TypeOK'
  BY SyncTypes, SnapshotTypes, RetentionTypes, ClientTypes, OtherTypes DEF Next

-----------------------------------------------------------------------------
(* The order of the log *)

\* A cursor that may be in the hands of handler g: it comes from the sequence
\* and is below every change that somebody else has not committed yet.
ShownTo(g, k) ==
    /\ k <= seq
    /\ \A h \in Handlers \ {g} : \A c \in tx[h].changes : k < c.id

\* A cursor that may be in anyone's hands.
Shown(k) ==
    /\ k <= seq
    /\ \A h \in Handlers : \A c \in tx[h].changes : k < c.id

\* Only the holder of the advisory lock has uncommitted changes.
LEMMA OnePending ==
    ASSUME LockHeld, NEW h \in Handlers, pc[h] \in {"apply", "commit"}
    PROVE  \A g \in Handlers \ {h} : pc[g] \notin {"apply", "commit"} /\ tx[g].changes = {}
  BY DEF LockHeld

\* What the system holds as cursors is safe to hand on: the cursors of requests
\* and devices, the ids of committed changes, the watermark, and a finished
\* handler's next cursor.
LEMMA KnownCursors ==
    ASSUME TypeOK, OrderInv
    PROVE  /\ Shown(0) /\ Shown(LatestChangeCursor)
           /\ \A c \in log : Shown(c.id)
           /\ \A d \in Devices : Shown(cursor[d])
           /\ \A g \in Handlers :
                 /\ Shown(req[g].cursor)
                 /\ ShownTo(g, resp[g].next)
                 /\ pc[g] \notin {"apply", "commit"} => Shown(resp[g].next)
<1>1. \A d \in Devices : Shown(cursor[d])
    BY DEF Shown, OrderInv, IdsFromSequence, PendingAbove
<1>2. \A c \in log : Shown(c.id)
    BY DEF Shown, OrderInv, IdsFromSequence, PendingAbove
<1>3. Shown(0)
  <2>1. seq \in Nat /\ 0 <= seq
    BY DEF TypeOK, DatabaseTypeOK
  <2>2. ASSUME NEW h \in Handlers, NEW c \in tx[h].changes PROVE 0 < c.id
    <3>1. req[h].cursor \in Nat /\ c.id \in Nat
      BY DEF TypeOK, ApiTypeOK, TxTypeOK, Tx, Request, Change
    <3>2. req[h].cursor < c.id
      BY DEF OrderInv, PendingAbove
    <3> QED BY <3>1, <3>2
  <2> QED BY <2>1, <2>2 DEF Shown
<1>4. Shown(LatestChangeCursor)
  <2>1. CASE log = {}
    BY <1>3, <2>1 DEF LatestChangeCursor
  <2>2. CASE log # {}
    BY <1>2, <2>2, LatestChangeCursorType DEF TypeOK, OrderInv
  <2> QED BY <2>1, <2>2
<1>5. ASSUME NEW g \in Handlers
      PROVE  Shown(req[g].cursor) /\ ShownTo(g, resp[g].next)
    BY DEF Shown, ShownTo, OrderInv, IdsFromSequence, PendingAbove
<1>6. ASSUME NEW g \in Handlers, pc[g] \notin {"apply", "commit"}
      PROVE  Shown(resp[g].next)
    BY <1>5, <1>6 DEF Shown, ShownTo, OrderInv, LockHeld
<1> QED BY <1>1, <1>2, <1>3, <1>4, <1>5, <1>6

\* A step that commits nothing and takes no change id for this user keeps the
\* order, if it only hands on cursors that are safe.
LEMMA QuietStep ==
    ASSUME TypeOK, TypeOK', OrderInv, LockHeld',
           seq' >= seq, log' \subseteq log, history' = history,
           \A g \in Handlers : tx'[g].changes \subseteq tx[g].changes,
           \A g \in Handlers : Shown(req'[g].cursor) /\ ShownTo(g, resp'[g].next),
           \A d \in Devices : Shown(cursor'[d])
    PROVE  OrderInv'
<1>1. seq \in Nat /\ seq' \in Nat
    BY DEF TypeOK, DatabaseTypeOK
<1>2. \A c \in log \cup history : c.id \in Nat
    BY DEF TypeOK, DatabaseTypeOK, Change
<1>3. \A g \in Handlers : \A c \in tx[g].changes : c.id \in Nat
    BY DEF TypeOK, TxTypeOK, Tx, Change
<1>4. /\ \A g \in Handlers : req'[g].cursor \in Nat /\ resp'[g].next \in Nat
      /\ \A d \in Devices : cursor'[d] \in Nat
    BY DEF TypeOK, ApiTypeOK, ClientTypeOK, Request, Response
<1>5. IdsFromSequence'
    BY <1>1, <1>2, <1>3, <1>4 DEF OrderInv, IdsFromSequence, Shown, ShownTo
<1>6. PendingAbove'
    BY DEF OrderInv, PendingAbove, Shown, ShownTo
<1> QED BY <1>5, <1>6 DEF OrderInv

\* A transaction that ends without a commit, an abort or a failure, gives the
\* lock back and leaves nothing pending.
LEMMA EndedTx ==
    ASSUME TypeOK, LockHeld, NEW h \in Handlers, EndTx(h),
           NEW s, s \notin {"apply", "commit"}, pc' = [pc EXCEPT ![h] = s]
    PROVE  LockHeld' /\ \A g \in Handlers : tx'[g].changes \subseteq tx[g].changes
<1>1. tx' = [tx EXCEPT ![h] = NoTx] /\ NoTx.changes = {}
    BY DEF EndTx, NoTx
<1>2. \A g \in Handlers : tx'[g].changes = IF g = h THEN {} ELSE tx[g].changes
    BY <1>1 DEF TypeOK, TxTypeOK
<1>3. \A g \in Handlers : pc'[g] = IF g = h THEN s ELSE pc[g]
    BY DEF TypeOK, ApiTypeOK
<1>4. lock' = IF lock = h THEN NoHandler ELSE lock
    BY DEF EndTx, ReleaseLock
<1> QED BY <1>2, <1>3, <1>4 DEF LockHeld

\* A response that carries only a status returns no cursor.
LEMMA EmptyResponseNext == \A s \in Status : Bare(s).next = 0
  BY DEF Bare

\* The steps of a sync request.  Two of them matter: ApplyMutation takes an id
\* above every other, and Commit makes pending changes visible while their ids
\* are still above every cursor.
LEMMA SyncOrder ==
    ASSUME TypeOK, TypeOK', OrderInv, NEW h \in Handlers, SyncNext(h)
    PROVE  OrderInv'
<1>a. /\ req \in [Handlers -> Request] /\ resp \in [Handlers -> Response]
      /\ tx \in [Handlers -> Tx] /\ pc \in [Handlers -> {"idle", "reply"} \cup SyncSteps \cup SnapshotSteps]
      /\ seq \in Nat /\ seq >= seq
    BY DEF TypeOK, DatabaseTypeOK, ApiTypeOK, TxTypeOK
<1>b. UNCHANGED <<ret, phase, cursor, after, replica, outbox, waiting>>
    BY DEF SyncNext, clientVars
<1>c. /\ \A c \in log : Shown(c.id)
      /\ \A d \in Devices : Shown(cursor'[d])
      /\ \A g \in Handlers : Shown(req[g].cursor) /\ ShownTo(g, resp[g].next)
      /\ Shown(0)
    BY <1>b, KnownCursors
<1>d. \A k : Shown(k) => \A g \in Handlers : ShownTo(g, k)
    BY DEF Shown, ShownTo
<1>e. LockHeld
    BY DEF OrderInv
\* Steps that change neither the tables, the sequence nor a transaction.
<1>f. ASSUME UNCHANGED <<log, history, seq, tx, req>>, LockHeld',
             \A g \in Handlers : ShownTo(g, resp'[g].next)
      PROVE  OrderInv'
    BY <1>a, <1>c, <1>f, QuietStep
\* Steps that end the transaction without a commit.
<1>g. ASSUME UNCHANGED <<log, history, seq, req>>, EndTx(h), Respond(h, Bare("error"))
      PROVE  OrderInv'
  <2>1. LockHeld' /\ \A g \in Handlers : tx'[g].changes \subseteq tx[g].changes
    BY <1>e, <1>g, EndedTx DEF Respond, Goto
  <2>2. \A g \in Handlers : ShownTo(g, resp'[g].next)
    BY <1>a, <1>c, <1>d, <1>g, EmptyResponseNext DEF Respond, Status
  <2> QED BY <1>a, <1>c, <1>g, <2>1, <2>2, QuietStep
<1>1. CASE RejectRequest(h)
  <2>1. \A g \in Handlers : ShownTo(g, resp'[g].next)
    BY <1>1, <1>a, <1>c, <1>d, EmptyResponseNext DEF RejectRequest, Respond, Status
  <2>2. LockHeld'
    BY <1>1, <1>a, <1>e DEF LockHeld, RejectRequest, Respond, Goto, dbVars
  <2> QED BY <1>1, <1>f, <2>1, <2>2 DEF RejectRequest, dbVars, tableVars
<1>2. CASE RejectExpired(h)
  <2>1. \A g \in Handlers : ShownTo(g, resp'[g].next)
    BY <1>2, <1>a, <1>c, <1>d, EmptyResponseNext DEF RejectExpired, Respond, Status
  <2>2. LockHeld'
    BY <1>2, <1>a, <1>e DEF LockHeld, RejectExpired, Respond, Goto, dbVars
  <2> QED BY <1>2, <1>f, <2>1, <2>2 DEF RejectExpired, dbVars, tableVars
<1>3. CASE PassCursorCheck(h)
  <2>1. LockHeld'
    BY <1>3, <1>a, <1>e DEF LockHeld, PassCursorCheck, Goto, dbVars
  <2> QED BY <1>3, <1>c, <1>f, <2>1 DEF PassCursorCheck, dbVars, tableVars
<1>4. CASE PullUpsert(h)
  <2>1. LockHeld'
    BY <1>4, <1>a, <1>e DEF LockHeld, PullUpsert, Goto
  <2> QED BY <1>4, <1>c, <1>f, <2>1 DEF PullUpsert, tableVars
<1>5. CASE PullList(h)
  <2>1. PICK r \in SyncResponses(log, req[h].cursor, NoOutcomes) : resp' = [resp EXCEPT ![h] = r]
    BY <1>5 DEF PullList
  <2>2. r.next = req[h].cursor \/ \E c \in log : r.next = c.id
    <3>1. NoOutcomes \in [Mutations -> Outcome \cup {NoOutcome}]
      BY DEF NoOutcomes
    <3>2. log \in SUBSET Change /\ req[h].cursor \in Nat
      BY <1>a DEF TypeOK, DatabaseTypeOK, Request
    <3> QED BY <2>1, <3>1, <3>2, SyncResponsesType
  <2>3. \A g \in Handlers : ShownTo(g, resp'[g].next)
    BY <1>a, <1>c, <1>d, <2>1, <2>2
  <2>4. LockHeld'
    BY <1>5, <1>a, <1>e DEF LockHeld, PullList, Goto, dbVars
  <2> QED BY <1>5, <1>f, <2>3, <2>4 DEF PullList, dbVars, tableVars
<1>6. CASE BeginTx(h)
  <2>1. \A g \in Handlers : tx'[g].changes = tx[g].changes
    BY <1>6, <1>a DEF BeginTx, Tx
  <2>2. LockHeld'
    BY <1>6, <1>a, <1>e, <2>1 DEF LockHeld, BeginTx, Goto, dbVars
  <2> QED BY <1>6, <1>a, <1>c, <2>1, <2>2, QuietStep DEF BeginTx, dbVars, tableVars
<1>7. CASE AcquireLock(h)
  <2>1. LockHeld'
    BY <1>7, <1>a, <1>e, NullAssumption DEF LockHeld, AcquireLock, Goto
  <2> QED BY <1>7, <1>c, <1>f, <2>1 DEF AcquireLock, tableVars
<1>8. CASE ListInTx(h)
  <2>1. PICK r \in SyncResponses(log \cup tx[h].changes, req[h].cursor, tx[h].outcome) :
            resp' = [resp EXCEPT ![h] = r]
    BY <1>8 DEF ListInTx
  <2>2. r.next = req[h].cursor \/ \E c \in log \cup tx[h].changes : r.next = c.id
    <3>1. /\ log \cup tx[h].changes \in SUBSET Change
          /\ req[h].cursor \in Nat
          /\ tx[h].outcome \in [Mutations -> Outcome \cup {NoOutcome}]
      BY <1>a DEF TypeOK, DatabaseTypeOK, Request, Tx
    <3> QED BY <2>1, <3>1, SyncResponsesType
  <2>3. \A c \in tx[h].changes : ShownTo(h, c.id)
    <3>1. \A g \in Handlers \ {h} : tx[g].changes = {}
      BY <1>8, <1>e, OnePending DEF ListInTx
    <3> QED BY <3>1 DEF ShownTo, OrderInv, IdsFromSequence
  <2>4. \A g \in Handlers : ShownTo(g, resp'[g].next)
    BY <1>a, <1>c, <1>d, <2>1, <2>2, <2>3
  <2>5. LockHeld'
    BY <1>8, <1>a, <1>e DEF LockHeld, ListInTx, Goto, dbVars
  <2> QED BY <1>8, <1>f, <2>4, <2>5 DEF ListInTx, dbVars, tableVars
<1>9. CASE Commit(h)
  <2>1. /\ log' = log \cup tx[h].changes /\ history' = history \cup tx[h].changes
        /\ EndTx(h) /\ pc' = [pc EXCEPT ![h] = "ack"]
        /\ UNCHANGED <<seq, req, resp, cursor>>
    BY <1>9, <1>b DEF Commit, Goto
  <2>2. \A g \in Handlers : tx'[g].changes = {}
    <3>1. tx' = [tx EXCEPT ![h] = NoTx] /\ NoTx.changes = {}
      BY <2>1 DEF EndTx, NoTx
    <3>2. \A g \in Handlers \ {h} : tx[g].changes = {}
      BY <1>9, <1>e, OnePending DEF Commit
    <3> QED BY <1>a, <3>1, <3>2
  <2>3. LockHeld'
    BY <1>e, <2>1, EndedTx
  <2>4. IdsFromSequence'
    BY <2>1, <2>2 DEF OrderInv, IdsFromSequence
  <2>5. PendingAbove'
    BY <2>2 DEF PendingAbove
  <2> QED BY <2>3, <2>4, <2>5 DEF OrderInv
<1>10. ASSUME NEW m \in Mutations, ReplayMutation(h, m) PROVE OrderInv'
  <2>1. \A g \in Handlers : tx'[g].changes = tx[g].changes
    BY <1>10, <1>a DEF ReplayMutation, Tx
  <2>2. LockHeld'
    BY <1>10, <1>e, <2>1 DEF LockHeld, ReplayMutation, dbVars, apiVars
  <2> QED BY <1>10, <1>a, <1>c, <2>1, <2>2, QuietStep
          DEF ReplayMutation, dbVars, tableVars, apiVars
<1>11. ASSUME NEW m \in Mutations, RefuseMutation(h, m) PROVE OrderInv'
  <2>1. \A g \in Handlers : tx'[g].changes = tx[g].changes
    BY <1>11, <1>a DEF RefuseMutation, Tx
  <2>2. LockHeld'
    BY <1>11, <1>e, <2>1 DEF LockHeld, RefuseMutation, dbVars, apiVars
  <2> QED BY <1>11, <1>a, <1>c, <2>1, <2>2, QuietStep
          DEF RefuseMutation, dbVars, tableVars, apiVars
<1>12. ASSUME NEW m \in Mutations, ApplyMutation(h, m) PROVE OrderInv'
  <2>1. PICK c : c.id = seq + 1 /\ tx'[h].changes = tx[h].changes \cup {c}
    <3> DEFINE e == mutation[m].entity
               new == Written(m, RowInTx(h, e))
               x == [id |-> seq + 1, entity |-> e, op |-> mutation[m].op, version |-> new.version,
                     data |-> new.data, by |-> m, at |-> tx[h].began]
               t == [tx[h] EXCEPT !.rows[e] = new, !.changes = @ \cup {x},
                                  !.outcome[m] = Accepted(new.version), !.recorded = @ \cup {m}]
    <3>1. tx' = [tx EXCEPT ![h] = t]
      BY <1>12, Zenon DEF ApplyMutation
    <3>2. x.id = seq + 1
      OBVIOUS
    <3> HIDE DEF e, new, x
    <3>3. t.changes = tx[h].changes \cup {x}
      BY <1>a DEF Tx
    <3> HIDE DEF t
    <3> QED BY <1>a, <3>1, <3>2, <3>3
  <2>2. /\ pc[h] = "apply" /\ seq' = seq + 1
        /\ UNCHANGED <<log, history, lock, pc, req, resp, cursor>>
    BY <1>12, <1>b DEF ApplyMutation, tableVars, apiVars
  <2>3. \A g \in Handlers \ {h} : tx'[g].changes = {}
    <3>1. \A g \in Handlers \ {h} : tx[g].changes = {}
      BY <1>e, <2>2, OnePending
    <3>2. \A g \in Handlers \ {h} : tx'[g] = tx[g]
      BY <1>12, <1>a DEF ApplyMutation
    <3> QED BY <3>1, <3>2
  <2>4. /\ \A g \in Handlers : req[g].cursor \in Nat /\ resp[g].next \in Nat
        /\ \A d \in Devices : cursor[d] \in Nat
        /\ \A x \in log \cup history \cup tx[h].changes : x.id \in Nat
    <3>1. \A g \in Handlers : req[g].cursor \in Nat
      BY <1>a DEF Request
    <3>2. \A g \in Handlers : resp[g].next \in Nat
      BY <1>a DEF Response
    <3>3. \A d \in Devices : cursor[d] \in Nat
      BY <1>a DEF TypeOK, ClientTypeOK
    <3>4. log \subseteq Change /\ history \subseteq Change /\ tx[h].changes \subseteq Change
      BY <1>a DEF TypeOK, DatabaseTypeOK, Tx
    <3>5. \A x \in Change : x.id \in Nat
      BY DEF Change
    <3> QED BY <3>1, <3>2, <3>3, <3>4, <3>5
  <2>5. LockHeld'
    BY <1>e, <2>2, <2>3 DEF LockHeld
  <2>6. IdsFromSequence'
    <3>1. \A x \in log' \cup history' : x.id <= seq'
      BY <1>a, <2>2, <2>4 DEF OrderInv, IdsFromSequence
    <3>2. \A g \in Handlers : \A x \in tx'[g].changes : x.id <= seq'
      BY <1>a, <2>1, <2>2, <2>3, <2>4 DEF OrderInv, IdsFromSequence
    <3>3. \A g \in Handlers : req'[g].cursor <= seq' /\ resp'[g].next <= seq'
      BY <1>a, <2>2, <2>4 DEF OrderInv, IdsFromSequence
    <3>4. \A d \in Devices : cursor'[d] <= seq'
      BY <1>a, <2>2, <2>4 DEF OrderInv, IdsFromSequence
    <3> QED BY <3>1, <3>2, <3>3, <3>4 DEF IdsFromSequence
  <2>7. PendingAbove'
    <3>1. ASSUME NEW g \in Handlers, NEW x \in tx'[g].changes
          PROVE  g = h /\ (x \in tx[h].changes \/ x = c)
      BY <2>1, <2>3
    <3>2. /\ \A y \in log : y.id < c.id
          /\ \A d \in Devices : cursor[d] < c.id
          /\ \A g \in Handlers : req[g].cursor < c.id /\ resp[g].next < c.id
      BY <1>a, <2>1, <2>4 DEF OrderInv, IdsFromSequence
    <3> QED BY <2>2, <3>1, <3>2 DEF OrderInv, PendingAbove
  <2> QED BY <2>5, <2>6, <2>7 DEF OrderInv
<1>13. ASSUME NEW m \in Mutations, AbortOnForeignKey(h, m) PROVE OrderInv'
    BY <1>13, <1>g DEF AbortOnForeignKey, tableVars
<1>14. CASE AckCursor(h)
  <2>1. LockHeld'
    BY <1>14, <1>a, <1>e DEF LockHeld, AckCursor, Goto
  <2> QED BY <1>14, <1>c, <1>f, <2>1 DEF AckCursor, tableVars
<1>15. CASE AckFails(h)
  <2>1. LockHeld'
    BY <1>15, <1>a, <1>e DEF LockHeld, AckFails, Goto, dbVars
  <2> QED BY <1>15, <1>c, <1>f, <2>1 DEF AckFails, dbVars, tableVars
<1>16. CASE SyncFails(h)
    BY <1>16, <1>g DEF SyncFails, tableVars
<1> QED BY <1>1, <1>2, <1>3, <1>4, <1>5, <1>6, <1>7, <1>8, <1>9, <1>10, <1>11, <1>12, <1>13,
           <1>14, <1>15, <1>16 DEF SyncNext, SyncStep, SyncWork

\* The steps of a snapshot request: the watermark is the id of a committed
\* change, and the pages hand the request's cursor on.
LEMMA SnapshotOrder ==
    ASSUME TypeOK, TypeOK', OrderInv, NEW h \in Handlers, SnapshotNext(h)
    PROVE  OrderInv'
<1>a. /\ req \in [Handlers -> Request] /\ resp \in [Handlers -> Response]
      /\ pc \in [Handlers -> {"idle", "reply"} \cup SyncSteps \cup SnapshotSteps]
      /\ seq \in Nat /\ seq >= seq
    BY DEF TypeOK, DatabaseTypeOK, ApiTypeOK
<1>b. UNCHANGED <<tx, cursor>>
    BY DEF SnapshotNext, clientVars
<1>c. /\ \A d \in Devices : Shown(cursor'[d])
      /\ \A g \in Handlers : Shown(req[g].cursor) /\ ShownTo(g, resp[g].next)
      /\ Shown(0) /\ Shown(LatestChangeCursor)
    BY <1>b, KnownCursors
<1>d. \A k : Shown(k) => \A g \in Handlers : ShownTo(g, k)
    BY DEF Shown, ShownTo
<1>e. ASSUME UNCHANGED <<log, history, seq, lock>>,
             NEW s, s \notin {"apply", "commit"}, pc' = [pc EXCEPT ![h] = s],
             pc[h] \in SnapshotSteps,
             \A g \in Handlers : Shown(req'[g].cursor) /\ ShownTo(g, resp'[g].next)
      PROVE  OrderInv'
  <2>1. LockHeld'
    BY <1>a, <1>b, <1>e DEF OrderInv, LockHeld, SnapshotSteps
  <2> QED BY <1>a, <1>b, <1>c, <1>e, <2>1, QuietStep
<1>1. CASE SnapshotUpsert(h)
  <2>1. \E s : s \notin {"apply", "commit"} /\ pc' = [pc EXCEPT ![h] = s]
    BY <1>1 DEF SnapshotUpsert, Goto
  <2> QED BY <1>1, <1>c, <1>e, <2>1 DEF SnapshotUpsert, tableVars, SnapshotSteps
<1>2. CASE SnapshotWatermark(h)
  <2>1. \A g \in Handlers : req'[g].cursor = IF g = h THEN LatestChangeCursor ELSE req[g].cursor
    BY <1>2, <1>a DEF SnapshotWatermark, Request
  <2> QED BY <1>2, <1>c, <1>e, <2>1
          DEF SnapshotWatermark, Goto, dbVars, tableVars, SnapshotSteps
<1>3. CASE SnapshotPage(h)
  <2>1. PICK r \in SnapshotPages(req[h]) : Respond(h, r)
    BY <1>3 DEF SnapshotPage
  <2>2. r.next = req[h].cursor
    BY <1>a, SnapshotPagesType
  <2>3. \A g \in Handlers : ShownTo(g, resp'[g].next)
    BY <1>a, <1>c, <1>d, <2>1, <2>2 DEF Respond
  <2> QED BY <1>3, <1>c, <1>e, <2>1, <2>3
          DEF SnapshotPage, Respond, Goto, dbVars, tableVars, SnapshotSteps
<1>4. CASE SnapshotFails(h)
  <2>1. \A g \in Handlers : ShownTo(g, resp'[g].next)
    BY <1>4, <1>a, <1>c, <1>d, EmptyResponseNext DEF SnapshotFails, Respond, Status
  <2> QED BY <1>4, <1>c, <1>e, <2>1
          DEF SnapshotFails, Respond, Goto, dbVars, tableVars
<1> QED BY <1>1, <1>2, <1>3, <1>4 DEF SnapshotNext, SnapshotStep, SnapshotWork

\* Retention only takes changes out of the log.
LEMMA RetentionOrder ==
    ASSUME TypeOK, TypeOK', OrderInv, RetentionNext
    PROVE  OrderInv'
<1>1. /\ UNCHANGED <<history, seq, lock, pc, req, resp, tx, cursor>>
      /\ log' \subseteq log
    BY DEF RetentionNext, RetentionStep, StartRun, ReadMinCursor, PruneLog, PruneChangeLog,
           PruneMutations, RetentionStatementFails, dbVars, tableVars, clientVars
<1>2. LockHeld'
    BY <1>1 DEF OrderInv, LockHeld
<1>3. seq' >= seq
    BY <1>1 DEF TypeOK, DatabaseTypeOK
<1> QED BY <1>1, <1>2, <1>3, KnownCursors, QuietStep

\* A device passes on its own cursor, and takes over the next cursor of a handler
\* that has finished.
LEMMA ClientOrder ==
    ASSUME TypeOK, TypeOK', OrderInv, NEW d \in Devices, ClientNext(d)
    PROVE  OrderInv'
<1>a. /\ req \in [Handlers -> Request] /\ resp \in [Handlers -> Response]
      /\ pc \in [Handlers -> {"idle", "reply"} \cup SyncSteps \cup SnapshotSteps]
      /\ cursor \in [Devices -> Nat]
    BY DEF TypeOK, ApiTypeOK, ClientTypeOK
<1>b. UNCHANGED <<log, history, seq, lock, tx>> /\ seq' >= seq
    BY DEF ClientNext, dbVars, tableVars, TypeOK, DatabaseTypeOK
<1>c. /\ Shown(0)
      /\ \A g \in Devices : Shown(cursor[g])
      /\ \A g \in Handlers :
            /\ Shown(req[g].cursor)
            /\ ShownTo(g, resp[g].next)
            /\ pc[g] \notin {"apply", "commit"} => Shown(resp[g].next)
    BY KnownCursors
<1>d. \A k : Shown(k) => \A g \in Handlers : ShownTo(g, k)
    BY DEF Shown, ShownTo
<1>e. ASSUME LockHeld',
             \A g \in Handlers : Shown(req'[g].cursor) /\ ShownTo(g, resp'[g].next),
             \A g \in Devices : Shown(cursor'[g])
      PROVE  OrderInv'
    BY <1>b, <1>e, QuietStep
<1>f. ASSUME NEW h \in Handlers, Answered(d, h), \A g \in Devices : Shown(cursor'[g])
      PROVE  OrderInv'
  <2>1. LockHeld'
    BY <1>a, <1>b, <1>f DEF OrderInv, LockHeld, Answered, Finish, Goto
  <2>2. \A g \in Handlers : Shown(req'[g].cursor)
    BY <1>a, <1>c, <1>f DEF Answered, Finish, NoRequest
  <2>3. \A g \in Handlers : ShownTo(g, resp'[g].next)
    BY <1>a, <1>c, <1>d, <1>f, EmptyResponseNext DEF Answered, Finish, Status
  <2> QED BY <1>e, <1>f, <2>1, <2>2, <2>3
<1>g. ASSUME NEW h \in Handlers, NEW r, r.cursor = cursor[d],
             NEW step \in {"received", "snapUpsert"}, Send(d, h, r, step)
      PROVE  OrderInv'
  <2>1. LockHeld'
    BY <1>a, <1>b, <1>g DEF OrderInv, LockHeld, Send, Goto
  <2>2. \A g \in Handlers : Shown(req'[g].cursor) /\ ShownTo(g, resp'[g].next)
    BY <1>a, <1>c, <1>g DEF Send
  <2>3. \A g \in Devices : Shown(cursor'[g])
    BY <1>c, <1>g DEF Send
  <2> QED BY <1>e, <2>1, <2>2, <2>3
<1>h. ASSUME UNCHANGED <<pc, req, resp, cursor>> PROVE OrderInv'
  <2>1. LockHeld'
    BY <1>b, <1>h DEF OrderInv, LockHeld
  <2> QED BY <1>c, <1>e, <1>h, <2>1
<1>1. ASSUME NEW m \in Mutations, Edit(d, m) PROVE OrderInv'
    BY <1>1, <1>h DEF Edit
<1>2. ASSUME NEW h \in Handlers, NEW n \in 0..Len(outbox[d]), SendSync(d, h, n) PROVE OrderInv'
  <2> DEFINE r == [NoRequest EXCEPT !.device = d, !.cursor = cursor[d],
                                    !.batch = SubSeq(outbox[d], 1, n)]
  <2>1. r.cursor = cursor[d]
    BY DEF NoRequest
  <2>2. Send(d, h, r, "received")
    BY <1>2, Zenon DEF SendSync
  <2> HIDE DEF r
  <2> QED BY <1>g, <2>1, <2>2
<1>3. ASSUME NEW h \in Handlers, SendSnapshot(d, h) PROVE OrderInv'
  <2> DEFINE r == [NoRequest EXCEPT !.device = d, !.cursor = cursor[d],
                                    !.entity = phase[d], !.after = after[d]]
  <2>1. r.cursor = cursor[d]
    BY DEF NoRequest
  <2>2. Send(d, h, r, "snapUpsert")
    BY <1>3, Zenon DEF SendSnapshot
  <2> HIDE DEF r
  <2> QED BY <1>g, <2>1, <2>2
<1>4. ASSUME NEW h \in Handlers, Receive(d, h) PROVE OrderInv'
  <2>1. Answered(d, h)
    BY <1>4 DEF Receive, ReceiveSync, ReceiveExpired, ReceivePage, ReceiveError
  <2>2. Shown(resp[h].next)
    BY <1>c, <2>1 DEF Answered
  <2>3. \/ cursor' = [cursor EXCEPT ![d] = resp[h].next]
        \/ cursor' = [cursor EXCEPT ![d] = 0]
        \/ cursor' = cursor
    BY <1>4 DEF Receive, ReceiveSync, ReceiveExpired, ReceivePage, ReceiveError
  <2>4. \A g \in Devices : Shown(cursor'[g])
    BY <1>a, <1>c, <2>2, <2>3
  <2> QED BY <1>f, <2>1, <2>4
<1>5. CASE GiveUp(d)
    BY <1>5, <1>h DEF GiveUp
<1> QED BY <1>1, <1>2, <1>3, <1>4, <1>5 DEF ClientNext, ClientStep

\* Time, other users and lost answers: the sequence may grow, nothing else does.
LEMMA OtherOrder ==
    ASSUME TypeOK, TypeOK', OrderInv,
           Environment \/ (\E h \in Handlers : DropNext(h)) \/ UNCHANGED vars
    PROVE  OrderInv'
<1>a. /\ req \in [Handlers -> Request] /\ resp \in [Handlers -> Response]
      /\ pc \in [Handlers -> {"idle", "reply"} \cup SyncSteps \cup SnapshotSteps]
      /\ seq \in Nat
    BY DEF TypeOK, ApiTypeOK, DatabaseTypeOK
<1>b. UNCHANGED <<log, history, lock, tx, cursor>> /\ seq' >= seq
    BY <1>a DEF Environment, Tick, OtherUserAppends, DropNext, DropAnswer,
                vars, dbVars, tableVars, apiVars, clientVars
<1>1. ASSUME UNCHANGED <<pc, req, resp>> PROVE OrderInv'
  <2>1. LockHeld'
    BY <1>1, <1>b DEF OrderInv, LockHeld
  <2> QED BY <1>1, <1>b, <2>1, KnownCursors, QuietStep
<1>2. ASSUME NEW h \in Handlers, DropNext(h) PROVE OrderInv'
  <2>1. LockHeld'
    BY <1>2, <1>a, <1>b DEF OrderInv, LockHeld, DropNext, DropAnswer, Finish, Goto
  <2>2. \A g \in Handlers : Shown(req'[g].cursor)
    BY <1>2, <1>a, KnownCursors DEF DropNext, DropAnswer, Finish, NoRequest
  <2>3. \A g \in Handlers : ShownTo(g, resp'[g].next)
    <3>1. Shown(0) => ShownTo(h, 0)
      BY DEF Shown, ShownTo
    <3> QED BY <1>2, <1>a, <3>1, KnownCursors, EmptyResponseNext
            DEF DropNext, DropAnswer, Finish, Status
  <2> QED BY <1>b, <2>1, <2>2, <2>3, KnownCursors, QuietStep
<1>3. CASE Environment \/ UNCHANGED vars
    BY <1>1, <1>3 DEF Environment, vars, apiVars
<1> QED BY <1>2, <1>3

\* The initial state has no changes, no cursors and no lock holder.
LEMMA InitOrder == Init => OrderInv
<1> SUFFICES ASSUME Init PROVE OrderInv
    OBVIOUS
<1> USE DEF Init
<1>1. IdsFromSequence
    BY DEF IdsFromSequence, DatabaseInit, ApiInit, TxInit, ClientInit, NoTx, NoRequest, Bare
<1>2. LockHeld
    BY DEF LockHeld, ApiInit, TxInit, NoTx
<1>3. PendingAbove
    BY DEF PendingAbove, TxInit, NoTx
<1> QED BY <1>1, <1>2, <1>3 DEF OrderInv

\* Every step keeps the order.
LEMMA NextOrder ==
    ASSUME TypeOK, OrderInv, [Next]_vars
    PROVE  TypeOK' /\ OrderInv'
<1>1. TypeOK'
    BY NextTypes DEF OrderInv
<1> QED BY <1>1, SyncOrder, SnapshotOrder, RetentionOrder, ClientOrder, OtherOrder DEF Next

-----------------------------------------------------------------------------
(* The theorems *)

\* Only a commit adds to the log, and what it adds was pending.
LEMMA NewChangesWerePending ==
    ASSUME TypeOK, [Next]_vars, NEW c \in log' \ log
    PROVE  \E h \in Handlers : c \in tx[h].changes
<1>1. ASSUME NEW h \in Handlers, SyncNext(h) PROVE log' = log \/ log' = log \cup tx[h].changes
    BY <1>1 DEF SyncNext, SyncStep, SyncWork, RejectRequest, RejectExpired, PassCursorCheck,
                PullUpsert, PullList, BeginTx, AcquireLock, ListInTx, Commit, ReplayMutation,
                RefuseMutation, ApplyMutation, AbortOnForeignKey, AckCursor, AckFails, SyncFails,
                dbVars, tableVars
<1>2. ASSUME NEW h \in Handlers, SnapshotNext(h) \/ DropNext(h) PROVE log' = log
    BY <1>2 DEF SnapshotNext, SnapshotStep, SnapshotWork, SnapshotUpsert, SnapshotWatermark,
                SnapshotPage, SnapshotFails, DropNext, dbVars, tableVars
<1>3. ASSUME RetentionNext PROVE log' \subseteq log
    BY <1>3 DEF RetentionNext, RetentionStep, StartRun, ReadMinCursor, PruneLog, PruneChangeLog,
                PruneMutations, RetentionStatementFails, dbVars, tableVars
<1>4. ASSUME NEW d \in Devices, ClientNext(d) PROVE log' = log
    BY <1>4 DEF ClientNext, dbVars, tableVars
<1>5. ASSUME Environment \/ UNCHANGED vars PROVE log' = log
    BY <1>5 DEF Environment, Tick, OtherUserAppends, vars, dbVars, tableVars
<1>6. ASSUME NEW h \in Handlers, SyncNext(h) PROVE c \in tx[h].changes
    BY <1>1, <1>6
<1>7. CASE \E h \in Handlers : SyncNext(h)
    BY <1>6, <1>7
<1>8. CASE ~\E h \in Handlers : SyncNext(h)
  <2>1. log' \subseteq log
    BY <1>2, <1>3, <1>4, <1>5, <1>8, Zenon DEF Next
  <2> QED BY <2>1
<1> QED BY <1>7, <1>8

\* Type correctness and the order of the log, of every reachable state.
THEOREM OrderCorrect == Spec => [](TypeOK /\ OrderInv)
<1>1. Init => TypeOK /\ OrderInv
    BY InitTypes, InitOrder
<1>2. TypeOK /\ OrderInv /\ [Next]_vars => (TypeOK /\ OrderInv)'
    BY NextOrder
<1> QED BY <1>1, <1>2, PTL DEF Spec

\* Every table, request, transaction and client state always has its type,
\* whatever is interleaved, lost, retried or pruned.
THEOREM TypeCorrect == Spec => []TypeOK
  BY OrderCorrect, PTL

\* A change never becomes visible at or below a cursor that a device holds: a
\* cursor is a complete summary of what was committed before it.
THEOREM CursorIsComplete == Spec => NoLateChange
<1>1. TypeOK /\ OrderInv /\ [Next]_vars =>
         [\A c \in log' \ log : \A d \in Devices : c.id > cursor[d]]_vars
  <2> SUFFICES ASSUME TypeOK, OrderInv, [Next]_vars,
                      NEW c \in log' \ log, NEW d \in Devices
               PROVE  c.id > cursor[d]
    OBVIOUS
  <2>1. PICK h \in Handlers : c \in tx[h].changes
    BY NewChangesWerePending
  <2>2. cursor[d] \in Nat /\ c.id \in Nat
    BY <2>1 DEF TypeOK, ClientTypeOK, TxTypeOK, Tx, Change
  <2> QED BY <2>1, <2>2 DEF OrderInv, PendingAbove
<1> QED BY <1>1, OrderCorrect, PTL DEF Spec, NoLateChange

-----------------------------------------------------------------------------
(* Which steps touch the story *)

\* Nothing of the story changes, and nobody leaves a transaction.
StoryQuiet ==
    /\ UNCHANGED <<rows, log, history, mutation>>
    /\ \A g \in Handlers :
          /\ tx'[g].rows = tx[g].rows
          /\ tx'[g].changes = tx[g].changes
          /\ pc'[g] \notin {"apply", "commit"} =>
                /\ pc[g] \notin {"apply", "commit"}
                /\ tx'[g].recorded = tx[g].recorded
                /\ tx'[g].outcome = tx[g].outcome

\* The transaction of h is rolled back.
RollsBack(h) ==
    /\ UNCHANGED <<rows, log, history, mutation>>
    /\ tx' = [tx EXCEPT ![h] = NoTx]
    /\ pc' = [pc EXCEPT ![h] = "reply"]

\* The retention job prunes the log.
Prunes ==
    /\ \E k \in Nat : log' = {c \in log : c.id >= k}
    /\ UNCHANGED <<rows, history, mutation, tx, pc>>

\* A user makes a mutation.
Makes(d, m) == Edit(d, m) /\ UNCHANGED <<rows, log, history, tx>>

\* A step of a sync request that is not one of the three that write leaves the
\* story alone.
LEMMA SyncKinds ==
    ASSUME TypeOK, NEW h \in Handlers, SyncNext(h)
    PROVE  \/ StoryQuiet
           \/ \E m \in Mutations : ApplyMutation(h, m)
           \/ Commit(h)
           \/ RollsBack(h)
<1>a. /\ tx \in [Handlers -> Tx]
      /\ pc \in [Handlers -> {"idle", "reply"} \cup SyncSteps \cup SnapshotSteps]
    BY DEF TypeOK, ApiTypeOK, TxTypeOK
<1>b. ASSUME UNCHANGED <<rows, log, history, mutation, tx>>,
             NEW s, pc' = [pc EXCEPT ![h] = s], pc[h] \in {"apply", "commit"} => s \in {"apply", "commit"}
      PROVE  StoryQuiet
    BY <1>a, <1>b DEF StoryQuiet
<1>1. CASE RejectRequest(h)
  <2>1. pc[h] = "received" /\ pc' = [pc EXCEPT ![h] = "reply"]
    BY <1>1 DEF RejectRequest, Respond, Goto
  <2> QED BY <1>1, <1>b, <2>1 DEF RejectRequest, dbVars, tableVars
<1>2. CASE RejectExpired(h)
  <2>1. pc[h] = "received" /\ pc' = [pc EXCEPT ![h] = "reply"]
    BY <1>2 DEF RejectExpired, Respond, Goto
  <2> QED BY <1>2, <1>b, <2>1 DEF RejectExpired, dbVars, tableVars
<1>3. CASE PassCursorCheck(h)
  <2>1. pc[h] = "received" /\ \E s : pc' = [pc EXCEPT ![h] = s]
    BY <1>3 DEF PassCursorCheck, Goto
  <2> QED BY <1>3, <1>b, <2>1 DEF PassCursorCheck, dbVars, tableVars
<1>4. CASE PullUpsert(h)
  <2>1. pc[h] = "pull" /\ pc' = [pc EXCEPT ![h] = "pullList"]
    BY <1>4 DEF PullUpsert, Goto
  <2> QED BY <1>4, <1>b, <2>1 DEF PullUpsert, tableVars
<1>5. CASE PullList(h)
  <2>1. pc[h] = "pullList" /\ pc' = [pc EXCEPT ![h] = "ack"]
    BY <1>5 DEF PullList, Goto
  <2> QED BY <1>5, <1>b, <2>1 DEF PullList, dbVars, tableVars
<1>6. CASE BeginTx(h)
  <2>1. \A g \in Handlers : /\ tx'[g].rows = tx[g].rows /\ tx'[g].changes = tx[g].changes
                            /\ tx'[g].recorded = tx[g].recorded /\ tx'[g].outcome = tx[g].outcome
    BY <1>6, <1>a DEF BeginTx, Tx
  <2>2. \A g \in Handlers : pc[g] \in {"apply", "commit"} => pc'[g] \in {"apply", "commit"}
    BY <1>6, <1>a DEF BeginTx, Goto
  <2> QED BY <1>6, <2>1, <2>2 DEF BeginTx, dbVars, tableVars, StoryQuiet
<1>7. CASE AcquireLock(h)
  <2>1. pc' = [pc EXCEPT ![h] = "apply"]
    BY <1>7 DEF AcquireLock, Goto
  <2> QED BY <1>7, <1>b, <2>1 DEF AcquireLock, tableVars
<1>8. CASE ListInTx(h)
  <2>1. pc' = [pc EXCEPT ![h] = "commit"]
    BY <1>8 DEF ListInTx, Goto
  <2> QED BY <1>8, <1>b, <2>1 DEF ListInTx, dbVars, tableVars
<1>9. ASSUME NEW m \in Mutations, ReplayMutation(h, m) PROVE StoryQuiet
  <2>1. PICK o : tx' = [tx EXCEPT ![h].outcome[m] = o]
    BY <1>9 DEF ReplayMutation
  <2>2. \A g \in Handlers : tx'[g].rows = tx[g].rows /\ tx'[g].changes = tx[g].changes
    BY <1>a, <2>1 DEF Tx
  <2>3. \A g \in Handlers : g # h => tx'[g] = tx[g]
    BY <1>a, <2>1
  <2>4. pc[h] = "apply" /\ pc' = pc
    BY <1>9 DEF ReplayMutation, apiVars
  <2> QED BY <1>9, <2>2, <2>3, <2>4 DEF ReplayMutation, dbVars, tableVars, apiVars, StoryQuiet
<1>10. ASSUME NEW m \in Mutations, RefuseMutation(h, m) PROVE StoryQuiet
  <2>1. PICK o : tx' = [tx EXCEPT ![h].outcome[m] = o, ![h].recorded = @ \cup {m}]
    BY <1>10 DEF RefuseMutation
  <2>2. \A g \in Handlers : tx'[g].rows = tx[g].rows /\ tx'[g].changes = tx[g].changes
    BY <1>a, <2>1 DEF Tx
  <2>3. \A g \in Handlers : g # h => tx'[g] = tx[g]
    BY <1>a, <2>1
  <2>4. pc[h] = "apply" /\ pc' = pc
    BY <1>10 DEF RefuseMutation, apiVars
  <2> QED BY <1>10, <2>2, <2>3, <2>4 DEF RefuseMutation, dbVars, tableVars, apiVars, StoryQuiet
<1>11. ASSUME NEW m \in Mutations, AbortOnForeignKey(h, m) PROVE RollsBack(h)
    BY <1>11 DEF AbortOnForeignKey, RollsBack, EndTx, Respond, Goto, tableVars
<1>12. CASE AckCursor(h)
  <2>1. pc[h] = "ack" /\ pc' = [pc EXCEPT ![h] = "reply"]
    BY <1>12 DEF AckCursor, Goto
  <2> QED BY <1>12, <1>b, <2>1 DEF AckCursor, tableVars
<1>13. CASE AckFails(h)
  <2>1. pc[h] = "ack" /\ pc' = [pc EXCEPT ![h] = "reply"]
    BY <1>13 DEF AckFails, Goto
  <2> QED BY <1>13, <1>b, <2>1 DEF AckFails, dbVars, tableVars
<1>14. CASE SyncFails(h)
    BY <1>14 DEF SyncFails, RollsBack, EndTx, Respond, Goto, tableVars
<1> QED BY <1>1, <1>2, <1>3, <1>4, <1>5, <1>6, <1>7, <1>8, <1>9, <1>10, <1>11, <1>12, <1>13,
           <1>14 DEF SyncNext, SyncStep, SyncWork

\* Outside the sync requests only retention and a user's edit touch the story.
LEMMA StoryKinds ==
    ASSUME TypeOK, [Next]_vars
    PROVE  \/ StoryQuiet
           \/ \E h \in Handlers, m \in Mutations : ApplyMutation(h, m)
           \/ \E h \in Handlers : Commit(h) \/ RollsBack(h)
           \/ Prunes
           \/ \E d \in Devices, m \in Mutations : Makes(d, m)
<1>a. /\ tx \in [Handlers -> Tx] /\ req \in [Handlers -> Request]
      /\ pc \in [Handlers -> {"idle", "reply"} \cup SyncSteps \cup SnapshotSteps]
    BY DEF TypeOK, ApiTypeOK, TxTypeOK
<1>b. ASSUME UNCHANGED <<rows, log, history, mutation, tx>>,
             NEW h \in Handlers, NEW s, pc' = [pc EXCEPT ![h] = s], pc[h] \notin {"apply", "commit"}
      PROVE  StoryQuiet
    BY <1>a, <1>b DEF StoryQuiet
<1>c. ASSUME UNCHANGED <<rows, log, history, mutation, tx, pc>> PROVE StoryQuiet
    BY <1>c DEF StoryQuiet
<1>1. ASSUME NEW h \in Handlers, SyncNext(h)
      PROVE  \/ StoryQuiet
             \/ \E m \in Mutations : ApplyMutation(h, m)
             \/ Commit(h) \/ RollsBack(h)
    BY <1>1, SyncKinds
<1>2. ASSUME NEW h \in Handlers, SnapshotNext(h) PROVE StoryQuiet
  <2>1. UNCHANGED <<rows, log, history, mutation, tx>>
    BY <1>2 DEF SnapshotNext, SnapshotStep, SnapshotWork, SnapshotUpsert, SnapshotWatermark,
                SnapshotPage, SnapshotFails, dbVars, tableVars
  <2>2. \E s : pc' = [pc EXCEPT ![h] = s]
    BY <1>2 DEF SnapshotNext, SnapshotStep, SnapshotWork, SnapshotUpsert, SnapshotWatermark,
                SnapshotPage, SnapshotFails, Respond, Goto
  <2>3. pc[h] \notin {"apply", "commit"}
    BY <1>2 DEF SnapshotNext, SnapshotStep, SnapshotWork, SnapshotUpsert, SnapshotWatermark,
                SnapshotPage, SnapshotFails, SnapshotSteps
  <2> QED BY <1>b, <2>1, <2>2, <2>3
<1>3. ASSUME NEW h \in Handlers, DropNext(h) PROVE StoryQuiet
  <2>1. pc[h] = "reply" /\ pc' = [pc EXCEPT ![h] = "idle"]
    BY <1>3 DEF DropNext, DropAnswer, Finish, Goto
  <2> QED BY <1>3, <1>b, <2>1 DEF DropNext, DropAnswer, dbVars, tableVars
<1>4. ASSUME RetentionNext PROVE Prunes \/ StoryQuiet
  <2>1. CASE PruneLog
    <3>1. ret.min \in Nat
      BY DEF TypeOK, RetentionTypeOK
    <3> QED BY <1>4, <2>1, <3>1 DEF RetentionNext, PruneLog, PruneChangeLog, Prunes
  <2>2. CASE ~PruneLog
    BY <1>4, <1>c, <2>2 DEF RetentionNext, RetentionStep, StartRun, ReadMinCursor, PruneMutations,
                            RetentionStatementFails, dbVars, tableVars
  <2> QED BY <2>1, <2>2
<1>5. ASSUME NEW d \in Devices, ClientNext(d)
      PROVE  StoryQuiet \/ \E m \in Mutations : Makes(d, m)
  <2>1. UNCHANGED <<rows, log, history, tx>>
    BY <1>5 DEF ClientNext, dbVars, tableVars
  <2>2. ASSUME NEW m \in Mutations, Edit(d, m) PROVE Makes(d, m)
    BY <2>1, <2>2 DEF Makes
  <2>3. ASSUME NEW h \in Handlers, NEW r, NEW s, Send(d, h, r, s) PROVE StoryQuiet
    BY <1>b, <2>1, <2>3 DEF Send, Goto
  <2>4. ASSUME NEW h \in Handlers, Receive(d, h) PROVE StoryQuiet
    <3>1. mutation' = mutation /\ Answered(d, h)
      BY <2>4 DEF Receive, ReceiveSync, ReceiveExpired, ReceivePage, ReceiveError
    <3> QED BY <1>b, <2>1, <3>1 DEF Answered, Finish, Goto
  <2>5. CASE GiveUp(d)
    BY <1>c, <2>1, <2>5 DEF GiveUp
  <2> QED BY <1>5, <2>2, <2>3, <2>4, <2>5 DEF ClientNext, ClientStep, SendSync, SendSnapshot
<1>6. CASE Environment \/ UNCHANGED vars
    BY <1>6, <1>c DEF Environment, Tick, OtherUserAppends, vars, dbVars, tableVars, apiVars
<1> QED BY <1>1, <1>2, <1>3, <1>4, <1>5, <1>6 DEF Next

-----------------------------------------------------------------------------
(* Adding one change *)

\* The next version of one row, under an id larger than every other, is accounted
\* for by one more change: what ApplyMutation writes.
LEMMA ExplainsOneMore ==
    ASSUME NEW changes \in SUBSET Change, NEW table \in [Entities -> Row],
           Explains(changes, table),
           NEW c \in Change, NEW r \in Row,
           c.version = table[c.entity].version + 1,
           Leaves(c, r),
           \A x \in changes : x.id < c.id
    PROVE  Explains(changes \cup {c}, [table EXCEPT ![c.entity] = r])
<1> DEFINE all == changes \cup {c}
           new == [table EXCEPT ![c.entity] = r]
<1>a. /\ \A x \in all : x.entity \in Entities /\ x.version \in Nat /\ x.id \in Nat
      /\ \A e \in Entities : table[e].version \in Nat
      /\ r.version = c.version
    BY DEF Change, Row, Leaves
<1>b. \A e \in Entities : new[e] = IF e = c.entity THEN r ELSE table[e]
    OBVIOUS
<1> HIDE DEF new
<1>c. /\ \A x \in changes : 0 < x.version /\ x.version <= table[x.entity].version
      /\ \A x, y \in changes :
            x.entity = y.entity => /\ x.version = y.version => x = y
                                   /\ x.version < y.version => x.id < y.id
      /\ \A x \in changes : x.version < table[x.entity].version =>
            \E y \in changes : y.entity = x.entity /\ y.version = x.version + 1
      /\ \A e \in Entities : table[e].version > 0 =>
            \E x \in changes : x.entity = e /\ Leaves(x, table[e])
    BY DEF Explains
<1>1. \A x \in all : 0 < x.version /\ x.version <= new[x.entity].version
    BY <1>a, <1>b, <1>c
<1>2. \A x \in changes : x.entity = c.entity => x.version < c.version /\ x.id < c.id
    BY <1>a, <1>c
<1>3. \A x, y \in all :
         x.entity = y.entity => /\ x.version = y.version => x = y
                                /\ x.version < y.version => x.id < y.id
    BY <1>a, <1>c, <1>2
<1>4. ASSUME NEW x \in all, x.version < new[x.entity].version
      PROVE  \E y \in all : y.entity = x.entity /\ y.version = x.version + 1
  <2>1. CASE x.entity # c.entity
    BY <1>a, <1>b, <1>c, <1>4, <2>1
  <2>2. CASE x.entity = c.entity /\ x.version < table[c.entity].version
    BY <1>a, <1>c, <1>4, <2>2
  <2>3. CASE x.entity = c.entity /\ ~(x.version < table[c.entity].version)
    <3>1. x.version + 1 = c.version
      BY <1>a, <1>b, <1>c, <1>4, <2>3
    <3> QED BY <2>3, <3>1
  <2> QED BY <2>1, <2>2, <2>3
<1>5. ASSUME NEW e \in Entities, new[e].version > 0
      PROVE  \E x \in all : x.entity = e /\ Leaves(x, new[e])
    BY <1>a, <1>b, <1>c, <1>5
<1> HIDE DEF all
<1> QED BY <1>1, <1>3, <1>4, <1>5, Zenon DEF Explains, all, new

\* A mutation is only written on top of the version it was based on.
LEMMA WritesNextVersion ==
    ASSUME NEW m \in Mutations, mutation[m] \in Mutation, NEW row \in Row, Writes(m, row)
    PROVE  /\ mutation[m].valid /\ mutation[m].was.version = row.version
           /\ mutation[m].op = "delete" => mutation[m].was.version > 0
<1>1. /\ row.version \in Nat /\ mutation[m].was.version \in Nat
      /\ mutation[m].valid \in BOOLEAN /\ mutation[m].op \in {"upsert", "delete"}
      /\ row.deleted \in BOOLEAN
    BY DEF Row, Mutation
<1>2. /\ Rejected.status = "rejected" /\ Conflict(row).status = "conflict"
      /\ \A v : Accepted(v).status = "accepted" /\ Accepted(v).version = v
    BY DEF Rejected, Conflict, Accepted
<1>3. Verdict(mutation[m], row).status = "accepted"
        /\ Verdict(mutation[m], row).version = row.version + 1
    BY <1>2 DEF Writes
<1> QED BY <1>1, <1>2, <1>3 DEF Verdict

-----------------------------------------------------------------------------
(* StoryInv, one lemma per kind of step *)

\* A handler that has written nothing sees the committed rows.
LEMMA OutsideTx ==
    ASSUME NEW g \in Handlers, rows \in [Entities -> Row], tx[g].rows = NoItems
    PROVE  RowsInTx(g) = rows
<1>1. \A e \in Entities : RowInTx(g, e) = rows[e]
    BY DEF RowInTx, NoItems, NoRow
<1> QED BY <1>1 DEF RowsInTx

\* A transaction never sees an older version than the committed one.
LEMMA TxSeesNewer ==
    ASSUME TypeOK, StoryInv, NEW h \in Handlers, NEW e \in Entities
    PROVE  RowInTx(h, e).version >= rows[e].version
<1>a. rows[e].version \in Nat /\ RowInTx(h, e).version \in Nat
    BY RowInTxType DEF TypeOK, DatabaseTypeOK, Row
<1>b. RowsInTx(h)[e] = RowInTx(h, e)
    BY DEF RowsInTx
<1>1. rows[e].version > 0 => \E y \in history : y.entity = e /\ y.version = rows[e].version
    BY DEF StoryInv, RowsExplained, Explains, Leaves
<1>2. \A y \in history : y.version <= RowsInTx(h)[y.entity].version
    BY DEF StoryInv, RowsExplained, Explains
<1> QED BY <1>a, <1>b, <1>1, <1>2

\* Steps that leave the story alone keep it.
LEMMA QuietStory ==
    ASSUME StoryInv, StoryQuiet
    PROVE  StoryInv'
<1>1. \A g \in Handlers : RowsInTx(g)' = RowsInTx(g)
    BY DEF StoryQuiet, RowsInTx, RowInTx
<1>2. RowsExplained'
    BY <1>1 DEF StoryInv, StoryQuiet, RowsExplained, Explains
<1>3. PendingIsNew'
    BY DEF StoryInv, StoryQuiet, PendingIsNew
<1>4. LogIsRecentHistory'
    BY DEF StoryInv, StoryQuiet, LogIsRecentHistory
<1>5. ChangesHaveCauses'
    BY DEF StoryInv, StoryQuiet, ChangesHaveCauses, CausedBy
<1> QED BY <1>2, <1>3, <1>4, <1>5 DEF StoryInv

\* A rolled back transaction leaves the committed rows and changes.
LEMMA RollbackStory ==
    ASSUME TypeOK, StoryInv, NEW h \in Handlers, RollsBack(h)
    PROVE  StoryInv'
<1>a. rows \in [Entities -> Row] /\ tx \in [Handlers -> Tx]
      /\ pc \in [Handlers -> {"idle", "reply"} \cup SyncSteps \cup SnapshotSteps]
    BY DEF TypeOK, DatabaseTypeOK, TxTypeOK, ApiTypeOK
<1>b. UNCHANGED <<rows, log, history, mutation>>
    BY DEF RollsBack
<1>c. /\ tx'[h].rows = NoItems /\ tx'[h].changes = {}
      /\ tx'[h].recorded = {} /\ tx'[h].outcome = NoOutcomes
    BY <1>a DEF RollsBack, NoTx
<1>d. \A g \in Handlers \ {h} : tx'[g] = tx[g] /\ pc'[g] = pc[g]
    BY <1>a DEF RollsBack
<1>1. RowsExplained'
  <2>1. (RowsInTx(h) = rows)'
    <3>1. \A e \in Entities : RowInTx(h, e)' = rows'[e]
      BY <1>c DEF RowInTx, NoItems, NoRow
    <3> QED BY <1>a, <1>b, <3>1 DEF RowsInTx
  <2>2. \A g \in Handlers \ {h} : RowsInTx(g)' = RowsInTx(g)
    BY <1>b, <1>d DEF RowsInTx, RowInTx
  <2>3. Explains(history, rows)'
    BY <1>b DEF StoryInv, RowsExplained, Explains
  <2>4. history' \cup tx'[h].changes = history'
    BY <1>c
  <2>5. Explains(history \cup tx[h].changes, RowsInTx(h))'
    BY <2>1, <2>3, <2>4 DEF Explains
  <2>6. \A g \in Handlers \ {h} : Explains(history \cup tx[g].changes, RowsInTx(g))'
    BY <1>b, <1>d, <2>2 DEF StoryInv, RowsExplained, Explains
  <2> QED BY <2>3, <2>5, <2>6 DEF RowsExplained
<1>2. PendingIsNew'
    BY <1>b, <1>c, <1>d DEF StoryInv, PendingIsNew
<1>3. LogIsRecentHistory'
    BY <1>b DEF StoryInv, LogIsRecentHistory
<1>4. ChangesHaveCauses'
    BY <1>b, <1>c, <1>d DEF StoryInv, ChangesHaveCauses, CausedBy
<1> QED BY <1>1, <1>2, <1>3, <1>4 DEF StoryInv

\* Pruning by id keeps an end piece of the history.
LEMMA PruneStory ==
    ASSUME TypeOK, StoryInv, Prunes
    PROVE  StoryInv'
<1>a. UNCHANGED <<rows, history, mutation, tx, pc>>
    BY DEF Prunes
<1>1. RowsExplained'
    BY <1>a DEF StoryInv, RowsExplained, Explains, RowsInTx, RowInTx
<1>2. PendingIsNew'
    BY <1>a DEF StoryInv, PendingIsNew
<1>3. LogIsRecentHistory'
  <2>1. PICK k \in Nat : log' = {c \in log : c.id >= k}
    BY DEF Prunes
  <2>2. \A x \in history : x.id \in Nat
    BY DEF TypeOK, DatabaseTypeOK, Change
  <2> QED BY <1>a, <2>1, <2>2 DEF StoryInv, LogIsRecentHistory
<1>4. ChangesHaveCauses'
    BY <1>a DEF StoryInv, ChangesHaveCauses, CausedBy
<1> QED BY <1>1, <1>2, <1>3, <1>4 DEF StoryInv

\* A new mutation has caused nothing yet.
LEMMA EditStory ==
    ASSUME TypeOK, StoryInv, NEW d \in Devices, NEW m \in Mutations, Makes(d, m)
    PROVE  StoryInv'
<1>a. UNCHANGED <<rows, log, history, tx, pc>> /\ ~mutation[m].made
    BY DEF Makes, Edit
<1>b. /\ \A x \in Mutations \ {m} : mutation'[x] = mutation[x]
      /\ mutation'[m].made
    BY DEF Makes, Edit, TypeOK, ApiTypeOK
<1>1. RowsExplained'
    BY <1>a DEF StoryInv, RowsExplained, Explains, RowsInTx, RowInTx
<1>2. PendingIsNew'
    BY <1>a DEF StoryInv, PendingIsNew
<1>3. LogIsRecentHistory'
    BY <1>a DEF StoryInv, LogIsRecentHistory
<1>4. ChangesHaveCauses'
  <2>1. \A c \in Change : CausedBy(c, c.by) => CausedBy(c, c.by)'
    <3> SUFFICES ASSUME NEW c \in Change, CausedBy(c, c.by) PROVE CausedBy(c, c.by)'
      OBVIOUS
    <3>1. c.by \in Mutations
      BY DEF Change
    <3>2. c.by # m
      BY <1>a, <3>1 DEF StoryInv, ChangesHaveCauses, CausedBy
    <3> QED BY <1>b, <3>1, <3>2 DEF CausedBy
  <2>2. history \subseteq Change /\ \A h \in Handlers : tx[h].changes \subseteq Change
    BY DEF TypeOK, DatabaseTypeOK, TxTypeOK, Tx
  <2>3. \A x \in Mutations : mutation'[x].valid => mutation'[x].made
    BY <1>b DEF StoryInv, ChangesHaveCauses
  <2> QED BY <1>a, <2>1, <2>2, <2>3 DEF StoryInv, ChangesHaveCauses
<1> QED BY <1>1, <1>2, <1>3, <1>4 DEF StoryInv

\* A commit makes the rows and changes that its transaction sees the committed
\* ones; nobody else has an open transaction.
LEMMA CommitStory ==
    ASSUME TypeOK, TypeOK', OrderInv, StoryInv, NEW h \in Handlers, Commit(h)
    PROVE  StoryInv'
<1>a. /\ rows' \in [Entities -> Row] /\ tx \in [Handlers -> Tx]
      /\ pc \in [Handlers -> {"idle", "reply"} \cup SyncSteps \cup SnapshotSteps]
    BY DEF TypeOK, DatabaseTypeOK, TxTypeOK, ApiTypeOK
<1>b. /\ rows' = RowsInTx(h)
      /\ log' = log \cup tx[h].changes /\ history' = history \cup tx[h].changes
      /\ mutation' = mutation /\ pc[h] = "commit"
    BY DEF Commit, RowsInTx
<1>c. /\ tx' = [tx EXCEPT ![h] = NoTx]
      /\ pc' = [pc EXCEPT ![h] = "ack"]
    BY DEF Commit, EndTx, Goto
<1>d. \A g \in Handlers \ {h} : pc[g] \notin {"apply", "commit"}
    BY <1>b, OnePending DEF OrderInv
<1>e. \A g \in Handlers :
         /\ pc'[g] \notin {"apply", "commit"}
         /\ tx'[g].rows = NoItems /\ tx'[g].changes = {}
         /\ tx'[g].recorded = {} /\ tx'[g].outcome = NoOutcomes
    BY <1>a, <1>c, <1>d DEF StoryInv, PendingIsNew, NoTx
<1>1. RowsExplained'
  <2>1. Explains(history, rows)'
    BY <1>b DEF StoryInv, RowsExplained, Explains
  <2>2. ASSUME NEW g \in Handlers PROVE Explains(history \cup tx[g].changes, RowsInTx(g))'
    <3>1. \A e \in Entities : RowInTx(g, e)' = rows'[e]
      BY <1>e DEF RowInTx, NoItems, NoRow
    <3>2. RowsInTx(g)' = rows'
      BY <1>a, <3>1 DEF RowsInTx
    <3>3. history' \cup tx'[g].changes = history'
      BY <1>e
    <3> QED BY <2>1, <3>2, <3>3 DEF Explains
  <2> QED BY <2>1, <2>2 DEF RowsExplained
<1>2. PendingIsNew'
    BY <1>e DEF PendingIsNew
<1>3. LogIsRecentHistory'
  <2>1. \A x \in history \cup tx[h].changes : x.id \in Nat
    BY <1>a DEF TypeOK, DatabaseTypeOK, Tx, Change
  <2>2. \A c \in tx[h].changes, x \in history : ~(x.id > c.id)
    BY <2>1 DEF StoryInv, PendingIsNew
  <2> QED BY <1>b, <2>2 DEF StoryInv, LogIsRecentHistory
<1>4. ChangesHaveCauses'
    BY <1>b, <1>e DEF StoryInv, ChangesHaveCauses, CausedBy
<1> QED BY <1>1, <1>2, <1>3, <1>4 DEF StoryInv

\* Mutation m is written as change c, which leaves row new, in the transaction of h.
AppliedAs(h, m, c, new) ==
    /\ c.id = seq + 1 /\ c.entity = mutation[m].entity /\ c.op = mutation[m].op
    /\ c.by = m /\ c.at = tx[h].began
    /\ c.version = RowInTx(h, c.entity).version + 1
    /\ CausedBy(c, m)
    /\ Leaves(c, new)
    /\ tx'[h].rows = [tx[h].rows EXCEPT ![c.entity] = new]
    /\ tx'[h].changes = tx[h].changes \cup {c}
    /\ tx'[h].outcome = [tx[h].outcome EXCEPT ![m] = Accepted(c.version)]
    /\ tx'[h].recorded = tx[h].recorded \cup {m}
    /\ tx'[h].began = tx[h].began
    /\ \A g \in Handlers \ {h} : tx'[g] = tx[g]

\* What ApplyMutation does to its transaction, in one place.
LEMMA ApplyEffect ==
    ASSUME TypeOK, NEW h \in Handlers, NEW m \in Mutations, ApplyMutation(h, m)
    PROVE  \E c \in Change, new \in Row : AppliedAs(h, m, c, new)
<1> DEFINE e == mutation[m].entity
           row == RowInTx(h, e)
           new == Written(m, row)
           c == [id |-> seq + 1, entity |-> e, op |-> mutation[m].op, version |-> new.version,
                 data |-> new.data, by |-> m, at |-> tx[h].began]
           t == [tx[h] EXCEPT !.rows[e] = new, !.changes = @ \cup {c},
                              !.outcome[m] = Accepted(new.version), !.recorded = @ \cup {m}]
<1>1. tx' = [tx EXCEPT ![h] = t]
    BY Zenon DEF ApplyMutation
<1>2. mutation[m] \in Mutation /\ e \in Entities /\ mutation[m].op \in {"upsert", "delete"}
    BY DEF TypeOK, ApiTypeOK, Mutation
<1>3. row \in Row /\ new \in Row
    BY <1>2, RowInTxType, WrittenType
<1>4. tx[h] \in Tx /\ seq + 1 \in Nat /\ tx[h].began \in Nat
    BY DEF TypeOK, TxTypeOK, DatabaseTypeOK, Tx
<1>5. c \in Change
    BY <1>2, <1>3, <1>4 DEF Change, Row
<1>6. new.version = row.version + 1 /\ new.deleted = (mutation[m].op = "delete")
    BY DEF Written
<1>7. /\ mutation[m].valid /\ mutation[m].was.version = row.version
      /\ mutation[m].op = "delete" => mutation[m].was.version > 0
    BY <1>2, <1>3, WritesNextVersion DEF ApplyMutation
<1>8. tx \in [Handlers -> Tx]
    BY DEF TypeOK, TxTypeOK
<1> HIDE DEF new, row
<1>9. /\ c.id = seq + 1 /\ c.entity = mutation[m].entity /\ c.op = mutation[m].op
      /\ c.by = m /\ c.at = tx[h].began /\ c.version = new.version /\ c.data = new.data
    OBVIOUS
<1> HIDE DEF c
<1>10. /\ t.rows = [tx[h].rows EXCEPT ![e] = new]
       /\ t.changes = tx[h].changes \cup {c}
       /\ t.outcome = [tx[h].outcome EXCEPT ![m] = Accepted(new.version)]
       /\ t.recorded = tx[h].recorded \cup {m}
       /\ t.began = tx[h].began
    BY <1>4 DEF Tx
<1> HIDE DEF t
<1>11. tx'[h] = t /\ \A g \in Handlers \ {h} : tx'[g] = tx[g]
    BY <1>1, <1>8
<1>12. CausedBy(c, m) /\ Leaves(c, new) /\ c.version = RowInTx(h, c.entity).version + 1
    BY <1>6, <1>7, <1>9 DEF CausedBy, Leaves, row
<1>13. AppliedAs(h, m, c, new)
    BY <1>9, <1>10, <1>11, <1>12 DEF AppliedAs
<1> QED BY <1>3, <1>5, <1>13

\* An applied mutation adds one change on top of its row.
LEMMA ApplyStory ==
    ASSUME TypeOK, OrderInv, StoryInv, NEW h \in Handlers, NEW m \in Mutations, ApplyMutation(h, m)
    PROVE  StoryInv'
<1>a. /\ rows \in [Entities -> Row] /\ tx \in [Handlers -> Tx] /\ seq \in Nat
      /\ history \subseteq Change /\ tx[h].changes \subseteq Change
      /\ tx[h].rows \in [Entities -> Row]
    BY DEF TypeOK, DatabaseTypeOK, TxTypeOK, Tx
<1>b. UNCHANGED <<rows, log, history, mutation, pc>> /\ pc[h] = "apply"
    BY DEF ApplyMutation, tableVars, apiVars
<1>p. PICK c \in Change, new \in Row : AppliedAs(h, m, c, new)
    BY ApplyEffect
<1>c. /\ c.id = seq + 1 /\ c.by = m /\ CausedBy(c, m) /\ Leaves(c, new)
      /\ c.version = RowInTx(h, c.entity).version + 1
      /\ tx'[h].rows = [tx[h].rows EXCEPT ![c.entity] = new]
      /\ tx'[h].changes = tx[h].changes \cup {c}
      /\ \A g \in Handlers \ {h} : tx'[g] = tx[g]
    BY <1>p DEF AppliedAs
<1>d. /\ c.entity \in Entities /\ c.version \in Nat /\ c.id \in Nat
      /\ new.version = c.version
      /\ \A f \in Entities : rows[f].version \in Nat /\ tx[h].rows[f].version \in Nat
    BY <1>a, <1>c DEF Change, Row, Leaves
<1>e. \A x \in history \cup tx[h].changes : x.id < c.id /\ x.id \in Nat
  <2>1. \A x \in history \cup tx[h].changes : x.id \in Nat
    BY <1>a DEF Change
  <2> QED BY <1>a, <1>c, <2>1 DEF OrderInv, IdsFromSequence
<1>f. RowsInTx(h) \in [Entities -> Row]
    BY RowInTxType DEF RowsInTx
<1>g. c.version > 0
  <2>1. RowInTx(h, c.entity) \in Row
    BY <1>d, RowInTxType
  <2> QED BY <1>c, <2>1 DEF Row
<1>1. RowsExplained'
  <2>1. RowsInTx(h)' = [RowsInTx(h) EXCEPT ![c.entity] = new]
    <3>1. ASSUME NEW f \in Entities
          PROVE  RowInTx(h, f)' = IF f = c.entity THEN new ELSE RowInTx(h, f)
      BY <1>a, <1>b, <1>c, <1>d, <1>g DEF RowInTx
    <3> QED BY <3>1 DEF RowsInTx
  <2>2. Explains((history \cup tx[h].changes) \cup {c}, [RowsInTx(h) EXCEPT ![c.entity] = new])
    <3>1. Explains(history \cup tx[h].changes, RowsInTx(h))
      BY DEF StoryInv, RowsExplained
    <3>2. c.version = RowsInTx(h)[c.entity].version + 1
      BY <1>c, <1>d DEF RowsInTx
    <3>3. history \cup tx[h].changes \in SUBSET Change
      BY <1>a
    <3> QED BY <1>c, <1>e, <1>f, <3>1, <3>2, <3>3, ExplainsOneMore
  <2>3. history' \cup tx'[h].changes = (history \cup tx[h].changes) \cup {c}
    BY <1>b, <1>c
  <2>4. Explains(history \cup tx[h].changes, RowsInTx(h))'
    BY <2>1, <2>2, <2>3 DEF Explains
  <2>5. \A g \in Handlers \ {h} : Explains(history \cup tx[g].changes, RowsInTx(g))'
    <3>1. \A g \in Handlers \ {h} : RowsInTx(g)' = RowsInTx(g)
      BY <1>b, <1>c DEF RowsInTx, RowInTx
    <3> QED BY <1>b, <1>c, <3>1 DEF StoryInv, RowsExplained, Explains
  <2>6. Explains(history, rows)'
    BY <1>b DEF StoryInv, RowsExplained, Explains
  <2> QED BY <2>4, <2>5, <2>6 DEF RowsExplained
<1>2. PendingIsNew'
  <2>1. ASSUME NEW x \in tx'[h].changes
        PROVE  x.version > rows[x.entity].version /\ \A y \in history : y.id < x.id
    <3>1. CASE x = c
      <4>1. RowInTx(h, c.entity).version >= rows[c.entity].version
        BY <1>d, TxSeesNewer
      <4>2. RowInTx(h, c.entity) \in Row
        BY <1>d, RowInTxType
      <4> QED BY <1>c, <1>d, <1>e, <3>1, <4>1, <4>2 DEF Row
    <3>2. CASE x \in tx[h].changes
      BY <3>2 DEF StoryInv, PendingIsNew
    <3> QED BY <1>c, <2>1, <3>1, <3>2
  <2> QED BY <1>b, <1>c, <2>1 DEF StoryInv, PendingIsNew
<1>3. LogIsRecentHistory'
    BY <1>b DEF StoryInv, LogIsRecentHistory
<1>4. ChangesHaveCauses'
    BY <1>b, <1>c DEF StoryInv, ChangesHaveCauses, CausedBy
<1> QED BY <1>1, <1>2, <1>3, <1>4 DEF StoryInv

\* At first there is nothing to tell.
LEMMA InitStory == Init => StoryInv
<1> SUFFICES ASSUME Init PROVE StoryInv
    OBVIOUS
<1>a. /\ rows = [e \in Entities |-> NoRow] /\ log = {} /\ history = {}
      /\ tx = [h \in Handlers |-> NoTx] /\ mutation = [m \in Mutations |-> Unmade]
    BY DEF Init, DatabaseInit, TxInit, ApiInit
<1>b. \A h \in Handlers : /\ tx[h].rows = NoItems /\ tx[h].changes = {}
                          /\ tx[h].recorded = {} /\ tx[h].outcome = NoOutcomes
    BY <1>a DEF NoTx
<1>1. Explains({}, [e \in Entities |-> NoRow])
    BY DEF Explains, NoRow
<1>2. \A h \in Handlers : RowsInTx(h) = [e \in Entities |-> NoRow]
    BY <1>a, <1>b DEF RowsInTx, RowInTx, NoItems, NoRow
<1>3. RowsExplained
    BY <1>a, <1>b, <1>1, <1>2 DEF RowsExplained
<1>4. PendingIsNew
    BY <1>b DEF PendingIsNew
<1>5. LogIsRecentHistory
    BY <1>a DEF LogIsRecentHistory
<1>6. ChangesHaveCauses
    BY <1>a, <1>b DEF ChangesHaveCauses, Unmade
<1> QED BY <1>3, <1>4, <1>5, <1>6 DEF StoryInv

\* Every step keeps the story.
LEMMA NextStory ==
    ASSUME TypeOK, TypeOK', OrderInv, StoryInv, [Next]_vars
    PROVE  StoryInv'
<1>1. CASE StoryQuiet
    BY <1>1, QuietStory
<1>2. ASSUME NEW h \in Handlers, NEW m \in Mutations, ApplyMutation(h, m) PROVE StoryInv'
    BY <1>2, ApplyStory
<1>3. ASSUME NEW h \in Handlers, Commit(h) PROVE StoryInv'
    BY <1>3, CommitStory
<1>4. ASSUME NEW h \in Handlers, RollsBack(h) PROVE StoryInv'
    BY <1>4, RollbackStory
<1>5. CASE Prunes
    BY <1>5, PruneStory
<1>6. ASSUME NEW d \in Devices, NEW m \in Mutations, Makes(d, m) PROVE StoryInv'
    BY <1>6, EditStory
<1> QED BY <1>1, <1>2, <1>3, <1>4, <1>5, <1>6, StoryKinds

-----------------------------------------------------------------------------
(* The theorems *)

\* The changes account for the rows in every reachable state, in and outside of
\* transactions.
THEOREM StoryCorrect == Spec => [](TypeOK /\ OrderInv /\ StoryInv)
<1>1. Init => TypeOK /\ OrderInv /\ StoryInv
    BY InitTypes, InitOrder, InitStory
<1>2. TypeOK /\ OrderInv /\ StoryInv /\ [Next]_vars => (TypeOK /\ OrderInv /\ StoryInv)'
    BY NextOrder, NextStory
<1> QED BY <1>1, <1>2, PTL DEF Spec

\* The retained log never contradicts the rows, and the versions it retains of an
\* entity have no hole.
THEOREM LogCorrect == Spec => []LogMatchesRows
<1>1. TypeOK /\ StoryInv => LogMatchesRows
  <2> SUFFICES ASSUME TypeOK, StoryInv, NEW c \in log
               PROVE  /\ c.version <= rows[c.entity].version
                      /\ c.version = rows[c.entity].version =>
                            /\ c.data = rows[c.entity].data
                            /\ (c.op = "delete") = rows[c.entity].deleted
                      /\ c.version < rows[c.entity].version =>
                            \E x \in log : /\ x.entity = c.entity
                                           /\ x.version = c.version + 1 /\ x.id > c.id
    BY DEF LogMatchesRows
  <2>1. c \in history /\ c.entity \in Entities /\ c.version \in Nat /\ c.id \in Nat
    BY DEF TypeOK, DatabaseTypeOK, Change, StoryInv, LogIsRecentHistory
  <2>2. Explains(history, rows)
    BY DEF StoryInv, RowsExplained
  <2>3. 0 < c.version /\ c.version <= rows[c.entity].version
    BY <2>1, <2>2 DEF Explains
  <2>4. ASSUME c.version = rows[c.entity].version PROVE Leaves(c, rows[c.entity])
    <3>1. PICK x \in history : x.entity = c.entity /\ Leaves(x, rows[c.entity])
      BY <2>1, <2>2, <2>3, <2>4 DEF Explains
    <3>2. x = c
      BY <2>1, <2>2, <2>4, <3>1 DEF Explains, Leaves
    <3> QED BY <3>1, <3>2
  <2>5. ASSUME c.version < rows[c.entity].version
        PROVE  \E x \in log : x.entity = c.entity /\ x.version = c.version + 1 /\ x.id > c.id
    <3>1. PICK x \in history : x.entity = c.entity /\ x.version = c.version + 1
      BY <2>1, <2>2, <2>5 DEF Explains
    <3>2. x.id > c.id
      <4>1. x.id \in Nat /\ c.version < x.version
        BY <2>1, <3>1 DEF TypeOK, DatabaseTypeOK, Change
      <4> QED BY <2>1, <2>2, <3>1, <4>1 DEF Explains
    <3>3. x \in log
      BY <3>2 DEF StoryInv, LogIsRecentHistory
    <3> QED BY <3>1, <3>2, <3>3
  <2> QED BY <2>3, <2>4, <2>5 DEF Leaves
<1> QED BY <1>1, StoryCorrect, PTL

\* However often a mutation is sent, whatever was lost, and even after its record
\* was pruned, it changes its entity at most once: base_version guards it.
THEOREM MutationsApplyOnce == Spec => []AppliedAtMostOnce
<1>1. StoryInv => AppliedAtMostOnce
  <2> SUFFICES ASSUME StoryInv, NEW c \in history, NEW x \in history, c.by = x.by
               PROVE  c = x
    BY DEF AppliedAtMostOnce
  <2>1. c.entity = x.entity /\ c.version = x.version
    BY DEF StoryInv, ChangesHaveCauses, CausedBy
  <2> QED BY <2>1 DEF StoryInv, RowsExplained, Explains
<1> QED BY <1>1, StoryCorrect, PTL
=============================================================================
