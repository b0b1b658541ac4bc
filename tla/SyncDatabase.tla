---------------------------- MODULE SyncDatabase ----------------------------
(***************************************************************************)
(* The PostgreSQL tables behind synchronization, for one user, and one     *)
(* operator per SQL query the services issue (src/db/queries/sync.sql and  *)
(* snapshot.sql).  Everything in these tables is keyed by user_id, so one  *)
(* user is the whole story, except for the change_id sequence, which all   *)
(* users share: OtherUserAppends stands for them.                          *)
(*                                                                         *)
(* Payloads are abstracted to the mutation that supplied them: a row whose *)
(* data is m holds the fields that mutation m carried.  A row exists iff   *)
(* its version is positive (CHECK (version > 0)).                          *)
(***************************************************************************)
EXTENDS Integers, FiniteSets, FiniteSetsExt

CONSTANTS
    Devices,      \* device ids of the user
    Sessions,     \* ids of cube_sessions rows, positive integers (uuid order)
    Solves,       \* ids of solves rows, positive integers
    Mutations,    \* mutation ids the clients may generate
    Handlers,     \* goroutines that may serve a request at the same time
    NoMutation,   \* the data of a row that does not exist
    NoHandler,    \* nobody holds the lock, nobody is waited for
    Window,       \* effectiveInactiveWindow, in clock ticks
    MaxTime,      \* bound: the clock stops here
    MaxSeq,       \* bound: no batch that could take the sequence past this
    MaxForeign    \* bound: other users take change ids up to this one only

ASSUME EntityAssumption ==
    /\ Sessions \subseteq Nat \ {0}
    /\ Solves \subseteq Nat \ {0}
    /\ Sessions \cap Solves = {}

ASSUME BoundAssumption ==
    /\ Window \in Nat \ {0}
    /\ MaxTime \in Nat
    /\ MaxSeq \in Nat
    /\ MaxForeign \in Nat

ASSUME NullAssumption ==
    /\ NoMutation \notin Mutations
    /\ NoHandler \notin Handlers

VARIABLES
    rows,       \* cube_sessions and solves: the row of every entity
    log,        \* change_log: the changes committed and not yet pruned
    processed,  \* processed_mutations
    devices,    \* devices: known, last_seen_at and last_ack_cursor
    seq,        \* change_log_change_id_seq: the last change_id handed out
    lock,       \* pg_advisory_xact_lock of the user: its holder
    now,        \* the clock
    history,    \* auxiliary: every change ever committed, pruned or not
    tracked     \* auxiliary: devices active ever since they began a bootstrap

tableVars == <<rows, log, processed, history>>
dbVars == <<tableVars, devices, seq, lock, now, tracked>>

Entities == Sessions \cup Solves

Data == Mutations \cup {NoMutation}

Row == [version : Nat, deleted : BOOLEAN, data : Data]

NoRow == [version |-> 0, deleted |-> FALSE, data |-> NoMutation]

\* A change_log row.  "by" is not a column: it names the mutation that caused
\* the change and only the properties read it.
Change == [id : Nat, entity : Entities, op : {"upsert", "delete"}, version : Nat,
           data : Data, by : Mutations, at : Nat]

Device == [known : BOOLEAN, seen : Nat, ack : Nat]

Outcome == [status : {"accepted", "conflict", "rejected"}, version : Nat, current : Row]

NoOutcome == [status |-> "none", version |-> 0, current |-> NoRow]

Processed == [device : Devices, mutation : Mutations, outcome : Outcome, at : Nat]

DatabaseTypeOK ==
    /\ rows \in [Entities -> Row]
    /\ log \subseteq Change
    /\ history \subseteq Change
    /\ processed \subseteq Processed
    /\ devices \in [Devices -> Device]
    /\ seq \in Nat
    /\ lock \in Handlers \cup {NoHandler}
    /\ now \in Nat
    /\ tracked \subseteq Devices

DatabaseInit ==
    /\ rows = [e \in Entities |-> NoRow]
    /\ log = {}
    /\ history = {}
    /\ processed = {}
    /\ devices = [d \in Devices |-> [known |-> FALSE, seen |-> 0, ack |-> 0]]
    /\ seq = 0
    /\ lock = NoHandler
    /\ now = 0
    /\ tracked = {}

-----------------------------------------------------------------------------
(* Queries *)

\* The devices table after UpsertDevice: a new row starts with last_ack_cursor
\* 0, an existing one keeps it; last_seen_at is now(), which PostgreSQL fixes
\* at the start of the transaction.
UpsertDevice(d, t) ==
    [devices EXCEPT ![d] = [known |-> TRUE, seen |-> t, ack |-> @.ack]]

\* The devices table after UpdateDeviceAckCursor, which never moves it back.
UpdateDeviceAckCursor(d, cursor) ==
    IF devices[d].known /\ devices[d].ack < cursor
    THEN [devices EXCEPT ![d].ack = cursor]
    ELSE devices

ActiveAt(devs, cutoff) == {d \in Devices : devs[d].known /\ devs[d].seen > cutoff}

\* Mutant: the floor follows the device that is furthest ahead.
MutMaxCursor(cutoff) ==
    LET acks == {devices[d].ack : d \in ActiveAt(devices, cutoff)}
    IN  IF acks = {} THEN 0 ELSE Max(acks)

\* The smallest last_ack_cursor of the active devices; 0 when there are none.
MinValidCursorForUser(cutoff) ==
    LET acks == {devices[d].ack : d \in ActiveAt(devices, cutoff)}
    IN  IF acks = {} THEN 0 ELSE Min(acks)

\* Mutant: no COALESCE to 0 for a user without changes.
MutNoCoalesce == IF log = {} THEN -1 ELSE Max({c.id : c \in log})

LatestChangeCursor == IF log = {} THEN 0 ELSE Max({c.id : c \in log})

\* Mutant: the first change after the cursor is skipped.
MutSkipOne(visible, cursor) == {c \in visible : c.id > cursor + 1}

\* ListChanges without its LIMIT, over the part of the log the caller can see.
ListChanges(visible, cursor) == {c \in visible : c.id > cursor}

\* Mutant: a retried mutation is never recognised.
MutForgetful(d, m) == {}

GetProcessedMutation(d, m) == {p \in processed : p.device = d /\ p.mutation = m}

\* Mutant: the change at the floor goes too.
MutPruneFloor(minCursor) == {c \in log : c.id > minCursor}

PruneChangeLog(minCursor) == {c \in log : c.id >= minCursor}

PruneProcessedMutations(cutoff) == {p \in processed : p.at >= cutoff}

\* Where a page of the keys in S may end: after one key at least, so that the
\* client makes progress, after at most limit keys, and anywhere in between
\* when the byte budget cuts it.
PageEnds(S, limit) ==
    {k \in S : Cardinality({x \in S : x <= k}) \in 1..limit}

-----------------------------------------------------------------------------
(* The rest of the world *)

\* Devices that are no longer active drop out of the tracked set.
StillActive(devs, time) == tracked \cap ActiveAt(devs, time - Window)

Tick ==
    /\ now < MaxTime
    /\ now' = now + 1
    /\ tracked' = StillActive(devices, now + 1)
    /\ UNCHANGED <<tableVars, devices, seq, lock>>

\* Another user's mutation takes the next change_id.
OtherUserAppends ==
    /\ seq < MaxForeign
    /\ seq' = seq + 1
    /\ UNCHANGED <<tableVars, devices, lock, now, tracked>>
=============================================================================
