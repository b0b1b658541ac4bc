------------------------------ MODULE ApiServer ------------------------------
(***************************************************************************)
(* The requests in flight: every handler serves one /v1/sync or            *)
(* /v1/snapshot request at a time (src/internal/httpapi).  A handler keeps *)
(* running when its client has stopped waiting, so a retry may be served   *)
(* beside the request it repeats.                                          *)
(***************************************************************************)
EXTENDS SyncDatabase, Sequences

CONSTANTS
    NoDevice,       \* the device of a handler that serves no request
    NoSession,      \* session_id of a solve that belongs to no session
    MaxFaults       \* bound: failures, timeouts and lost answers per behaviour

ASSUME ApiAssumption ==
    /\ MaxFaults \in Nat
    /\ NoSession \notin Sessions
    /\ NoDevice \notin Devices
    /\ Entities # {}

VARIABLES
    pc,         \* where each handler stands
    req,        \* the request it serves
    resp,       \* the response it has built so far
    mutation,   \* what each mutation id stands for, fixed when a client made it
    faults      \* failures so far

apiVars == <<pc, req, resp, mutation, faults>>

\* valid: the envelope and the data pass validateMutationEnvelope and
\* validateSession or validateSolve, and the entity is a known kind.
\* was: the row as the client knew it when it made the edit; its version is
\* base_version.
Mutation == [made : BOOLEAN, entity : Entities, op : {"upsert", "delete"}, was : Row,
             session : Sessions \cup {NoSession}, valid : BOOLEAN]

\* The content of an id that no client has used yet.
Unmade == [made |-> FALSE, entity |-> CHOOSE e \in Entities : TRUE, op |-> "upsert",
           was |-> NoRow, session |-> NoSession, valid |-> FALSE]

SyncSteps == {"received", "pull", "pullList", "begin", "lock", "apply", "commit", "ack"}

SnapshotSteps == {"snapUpsert", "snapWatermark", "snapPage"}

Request == [device : Devices \cup {NoDevice}, cursor : Nat, batch : Seq(Mutations),
            entity : {"none", "session", "solve"}, after : Nat]

Status == {"ok", "cursor_expired", "invalid", "error"}

\* changes, next and outcome answer a sync; items, next and entity a snapshot.
Response == [status : Status, changes : SUBSET Change, next : Nat, more : BOOLEAN,
             outcome : [Mutations -> Outcome \cup {NoOutcome}],
             items : [Entities -> Row], entity : {"none", "session", "solve"}, after : Nat]

NoOutcomes == [m \in Mutations |-> NoOutcome]

NoItems == [e \in Entities |-> NoRow]

\* A response that carries nothing but its status.
Bare(status) ==
    [status |-> status, changes |-> {}, next |-> 0, more |-> FALSE, outcome |-> NoOutcomes,
     items |-> NoItems, entity |-> "none", after |-> 0]

NoRequest ==
    [device |-> NoDevice, cursor |-> 0, batch |-> <<>>, entity |-> "none", after |-> 0]

ApiTypeOK ==
    /\ pc \in [Handlers -> {"idle", "reply"} \cup SyncSteps \cup SnapshotSteps]
    /\ req \in [Handlers -> Request]
    /\ \A h \in Handlers : pc[h] # "idle" => req[h].device \in Devices
    /\ resp \in [Handlers -> Response]
    /\ mutation \in [Mutations -> Mutation]
    /\ faults \in 0..MaxFaults

ApiInit ==
    /\ pc = [h \in Handlers |-> "idle"]
    /\ req = [h \in Handlers |-> NoRequest]
    /\ resp = [h \in Handlers |-> Bare("ok")]
    /\ mutation = [m \in Mutations |-> Unmade]
    /\ faults = 0

Goto(h, step) == pc' = [pc EXCEPT ![h] = step]

\* The handler has its answer and waits for the network.
Respond(h, r) ==
    /\ resp' = [resp EXCEPT ![h] = r]
    /\ Goto(h, "reply")

Fault ==
    /\ faults < MaxFaults
    /\ faults' = faults + 1
=============================================================================
