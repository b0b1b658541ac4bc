------------------------------ MODULE Telemetry ------------------------------
(***************************************************************************)
(* The telemetry of admin.Service (src/internal/admin/service.go): every   *)
(* request may leave an error event and leaves a metric; both travel over  *)
(* a bounded channel to one goroutine, flushLoop, which buffers them and   *)
(* writes them to PostgreSQL.                                              *)
(*                                                                         *)
(* A request stands for its metric and for its error event.  What the loop *)
(* still has to do before it selects again is a sequence of stages.        *)
(***************************************************************************)
EXTENDS Integers, Sequences, FiniteSets

CONSTANTS
    Requests,       \* the requests of a behaviour
    KeyOf,          \* metricKey: hour, method, route and status of a request
    Cap,            \* capacity of the channels metrics and errorLogs
    BatchSize,      \* a buffer of this size is flushed at once
    MaxFaults       \* bound: writes to the database that fail

ASSUME TelemetryAssumption == Cap \in Nat /\ MaxFaults \in Nat

VARIABLES
    metrics,        \* s.metrics
    errorLogs,      \* s.errorLogs
    buffer,         \* metrics received and not flushed
    errBuffer,      \* error events received and not flushed
    loop,           \* the stages flushLoop is about to go through
    upserts,        \* the aggregates that the flush under way has not written
    shutdown,       \* s.shutdown
    stopped,        \* s.stopChan is closed
    counted,        \* request_stats: how often each request was counted
    logged,         \* request_errors: how often each event was inserted
    pool,           \* the connection pool is open
    faults          \* failed writes so far

telemetryVars == <<metrics, errorLogs, buffer, errBuffer, loop, upserts, shutdown, stopped,
                   counted, logged, pool, faults>>

TelemetryInit ==
    /\ metrics = <<>> /\ errorLogs = <<>>
    /\ buffer = <<>> /\ errBuffer = <<>>
    /\ loop = <<"cleanup", "select">>
    /\ upserts = {}
    /\ shutdown = FALSE /\ stopped = FALSE
    /\ counted = [r \in Requests |-> 0] /\ logged = [r \in Requests |-> 0]
    /\ pool = TRUE
    /\ faults = 0

Keys(events) == {KeyOf[events[i]] : i \in DOMAIN events}

----------------------------------------------------------------------------
(* flushLoop. *)

At(stage) == Head(loop) = stage

GoesTo(stages) == loop' = stages /\ upserts' = IF Head(stages) = "flush" THEN Keys(buffer') ELSE {}

\* flushAll, and then either the next select or the end of the loop.
FlushAll == <<"flush", "flushErrors">>

\* DeleteOldErrors and DeleteOldRequestStats: rows of this run are too young.
RunCleanup ==
    /\ At("cleanup")
    /\ GoesTo(Tail(loop))
    /\ UNCHANGED <<metrics, errorLogs, buffer, errBuffer, shutdown, stopped, counted, logged, pool, faults>>

ReceiveMetric ==
    /\ Head(loop) \in {"select", "drain"}
    /\ metrics # <<>>
    /\ metrics' = Tail(metrics)
    /\ buffer' = Append(buffer, Head(metrics))
    /\ GoesTo(IF At("select") /\ Len(buffer') >= BatchSize THEN <<"flush", "select">> ELSE loop)
    /\ UNCHANGED <<errorLogs, errBuffer, shutdown, stopped, counted, logged, pool, faults>>

ReceiveError ==
    /\ Head(loop) \in {"select", "drain"}
    /\ errorLogs # <<>>
    /\ errorLogs' = Tail(errorLogs)
    /\ errBuffer' = Append(errBuffer, Head(errorLogs))
    /\ UNCHANGED buffer
    /\ GoesTo(IF At("select") /\ Len(errBuffer') >= BatchSize THEN <<"flushErrors", "select">> ELSE loop)
    /\ UNCHANGED <<metrics, shutdown, stopped, counted, logged, pool, faults>>

\* Either ticker fires, or stopChan is found closed.
TickerFires ==
    /\ At("select")
    /\ UNCHANGED buffer
    /\ GoesTo(FlushAll \o loop) \/ GoesTo(<<"cleanup">> \o loop)
    /\ UNCHANGED <<metrics, errorLogs, errBuffer, shutdown, stopped, counted, logged, pool, faults>>

SeeStop ==
    /\ At("select")
    /\ stopped
    /\ UNCHANGED buffer
    /\ GoesTo(<<"drain">>)
    /\ UNCHANGED <<metrics, errorLogs, errBuffer, shutdown, stopped, counted, logged, pool, faults>>

\* default: both channels are empty.
MutDrainForgetsFlush ==
    /\ At("drain")
    /\ metrics = <<>> /\ errorLogs = <<>>
    /\ UNCHANGED buffer
    /\ GoesTo(<<"flush", "done">>)
    /\ UNCHANGED <<metrics, errorLogs, errBuffer, shutdown, stopped, counted, logged, pool, faults>>

Drained ==
    /\ At("drain")
    /\ metrics = <<>> /\ errorLogs = <<>>
    /\ UNCHANGED buffer
    /\ GoesTo(FlushAll \o <<"done">>)
    /\ UNCHANGED <<metrics, errorLogs, errBuffer, shutdown, stopped, counted, logged, pool, faults>>

\* RecordRequestStat for one aggregate: the upsert adds its request_count.
Upsert(key) ==
    /\ At("flush")
    /\ key \in upserts
    /\ upserts' = upserts \ {key}
    /\ \/ /\ pool
          /\ counted' = [r \in Requests |->
                IF KeyOf[r] = key
                THEN counted[r] + Cardinality({i \in DOMAIN buffer : buffer[i] = r}) ELSE counted[r]]
          /\ UNCHANGED faults
       \/ /\ faults < MaxFaults              \* logged, and not repeated
          /\ faults' = faults + 1
          /\ UNCHANGED counted
    /\ UNCHANGED <<metrics, errorLogs, buffer, errBuffer, loop, shutdown, stopped, logged, pool>>

\* flush returns, and the buffer is emptied.
MutBufferKept ==
    /\ At("flush")
    /\ upserts = {}
    /\ UNCHANGED buffer
    /\ GoesTo(Tail(loop))
    /\ UNCHANGED <<metrics, errorLogs, errBuffer, shutdown, stopped, counted, logged, pool, faults>>

Flushed ==
    /\ At("flush")
    /\ upserts = {}
    /\ buffer' = <<>>
    /\ GoesTo(Tail(loop))
    /\ UNCHANGED <<metrics, errorLogs, errBuffer, shutdown, stopped, counted, logged, pool, faults>>

\* CopyRequestErrors inserts all rows or none.
FlushErrors ==
    /\ At("flushErrors")
    /\ \/ /\ errBuffer # <<>> => pool
          /\ logged' = [r \in Requests |-> logged[r] + Cardinality({i \in DOMAIN errBuffer : errBuffer[i] = r})]
          /\ UNCHANGED faults
       \/ /\ faults < MaxFaults
          /\ errBuffer # <<>>
          /\ faults' = faults + 1
          /\ UNCHANGED logged
    /\ errBuffer' = <<>>
    /\ UNCHANGED buffer
    /\ GoesTo(Tail(loop))
    /\ UNCHANGED <<metrics, errorLogs, shutdown, stopped, counted, pool>>

FlushLoop ==
    \/ RunCleanup \/ ReceiveMetric \/ ReceiveError \/ TickerFires \/ SeeStop \/ Drained
    \/ (\E key \in {KeyOf[r] : r \in Requests} : Upsert(key)) \/ Flushed \/ FlushErrors

----------------------------------------------------------------------------
(* The sends: select with a default, so they never wait. *)

MutSendUnbounded(channel, r) == channel' = Append(channel, r)

MutSendWaits(channel, r) == Len(channel) < Cap /\ channel' = Append(channel, r)

Send(channel, r) == channel' = IF Len(channel) < Cap THEN Append(channel, r) ELSE channel
=============================================================================
