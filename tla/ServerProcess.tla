---------------------------- MODULE ServerProcess ----------------------------
(***************************************************************************)
(* The server process (serve in src/cmd/api/main.go) around the telemetry: *)
(* request handlers leave an error event (writeError) and a metric         *)
(* (accessLog), a signal or a failing listener ends the process, and the   *)
(* deferred calls run last in, first out: the retention service, the       *)
(* telemetry, the pool.                                                    *)
(***************************************************************************)
EXTENDS Telemetry

VARIABLES
    handler,      \* where each request stands
    process,      \* the step that serve is at
    open,         \* connections may bring requests
    overdue,      \* serve went on without waiting for the last request
    accepted      \* auxiliary: the metrics and events that found room

vars == <<telemetryVars, handler, process, open, overdue, accepted>>

serverVars == <<handler, process, open, overdue, accepted>>

MutPoolFirst == [drain |-> "pool", pool |-> "retention", retention |-> "set_shutdown",
                 set_shutdown |-> "close_stopChan", close_stopChan |-> "await_done", await_done |-> "exit"]

\* What follows each step of the end: the deferred calls of serve.
Defers == [drain |-> "retention", retention |-> "set_shutdown", set_shutdown |-> "close_stopChan",
           close_stopChan |-> "await_done", await_done |-> "pool", pool |-> "exit"]

Init ==
    /\ TelemetryInit
    /\ handler = [r \in Requests |-> "absent"]
    /\ process = "serve"
    /\ open = TRUE
    /\ overdue = FALSE
    /\ accepted = {}

Doing(step) == process = step

----------------------------------------------------------------------------
(* A request. *)

\* Handlers run until the process is gone.
Moves(r, from, to) == /\ handler[r] = from
                      /\ ~Doing("exit")
                      /\ handler' = [handler EXCEPT ![r] = to]
                      /\ UNCHANGED <<process, open, overdue, buffer, errBuffer, loop, upserts, shutdown, stopped,
                                     counted, logged, pool, faults>>

Accept(r) == /\ open
             /\ Moves(r, "absent", "running")
             /\ UNCHANGED <<metrics, errorLogs, accepted>>

\* RecordErrorAsync: the test of the flag and the send are two steps.
WriteError(r) == /\ Moves(r, "running", IF shutdown THEN "answered" ELSE "send error")
                 /\ UNCHANGED <<metrics, errorLogs, accepted>>

SendError(r) == /\ Moves(r, "send error", "answered")
                /\ Send(errorLogs, r)
                /\ accepted' = IF errorLogs' # errorLogs THEN accepted \cup {<<"error", r>>} ELSE accepted
                /\ UNCHANGED metrics

Answer(r) == /\ Moves(r, "running", "answered")
             /\ UNCHANGED <<metrics, errorLogs, accepted>>

\* RecordRequestAsync, after the handler of the route.
AccessLog(r) == /\ Moves(r, "answered", IF shutdown THEN "returned" ELSE "send metric")
                /\ UNCHANGED <<metrics, errorLogs, accepted>>

SendMetric(r) == /\ Moves(r, "send metric", "returned")
                 /\ Send(metrics, r)
                 /\ accepted' = IF metrics' # metrics THEN accepted \cup {<<"metric", r>>} ELSE accepted
                 /\ UNCHANGED errorLogs

Handle(r) == WriteError(r) \/ SendError(r) \/ Answer(r) \/ AccessLog(r) \/ SendMetric(r)

----------------------------------------------------------------------------
(* The process. *)

Finished == \A r \in Requests : handler[r] \in {"absent", "returned"}

ProcessStep(step) == /\ Doing(step)
                     /\ process' = Defers[step]
                     /\ UNCHANGED <<handler, open, overdue, accepted, metrics, errorLogs, buffer, errBuffer, loop, upserts,
                                    counted, logged, faults>>

\* SIGINT or SIGTERM: server.Shutdown closes the listener and the idle
\* connections, and waits.
Signal == /\ Doing("serve")
          /\ process' = "drain"
          /\ open' = FALSE
          /\ UNCHANGED <<telemetryVars, handler, overdue, accepted>>

\* ListenAndServe returns an error: serve returns without waiting, and without
\* closing the connections that are open.
ListenFails == /\ Doing("serve")
               /\ process' = Defers.drain
               /\ overdue' = TRUE
               /\ UNCHANGED <<telemetryVars, handler, open, accepted>>

RequestsDrained == /\ Finished
                   /\ ProcessStep("drain")
                   /\ UNCHANGED <<shutdown, stopped, pool>>

\* ShutdownGracePeriod is over with requests still running.
GraceExpires == /\ ~Finished
                /\ Doing("drain")
                /\ process' = Defers.drain
                /\ overdue' = TRUE
                /\ UNCHANGED <<telemetryVars, handler, open, accepted>>

StopRetention == ProcessStep("retention") /\ UNCHANGED <<shutdown, stopped, pool>>

\* Shutdown of the telemetry: the flag, the channel, the wait.
SetShutdown == ProcessStep("set_shutdown") /\ shutdown' = TRUE /\ UNCHANGED <<stopped, pool>>

MutStopForgotten == ProcessStep("close_stopChan") /\ UNCHANGED <<shutdown, stopped, pool>>

CloseStopChan == ProcessStep("close_stopChan") /\ stopped' = TRUE /\ UNCHANGED <<shutdown, pool>>

AwaitDone == /\ Head(loop) = "done"
             /\ ProcessStep("await_done")
             /\ UNCHANGED <<shutdown, stopped, pool>>

\* pool.Close waits for the connections that requests have acquired; a request
\* that has one is still before its answer.
ClosePool == /\ \A r \in Requests : handler[r] # "running"
             /\ ProcessStep("pool")
             /\ pool' = FALSE
             /\ UNCHANGED <<shutdown, stopped>>

Shutdown == RequestsDrained \/ GraceExpires \/ StopRetention \/ SetShutdown \/ CloseStopChan \/ AwaitDone \/ ClosePool

LoopStep == ~Doing("exit") /\ FlushLoop /\ UNCHANGED serverVars

Next ==
    \/ \E r \in Requests : Accept(r) \/ Handle(r)
    \/ LoopStep
    \/ Signal \/ ListenFails \/ Shutdown

Spec == Init /\ [][Next]_vars

(* Only the requests themselves are scheduled: the flush loop may hang in  *)
(* the database for ever.                                                  *)
FairSpec == Spec /\ \A r \in Requests : WF_vars(Handle(r))

(* The other goroutines are scheduled too, writes have a timeout, and a    *)
(* select among ready cases picks stopChan in the end.                     *)
ProcessFairness == WF_vars(LoopStep) /\ SF_vars(SeeStop /\ UNCHANGED serverVars) /\ WF_vars(Shutdown)

----------------------------------------------------------------------------
(* Properties. *)

\* Channels and buffers hold requests, channels no more than their capacity.
TypeOK ==
    /\ metrics \in Seq(Requests) /\ errorLogs \in Seq(Requests)
    /\ Len(metrics) <= Cap /\ Len(errorLogs) <= Cap
    /\ buffer \in Seq(Requests) /\ errBuffer \in Seq(Requests)
    /\ upserts \subseteq {KeyOf[r] : r \in Requests}
    /\ counted \in [Requests -> Nat] /\ logged \in [Requests -> Nat]
    /\ handler \in [Requests -> {"absent", "running", "send error", "answered", "send metric", "returned"}]

(* A request is counted once and its error is listed once, however the     *)
(* flushes by size, by ticker and at the end follow one another            *)
(* (flushLoop, service.go:159-196).                                        *)
CountedOnce == \A r \in Requests : counted[r] <= 1 /\ logged[r] <= 1

(* The flush loop never writes through a closed pool: what waits in the    *)
(* buffers is written before the pool goes away (the order of the defers   *)
(* of serve, main.go:81-90).                                               *)
FlushedWhileOpen == ~pool => Head(loop) = "done"

Holds(queue, r) == \E i \in DOMAIN queue : queue[i] = r

Once(queue) == \A i, j \in DOMAIN queue : queue[i] = queue[j] => i = j

(* Unless a write failed, each metric and each error event that found room *)
(* in its channel is in the database when the process exits, with one      *)
(* exception: serve went on without the request, which passed the test of  *)
(* the shutdown flag, found the loop drained, and sent into a channel that *)
(* nobody reads any more.  When every request returned within the grace    *)
(* period nothing is lost (RecordRequestAsync, service.go:286-301;         *)
(* flushLoop, service.go:186-197).                                         *)
OrderlyShutdownKeepsAll ==
    Doing("exit") /\ faults = 0 =>
        /\ \A r \in Requests :
            /\ <<"metric", r>> \in accepted => counted[r] = 1 \/ Holds(metrics, r)
            /\ <<"error", r>> \in accepted => logged[r] = 1 \/ Holds(errorLogs, r)
        /\ ~overdue => metrics = <<>> /\ errorLogs = <<>>

(* A metric is in one place at a time: sent when its request returns, then *)
(* in the channel, then in the buffer, then counted, and while a flush is  *)
(* under way the aggregates it has not written yet tell the last two apart *)
(* (flush, service.go:225-262; RecordRequestAsync, service.go:286-301).    *)
MetricInOnePlace ==
    /\ Once(metrics) /\ Once(buffer)
    /\ \A r \in Requests :
        /\ handler[r] # "returned" =>
            /\ ~Holds(metrics, r) /\ ~Holds(buffer, r)
            /\ counted[r] = 0
            /\ <<"metric", r>> \notin accepted
        /\ Holds(metrics, r) => ~Holds(buffer, r) /\ counted[r] = 0
        /\ Holds(buffer, r) => IF At("flush") /\ KeyOf[r] \notin upserts
                               THEN faults = 0 => counted[r] = 1
                               ELSE counted[r] = 0
        /\ counted[r] <= 1
        /\ <<"metric", r>> \in accepted /\ faults = 0 =>
            Holds(metrics, r) \/ Holds(buffer, r) \/ counted[r] = 1

(* The same of an error event, which the route's handler sends before the  *)
(* metric (flushErrors, service.go:264-284).                               *)
ErrorInOnePlace ==
    /\ Once(errorLogs) /\ Once(errBuffer)
    /\ \A r \in Requests :
        /\ handler[r] \in {"absent", "running", "send error"} =>
            /\ ~Holds(errorLogs, r) /\ ~Holds(errBuffer, r)
            /\ logged[r] = 0
            /\ <<"error", r>> \notin accepted
        /\ Holds(errorLogs, r) => ~Holds(errBuffer, r) /\ logged[r] = 0
        /\ Holds(errBuffer, r) => logged[r] = 0
        /\ logged[r] <= 1
        /\ <<"error", r>> \in accepted /\ faults = 0 =>
            Holds(errorLogs, r) \/ Holds(errBuffer, r) \/ logged[r] = 1

\* What flushLoop may have left to do, until it sees stopChan and after.
LoopStages ==
    {<<"cleanup", "select">>, <<"select">>, <<"flush", "select">>, <<"flushErrors", "select">>,
     <<"flush", "flushErrors", "select">>}

LastStages == {<<"drain">>, <<"flush", "flushErrors", "done">>, <<"flushErrors", "done">>, <<"done">>}

(* The process and the flush loop end in step: the loop drains only after  *)
(* stopChan is closed, the pool waits for its end, no request is left      *)
(* unless serve went on without it, and from the drain on each of channels *)
(* and buffers stays empty once it is (serve, main.go:81-118; flushLoop,   *)
(* service.go:186-197).                                                    *)
EndsInOrder ==
    /\ loop \in LoopStages \cup LastStages
    /\ process \in {"serve", "exit"} \cup DOMAIN Defers
    /\ faults \in Nat
    /\ stopped => process \in {"await_done", "pool", "exit"}
    /\ loop \in LastStages => stopped
    /\ process \in {"pool", "exit"} => loop = <<"done">>
    /\ pool = (process # "exit")
    /\ open => process = "serve" \/ overdue
    /\ ~overdue /\ process \notin {"serve", "drain"} => Finished
    /\ ~overdue /\ loop \in LastStages \ {<<"drain">>} => metrics = <<>> /\ errorLogs = <<>>
    /\ loop \in {<<"flushErrors", "done">>, <<"done">>} => buffer = <<>>
    /\ loop = <<"done">> => errBuffer = <<>>

(* The inductive invariant: where each metric and each event is, and how   *)
(* far the end of the process has come (flushLoop and serve).              *)
DeliveryInv == MetricInOnePlace /\ ErrorInOnePlace /\ EndsInOrder

(* Shutdown ends if the flush loop does not hang: the wait for it and for  *)
(* the pool is over some time after the signal, also when requests outlive *)
(* the grace period (Shutdown, service.go:303-309).                        *)
ShutdownEnds == ProcessFairness => (~Doing("serve") ~> Doing("exit"))

(* A request never waits for the telemetry: it returns although the flush  *)
(* loop hangs and the channels are full (RecordRequestAsync,               *)
(* service.go:297-300).                                                    *)
RequestsNeverWait == \A r \in Requests : handler[r] # "absent" ~> handler[r] = "returned" \/ Doing("exit")
=============================================================================
