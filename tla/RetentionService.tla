-------------------------- MODULE RetentionService --------------------------
(***************************************************************************)
(* The background retention job (RetentionService in                       *)
(* src/internal/sync/retention.go).  A run computes its cutoff once, reads *)
(* the smallest cursor that an active device has acknowledged, and then    *)
(* prunes; each statement commits on its own, so syncs and snapshots run   *)
(* between any two of them.                                                *)
(***************************************************************************)
EXTENDS SyncDatabase

VARIABLE ret    \* the retention goroutine: step, cutoff and minCursor

RetentionSteps == {"waiting", "min", "pruneLog", "pruneMutations"}

RetentionTypeOK == ret \in [step : RetentionSteps, cutoff : Int, min : Nat]

RetWaiting == [step |-> "waiting", cutoff |-> 0, min |-> 0]

RetentionInit == ret = RetWaiting

\* The ticker fires; ListUsersWithChanges skips a user without changes.
StartRun ==
    /\ ret.step = "waiting"
    /\ log # {}
    /\ ret' = [RetWaiting EXCEPT !.step = "min", !.cutoff = now - Window]
    /\ UNCHANGED dbVars

\* MinValidCursorForUser; 0 means that some active device has acknowledged
\* nothing, or that no device is active: nothing is pruned.
ReadMinCursor ==
    /\ ret.step = "min"
    /\ LET minCursor == MinValidCursorForUser(ret.cutoff)
       IN  ret' = IF minCursor <= 0 THEN RetWaiting
                  ELSE [ret EXCEPT !.step = "pruneLog", !.min = minCursor]
    /\ UNCHANGED dbVars

PruneLog ==
    /\ ret.step = "pruneLog"
    /\ log' = PruneChangeLog(ret.min)
    /\ ret' = [ret EXCEPT !.step = "pruneMutations"]
    /\ UNCHANGED <<rows, processed, history, devices, seq, lock, now, tracked>>

PruneMutations ==
    /\ ret.step = "pruneMutations"
    /\ processed' = PruneProcessedMutations(ret.cutoff)
    /\ ret' = RetWaiting
    /\ UNCHANGED <<rows, log, history, devices, seq, lock, now, tracked>>

\* A failed statement is logged: without minCursor the user is skipped, after a
\* failed change_log prune the processed mutations are still pruned.
RetentionStatementFails ==
    /\ ret.step \in {"min", "pruneLog", "pruneMutations"}
    /\ ret' = IF ret.step = "pruneLog" THEN [ret EXCEPT !.step = "pruneMutations"]
              ELSE RetWaiting
    /\ UNCHANGED dbVars

RetentionStep == StartRun \/ ReadMinCursor \/ PruneLog \/ PruneMutations
=============================================================================
