----------------------------- MODULE MCCubeSync -----------------------------
(* Small instances of CubeSync for TLC. *)
EXTENDS CubeSyncInvariants, TLC

Upsert(e) == [entity |-> e, op |-> "upsert", session |-> NoSession, valid |-> TRUE]

Delete(e) == [Upsert(e) EXCEPT !.op = "delete"]

\* One session that is written again and again.
OneEdit == {Upsert(1)}

\* One session that is written and deleted.
SessionEdits == {Upsert(1), Delete(1)}

\* The same, and data that fails validation.
RetryEdits == SessionEdits \cup {[Upsert(1) EXCEPT !.valid = FALSE]}

\* A session that is written and deleted, and a solve in that session.  The
\* session has the larger id, so that id order alone would send the solve first.
BatchEdits == {Upsert(2), Delete(2), [Upsert(1) EXCEPT !.session = 2]}

Symmetry == Permutations(Handlers) \cup Permutations(Mutations) \cup Permutations(Devices)
=============================================================================
