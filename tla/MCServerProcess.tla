--------------------------- MODULE MCServerProcess ---------------------------
(* Small instances of ServerProcess for TLC. *)
EXTENDS ServerProcess, TLC

CONSTANTS r1, r2, k1, k2

\* Two requests that fall into different aggregates.
TwoKeys == r1 :> k1 @@ r2 :> k2
=============================================================================
