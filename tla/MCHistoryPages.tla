--------------------------- MODULE MCHistoryPages ---------------------------
(* Small instances of HistoryPages for TLC. *)
EXTENDS HistoryPages, TLC

AllEndpoints == {"sessions", "solves", "errors"}
=============================================================================
