---------------------------- MODULE MCStatistics ----------------------------
(* Small instances of Statistics for TLC. *)
EXTENDS Statistics, TLC

Fast == [ms |-> 0, penalty |-> "none"]

Slow == [ms |-> 3, penalty |-> "plus_two"]

NoFinish == [ms |-> 0, penalty |-> "dnf"]

SomeEdits == {Fast, Slow, NoFinish}

\* The windows of the endpoint.
RealWindows == <<5, 12, 50, 100>>

\* A user with dnf unfinished, slow and, for the rest, fast solves.
Composed(n, dnf, slow) ==
    [i \in 1..n |-> IF i <= dnf THEN NoFinish ELSE IF i <= dnf + slow THEN Slow ELSE Fast]

(* A new user whose first solves are edited freely, users that edits take  *)
(* across the edge of the first or the second window, and, without edits,  *)
(* users with enough solves for all windows, in every composition that     *)
(* differs in what is trimmed.                                             *)
SomeScenarios ==
    {[solves |-> <<>>, edits |-> 6]}
    \cup {[solves |-> Composed(n, dnf, 2), edits |-> 2] : n \in {5, 12}, dnf \in 0..2}
    \cup {[solves |-> Composed(100, dnf, slow), edits |-> 0] : dnf \in 0..12, slow \in 0..88}

\* Users with enough solves for all windows, a few of them unfinished.
FullWindows == {[solves |-> Composed(100, dnf, 2), edits |-> 0] : dnf \in 0..6}
=============================================================================
