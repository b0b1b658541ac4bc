------------------------------ MODULE Averages ------------------------------
(***************************************************************************)
(* The average of n of the statistics endpoint                             *)
(* (computeAoNFromTimes in src/internal/sync/retention.go), and what it    *)
(* should be, defined by counting instead of sorting.                      *)
(***************************************************************************)
EXTENDS Integers, Sequences, FiniteSets, FiniteSetsExt, SequencesExt

CONSTANT DNF      \* math.MaxInt64: greater than any time

NoAverage == [kind |-> "none", ms |-> 0]
DNFAverage == [kind |-> "dnf", ms |-> 0]
Mean(ms) == [kind |-> "mean", ms |-> ms]

MutTrimFloor(n) == n \div 20

\* ceil(5%) of n.
TrimCount(n) == (n + 19) \div 20

\* The mean in whole milliseconds, rounded to the nearest.
RoundedMean(times) ==
    (FoldSeq(LAMBDA t, acc : t + acc, 0, times) + Len(times) \div 2) \div Len(times)

MutDNFIsATime(times, n) ==
    IF n <= 0 \/ Len(times) < n THEN NoAverage
    ELSE LET sorted == SortSeq(SubSeq(times, 1, n), <)
             k == TrimCount(n)
             trimmed == SubSeq(sorted, k + 1, n - k)
         IN  IF trimmed[1] = DNF THEN DNFAverage ELSE Mean(RoundedMean(trimmed))

ComputeAoNFromTimes(times, n) ==
    IF n <= 0 \/ Len(times) < n THEN NoAverage
    ELSE LET sorted == SortSeq(SubSeq(times, 1, n), <)
             k == TrimCount(n)
             trimmed == SubSeq(sorted, k + 1, n - k)
         IN  IF trimmed[Len(trimmed)] = DNF THEN DNFAverage ELSE Mean(RoundedMean(trimmed))

----------------------------------------------------------------------------
(* The reference: the rule that the comment of computeAoNFromTimes states. *)

CountOf(times, n, Test(_)) == Cardinality({i \in 1..n : Test(times[i])})

\* The fewest times that make up 5% of n.
FivePercent(n) == Min({k \in 0..n : 20 * k >= n})

\* How many of the times ranked first..last are v.
Copies(times, n, v, first, last) ==
    LET upto == CountOf(times, n, LAMBDA t : t <= v)
        below == CountOf(times, n, LAMBDA t : t < v)
    IN  Max({0, Min({upto, last}) - Max({below, first - 1})})

\* The sum of the times that are neither among the k smallest nor among the k
\* largest of the window.
MiddleSum(times, n) ==
    LET k == FivePercent(n)
    IN  FoldSet(LAMBDA v, acc : acc + v * Copies(times, n, v, k + 1, n - k), 0,
                              {times[i] : i \in 1..n} \ {DNF})

(* An average of n is a DNF exactly when trimming leaves a DNF; otherwise  *)
(* it is at most half a millisecond away from the mean of the times that   *)
(* trimming leaves (retention.go:114-132).                                 *)
RightAverage(times, n, average) ==
    LET k == FivePercent(n)
        count == n - 2 * k
        tooMany == CountOf(times, n, LAMBDA t : t = DNF) > k
    IN  CASE Len(times) < n -> average.kind = "none"
          [] Len(times) >= n /\ tooMany -> average.kind = "dnf"
          [] OTHER -> /\ average.kind = "mean"
                      /\ 2 * (average.ms * count - MiddleSum(times, n)) <= count
                      /\ 2 * (MiddleSum(times, n) - average.ms * count) <= count
=============================================================================
