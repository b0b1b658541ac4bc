----------------------------- MODULE Statistics -----------------------------
(***************************************************************************)
(* GET /v1/stats (StatsService in src/internal/sync/retention.go): the     *)
(* solves are counted in one statement, and each average is read in one of *)
(* its own, while the user's devices add, change and delete solves.        *)
(*                                                                         *)
(* solves lists the rows that are not deleted in the order of the queries, *)
(* solved_at DESC, id DESC.                                                *)
(***************************************************************************)
EXTENDS Averages

CONSTANTS
    Times,          \* durations
    PlusTwo,        \* what a plus_two penalty adds
    Windows,        \* the n of the averages, ascending: 5, 12, 50, 100
    Edits,          \* solves that devices write
    Scenarios       \* bound: the solves at the start and how many edits follow

Solve == [ms : Times, penalty : {"none", "plus_two", "dnf"}]

ASSUME StatsAssumption ==
    /\ Windows \in Seq(Nat \ 0..2)
    /\ \A i, j \in DOMAIN Windows : i < j => Windows[i] < Windows[j]
    /\ \A t \in Times : t >= 0 /\ t + PlusTwo < DNF
    /\ Edits \subseteq Solve
    /\ \A s \in Scenarios : s.solves \in Seq(Solve) /\ s.edits \in Nat

VARIABLES
    solves,         \* the user's solves, most recent first
    request,        \* the request: how many windows are done, and its answer
    edits,          \* bound: how many edits are still to come
    fewest,         \* auxiliary: the fewest and the most solves the user had
    most            \* since the request began

vars == <<solves, request, edits, fewest, most>>

Idle == [at |-> "idle", count |-> 0, averages |-> <<>>]

Init ==
    /\ \E s \in Scenarios : solves = s.solves /\ edits = s.edits
    /\ request = Idle
    /\ fewest = Len(solves) /\ most = Len(solves)

\* effective_ms, and math.MaxInt64 for a DNF.
EffectiveMs(solve) == CASE solve.penalty = "dnf" -> DNF
                        [] solve.penalty = "plus_two" -> solve.ms + PlusTwo
                        [] solve.penalty = "none" -> solve.ms

MutCountWithoutDNF == Cardinality({i \in DOMAIN solves : solves[i].penalty # "dnf"})

\* counted_count + dnf_count of UserSolveStats.
UserSolveCount == Cardinality({i \in DOMAIN solves : solves[i].penalty # "dnf"})
                    + Cardinality({i \in DOMAIN solves : solves[i].penalty = "dnf"})

\* UserSolveAoN: the n most recent solves.
UserSolveAoN(n) == LET rows == SubSeq(solves, 1, Min({n, Len(solves)}))
                   IN  [i \in DOMAIN rows |-> EffectiveMs(rows[i])]

ReadCounts ==
    /\ request.at = "idle"
    /\ request' = [at |-> "averages", count |-> UserSolveCount, averages |-> <<>>]
    /\ fewest' = Len(solves) /\ most' = Len(solves)
    /\ UNCHANGED <<solves, edits>>

\* The next window, or the end of the loop.
ReadWindow ==
    LET done == Len(request.averages)
    IN  /\ request.at = "averages"
        /\ IF done = Len(Windows) \/ request.count < Windows[done + 1]
           THEN request' = [request EXCEPT !.at = "answer"]
           ELSE request' = [request EXCEPT !.averages =
                    Append(@, ComputeAoNFromTimes(UserSolveAoN(Windows[done + 1]), Windows[done + 1]))]
        /\ UNCHANGED <<solves, edits, fewest, most>>

Answer == /\ request.at = "answer"
          /\ request' = Idle
          /\ UNCHANGED <<solves, edits, fewest, most>>

\* A statement fails, and so does the request.
Fail == /\ request.at = "averages"
        /\ request' = Idle
        /\ UNCHANGED <<solves, edits, fewest, most>>

\* A mutation of the user, at the place its solved_at gives it.
Changes(new) == /\ edits > 0
                /\ edits' = edits - 1
                /\ solves' = new
                /\ fewest' = Min({fewest, Len(new)})
                /\ most' = Max({most, Len(new)})
                /\ UNCHANGED request

UpsertSolve == \E s \in Edits, i \in 1..(Len(solves) + 1) :
    \/ Changes(InsertAt(solves, i, s))
    \/ i <= Len(solves) /\ Changes([solves EXCEPT ![i] = s])

DeleteSolve == \E i \in DOMAIN solves : Changes(RemoveAt(solves, i))

Next == ReadCounts \/ ReadWindow \/ Answer \/ Fail \/ UpsertSolve \/ DeleteSolve

Spec == Init /\ [][Next]_vars

----------------------------------------------------------------------------
(* Properties. *)

(* An average is none, a DNF, or a time that a solve could have had        *)
(* (computeAoN, retention.go:83-109).                                      *)
TypeOK ==
    /\ solves \in Seq(Solve)
    /\ request.at \in {"idle", "averages", "answer"}
    /\ request.count \in 0..most
    /\ request.averages \in Seq({NoAverage, DNFAverage} \cup {Mean(ms) : ms \in 0..(Max(Times) + PlusTwo)})
    /\ Len(request.averages) <= Len(Windows)
    /\ fewest <= most /\ edits \in Nat

(* The average that would be read now for each window is the right one:    *)
(* penalties, trimming, DNF rule and rounding (retention.go:83-132).       *)
WindowsAreRight ==
    \A w \in DOMAIN Windows :
        RightAverage([i \in DOMAIN solves |-> EffectiveMs(solves[i])], Windows[w],
                     ComputeAoNFromTimes(UserSolveAoN(Windows[w]), Windows[w]))

(* An answer leaves an average out only if the user had too few solves for *)
(* it at some moment of the request, and gives one only if the user had    *)
(* enough, although the solves change between its statements               *)
(* (ComputeStats, retention.go:52-61).                                     *)
MissingMeansTooFew ==
    request.at = "answer" =>
        \A w \in DOMAIN Windows :
            LET given == w <= Len(request.averages) /\ request.averages[w].kind # "none"
            IN  (~given => fewest < Windows[w]) /\ (given => most >= Windows[w])

(* docs/sync-protocol.md:125: "more than one DNF in a window makes that    *)
(* average a DNF".  Whenever a window is read with more than one DNF in    *)
(* it, its average is a DNF.                                               *)
TwoDNFsMakeADNF ==
    [][\A w \in DOMAIN Windows :
          /\ Len(request.averages) = w - 1 /\ Len(request'.averages) = w
          /\ Len(solves) >= Windows[w]
          /\ Cardinality({i \in 1..Windows[w] : solves[i].penalty = "dnf"}) > 1
          => request'.averages[w].kind = "dnf"]_vars
=============================================================================
