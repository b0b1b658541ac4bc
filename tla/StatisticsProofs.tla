-------------------------- MODULE StatisticsProofs --------------------------
(***************************************************************************)
(* Proof that an answer of GET /v1/stats leaves an average out only for a  *)
(* reason, however many solves the user has, whatever the windows are and  *)
(* whatever the devices write between the statements of the request.       *)
(***************************************************************************)
EXTENDS Statistics, FiniteSetTheorems, TLAPS

(* The averages are read in the order of the windows, and none is read     *)
(* twice: what the request has of them is a sequence.                      *)
AveragesAreASequence ==
    /\ \E S : request.averages \in Seq(S)
    /\ Len(request.averages) <= Len(Windows)

(* The auxiliary bounds enclose the number of solves now, and the number   *)
(* that the first statement counted.                                       *)
BoundsEnclose ==
    /\ fewest \in Nat /\ most \in Nat
    /\ fewest <= Len(solves) /\ Len(solves) <= most
    /\ request.at # "idle" => /\ request.count \in Nat
                              /\ fewest <= request.count /\ request.count <= most

(* Every average that has been read is none only for too few solves, and a *)
(* DNF or a time only for enough.                                          *)
AveragesAreJustified ==
    \A w \in 1..Len(request.averages) :
        IF request.averages[w].kind = "none" THEN fewest < Windows[w]
                                             ELSE most >= Windows[w]

(* The loop ends at the last window, or at one that the count is below.    *)
LoopEndsForAReason ==
    request.at = "answer" =>
        \/ Len(request.averages) = Len(Windows)
        \/ request.count < Windows[Len(request.averages) + 1]

StatisticsInv ==
    /\ solves \in Seq(Solve)
    /\ edits \in Nat
    /\ request = [at |-> request.at, count |-> request.count, averages |-> request.averages]
    /\ AveragesAreASequence
    /\ BoundsEnclose
    /\ AveragesAreJustified
    /\ LoopEndsForAReason

----------------------------------------------------------------------------
(* Operators. *)

(* Min of two natural numbers is the smaller one, Max the greater one.     *)
LEMMA TwoNumbers ==
    ASSUME NEW a \in Nat, NEW b \in Nat
    PROVE  /\ Min({a, b}) = IF a <= b THEN a ELSE b
           /\ Max({a, b}) = IF a >= b THEN a ELSE b
<1>1. Min({a, b}) = IF a <= b THEN a ELSE b
  <2> DEFINE m == IF a <= b THEN a ELSE b
             n == CHOOSE x \in {a, b} : \A y \in {a, b} : x =< y
  <2>1. m \in {a, b} /\ \A y \in {a, b} : m =< y
    OBVIOUS
  <2>2. n \in {a, b} /\ \A y \in {a, b} : n =< y
    BY <2>1
  <2>3. n = m
    BY <2>1, <2>2
  <2> QED BY <2>3 DEF Min
<1>2. Max({a, b}) = IF a >= b THEN a ELSE b
  <2> DEFINE m == IF a >= b THEN a ELSE b
             n == CHOOSE x \in {a, b} : \A y \in {a, b} : x >= y
  <2>1. m \in {a, b} /\ \A y \in {a, b} : m >= y
    OBVIOUS
  <2>2. n \in {a, b} /\ \A y \in {a, b} : n >= y
    BY <2>1
  <2>3. n = m
    BY <2>1, <2>2
  <2> QED BY <2>3 DEF Max
<1> QED BY <1>1, <1>2

(* UserSolveStats counts every solve once: the solves with a time and the  *)
(* DNFs (UserSolveStats, retention.go:38-44).                              *)
LEMMA EverySolveIsCounted ==
    ASSUME solves \in Seq(Solve)
    PROVE  UserSolveCount = Len(solves)
<1> DEFINE D == {i \in DOMAIN solves : solves[i].penalty = "dnf"}
           C == {i \in DOMAIN solves : solves[i].penalty # "dnf"}
           n == Len(solves)
<1>1. n \in Nat /\ DOMAIN solves = 1..n
  OBVIOUS
<1>2. IsFiniteSet(1..n) /\ Cardinality(1..n) = n
  BY <1>1, FS_Interval
<1>3. C \in SUBSET (1..n) /\ D \in SUBSET (1..n)
  BY <1>1
<1>4. IsFiniteSet(C) /\ IsFiniteSet(D)
  BY <1>2, <1>3, FS_Subset
<1>5. C \cup D = 1..n /\ C \cap D = {}
  BY <1>1
<1>6. Cardinality(C \cup D) = Cardinality(C) + Cardinality(D) - Cardinality(C \cap D)
  BY <1>4, FS_Union
<1>7. Cardinality(C) \in Nat /\ Cardinality(D) \in Nat
  BY <1>4, FS_CardinalityType
<1>8. Cardinality(C \cap D) = 0
  BY <1>5, FS_EmptySet
<1>9. Cardinality(C \cup D) = n
  BY <1>2, <1>5, Zenon
<1> DEFINE c == Cardinality(C)
           d == Cardinality(D)
<1>10. n = c + d - 0
  BY <1>6, <1>8, <1>9, Zenon
<1>11. c \in Nat /\ d \in Nat
  BY <1>7
<1>12. c + d = n
  <2> HIDE DEF c, d, n
  <2> QED BY <1>1, <1>10, <1>11
<1> QED BY <1>12 DEF UserSolveCount

(* UserSolveAoN reads n solves, or all of them if there are fewer.         *)
LEMMA RowsOfAWindow ==
    ASSUME solves \in Seq(Solve), NEW n \in Nat
    PROVE  Len(UserSolveAoN(n)) = IF n <= Len(solves) THEN n ELSE Len(solves)
<1> DEFINE m == Min({n, Len(solves)})
           rows == SubSeq(solves, 1, m)
<1>1. Len(solves) \in Nat
  OBVIOUS
<1>2. m = IF n <= Len(solves) THEN n ELSE Len(solves)
  BY <1>1, TwoNumbers
<1> HIDE DEF m
<1>3. DOMAIN rows = 1..m /\ m \in Nat
  BY <1>1, <1>2
<1>4. UserSolveAoN(n) = [i \in 1..m |-> EffectiveMs(rows[i])]
  BY <1>3, Zenon DEF UserSolveAoN, m
<1>5. Len([i \in 1..m |-> EffectiveMs(rows[i])]) = m
  <2> HIDE DEF rows
  <2> DEFINE f == [i \in 1..m |-> EffectiveMs(rows[i])]
  <2>1. DOMAIN f = 1..m
    OBVIOUS
  <2> HIDE DEF f
  <2>2. Len(f) = m
    BY <2>1, <1>3
  <2> QED BY <2>2 DEF f
<1> QED BY <1>2, <1>4, <1>5, Zenon

(* An average is none exactly when there are fewer times than the window   *)
(* takes (computeAoNFromTimes, retention.go:88-91).                        *)
LEMMA NoneMeansTooFewTimes ==
    ASSUME NEW times, Len(times) \in Nat, NEW n \in Nat \ 0..2
    PROVE  ComputeAoNFromTimes(times, n).kind = "none" <=> Len(times) < n
<1>1. ~(n <= 0)
  OBVIOUS
<1>2. /\ NoAverage.kind = "none"
      /\ DNFAverage.kind = "dnf"
      /\ \A ms : Mean(ms).kind = "mean"
  BY DEF NoAverage, DNFAverage, Mean
<1>3. CASE Len(times) < n
  <2>1. ComputeAoNFromTimes(times, n) = NoAverage
    BY <1>3, Zenon DEF ComputeAoNFromTimes
  <2> QED BY <2>1, <1>2, <1>3
<1>4. CASE ~(Len(times) < n)
  <2>1. \/ ComputeAoNFromTimes(times, n) = DNFAverage
        \/ \E ms : ComputeAoNFromTimes(times, n) = Mean(ms)
    BY <1>1, <1>4, Zenon DEF ComputeAoNFromTimes
  <2> QED BY <2>1, <1>2, <1>4
<1> QED BY <1>3, <1>4

(* A solve that is written, changed or deleted leaves a sequence of solves.*)
LEMMA EditsKeepSolves ==
    ASSUME solves \in Seq(Solve), NEW s \in Solve
    PROVE  /\ \A i \in 1..(Len(solves) + 1) : InsertAt(solves, i, s) \in Seq(Solve)
           /\ \A i \in 1..Len(solves) : [solves EXCEPT ![i] = s] \in Seq(Solve)
           /\ \A i \in 1..Len(solves) : RemoveAt(solves, i) \in Seq(Solve)
<1>1. ASSUME NEW i \in 1..(Len(solves) + 1)
      PROVE  InsertAt(solves, i, s) \in Seq(Solve)
  <2>1. SubSeq(solves, 1, i - 1) \in Seq(Solve) /\ SubSeq(solves, i, Len(solves)) \in Seq(Solve)
    OBVIOUS
  <2>2. <<s>> \in Seq(Solve)
    OBVIOUS
  <2> QED BY <2>1, <2>2 DEF InsertAt
<1>2. ASSUME NEW i \in 1..Len(solves)
      PROVE  [solves EXCEPT ![i] = s] \in Seq(Solve)
  OBVIOUS
<1>3. ASSUME NEW i \in 1..Len(solves)
      PROVE  RemoveAt(solves, i) \in Seq(Solve)
  <2>1. SubSeq(solves, 1, i - 1) \in Seq(Solve) /\ SubSeq(solves, i + 1, Len(solves)) \in Seq(Solve)
    OBVIOUS
  <2> QED BY <2>1 DEF RemoveAt
<1> QED BY <1>1, <1>2, <1>3

(* A sequence that is one longer is the sequence and its new element.      *)
LEMMA OneMore ==
    ASSUME NEW S, NEW s \in Seq(S), NEW e
    PROVE  /\ Append(s, e) \in Seq(S \cup {e})
           /\ Len(s) \in Nat
           /\ Len(Append(s, e)) = Len(s) + 1
           /\ \A w \in 1..Len(s) : Append(s, e)[w] = s[w]
           /\ Append(s, e)[Len(s) + 1] = e
<1> DEFINE T == S \cup {e}
<1>1. S \subseteq T /\ e \in T
  OBVIOUS
<1> HIDE DEF T
<1>2. s \in Seq(T)
  BY <1>1
<1>3. Append(s, e) \in Seq(T)
  BY <1>1, <1>2
<1> QED BY <1>2, <1>3 DEF T

----------------------------------------------------------------------------
(* The inductive invariant. *)

LEMMA StatisticsInit == Init => StatisticsInv
<1> SUFFICES ASSUME Init
             PROVE  StatisticsInv
  OBVIOUS
<1>1. PICK s \in Scenarios : solves = s.solves /\ edits = s.edits
  BY DEF Init
<1>2. solves \in Seq(Solve) /\ edits \in Nat
  BY <1>1, StatsAssumption
<1>3. Len(solves) \in Nat /\ Len(Windows) \in Nat
  BY <1>2, StatsAssumption
<1>4. /\ request = [at |-> "idle", count |-> 0, averages |-> <<>>]
      /\ fewest = Len(solves) /\ most = Len(solves)
  BY DEF Init, Idle
<1>5. request.at = "idle" /\ request.count = 0 /\ request.averages = <<>>
  BY <1>4
<1>6. AveragesAreASequence
  BY <1>3, <1>5 DEF AveragesAreASequence
<1>7. BoundsEnclose
  BY <1>3, <1>4, <1>5 DEF BoundsEnclose
<1>8. AveragesAreJustified
  BY <1>5 DEF AveragesAreJustified
<1>9. LoopEndsForAReason
  BY <1>5 DEF LoopEndsForAReason
<1>10. request = [at |-> request.at, count |-> request.count, averages |-> request.averages]
  BY <1>4, <1>5
<1> QED BY <1>2, <1>6, <1>7, <1>8, <1>9, <1>10 DEF StatisticsInv

(* The request begins: it counts the solves that there are.                *)
LEMMA ReadCountsKeeps == StatisticsInv /\ ReadCounts => StatisticsInv'
<1> SUFFICES ASSUME StatisticsInv, ReadCounts
             PROVE  StatisticsInv'
  OBVIOUS
<1>1. solves \in Seq(Solve) /\ edits \in Nat
  BY DEF StatisticsInv
<1>2. Len(solves) \in Nat /\ Len(Windows) \in Nat
  BY <1>1, StatsAssumption
<1>3. /\ request' = [at |-> "averages", count |-> UserSolveCount, averages |-> <<>>]
      /\ fewest' = Len(solves) /\ most' = Len(solves)
      /\ solves' = solves /\ edits' = edits
  BY DEF ReadCounts
<1>4. request'.at = "averages" /\ request'.count = Len(solves) /\ request'.averages = <<>>
  BY <1>1, <1>3, EverySolveIsCounted
<1>5. AveragesAreASequence'
  BY <1>2, <1>4 DEF AveragesAreASequence
<1>6. BoundsEnclose'
  BY <1>2, <1>3, <1>4 DEF BoundsEnclose
<1>7. AveragesAreJustified'
  BY <1>4 DEF AveragesAreJustified
<1>8. LoopEndsForAReason'
  BY <1>4 DEF LoopEndsForAReason
<1>9. (request = [at |-> request.at, count |-> request.count, averages |-> request.averages])'
  BY <1>3
<1> QED BY <1>1, <1>3, <1>5, <1>6, <1>7, <1>8, <1>9 DEF StatisticsInv

(* The end of the loop.                                                    *)
LEMMA LoopEndKeeps ==
    ASSUME StatisticsInv,
           request.at = "averages",
           \/ Len(request.averages) = Len(Windows)
           \/ request.count < Windows[Len(request.averages) + 1],
           request' = [request EXCEPT !.at = "answer"],
           UNCHANGED <<solves, edits, fewest, most>>
    PROVE  StatisticsInv'
<1>1. /\ request'.at = "answer"
      /\ request'.count = request.count /\ request'.averages = request.averages
      /\ (request = [at |-> request.at, count |-> request.count, averages |-> request.averages])'
  BY DEF StatisticsInv
<1>2. AveragesAreASequence'
  BY <1>1 DEF StatisticsInv, AveragesAreASequence
<1>3. BoundsEnclose'
  BY <1>1 DEF StatisticsInv, BoundsEnclose
<1>4. AveragesAreJustified'
  BY <1>1 DEF StatisticsInv, AveragesAreJustified
<1>5. LoopEndsForAReason'
  BY <1>1 DEF LoopEndsForAReason
<1> QED BY <1>1, <1>2, <1>3, <1>4, <1>5 DEF StatisticsInv

(* One more window: its average says how many solves there are now.        *)
LEMMA WindowKeeps ==
    ASSUME StatisticsInv,
           request.at = "averages",
           Len(request.averages) # Len(Windows),
           NEW n, n = Windows[Len(request.averages) + 1],
           NEW average, average = ComputeAoNFromTimes(UserSolveAoN(n), n),
           request' = [request EXCEPT !.averages = Append(@, average)],
           UNCHANGED <<solves, edits, fewest, most>>
    PROVE  StatisticsInv'
<1> DEFINE done == Len(request.averages)
<1>1. /\ \E S : request.averages \in Seq(S)
      /\ done <= Len(Windows)
      /\ fewest \in Nat /\ most \in Nat
      /\ Len(solves) \in Nat /\ fewest <= Len(solves) /\ Len(solves) <= most
      /\ solves \in Seq(Solve)
      /\ Windows \in Seq(Nat \ 0..2)
  BY StatsAssumption DEF StatisticsInv, AveragesAreASequence, BoundsEnclose
<1>2. /\ request'.at = "averages"
      /\ request'.count = request.count
      /\ request'.averages = Append(request.averages, average)
      /\ (request = [at |-> request.at, count |-> request.count, averages |-> request.averages])'
  BY DEF StatisticsInv
<1>3. /\ \E S : request'.averages \in Seq(S)
      /\ done \in Nat
      /\ Len(request'.averages) = done + 1
      /\ \A w \in 1..done : request'.averages[w] = request.averages[w]
      /\ request'.averages[done + 1] = average
  <2> DEFINE a == request.averages
  <2>1. PICK S : a \in Seq(S)
    BY <1>1
  <2> HIDE DEF a
  <2>2. Append(a, average) \in Seq(S \cup {average})
    BY <2>1, OneMore
  <2>3. Len(a) \in Nat /\ Len(Append(a, average)) = Len(a) + 1
    BY <2>1, OneMore
  <2>4. \A w \in 1..Len(a) : Append(a, average)[w] = a[w]
    BY <2>1, OneMore
  <2>5. Append(a, average)[Len(a) + 1] = average
    BY <2>1, OneMore
  <2> QED BY <1>2, <2>2, <2>3, <2>4, <2>5, Zenon DEF a
<1>4. n \in Nat \ 0..2 /\ done + 1 <= Len(Windows)
  BY <1>1, <1>3
<1>5. average.kind = "none" <=> Len(solves) < n
  <2>1. Len(UserSolveAoN(n)) = IF n <= Len(solves) THEN n ELSE Len(solves)
    BY <1>1, <1>4, RowsOfAWindow
  <2>2. Len(UserSolveAoN(n)) \in Nat
    BY <1>1, <1>4, <2>1
  <2>3. average.kind = "none" <=> Len(UserSolveAoN(n)) < n
    BY <1>4, <2>2, NoneMeansTooFewTimes
  <2> QED BY <1>1, <1>4, <2>1, <2>3
<1>6. AveragesAreASequence'
  BY <1>3, <1>4 DEF AveragesAreASequence
<1>7. BoundsEnclose'
  BY <1>2 DEF StatisticsInv, BoundsEnclose
<1>8. AveragesAreJustified'
  <2> SUFFICES ASSUME NEW w \in 1..(done + 1)
               PROVE  IF request'.averages[w].kind = "none" THEN fewest < Windows[w]
                                                            ELSE most >= Windows[w]
    BY <1>3 DEF AveragesAreJustified
  <2>1. CASE w = done + 1
    BY <2>1, <1>1, <1>3, <1>4, <1>5
  <2>2. CASE w # done + 1
    <3>1. w \in 1..done
      BY <2>2, <1>3
    <3> QED BY <3>1, <1>3 DEF StatisticsInv, AveragesAreJustified
  <2> QED BY <2>1, <2>2
<1>9. LoopEndsForAReason'
  BY <1>2 DEF LoopEndsForAReason
<1>10. solves' \in Seq(Solve) /\ edits' \in Nat
  BY DEF StatisticsInv
<1> QED BY <1>2, <1>6, <1>7, <1>8, <1>9, <1>10 DEF StatisticsInv

LEMMA ReadWindowKeeps == StatisticsInv /\ ReadWindow => StatisticsInv'
<1> SUFFICES ASSUME StatisticsInv, ReadWindow
             PROVE  StatisticsInv'
  OBVIOUS
<1> DEFINE done == Len(request.averages)
           n == Windows[done + 1]
           average == ComputeAoNFromTimes(UserSolveAoN(n), n)
<1>1. request.at = "averages" /\ UNCHANGED <<solves, edits, fewest, most>>
  BY DEF ReadWindow
<1>2. CASE done = Len(Windows) \/ request.count < n
  <2>1. request' = [request EXCEPT !.at = "answer"]
    BY <1>2, Zenon DEF ReadWindow
  <2> QED BY <1>1, <1>2, <2>1, LoopEndKeeps
<1>3. CASE ~(done = Len(Windows) \/ request.count < n)
  <2>1. request' = [request EXCEPT !.averages = Append(@, average)]
    BY <1>3, Zenon DEF ReadWindow
  <2>2. Len(request.averages) # Len(Windows)
    BY <1>3
  <2> HIDE DEF average
  <2> QED BY <1>1, <2>1, <2>2, WindowKeeps DEF average
<1> QED BY <1>2, <1>3

(* The answer, or the failure of a statement.                              *)
LEMMA EndKeeps == StatisticsInv /\ (Answer \/ Fail) => StatisticsInv'
<1> SUFFICES ASSUME StatisticsInv, Answer \/ Fail
             PROVE  StatisticsInv'
  OBVIOUS
<1>1. /\ request' = [at |-> "idle", count |-> 0, averages |-> <<>>]
      /\ UNCHANGED <<solves, edits, fewest, most>>
  BY DEF Answer, Fail, Idle
<1>2. request'.at = "idle" /\ request'.averages = <<>>
  BY <1>1
<1>3. Len(Windows) \in Nat
  BY StatsAssumption
<1>4. AveragesAreASequence'
  BY <1>2, <1>3 DEF AveragesAreASequence
<1>5. BoundsEnclose'
  BY <1>1, <1>2 DEF StatisticsInv, BoundsEnclose
<1>6. AveragesAreJustified'
  BY <1>2 DEF AveragesAreJustified
<1>7. LoopEndsForAReason'
  BY <1>2 DEF LoopEndsForAReason
<1>8. (request = [at |-> request.at, count |-> request.count, averages |-> request.averages])'
  BY <1>1
<1>9. solves' \in Seq(Solve) /\ edits' \in Nat
  BY <1>1 DEF StatisticsInv
<1> QED BY <1>4, <1>5, <1>6, <1>7, <1>8, <1>9 DEF StatisticsInv

(* An edit between two statements: the bounds can only move apart.         *)
LEMMA ChangesKeeps ==
    ASSUME StatisticsInv, NEW new \in Seq(Solve), Changes(new)
    PROVE  StatisticsInv'
<1> DEFINE len == Len(new)
<1>1. /\ fewest \in Nat /\ most \in Nat /\ len \in Nat
      /\ request' = request
      /\ solves' = new
      /\ edits' = edits - 1 /\ edits > 0 /\ edits \in Nat
      /\ fewest' = Min({fewest, len}) /\ most' = Max({most, len})
  BY DEF Changes, StatisticsInv, BoundsEnclose
<1>2. /\ fewest' = IF fewest <= len THEN fewest ELSE len
      /\ most' = IF most >= len THEN most ELSE len
  BY <1>1, TwoNumbers
<1>3. /\ fewest' \in Nat /\ most' \in Nat
      /\ fewest' <= fewest /\ fewest' <= Len(solves')
      /\ most' >= most /\ most' >= Len(solves')
  <2> HIDE DEF len
  <2>1. Len(solves') = len
    BY <1>1 DEF len
  <2> QED BY <1>1, <1>2, <2>1
<1>4. AveragesAreASequence'
  BY <1>1 DEF StatisticsInv, AveragesAreASequence
<1>5. BoundsEnclose'
  BY <1>1, <1>3 DEF StatisticsInv, BoundsEnclose
<1>6. AveragesAreJustified'
  <2> SUFFICES ASSUME NEW w \in 1..Len(request.averages)
               PROVE  IF request.averages[w].kind = "none" THEN fewest' < Windows[w]
                                                           ELSE most' >= Windows[w]
    BY <1>1 DEF AveragesAreJustified
  <2>1. IF request.averages[w].kind = "none" THEN fewest < Windows[w] ELSE most >= Windows[w]
    BY DEF StatisticsInv, AveragesAreJustified
  <2>2. Windows[w] \in Nat
    <3>1. PICK S : request.averages \in Seq(S)
      BY DEF StatisticsInv, AveragesAreASequence
    <3>2. Len(request.averages) \in Nat /\ Len(request.averages) <= Len(Windows)
      BY <3>1 DEF StatisticsInv, AveragesAreASequence
    <3>3. w \in 1..Len(Windows)
      BY <3>2, StatsAssumption
    <3> QED BY <3>3, StatsAssumption
  <2> QED BY <1>1, <1>3, <2>1, <2>2
<1>7. LoopEndsForAReason'
  BY <1>1 DEF StatisticsInv, LoopEndsForAReason
<1>8. (request = [at |-> request.at, count |-> request.count, averages |-> request.averages])'
  BY <1>1, Zenon DEF StatisticsInv
<1>9. edits' \in Nat
  BY <1>1
<1> QED BY <1>1, <1>4, <1>5, <1>6, <1>7, <1>8, <1>9 DEF StatisticsInv

LEMMA EditKeeps == StatisticsInv /\ (UpsertSolve \/ DeleteSolve) => StatisticsInv'
<1> SUFFICES ASSUME StatisticsInv, UpsertSolve \/ DeleteSolve
             PROVE  StatisticsInv'
  OBVIOUS
<1>1. solves \in Seq(Solve)
  BY DEF StatisticsInv
<1>2. DOMAIN solves = 1..Len(solves) /\ Len(solves) \in Nat
  BY <1>1
<1>3. CASE UpsertSolve
  <2>1. PICK s \in Edits, i \in 1..(Len(solves) + 1) :
            \/ Changes(InsertAt(solves, i, s))
            \/ i <= Len(solves) /\ Changes([solves EXCEPT ![i] = s])
    BY <1>3 DEF UpsertSolve
  <2>2. s \in Solve
    BY StatsAssumption
  <2>3. CASE Changes(InsertAt(solves, i, s))
    <3>1. InsertAt(solves, i, s) \in Seq(Solve)
      BY <1>1, <2>2, EditsKeepSolves
    <3> QED BY <2>3, <3>1, ChangesKeeps
  <2>4. CASE i <= Len(solves) /\ Changes([solves EXCEPT ![i] = s])
    <3>1. i \in 1..Len(solves)
      BY <1>2, <2>4
    <3>2. [solves EXCEPT ![i] = s] \in Seq(Solve)
      BY <1>1, <2>2, <3>1, EditsKeepSolves
    <3> QED BY <2>4, <3>2, ChangesKeeps
  <2> QED BY <2>1, <2>3, <2>4
<1>4. CASE DeleteSolve
  <2>1. PICK i \in DOMAIN solves : Changes(RemoveAt(solves, i))
    BY <1>4 DEF DeleteSolve
  <2>2. i \in 1..Len(solves) /\ solves[i] \in Solve
    BY <1>1, <1>2
  <2>3. RemoveAt(solves, i) \in Seq(Solve)
    BY <1>1, <2>2, EditsKeepSolves
  <2> QED BY <2>1, <2>3, ChangesKeeps
<1> QED BY <1>3, <1>4

(* The invariant is inductive: it holds after every step of the request    *)
(* and after every edit between two of them.                               *)
LEMMA StatisticsStep == StatisticsInv /\ [Next]_vars => StatisticsInv'
<1> SUFFICES ASSUME StatisticsInv, [Next]_vars
             PROVE  StatisticsInv'
  OBVIOUS
<1>1. CASE ReadCounts
  BY <1>1, ReadCountsKeeps
<1>2. CASE ReadWindow
  BY <1>2, ReadWindowKeeps
<1>3. CASE Answer \/ Fail
  BY <1>3, EndKeeps
<1>4. CASE UpsertSolve \/ DeleteSolve
  BY <1>4, EditKeeps
<1>5. CASE UNCHANGED vars
  BY <1>5 DEF vars, StatisticsInv, AveragesAreASequence, BoundsEnclose, AveragesAreJustified,
              LoopEndsForAReason
<1> QED BY <1>1, <1>2, <1>3, <1>4, <1>5 DEF Next

(* What the invariant says of an answer.                                   *)
LEMMA AnswerIsJustified == StatisticsInv => MissingMeansTooFew
<1> SUFFICES ASSUME StatisticsInv, request.at = "answer", NEW w \in DOMAIN Windows
             PROVE  LET given == w <= Len(request.averages) /\ request.averages[w].kind # "none"
                    IN  (~given => fewest < Windows[w]) /\ (given => most >= Windows[w])
  BY DEF MissingMeansTooFew
<1> DEFINE done == Len(request.averages)
<1>1. PICK S : request.averages \in Seq(S)
  BY DEF StatisticsInv, AveragesAreASequence
<1>2. done \in Nat /\ done <= Len(Windows)
  BY <1>1 DEF StatisticsInv, AveragesAreASequence
<1>3. /\ Len(Windows) \in Nat /\ w \in 1..Len(Windows)
      /\ \A i \in 1..Len(Windows) : Windows[i] \in Nat
      /\ \A i, j \in 1..Len(Windows) : i < j => Windows[i] < Windows[j]
  BY StatsAssumption
<1>4. /\ fewest \in Nat /\ most \in Nat /\ request.count \in Nat
      /\ fewest <= request.count
  BY DEF StatisticsInv, BoundsEnclose
<1>5. CASE w <= done
  <2>1. w \in 1..done
    BY <1>2, <1>3, <1>5
  <2>2. IF request.averages[w].kind = "none" THEN fewest < Windows[w] ELSE most >= Windows[w]
    BY <2>1 DEF StatisticsInv, AveragesAreJustified
  <2> QED BY <1>5, <2>2
<1>6. CASE ~(w <= done)
  <2>1. done + 1 \in 1..Len(Windows) /\ done + 1 <= w
    BY <1>2, <1>3, <1>6
  <2>2. request.count < Windows[done + 1]
    BY <1>2, <2>1 DEF StatisticsInv, LoopEndsForAReason
  <2>3. Windows[done + 1] <= Windows[w]
    BY <1>2, <1>3, <2>1
  <2>4. fewest < Windows[w]
    BY <1>3, <1>4, <2>1, <2>2, <2>3
  <2> QED BY <1>6, <2>4
<1> QED BY <1>5, <1>6

(* Whatever the windows, the solves and the edits are: an answer leaves an *)
(* average out only if the user had too few solves for it at some moment   *)
(* of the request, and gives one only if there were enough at one          *)
(* (ComputeStats, retention.go:52-61).                                     *)
THEOREM MissingAlways == Spec => []MissingMeansTooFew
<1>1. Init => StatisticsInv
  BY StatisticsInit
<1>2. StatisticsInv /\ [Next]_vars => StatisticsInv'
  BY StatisticsStep
<1>3. StatisticsInv => MissingMeansTooFew
  BY AnswerIsJustified
<1> QED BY <1>1, <1>2, <1>3, PTL DEF Spec
=============================================================================
