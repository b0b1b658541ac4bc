-------------------------- MODULE HistoryPagesProofs --------------------------
(***************************************************************************)
(* Proofs about HistoryPages: keyset paging returns every row that nobody  *)
(* touches exactly once, and no error event twice, for any number of rows, *)
(* any timestamps and any page sizes.                                      *)
(***************************************************************************)
EXTENDS HistoryPages, FiniteSetTheorems, TLAPS

----------------------------------------------------------------------------
(* The order of the rows. *)

(* The order by (time, id) is total.                                       *)
LEMMA AboveIsTotal ==
    ASSUME TypeOK
    PROVE  /\ \A x \in DOMAIN rows : x \in Int /\ rows[x] \in Int
           /\ \A x \in DOMAIN rows : ~Above(x, x)
           /\ \A x, y \in DOMAIN rows : x # y => Above(x, y) \/ Above(y, x)
           /\ \A x, y, z \in DOMAIN rows : Above(x, y) /\ Above(y, z) => Above(x, z)
  <1>1. \A x \in DOMAIN rows : x \in Int /\ rows[x] \in Int
    BY PagesAssumption DEF TypeOK, Ids, Stamps
  <1> QED BY <1>1 DEF Above

(* There are finitely many rows.                                           *)
LEMMA RowsAreFinite ==
    ASSUME TypeOK
    PROVE  IsFiniteSet(DOMAIN rows) /\ \A T \in SUBSET (DOMAIN rows) : IsFiniteSet(T) /\ Cardinality(T) \in Nat
  <1>1. IsFiniteSet(Ids)
    BY PagesAssumption, FS_Interval DEF Ids
  <1>2. DOMAIN rows \in SUBSET Ids
    BY DEF TypeOK
  <1>3. IsFiniteSet(DOMAIN rows)
    BY <1>1, <1>2, FS_Subset
  <1>4. \A T \in SUBSET (DOMAIN rows) : IsFiniteSet(T)
    BY <1>3, FS_Subset
  <1> QED BY <1>3, <1>4, FS_CardinalityType

(* Among sets of rows some one is minimal for inclusion: what an order     *)
(* needs to have first and last elements.                                  *)
LEMMA SomeMinimal ==
    ASSUME TypeOK, NEW F \in SUBSET (SUBSET (DOMAIN rows)), F # {}
    PROVE  \E A \in F : \A B \in F : ~(B \subseteq A /\ B # A)
  <1> DEFINE S == DOMAIN rows
             R == StrictSubsetOrdering(S)
  <1>1. IsWellFoundedOn(R, FiniteSubsetsOf(S))
    BY FS_StrictSubsetOrderingWellFounded
  <1>2. FiniteSubsetsOf(S) = SUBSET S
    BY RowsAreFinite, FS_FiniteSubsetsOfFinite
  <1>3. F \subseteq FiniteSubsetsOf(S)
    BY <1>2
  <1> HIDE DEF R
  <1>4. PICK A \in F : \A B \in F : ~(<<B, A>> \in R)
    BY <1>1, <1>3, WFMin
  <1>5. ASSUME NEW B \in F, B \subseteq A, B # A
        PROVE  <<B, A>> \in R
    BY <1>5 DEF R, StrictSubsetOrdering
  <1>6. \A B \in F : ~(B \subseteq A /\ B # A)
    BY <1>4, <1>5, Zenon
  <1> QED BY <1>6, Zenon

(* A set of rows has a last one, and a first one.                          *)
LEMMA LowestAndHighest ==
    ASSUME TypeOK, NEW T \in SUBSET (DOMAIN rows), T # {}
    PROVE  /\ \E x \in T : \A y \in T : y # x => Above(y, x)
           /\ \E x \in T : \A y \in T : y # x => Above(x, y)
  <1> DEFINE Under(x) == {y \in T : Above(x, y)}
             Over(x) == {y \in T : Above(y, x)}
  <1>1. \E x \in T : \A y \in T : y # x => Above(y, x)
    <2> DEFINE F == {Under(x) : x \in T}
    <2>0. F \in SUBSET (SUBSET (DOMAIN rows)) /\ F # {}
      OBVIOUS
    <2> HIDE DEF F
    <2>1. PICK A \in F : \A B \in F : ~(B \subseteq A /\ B # A)
      BY <2>0, SomeMinimal, Zenon
    <2>2. PICK x \in T : A = Under(x)
      BY DEF F
    <2>3. ASSUME NEW y \in T, y # x, ~Above(y, x)
          PROVE  FALSE
      <3>1. Above(x, y)
        BY <2>3, AboveIsTotal
      <3>2. Under(y) \subseteq A /\ y \in A /\ y \notin Under(y)
        BY <2>2, <3>1, AboveIsTotal
      <3>3. Under(y) \in F /\ Under(y) # A
        BY <3>2 DEF F
      <3> QED BY <2>1, <3>2, <3>3
    <2> QED BY <2>3
  <1>2. \E x \in T : \A y \in T : y # x => Above(x, y)
    <2> DEFINE F == {Over(x) : x \in T}
    <2>0. F \in SUBSET (SUBSET (DOMAIN rows)) /\ F # {}
      OBVIOUS
    <2> HIDE DEF F
    <2>1. PICK A \in F : \A B \in F : ~(B \subseteq A /\ B # A)
      BY <2>0, SomeMinimal, Zenon
    <2>2. PICK x \in T : A = Over(x)
      BY DEF F
    <2>3. ASSUME NEW y \in T, y # x, ~Above(x, y)
          PROVE  FALSE
      <3>1. Above(y, x)
        BY <2>3, AboveIsTotal
      <3>2. Over(y) \subseteq A /\ y \in A /\ y \notin Over(y)
        BY <2>2, <3>1, AboveIsTotal
      <3>3. Over(y) \in F /\ Over(y) # A
        BY <3>2 DEF F
      <3> QED BY <2>1, <3>2, <3>3
    <2> QED BY <2>3
  <1> QED BY <1>1, <1>2

(* The last row of a page, from which next_cursor is made.                 *)
LEMMA LastOfPage ==
    ASSUME TypeOK, NEW T \in SUBSET (DOMAIN rows), T # {}
    PROVE  Last(T) \in T /\ \A y \in T : y # Last(T) => Above(y, Last(T))
  BY LowestAndHighest DEF Last

----------------------------------------------------------------------------
(* One page. *)

\* The rows that the WHERE clause selects.
Matching == {id \in DOMAIN rows : BelowCursor(id)}

\* No matching row above one of the page is missing.
IsFirstPart(page) ==
    /\ page \subseteq Matching
    /\ \A x \in page, y \in Matching : Above(y, x) => y \in page

(* ORDER BY ... LIMIT n: the first part of the matching rows, n of them or *)
(* all of them if there are fewer.                                         *)
LEMMA FirstRowsCorrect ==
    ASSUME TypeOK, NEW n \in Nat
    PROVE  /\ IsFirstPart(FirstRows(n))
           /\ Cardinality(FirstRows(n)) \in 0..n
           /\ Cardinality(FirstRows(n)) < n => FirstRows(n) = Matching
  <1> DEFINE Over(x) == {o \in Matching : Above(o, x)}
             P == FirstRows(n)
  <1>1. P = {id \in Matching : Cardinality(Over(id)) < n}
    BY DEF FirstRows, Matching
  <1>2. Matching \in SUBSET (DOMAIN rows) /\ P \in SUBSET (DOMAIN rows) /\ P \subseteq Matching
    BY <1>1 DEF Matching
  <1>3. \A x : Over(x) \in SUBSET (DOMAIN rows) /\ IsFiniteSet(Over(x)) /\ Cardinality(Over(x)) \in Nat
    <2>1. \A x : Over(x) \in SUBSET (DOMAIN rows)
      BY <1>2
    <2> QED BY <2>1, RowsAreFinite
  <1>4. IsFiniteSet(P) /\ Cardinality(P) \in Nat
    BY <1>2, RowsAreFinite
  <1> HIDE DEF P
  <1>5. ASSUME NEW x \in P, NEW y \in Matching, Above(y, x)
        PROVE  y \in P
    <2>1. Over(y) \in SUBSET Over(x)
      BY <1>2, <1>5, AboveIsTotal
    <2>2. Cardinality(Over(y)) <= Cardinality(Over(x))
      BY <1>3, <2>1, FS_Subset
    <2>3. Cardinality(Over(x)) < n
      BY <1>1
    <2>4. Cardinality(Over(x)) \in Nat /\ Cardinality(Over(y)) \in Nat
      BY <1>3
    <2>5. Cardinality(Over(y)) < n
      BY <2>2, <2>3, <2>4
    <2> QED BY <1>1, <2>5
  <1>6. Cardinality(P) <= n
    <2>1. CASE P = {}
      BY <2>1, FS_EmptySet
    <2>2. CASE P # {}
      <3>1. PICK x \in P : \A y \in P : y # x => Above(y, x)
        BY <1>2, <2>2, LowestAndHighest
      <3>2. P \in SUBSET (Over(x) \cup {x})
        BY <1>2, <3>1
      <3>3. /\ IsFiniteSet(Over(x) \cup {x})
            /\ Cardinality(Over(x) \cup {x}) <= Cardinality(Over(x)) + 1
        BY <1>3, FS_AddElement
      <3>4. Cardinality(P) <= Cardinality(Over(x) \cup {x}) /\ Cardinality(Over(x) \cup {x}) \in Nat
        BY <3>2, <3>3, FS_Subset, FS_CardinalityType
      <3>5. Cardinality(Over(x)) < n
        BY <1>1
      <3>6. Cardinality(Over(x)) \in Nat
        BY <1>3
      <3> HIDE DEF Over
      <3> QED BY <1>4, <3>3, <3>4, <3>5, <3>6
    <2> QED BY <2>1, <2>2
  <1>7. ASSUME P # Matching
        PROVE  Cardinality(P) >= n
    <2> DEFINE Rest == Matching \ P
    <2>1. Rest \in SUBSET (DOMAIN rows) /\ Rest # {}
      BY <1>2, <1>7
    <2>2. PICK x \in Rest : \A y \in Rest : y # x => Above(x, y)
      BY <2>1, LowestAndHighest
    <2>3. Over(x) \in SUBSET P
      <3> SUFFICES ASSUME NEW o \in Matching, Above(o, x), o \notin P
                   PROVE  FALSE
        OBVIOUS
      <3>1. o # x
        BY <2>2, <1>2, AboveIsTotal
      <3>2. Above(x, o)
        BY <2>2, <3>1
      <3> QED BY <1>2, <2>2, <3>2, AboveIsTotal
    <2>4. Cardinality(Over(x)) <= Cardinality(P)
      BY <1>4, <2>3, FS_Subset
    <2>5. ~(Cardinality(Over(x)) < n)
      BY <1>1
    <2>6. Cardinality(Over(x)) \in Nat
      BY <1>3
    <2> HIDE DEF Over
    <2> QED BY <1>4, <2>4, <2>5, <2>6
  <1> QED BY <1>2, <1>4, <1>5, <1>6, <1>7 DEF IsFirstPart, P

(* next_cursor is made of the last row of a page: the rows below it are    *)
(* the matching rows that the page does not hold.                          *)
LEMMA NextCursorCorrect ==
    ASSUME TypeOK, NEW page, IsFirstPart(page), page # {}
    PROVE  /\ Last(page) \in page
           /\ \A id \in DOMAIN rows : Above(Last(page), id) <=> id \in Matching \ page
  <1> DEFINE l == Last(page)
  <1>1. page \in SUBSET (DOMAIN rows)
    BY DEF IsFirstPart, Matching
  <1>2. l \in page /\ \A y \in page : y # l => Above(y, l)
    BY <1>1, LastOfPage
  <1> HIDE DEF l
  <1>3. ASSUME NEW id \in DOMAIN rows, Above(l, id)
        PROVE  id \in Matching \ page
    <2>1. l \in Matching
      BY <1>2 DEF IsFirstPart
    <2>2. id \in Matching
      <3>1. /\ id \in Int /\ rows[id] \in Int /\ l \in Int /\ rows[l] \in Int
        BY <1>1, <1>2, AboveIsTotal
      <3>2. listing.at \in Int /\ listing.id \in Int
        BY PagesAssumption DEF TypeOK, FarFuture, TopId
      <3> QED BY <1>3, <2>1, <3>1, <3>2 DEF Matching, BelowCursor, Above
    <2>3. id \notin page
      BY <1>1, <1>2, <1>3, AboveIsTotal
    <2> QED BY <2>2, <2>3
  <1>4. ASSUME NEW id \in Matching, id \notin page
        PROVE  Above(l, id)
    <2>1. id \in DOMAIN rows /\ l \in DOMAIN rows /\ id # l
      BY <1>1, <1>2, <1>4 DEF Matching
    <2>2. ~Above(id, l)
      BY <1>2, <1>4 DEF IsFirstPart
    <2> QED BY <2>1, <2>2, AboveIsTotal
  <1> QED BY <1>2, <1>3, <1>4 DEF l

----------------------------------------------------------------------------
(* The steps of the client. *)

(* How often a row was returned goes up by one, and no further than 2.     *)
LEMMA CountUp ==
    ASSUME NEW k \in 0..2
    PROVE  Min({2, k + 1}) \in 0..2 /\ (k = 0 => Min({2, k + 1}) = 1)
  <1> DEFINE m == Min({2, k + 1})
  <1>1. m \in {2, k + 1} /\ \A y \in {2, k + 1} : m <= y
    <2>1. \E x \in {2, k + 1} : \A y \in {2, k + 1} : x <= y
      OBVIOUS
    <2> QED BY <2>1 DEF Min
  <1> HIDE DEF m
  <1>2. m \in 0..2 /\ (k = 0 => m = 1)
    BY <1>1
  <1> QED BY <1>2 DEF m

(* Whatever part of the matching rows a page holds, from the first on: if  *)
(* there is more, the new cursor divides the rows again, and if there is   *)
(* not, every row was returned.                                            *)
LEMMA ReturnsSafely ==
    ASSUME TypeOK, CursorDivides, listing.phase = "paging",
           NEW page, IsFirstPart(page), Cardinality(page) \in 0..MaxLimit,
           NEW hasMore \in BOOLEAN, hasMore => page # {}, ~hasMore => page = Matching,
           Returns(page, Last(page), hasMore)
    PROVE  TypeOK' /\ CursorDivides'
  <1> DEFINE l == Last(page)
  <1>1. /\ times' = [id \in Ids |-> IF id \in page THEN Min({2, times[id] + 1}) ELSE times[id]]
        /\ UNCHANGED <<endpoint, rows, seq, now, touched>>
    BY DEF Returns
  <1>2. times \in [Ids -> 0..2] /\ DOMAIN rows \subseteq Ids /\ page \subseteq DOMAIN rows
    BY DEF TypeOK, IsFirstPart, Matching
  <1>3. /\ times' \in [Ids -> 0..2]
        /\ \A id \in Ids \ page : times'[id] = times[id]
        /\ \A id \in page : times[id] = 0 => times'[id] = 1
    <2>1. \A id \in Ids : times[id] \in 0..2
      BY <1>2
    <2>2. \A id \in Ids : Min({2, times[id] + 1}) \in 0..2 /\ (times[id] = 0 => Min({2, times[id] + 1}) = 1)
      BY <2>1, CountUp
    <2> QED BY <1>1, <1>2, <2>1, <2>2
  <1>4. /\ \A id \in DOMAIN rows \ touched : times[id] = IF id \in Matching THEN 0 ELSE 1
        /\ endpoint = "errors" => \A id \in DOMAIN rows : times[id] = 1 => id \notin Matching
    BY DEF CursorDivides, Matching
  <1>5. endpoint = "errors" => /\ \A id \in page : times[id] = 0
                               /\ \A id \in page : times'[id] = 1
    <2>1. page \subseteq Matching
      BY DEF IsFirstPart
    <2>2. ASSUME endpoint = "errors", NEW id \in page
          PROVE  times[id] = 0
      <3>1. times[id] <= 1 /\ times[id] \in 0..2 /\ times[id] # 1
        BY <1>2, <1>4, <2>1, <2>2 DEF CursorDivides
      <3> QED BY <3>1
    <2> QED BY <1>3, <2>2
  <1>6. endpoint = "errors" =>
        /\ \A id \in Ids : id > seq => id \notin DOMAIN rows /\ times'[id] = 0
        /\ \A id \in DOMAIN rows : rows[id] <= now
        /\ \A id \in Ids : times'[id] <= 1
    <2> SUFFICES ASSUME endpoint = "errors"
                 PROVE  /\ \A id \in Ids : id > seq => id \notin DOMAIN rows /\ times'[id] = 0
                        /\ \A id \in DOMAIN rows : rows[id] <= now
                        /\ \A id \in Ids : times'[id] <= 1
      OBVIOUS
    <2>1. /\ \A id \in Ids : id > seq => id \notin DOMAIN rows /\ times[id] = 0
          /\ \A id \in DOMAIN rows : rows[id] <= now
          /\ \A id \in Ids : times[id] <= 1
      BY DEF CursorDivides
    <2>2. \A id \in Ids : id \in page \/ times'[id] = times[id]
      BY <1>3
    <2>3. \A id \in Ids : id \in page => times'[id] = 1
      BY <1>5
    <2> QED BY <1>2, <2>1, <2>2, <2>3
  <1>7. CASE hasMore
    <2>1. listing' = [phase |-> "paging", at |-> rows[l], id |-> l, size |-> Cardinality(page), odd |-> ~listing.odd]
      BY <1>7 DEF Returns
    <2>2. l \in page /\ \A id \in DOMAIN rows : Above(l, id) <=> id \in Matching \ page
      BY <1>7, NextCursorCorrect
    <2>3. l \in Ids /\ rows[l] \in Stamps
      BY <1>2, <2>2 DEF TypeOK
    <2> HIDE DEF l
    <2>4. \A id \in DOMAIN rows : BelowCursor(id)' <=> id \in Matching \ page
      <3>1. listing'.at = rows[l] /\ listing'.id = l
        BY <2>1
      <3>2. \A id \in DOMAIN rows : id \in Int /\ rows[id] \in Int
        BY AboveIsTotal
      <3>3. l \in Int /\ rows[l] \in Int
        BY <1>2, <2>2, <3>2
      <3>4. ASSUME NEW id \in DOMAIN rows
            PROVE  BelowCursor(id)' <=> Above(l, id)
        BY <1>1, <3>1, <3>2, <3>3 DEF BelowCursor, Above
      <3> QED BY <2>2, <3>4
    <2>5. TypeOK'
      <3>1. rows[l] \in 0..FarFuture /\ l \in 0..TopId
        BY <2>3, PagesAssumption DEF Ids, Stamps, FarFuture, TopId
      <3>2. (~listing.odd) \in BOOLEAN
        OBVIOUS
      <3>3. listing' \in [phase : {"idle", "paging", "done"}, at : 0..FarFuture, id : 0..TopId,
                          size : 0..MaxLimit, odd : BOOLEAN]
        BY <2>1, <3>1, <3>2
      <3> QED BY <1>1, <1>3, <3>3 DEF TypeOK
    <2>6. CursorDivides'
      <3>1. listing'.phase = "paging"
        BY <2>1
      <3>2. \A id \in DOMAIN rows \ touched : times'[id] = IF BelowCursor(id)' THEN 0 ELSE 1
        <4> TAKE id \in DOMAIN rows \ touched
        <4>1. id \in Ids
          BY <1>2
        <4>2. CASE id \in page
          BY <1>3, <1>4, <2>4, <4>2 DEF IsFirstPart
        <4>3. CASE id \notin page
          <5>1. times'[id] = times[id]
            BY <1>3, <4>1, <4>3
          <5> QED BY <1>4, <2>4, <4>3, <5>1
        <4> QED BY <4>2, <4>3
      <3>3. endpoint = "errors" => \A id \in DOMAIN rows : times'[id] = 1 => ~BelowCursor(id)'
        <4> SUFFICES ASSUME endpoint = "errors", NEW id \in DOMAIN rows, times'[id] = 1, id \in Matching \ page
                     PROVE  FALSE
          BY <2>4
        <4>1. times'[id] = times[id]
          BY <1>2, <1>3
        <4> QED BY <1>4, <4>1
      <3> QED BY <1>1, <1>6, <3>1, <3>2, <3>3 DEF CursorDivides
    <2> QED BY <2>5, <2>6
  <1>8. CASE ~hasMore
    <2>1. /\ listing' = [listing EXCEPT !.phase = "done", !.size = Cardinality(page), !.odd = FALSE]
          /\ page = Matching
      BY <1>8 DEF Returns
    <2>2. TypeOK'
      <3>1. listing' \in [phase : {"idle", "paging", "done"}, at : 0..FarFuture, id : 0..TopId,
                          size : 0..MaxLimit, odd : BOOLEAN]
        BY <2>1 DEF TypeOK
      <3> QED BY <1>1, <1>3, <3>1 DEF TypeOK
    <2>3. CursorDivides'
      <3>1. listing'.phase = "done"
        BY <2>1 DEF TypeOK
      <3>2. \A id \in DOMAIN rows \ touched : times'[id] = 1
        <4> TAKE id \in DOMAIN rows \ touched
        <4>1. CASE id \in page
          BY <1>3, <1>4, <2>1, <4>1
        <4>2. CASE id \notin page
          BY <1>2, <1>3, <1>4, <2>1, <4>2
        <4> QED BY <4>1, <4>2
      <3> QED BY <1>1, <1>6, <3>1, <3>2 DEF CursorDivides
    <2> QED BY <2>2, <2>3
  <1> QED BY <1>7, <1>8

(* parseLimit yields 1..MaxLimit.                                          *)
LEMMA LimitInRange ==
    ASSUME NEW raw \in Int
    PROVE  ParseLimit(raw) \in 1..MaxLimit
  BY PagesAssumption DEF ParseLimit

(* listSessions and listSessionSolves: the row read in excess is not       *)
(* returned, and is the first one of the next page.                        *)
LEMMA HistoryPageSafely ==
    ASSUME TypeOK, CursorDivides, listing.phase = "paging", NEW limit \in 1..MaxLimit, HistoryPage(limit)
    PROVE  TypeOK' /\ CursorDivides'
  <1> DEFINE fetched == FirstRows(limit + 1)
             hasMore == Cardinality(fetched) > limit
             page == IF hasMore THEN fetched \ {Last(fetched)} ELSE fetched
  <1>0. limit \in Nat /\ limit >= 1 /\ limit <= MaxLimit /\ MaxLimit \in Nat /\ limit + 1 \in Nat
    BY PagesAssumption
  <1>1. /\ IsFirstPart(fetched)
        /\ Cardinality(fetched) \in 0..(limit + 1)
        /\ Cardinality(fetched) < limit + 1 => fetched = Matching
    BY <1>0, FirstRowsCorrect
  <1>2. Returns(page, Last(page), hasMore)
    BY DEF HistoryPage
  <1>3. fetched \in SUBSET (DOMAIN rows) /\ IsFiniteSet(fetched)
    <2>1. fetched \in SUBSET (DOMAIN rows)
      BY <1>1 DEF IsFirstPart, Matching
    <2> QED BY <2>1, RowsAreFinite
  <1> HIDE DEF fetched
  <1>4. CASE hasMore
    <2>1. Cardinality(fetched) = limit + 1
      BY <1>0, <1>1, <1>4
    <2>2. fetched # {}
      BY <1>0, <2>1, FS_EmptySet
    <2>3. Last(fetched) \in fetched /\ \A y \in fetched : y # Last(fetched) => Above(y, Last(fetched))
      BY <1>3, <2>2, LastOfPage
    <2>4. IsFiniteSet(page) /\ Cardinality(page) = limit
      <3>1. page = fetched \ {Last(fetched)}
        BY <1>4
      <3>2. /\ IsFiniteSet(page)
            /\ Cardinality(page) = IF Last(fetched) \in fetched THEN Cardinality(fetched) - 1 ELSE Cardinality(fetched)
        BY <1>3, <3>1, FS_RemoveElement
      <3> HIDE DEF page
      <3> QED BY <1>0, <2>1, <2>3, <3>2
    <2>5. page # {}
      BY <1>0, <2>4, FS_EmptySet
    <2>6. IsFirstPart(page)
      <3>1. page = fetched \ {Last(fetched)}
        BY <1>4
      <3> HIDE DEF page
      <3>2. page \subseteq Matching
        BY <1>1, <3>1 DEF IsFirstPart
      <3>3. ASSUME NEW x \in page, NEW y \in Matching, Above(y, x)
            PROVE  y \in page
        <4>1. y \in fetched
          BY <1>1, <3>1, <3>3 DEF IsFirstPart
        <4>2. Above(x, Last(fetched))
          BY <2>3, <3>1
        <4>3. y # Last(fetched)
          BY <1>3, <2>3, <3>1, <3>3, <4>2, AboveIsTotal
        <4> QED BY <3>1, <4>1, <4>3
      <3> QED BY <3>2, <3>3 DEF IsFirstPart
    <2>7. Cardinality(page) \in 0..MaxLimit /\ hasMore \in BOOLEAN
      BY <1>0, <2>4
    <2> HIDE DEF page
    <2> QED BY <1>2, <1>4, <2>5, <2>6, <2>7, ReturnsSafely
  <1>5. CASE ~hasMore
    <2>1. page = fetched
      BY <1>5
    <2>2. fetched = Matching /\ Cardinality(fetched) \in 0..MaxLimit
      BY <1>0, <1>1, <1>5
    <2>3. hasMore \in BOOLEAN
      OBVIOUS
    <2> HIDE DEF page, hasMore
    <2> QED BY <1>1, <1>2, <1>5, <2>1, <2>2, <2>3, ReturnsSafely
  <1> QED BY <1>4, <1>5

(* ListErrors: a page that is not full is the last one.                    *)
LEMMA ErrorPageSafely ==
    ASSUME TypeOK, CursorDivides, listing.phase = "paging", NEW limit \in 1..MaxLimit, ErrorPage(limit)
    PROVE  TypeOK' /\ CursorDivides'
  <1> DEFINE page == FirstRows(limit)
             hasMore == Cardinality(page) = limit
  <1>0. limit \in Nat /\ limit >= 1 /\ limit <= MaxLimit /\ MaxLimit \in Nat
    BY PagesAssumption
  <1>1. /\ IsFirstPart(page)
        /\ Cardinality(page) \in 0..limit
        /\ Cardinality(page) < limit => page = Matching
    BY <1>0, FirstRowsCorrect
  <1>2. Returns(page, Last(page), hasMore)
    BY DEF ErrorPage
  <1> HIDE DEF page
  <1>3. Cardinality(page) \in 0..MaxLimit /\ (~hasMore => page = Matching) /\ hasMore \in BOOLEAN
    BY <1>0, <1>1
  <1>4. hasMore => page # {}
    BY <1>0, FS_EmptySet
  <1> HIDE DEF hasMore
  <1> QED BY <1>1, <1>2, <1>3, <1>4, ReturnsSafely

(* The first page begins above every row there is.                         *)
LEMMA StartListingSafely ==
    ASSUME TypeOK, CursorDivides, StartListing
    PROVE  TypeOK' /\ CursorDivides'
  <1>1. /\ listing' = [phase |-> "paging", id |-> TopId, size |-> 0, odd |-> FALSE,
                       at |-> IF endpoint = "errors" THEN now ELSE FarFuture]
        /\ times' = [id \in Ids |-> 0] /\ touched' = {}
        /\ UNCHANGED <<endpoint, rows, seq, now>>
    BY DEF StartListing, None
  <1>2. TypeOK'
    <2>1. (IF endpoint = "errors" THEN now ELSE FarFuture) \in 0..FarFuture /\ TopId \in 0..TopId /\ 0 \in 0..MaxLimit
      BY PagesAssumption DEF TypeOK, Stamps, FarFuture, TopId
    <2>2. listing' \in [phase : {"idle", "paging", "done"}, at : 0..FarFuture, id : 0..TopId,
                        size : 0..MaxLimit, odd : BOOLEAN]
      BY <1>1, <2>1
    <2> QED BY <1>1, <2>2 DEF TypeOK
  <1>3. \A id \in DOMAIN rows : BelowCursor(id)'
    <2> TAKE id \in DOMAIN rows
    <2>1. listing'.id = TopId /\ listing'.at = IF endpoint = "errors" THEN now ELSE FarFuture
      BY <1>1
    <2>2. id \in Int /\ id < TopId /\ rows[id] \in Int /\ rows[id] < FarFuture
      BY PagesAssumption DEF TypeOK, Ids, Stamps, FarFuture, TopId
    <2>3. endpoint = "errors" => rows[id] <= now /\ now \in Int
      BY PagesAssumption DEF CursorDivides, TypeOK, Stamps
    <2>4. CASE endpoint = "errors"
      BY <1>1, <2>1, <2>2, <2>3, <2>4 DEF BelowCursor
    <2>5. CASE endpoint # "errors"
      BY <1>1, <2>1, <2>2, <2>5 DEF BelowCursor
    <2> QED BY <2>4, <2>5
  <1>4. CursorDivides'
    <2>1. listing'.phase = "paging"
      BY <1>1
    <2>2. \A id \in Ids : times'[id] = 0
      BY <1>1
    <2>3. DOMAIN rows \subseteq Ids
      BY DEF TypeOK
    <2> QED BY <1>1, <1>3, <2>1, <2>2, <2>3 DEF CursorDivides
  <1> QED BY <1>2, <1>4

----------------------------------------------------------------------------
(* The steps that change the rows. *)

(* A change of some rows: the others stay where they were relative to the  *)
(* cursor.                                                                 *)
LEMMA BecomesSafely ==
    ASSUME TypeOK, CursorDivides, NEW new, NEW changed \in SUBSET Ids, Becomes(new, changed),
           seq' \in 0..MaxId, now' = now, seq' >= seq,
           DOMAIN new \subseteq Ids, \A id \in DOMAIN new : new[id] \in Stamps,
           \A id \in DOMAIN new \ changed : id \in DOMAIN rows /\ new[id] = rows[id],
           endpoint = "errors" =>
              /\ \A id \in DOMAIN new : new[id] <= now
              /\ \A id \in DOMAIN new : id <= seq'
              /\ \A id \in DOMAIN new \cap changed : id > seq
    PROVE  TypeOK' /\ CursorDivides'
  <1>1. rows' = new /\ touched' = touched \cup changed /\ UNCHANGED <<endpoint, listing, times>>
    BY DEF Becomes
  <1>2. TypeOK'
    BY <1>1 DEF TypeOK
  <1>3. ASSUME NEW id \in DOMAIN rows' \ changed
        PROVE  id \in DOMAIN rows /\ (BelowCursor(id)' <=> BelowCursor(id))
    BY <1>1 DEF BelowCursor
  <1>4. \A id \in DOMAIN rows' \ touched' : id \in DOMAIN rows \ touched /\ id \in DOMAIN rows' \ changed
    BY <1>1, <1>3
  <1>5. endpoint = "errors" =>
        /\ \A id \in Ids : id > seq' => id \notin DOMAIN rows' /\ times'[id] = 0
        /\ \A id \in DOMAIN rows' : rows'[id] <= now'
        /\ \A id \in Ids : times'[id] <= 1
        /\ listing.phase = "paging" => \A id \in DOMAIN rows' : times'[id] = 1 => ~BelowCursor(id)'
    <2> SUFFICES ASSUME endpoint = "errors"
                 PROVE  /\ \A id \in Ids : id > seq' => id \notin DOMAIN rows' /\ times'[id] = 0
                        /\ \A id \in DOMAIN rows' : rows'[id] <= now'
                        /\ \A id \in Ids : times'[id] <= 1
                        /\ listing.phase = "paging" =>
                              \A id \in DOMAIN rows' : times'[id] = 1 => ~BelowCursor(id)'
      OBVIOUS
    <2>1. /\ \A id \in Ids : id > seq => times[id] = 0
          /\ \A id \in Ids : times[id] <= 1
          /\ listing.phase = "paging" => \A id \in DOMAIN rows : times[id] = 1 => ~BelowCursor(id)
      BY DEF CursorDivides
    <2>2. \A id \in Ids : id \in Int /\ seq \in Int /\ seq' \in Int
      BY PagesAssumption DEF Ids, TypeOK
    <2>3. \A id \in Ids : id > seq' => id > seq /\ id \notin DOMAIN rows'
      BY <1>1, <2>2
    <2>4. \A id \in DOMAIN rows' : rows'[id] <= now'
      BY <1>1
    <2>5. ASSUME listing.phase = "paging", NEW id \in DOMAIN rows', times'[id] = 1
          PROVE  ~BelowCursor(id)'
      <3>1. CASE id \in changed
        <4>1. id \in Ids /\ id > seq
          BY <1>1, <3>1
        <4> QED BY <1>1, <2>1, <2>5, <4>1
      <3>2. CASE id \notin changed
        BY <1>1, <1>3, <2>1, <2>5, <3>2
      <3> QED BY <3>1, <3>2
    <2> QED BY <1>1, <2>1, <2>3, <2>4, <2>5
  <1>6. /\ listing'.phase = "paging" =>
            \A id \in DOMAIN rows' \ touched' : times'[id] = IF BelowCursor(id)' THEN 0 ELSE 1
        /\ listing'.phase = "done" =>
            \A id \in DOMAIN rows' \ touched' : times'[id] = 1
    <2>1. ASSUME listing.phase = "paging", NEW id \in DOMAIN rows' \ touched'
          PROVE  times'[id] = IF BelowCursor(id)' THEN 0 ELSE 1
      <3>1. times[id] = IF BelowCursor(id) THEN 0 ELSE 1
        BY <1>4, <2>1 DEF CursorDivides
      <3>2. BelowCursor(id)' <=> BelowCursor(id)
        BY <1>3, <1>4
      <3> QED BY <1>1, <3>1, <3>2
    <2>2. ASSUME listing.phase = "done", NEW id \in DOMAIN rows' \ touched'
          PROVE  times'[id] = 1
      BY <1>1, <1>4, <2>2 DEF CursorDivides
    <2> QED BY <1>1, <2>1, <2>2
  <1>7. CursorDivides'
    BY <1>1, <1>5, <1>6 DEF CursorDivides
  <1> QED BY <1>2, <1>7

(* The writes of a sync, of the telemetry and of the cleanup.              *)
LEMMA RowsChangeSafely ==
    ASSUME TypeOK, CursorDivides, RowsChange
    PROVE  TypeOK' /\ CursorDivides'
  <1>0. /\ seq \in 0..MaxId /\ seq >= seq /\ DOMAIN rows \subseteq Ids
        /\ \A id \in DOMAIN rows : rows[id] \in Stamps
    BY DEF TypeOK
  <1>a. endpoint = "errors" => /\ \A id \in DOMAIN rows : rows[id] <= now
                               /\ \A id \in DOMAIN rows : id <= seq
    <2>1. \A id \in Ids : id \in Int /\ seq \in Int
      BY PagesAssumption DEF TypeOK, Ids
    <2> QED BY <1>0, <2>1 DEF CursorDivides
  <1>1. ASSUME NEW id \in Ids, NEW at \in Stamps, UpsertRow(id, at)
        PROVE  TypeOK' /\ CursorDivides'
    <2> DEFINE new == [i \in DOMAIN rows \cup {id} |-> IF i = id THEN at ELSE rows[i]]
    <2>1. endpoint # "errors" /\ Becomes(new, {id}) /\ seq' = seq /\ now' = now
      BY <1>1 DEF UpsertRow
    <2>2. /\ DOMAIN new \subseteq Ids /\ \A i \in DOMAIN new : new[i] \in Stamps
          /\ \A i \in DOMAIN new \ {id} : i \in DOMAIN rows /\ new[i] = rows[i]
      BY <1>0
    <2> HIDE DEF new
    <2> QED BY <1>0, <2>1, <2>2, BecomesSafely
  <1>2. ASSUME NEW id \in Ids, DeleteRow(id)
        PROVE  TypeOK' /\ CursorDivides'
    <2> DEFINE new == [i \in DOMAIN rows \ {id} |-> rows[i]]
    <2>1. endpoint # "errors" /\ Becomes(new, {id}) /\ seq' = seq /\ now' = now
      BY <1>2 DEF DeleteRow
    <2>2. /\ DOMAIN new \subseteq Ids /\ \A i \in DOMAIN new : new[i] \in Stamps
          /\ \A i \in DOMAIN new \ {id} : i \in DOMAIN rows /\ new[i] = rows[i]
      BY <1>0
    <2> HIDE DEF new
    <2> QED BY <1>0, <2>1, <2>2, BecomesSafely
  <1>3. ASSUME NEW at \in Stamps, InsertError(at)
        PROVE  TypeOK' /\ CursorDivides'
    <2> DEFINE n == seq + 1
               new == [i \in DOMAIN rows \cup {n} |-> IF i = n THEN at ELSE rows[i]]
    <2>1. endpoint = "errors" /\ Becomes(new, {n}) /\ seq' = n /\ now' = now /\ at <= now /\ seq < MaxId
      BY <1>3 DEF InsertError
    <2>2. n \in Ids /\ n \in 0..MaxId /\ n >= seq /\ n > seq /\ \A i \in Ids : i <= seq => i <= n
      BY <1>0, <2>1, PagesAssumption DEF Ids
    <2> HIDE DEF n
    <2>3. /\ DOMAIN new \subseteq Ids /\ \A i \in DOMAIN new : new[i] \in Stamps
          /\ \A i \in DOMAIN new \ {n} : i \in DOMAIN rows /\ new[i] = rows[i]
          /\ \A i \in DOMAIN new \cap {n} : i > seq
      BY <1>0, <2>2
    <2>4. \A i \in DOMAIN new : new[i] <= now
      BY <1>a, <2>1
    <2>5. \A i \in DOMAIN new : i <= n
      BY <1>0, <1>a, <2>1, <2>2 DEF Ids
    <2> HIDE DEF new
    <2> QED BY <2>1, <2>2, <2>3, <2>4, <2>5, BecomesSafely
  <1>4. ASSUME NEW cutoff \in Stamps, DeleteOldErrors(cutoff)
        PROVE  TypeOK' /\ CursorDivides'
    <2> DEFINE old == {id \in DOMAIN rows : rows[id] < cutoff}
               new == [i \in DOMAIN rows \ old |-> rows[i]]
    <2>1. endpoint = "errors" /\ Becomes(new, old) /\ seq' = seq /\ now' = now
      BY <1>4 DEF DeleteOldErrors
    <2>2. /\ DOMAIN new \subseteq Ids /\ \A i \in DOMAIN new : new[i] \in Stamps
          /\ \A i \in DOMAIN new \ old : i \in DOMAIN rows /\ new[i] = rows[i]
          /\ \A i \in DOMAIN new \cap old : i > seq
          /\ old \in SUBSET Ids
      BY <1>0
    <2>3. \A i \in DOMAIN new : new[i] <= now /\ i <= seq
      BY <1>a, <2>1
    <2> HIDE DEF new, old
    <2> QED BY <1>0, <2>1, <2>2, <2>3, BecomesSafely
  <1> QED BY <1>1, <1>2, <1>3, <1>4 DEF RowsChange

(* The clock moves: old rows stay in the past.                             *)
LEMMA TickSafely ==
    ASSUME TypeOK, CursorDivides, Tick
    PROVE  TypeOK' /\ CursorDivides'
  <1>1. /\ now < MaxStamp /\ now' = now + 1 /\ now \in Int /\ now' \in Stamps
        /\ UNCHANGED <<endpoint, rows, seq, listing, times, touched>>
    BY PagesAssumption DEF Tick, TypeOK, Stamps
  <1>2. TypeOK'
    BY <1>1 DEF TypeOK
  <1>3. endpoint = "errors" => \A id \in DOMAIN rows : rows[id] <= now'
    <2>1. \A id \in DOMAIN rows : rows[id] \in Int
      BY AboveIsTotal
    <2> QED BY <1>1, <2>1 DEF CursorDivides
  <1>4. \A id : BelowCursor(id)' <=> BelowCursor(id)
    BY <1>1 DEF BelowCursor
  <1>5. CursorDivides'
    BY <1>1, <1>3, <1>4 DEF CursorDivides
  <1> QED BY <1>2, <1>5

----------------------------------------------------------------------------
(* The invariant holds at first and every step keeps it. *)

(* Before the first listing there are no rows.                             *)
LEMMA InitPages == Init => TypeOK /\ CursorDivides
  <1> SUFFICES ASSUME Init PROVE TypeOK /\ CursorDivides
    OBVIOUS
  <1>1. DOMAIN rows = {}
    BY DEF Init
  <1>2. /\ 0 \in 0..MaxId /\ 0 \in Stamps /\ 0 \in 0..FarFuture /\ 0 \in 0..TopId /\ 0 \in 0..MaxLimit
        /\ None \in [Ids -> 0..2] /\ \A id \in Ids : None[id] = 0
    BY PagesAssumption DEF Stamps, FarFuture, TopId, None
  <1>3. listing \in [phase : {"idle", "paging", "done"}, at : 0..FarFuture, id : 0..TopId,
                     size : 0..MaxLimit, odd : BOOLEAN] /\ listing.phase = "idle"
    BY <1>2 DEF Init
  <1>4. TypeOK
    BY <1>1, <1>2, <1>3 DEF Init, TypeOK
  <1>5. CursorDivides
    BY <1>1, <1>2, <1>3 DEF Init, CursorDivides
  <1> QED BY <1>4, <1>5

(* One case for each action.                                               *)
LEMMA NextPages == TypeOK /\ CursorDivides /\ [Next]_vars => TypeOK' /\ CursorDivides'
  <1> SUFFICES ASSUME TypeOK, CursorDivides, [Next]_vars PROVE TypeOK' /\ CursorDivides'
    OBVIOUS
  <1>1. CASE StartListing
    BY <1>1, StartListingSafely
  <1>2. CASE GetPage
    <2>1. ASSUME NEW raw \in 0..(MaxLimit + 1), HistoryPage(ParseLimit(raw))
          PROVE  TypeOK' /\ CursorDivides'
      <3>1. ParseLimit(raw) \in 1..MaxLimit
        BY LimitInRange
      <3> QED BY <1>2, <2>1, <3>1, HistoryPageSafely DEF GetPage
    <2>2. ASSUME NEW limit \in 1..MaxLimit, ErrorPage(limit)
          PROVE  TypeOK' /\ CursorDivides'
      BY <1>2, <2>2, ErrorPageSafely DEF GetPage
    <2> QED BY <1>2, <2>1, <2>2 DEF GetPage
  <1>3. CASE RowsChange
    BY <1>3, RowsChangeSafely
  <1>4. CASE Tick
    BY <1>4, TickSafely
  <1>5. CASE UNCHANGED vars
    BY <1>5 DEF vars, TypeOK, CursorDivides, BelowCursor
  <1> QED BY <1>1, <1>2, <1>3, <1>4, <1>5 DEF Next

(* The cursor always divides the rows into those returned and those to     *)
(* come; a page never holds more than MaxLimit rows (history_handler.go    *)
(* and ListErrors).                                                        *)
THEOREM PagesCorrect == Spec => [](TypeOK /\ CursorDivides)
  <1>1. Init => TypeOK /\ CursorDivides
    BY InitPages
  <1>2. TypeOK /\ CursorDivides /\ [Next]_vars => TypeOK' /\ CursorDivides'
    BY NextPages
  <1> QED BY <1>1, <1>2, PTL DEF Spec

(* Whatever limit a request names, no page holds more than MaxLimit rows   *)
(* (parseLimit, history_handler.go:182-195; admin_handlers.go:72-80).      *)
THEOREM PagesWithinLimit == Spec => []TypeOK
  <1> QED BY PagesCorrect, PTL

(* A listing that came to its end returned every row that nobody touched   *)
(* meanwhile exactly once (history.sql.go:22-28, 94-100;                   *)
(* admin.sql.go:110-117).                                                  *)
THEOREM ListingsAreComplete == Spec => []UntouchedListedOnce
  <1>1. TypeOK /\ CursorDivides => UntouchedListedOnce
    BY DEF CursorDivides, UntouchedListedOnce
  <1> QED BY <1>1, PagesCorrect, PTL

(* No error event is listed twice (ListErrors, service.go:442-449).        *)
THEOREM NoErrorListedTwice == Spec => []ErrorsNotRepeated
  <1>1. TypeOK /\ CursorDivides => ErrorsNotRepeated
    BY DEF CursorDivides, ErrorsNotRepeated
  <1> QED BY <1>1, PagesCorrect, PTL
=============================================================================
