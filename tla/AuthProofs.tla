----------------------------- MODULE AuthProofs -----------------------------
(***************************************************************************)
(* Proofs about Authentication: type correctness, the inductive invariant  *)
(* AuthInv and the safety properties that follow from it.                  *)
(***************************************************************************)
EXTENDS AuthInvariants, TLAPS

-----------------------------------------------------------------------------
(* Rows and values *)

\* Names of rows are told apart by table and key.
LEMMA RowFacts ==
    /\ \A u \in Users : /\ UserRow(u) \in Rows /\ UserRow(u)[1] = "user" /\ UserRow(u)[2] = u
                        /\ PasswordRow(u) \in Rows /\ PasswordRow(u)[1] = "password" /\ PasswordRow(u)[2] = u
    /\ \A s \in Subjects : IdentityRow(s) \in Rows /\ IdentityRow(s)[1] = "identity" /\ IdentityRow(s)[2] = s
    /\ \A t \in Tokens : RefreshRow(t) \in Rows /\ RefreshRow(t)[1] = "refresh" /\ RefreshRow(t)[2] = t
    /\ \A l \in Links : LinkRow(l) \in Rows /\ LinkRow(l)[1] = "link" /\ LinkRow(l)[2] = l
    /\ \A row \in Rows : /\ row[1] \in {"user", "password", "identity", "refresh", "link"}
                         /\ row[1] = "user" => row[2] \in Users /\ row = UserRow(row[2])
                         /\ row[1] = "password" => row[2] \in Users /\ row = PasswordRow(row[2])
                         /\ row[1] = "identity" => row[2] \in Subjects /\ row = IdentityRow(row[2])
                         /\ row[1] = "refresh" => row[2] \in Tokens /\ row = RefreshRow(row[2])
                         /\ row[1] = "link" => row[2] \in Links /\ row = LinkRow(row[2])
BY DEF Rows, UserRow, PasswordRow, IdentityRow, RefreshRow, LinkRow

\* What a live row is.
LEMMA ValueFacts ==
    ASSUME NEW row \in Rows, NEW value
    PROVE  /\ value \in Stored(row) /\ Live(value) => value \in ValueOf(row)
           /\ value \in ValueOf(row) => Live(value) /\ value \in Stored(row)
           /\ None \in Stored(row)
           /\ row[1] \in {"user", "refresh", "link"} => Gone \in Stored(row)
           /\ Gone \in Stored(row) => row[1] \in {"user", "refresh", "link"}
           /\ row[1] = "user" => ValueOf(row) = User
           /\ row[1] = "password" => ValueOf(row) = Password
           /\ row[1] = "identity" => ValueOf(row) = Identity
           /\ row[1] = "refresh" => ValueOf(row) = RefreshToken
           /\ row[1] = "link" => ValueOf(row) = OneTimeToken
<1>1. /\ row[1] = "user" => ValueOf(row) = User
      /\ row[1] = "password" => ValueOf(row) = Password
      /\ row[1] = "identity" => ValueOf(row) = Identity
      /\ row[1] = "refresh" => ValueOf(row) = RefreshToken
      /\ row[1] = "link" => ValueOf(row) = OneTimeToken
    BY DEF ValueOf
<1>2. None \notin ValueOf(row) /\ Gone \notin ValueOf(row) /\ Gone # None
    BY AuthAssumption
<1>3. row[1] \in {"user", "password", "identity", "refresh", "link"}
    BY RowFacts
<1> HIDE DEF ValueOf
<1> QED BY <1>1, <1>2, <1>3 DEF Stored, Live

TypedRows(D) == DOMAIN D = Rows /\ \A row \in Rows : D[row] \in Stored(row)

TypedTx(T) == /\ DOMAIN T.writes \subseteq Rows
              /\ \A row \in DOMAIN T.writes : T.writes[row] \in Stored(row)
              /\ T.locks \subseteq (Rows \cup {EmailKey(e) : e \in Emails} \cup {LinkedKey(u) : u \in Users})
                                     \X Modes

\* A row that belongs to a user belongs to one of Users.
LEMMA OwnerTyped ==
    ASSUME NEW row \in Rows, NEW value \in Stored(row), row[1] # "user", Live(value)
    PROVE  OwnerOf(row, value) \in Users /\ BelongsTo(row, value, OwnerOf(row, value))
<1>1. value \in ValueOf(row)
    BY ValueFacts
<1>2. row[1] \in {"password", "identity", "refresh", "link"} /\ (row[1] = "password" => row[2] \in Users)
    BY RowFacts
<1>3. CASE row[1] = "identity"
  <2>1. value \in Identity
    BY <1>1, <1>3, ValueFacts
  <2> QED BY <1>3, <2>1 DEF Identity, OwnerOf, BelongsTo
<1>4. CASE row[1] = "refresh"
  <2>1. value \in RefreshToken
    BY <1>1, <1>4, ValueFacts
  <2> QED BY <1>4, <2>1 DEF RefreshToken, OwnerOf, BelongsTo
<1>5. CASE row[1] = "link"
  <2>1. value \in OneTimeToken
    BY <1>1, <1>5, ValueFacts
  <2> QED BY <1>5, <2>1 DEF OneTimeToken, OwnerOf, BelongsTo
<1> QED BY <1>2, <1>3, <1>4, <1>5 DEF OwnerOf, BelongsTo

\* E is what D becomes when O is committed.
Committed(D, O, E) == DOMAIN E = Rows /\ \A row \in Rows : E[row] = Seen(D, O, row)

-----------------------------------------------------------------------------
(* A commit: what it does to the transactions beside it *)

\* While a transaction holds a lock for update on a live row, nobody else writes it.
LEMMA LockStable ==
    ASSUME NEW D, NEW T, NEW O, NEW row \in Rows, TypedRows(D), TypedTx(T), TypedTx(O),
           OwnersLive(D), WritesLocked(D, O), Exclusive(T, O), Locked(T, row), Live(D[row])
    PROVE  row \notin DOMAIN O.writes
<1> SUFFICES ASSUME row \in DOMAIN O.writes PROVE FALSE
    OBVIOUS
<1>1. D[row] # None
    BY DEF Live
<1>2. ~(row[1] = "password" /\ Adds(D, O, row[2]))
  <2> SUFFICES ASSUME row[1] = "password", Adds(D, O, row[2]) PROVE FALSE
    OBVIOUS
  <2>1. row[2] \in Users /\ BelongsTo(row, D[row], row[2])
    BY RowFacts DEF BelongsTo, OwnerOf
  <2> QED BY <2>1 DEF OwnersLive, Adds, Live
<1>3. ~Locked(O, row) /\ <<row, "no_key_update">> \notin O.locks
    BY DEF Exclusive, Locked, Conflict
<1> QED BY <1>1, <1>2, <1>3 DEF WritesLocked, WriteLocked

\* Whatever others commit, a user stays known, and stays verified unless deleted.
LEMMA UserStable ==
    ASSUME NEW D, NEW E, NEW T, NEW O, NEW u \in Users, Committed(D, O, E), WritesFollow(D, O)
    PROVE  /\ Seen(D, T, UserRow(u)) # None => Seen(E, T, UserRow(u)) # None
           /\ Trusted(Seen(D, T, UserRow(u))) => Trusted(Seen(E, T, UserRow(u)))
<1> DEFINE row == UserRow(u)
<1>1. row \in Rows /\ row[1] = "user"
    BY RowFacts
<1>2. CASE row \in DOMAIN T.writes
    BY <1>2 DEF Seen
<1>3. CASE row \notin DOMAIN T.writes
  <2>1. Seen(D, T, row) = D[row] /\ Seen(E, T, row) = E[row] /\ E[row] = Seen(D, O, row)
    BY <1>1, <1>3 DEF Seen, Committed
  <2>2. CASE row \notin DOMAIN O.writes
    BY <2>1, <2>2 DEF Seen
  <2>3. CASE row \in DOMAIN O.writes
    <3>1. E[row] = O.writes[row] /\ Follows(row, D[row], O.writes[row])
        BY <2>1, <2>3 DEF WritesFollow, Seen
    <3>2. E[row] # None /\ D[row] # Gone
        BY <1>1, <3>1 DEF Follows
    <3>3. Trusted(D[row]) => Trusted(E[row])
        BY <1>1, <3>1, <3>2 DEF Follows, Trusted, Live
    <3> QED BY <2>1, <3>2, <3>3
  <2> QED BY <2>2, <2>3
<1> QED BY <1>2, <1>3

\* A lock on a live user keeps the user from being deleted.
LEMMA PinnedStable ==
    ASSUME NEW D, NEW E, NEW T, NEW O, NEW P, NEW u \in Users, Committed(D, O, E),
           Deletes(D, O, P), Exclusive(T, O), Pins(T, u),
           Live(Seen(D, T, UserRow(u)))
    PROVE  Live(Seen(E, T, UserRow(u)))
<1> DEFINE row == UserRow(u)
<1>1. row \in Rows /\ row[1] = "user"
    BY RowFacts
<1>2. CASE row \in DOMAIN T.writes
    BY <1>2 DEF Seen
<1>3. CASE row \notin DOMAIN T.writes
  <2>1. Seen(D, T, row) = D[row] /\ Seen(E, T, row) = E[row] /\ E[row] = Seen(D, O, row)
    BY <1>1, <1>3 DEF Seen, Committed
  <2>2. CASE row \notin DOMAIN O.writes
    BY <2>1, <2>2 DEF Seen
  <2>3. CASE row \in DOMAIN O.writes
    <3>1. E[row] = O.writes[row]
        BY <2>1, <2>3 DEF Seen
    <3>2. ASSUME ~Live(O.writes[row]) PROVE FALSE
      <4>0. row # PasswordRow(P.user)
        BY <1>1 DEF PasswordRow
      <4>1. Deleting(P) /\ row = UserRow(P.user)
        BY <1>1, <2>3, <3>2, <4>0 DEF Deletes, BelongsTo
      <4>2. Locked(O, row)
        BY <4>1 DEF Deletes
      <4> QED BY <4>2 DEF Exclusive, Pins, Locked, Conflict
    <3> QED BY <2>1, <3>1, <3>2
  <2> QED BY <2>2, <2>3
<1> QED BY <1>2, <1>3

\* What a transaction has written is as uncommitted after the commit of another as
\* before.
LEMMA WritesStable ==
    ASSUME NEW D, NEW E, NEW T, NEW O, Committed(D, O, E), TypedTx(T), Exclusive(T, O)
    PROVE  \A row \in DOMAIN T.writes : E[row] = D[row]
BY DEF Committed, TypedTx, Exclusive, Seen

\* Request P commits O beside T: D becomes E.
Beside(D, E, T, O, P) ==
    /\ TypedRows(D) /\ TypedTx(T) /\ TypedTx(O) /\ P \in Call
    /\ Committed(D, O, E) /\ Exclusive(T, O) /\ OwnersLive(D)
    /\ Parameters(P) /\ WritesLocked(D, O) /\ WritesFollow(D, O) /\ WritesReference(D, O)
    /\ SessionsSound(D, O, P) /\ Deletes(D, O, P) /\ Claims(D, O, P)

LEMMA FrameWrites ==
    ASSUME NEW D, NEW E, NEW T, NEW O, NEW P, Beside(D, E, T, O, P),
           WritesLocked(D, T), WritesFollow(D, T), WritesReference(D, T)
    PROVE  WritesLocked(E, T) /\ WritesFollow(E, T) /\ WritesReference(E, T)
<1>1. \A row \in DOMAIN T.writes : row \in Rows /\ E[row] = D[row]
    BY WritesStable DEF Beside, TypedTx
<1>2. \A u : Adds(D, T, u) => Adds(E, T, u)
    BY <1>1 DEF Adds
<1>3. WritesLocked(E, T)
    BY <1>1, <1>2 DEF WritesLocked, WriteLocked
<1>4. WritesFollow(E, T)
    BY <1>1 DEF WritesFollow
<1>5. \A u \in Users : Pins(T, u) /\ Live(Seen(D, T, UserRow(u))) => Live(Seen(E, T, UserRow(u)))
    BY PinnedStable DEF Beside
<1>6. WritesReference(E, T)
    BY <1>1, <1>2, <1>5 DEF WritesReference, Referenced
<1> QED BY <1>3, <1>4, <1>6

\* A row that a transaction holds for update is as it was.
LEMMA LockedStable ==
    ASSUME NEW D, NEW E, NEW T, NEW O, NEW P, Beside(D, E, T, O, P),
           NEW row \in Rows, Locked(T, row), Live(D[row])
    PROVE  E[row] = D[row]
<1>1. row \notin DOMAIN O.writes
    BY LockStable DEF Beside
<1> QED BY <1>1 DEF Beside, Committed, Seen

LEMMA NewTokenTyped ==
    ASSUME NEW D, NEW T, TypedTx(T), WritesFollow(D, T), NEW t \in NewTokens(D, T)
    PROVE  /\ t \in Tokens /\ RefreshRow(t) \in DOMAIN T.writes
           /\ T.writes[RefreshRow(t)] \in RefreshToken
           /\ T.writes[RefreshRow(t)].user \in Users
           /\ Live(T.writes[RefreshRow(t)])
<1> DEFINE row == RefreshRow(t)
           new == T.writes[row]
<1>1. t \in Tokens /\ row \in DOMAIN T.writes /\ D[row] = None
    BY DEF NewTokens
<1>2. row \in Rows /\ row[1] = "refresh" /\ new \in Stored(row)
    BY <1>1, RowFacts DEF TypedTx
<1>3. Live(new)
    BY <1>1, <1>2 DEF WritesFollow, Follows, Live
<1>4. new \in RefreshToken
    BY <1>2, <1>3, ValueFacts
<1> QED BY <1>1, <1>3, <1>4 DEF RefreshToken

LEMMA FrameSessions ==
    ASSUME NEW D, NEW E, NEW T, NEW O, NEW P, NEW C \in Call, Beside(D, E, T, O, P), Parameters(C),
           WritesFollow(D, T),
           UserKnown(D, T, C), Exchanges(D, T, C), SessionsSound(D, T, C)
    PROVE  UserKnown(E, T, C) /\ Exchanges(E, T, C) /\ SessionsSound(E, T, C)
<1>1. \A row \in DOMAIN T.writes : row \in Rows /\ E[row] = D[row]
    BY WritesStable DEF Beside, TypedTx
<1>2. \A row \in Rows : Locked(T, row) /\ Live(D[row]) => E[row] = D[row]
    BY LockedStable
<1>3. \A u \in Users : /\ Seen(D, T, UserRow(u)) # None => Seen(E, T, UserRow(u)) # None
                       /\ Trusted(Seen(D, T, UserRow(u))) => Trusted(Seen(E, T, UserRow(u)))
    BY UserStable DEF Beside
<1>4. UserKnown(E, T, C)
    BY <1>3 DEF UserKnown, Vouched
<1>5. Exchanges(E, T, C)
  <2>1. C.op \in {"refresh"} => RefreshRow(C.token) \in Rows
    BY RowFacts DEF Parameters
  <2>2. C.op \in {"verify", "reset"} => LinkRow(C.link) \in Rows
    BY RowFacts DEF Parameters
  <2> QED BY <1>2, <2>1, <2>2 DEF Exchanges
<1>6. NewTokens(E, T) = NewTokens(D, T)
    BY <1>1 DEF NewTokens
<1>7. ASSUME NEW t \in NewTokens(D, T) PROVE SessionSound(E, T, t)
  <2> DEFINE new == T.writes[RefreshRow(t)]
  <2>1. SessionSound(D, T, t)
    BY <1>7 DEF SessionsSound
  <2>2. new.user \in Users
    BY <1>7, NewTokenTyped DEF Beside
  <2>3. new.via \in {"rotate", "grace"} =>
            LET row == RefreshRow(new.from) IN row \in Rows /\ E[row] = D[row]
    BY <1>2, <2>1, RowFacts DEF SessionSound
  <2>4. new.via = "link" => LET row == LinkRow(new.from) IN row \in Rows /\ E[row] = D[row]
    BY <1>2, <2>1, RowFacts DEF SessionSound
  <2> QED BY <1>3, <2>1, <2>2, <2>3, <2>4 DEF SessionSound
<1>8. ASSUME NEW s \in Subjects, IdentityRow(s) \in DOMAIN T.writes, Live(T.writes[IdentityRow(s)])
      PROVE  Trusted(Seen(E, T, UserRow(T.writes[IdentityRow(s)].user)))
  <2>1. IdentityRow(s) \in Rows /\ IdentityRow(s)[1] = "identity"
            /\ T.writes[IdentityRow(s)] \in Stored(IdentityRow(s))
    BY <1>8, RowFacts DEF Beside, TypedTx
  <2>2. T.writes[IdentityRow(s)].user \in Users
    BY <1>8, <2>1, OwnerTyped DEF OwnerOf
  <2> QED BY <1>3, <1>8, <2>2 DEF SessionsSound
<1>9. SessionsSound(E, T, C)
    BY <1>1, <1>6, <1>7, <1>8 DEF SessionsSound
<1> QED BY <1>4, <1>5, <1>9

\* A live row that another transaction changes keeps its owner; one that it deletes
\* belongs to a user whom that transaction has locked.
LEMMA OwnerStable ==
    ASSUME NEW D, NEW E, NEW T, NEW O, NEW P, Beside(D, E, T, O, P),
           NEW u \in Users, Locked(T, UserRow(u)), NEW row \in Rows, BelongsTo(row, D[row], u)
    PROVE  BelongsTo(row, E[row], u)
<1>1. CASE row \notin DOMAIN O.writes
    BY <1>1 DEF Beside, Committed, Seen
<1>2. CASE row \in DOMAIN O.writes
  <2>1. E[row] = O.writes[row] /\ Follows(row, D[row], O.writes[row]) /\ row[1] # "user" /\ Live(D[row])
    BY <1>2 DEF Beside, Committed, Seen, WritesFollow, BelongsTo
  <2>2. ~Locked(O, UserRow(u))
    BY DEF Beside, Exclusive, Locked, Conflict
  <2>3. Live(O.writes[row])
    <3> SUFFICES ASSUME ~Live(O.writes[row]) PROVE FALSE
        OBVIOUS
    <3>1. Deletes(D, O, P) /\ Claims(D, O, P) /\ Parameters(P) /\ TypedRows(D)
        BY DEF Beside
    <3>2. row # UserRow(P.user)
        BY <2>1 DEF UserRow
    <3>3. CASE Deleting(P) /\ BelongsTo(row, D[row], P.user)
      <4>1. P.user = u
        BY <3>3 DEF BelongsTo
      <4> QED BY <2>2, <3>1, <3>3, <4>1 DEF Deletes
    <3>4. CASE Claiming(P) /\ row = PasswordRow(P.user)
      <4>1. P.user = u
        BY <3>4 DEF BelongsTo, OwnerOf, PasswordRow
      <4> QED BY <2>2, <3>1, <3>4, <4>1 DEF Claims
    <3> QED BY <1>2, <3>1, <3>2, <3>3, <3>4 DEF Deletes
  <2>4. row[1] \in {"password", "refresh", "link"}
    BY <2>1, <2>3, RowFacts DEF Follows
  <2>5. OwnerOf(row, O.writes[row]) = OwnerOf(row, D[row])
    BY <2>1, <2>3, <2>4 DEF Follows, OwnerOf
  <2> QED BY <2>1, <2>3, <2>5 DEF BelongsTo
<1> QED BY <1>1, <1>2

\* No other transaction adds to a user whom one holds for update.
LEMMA NothingAdded ==
    ASSUME NEW D, NEW E, NEW T, NEW O, NEW P, Beside(D, E, T, O, P),
           NEW u \in Users, Locked(T, UserRow(u)), D[UserRow(u)] # None, NEW row \in Rows,
           BelongsTo(row, E[row], u)
    PROVE  /\ BelongsTo(row, D[row], u)
           /\ row \in DOMAIN O.writes => BelongsTo(row, O.writes[row], u) /\ E[row] = O.writes[row]
           /\ row \notin DOMAIN O.writes => E[row] = D[row]
<1>1. CASE row \notin DOMAIN O.writes
    BY <1>1 DEF Beside, Committed, Seen
<1>2. CASE row \in DOMAIN O.writes
  <2>1. E[row] = O.writes[row]
    BY <1>2 DEF Beside, Committed, Seen
  <2>2. ~Pins(O, u)
    BY DEF Beside, Exclusive, Locked, Conflict, Pins
  <2>3. ~Adds(D, O, u)
    BY DEF Adds
  <2> QED BY <1>2, <2>1, <2>2, <2>3 DEF Beside, WritesReference, Referenced
<1> QED BY <1>1, <1>2

LEMMA ClaimStage ==
    ASSUME NEW C, Progress(C), Claiming(C)
    PROVE  Stage(C) \notin Finding /\ Stage(C) \in {"drop_password", "revoke"} \cup AfterRevoke
<1>1. C.op = "federated" /\ C.via = "claim" /\ Head(C.steps) # "lock_account"
    BY DEF Claiming, Stage
<1> DEFINE s == C.steps
<1>2. s \in {ClaimUnverifiedAccount,
             <<"drop_password", "revoke", "invalidate_verify", "invalidate_reset",
               "set_verified", "insert_identity", "issue", "commit">>,
             <<"revoke", "invalidate_verify", "invalidate_reset",
               "set_verified", "insert_identity", "issue", "commit">>,
             <<"invalidate_verify", "invalidate_reset", "set_verified", "insert_identity", "issue", "commit">>,
             <<"invalidate_reset", "set_verified", "insert_identity", "issue", "commit">>,
             <<"set_verified", "insert_identity", "issue", "commit">>,
             <<"insert_identity", "issue", "commit">>, KnownIdentity, <<"commit">>}
    BY <1>1 DEF Progress
<1> HIDE DEF s
<1>3. Head(s) \in {"lock_account", "drop_password", "revoke", "invalidate_verify", "invalidate_reset",
                   "set_verified", "insert_identity", "issue", "commit"}
    BY <1>2 DEF ClaimUnverifiedAccount, KnownIdentity
<1> QED BY <1>1, <1>3 DEF s, Stage, Finding, AfterRevoke

LEMMA FrameAccounts ==
    ASSUME NEW D, NEW E, NEW T, NEW O, NEW P, NEW C \in Call, Beside(D, E, T, O, P), Parameters(C), Progress(C),
           WritesFollow(D, T),
           UserKnown(D, T, C), Logins(D, T, C), Deletes(D, T, C), Claims(D, T, C)
    PROVE  Logins(E, T, C) /\ Deletes(E, T, C) /\ Claims(E, T, C)
<1>1. \A row \in DOMAIN T.writes : row \in Rows /\ E[row] = D[row]
    BY WritesStable DEF Beside, TypedTx
<1>2. Logins(E, T, C)
  <2>1. \A u \in Users : Adds(E, T, u) => Adds(D, T, u)
    BY <1>1 DEF Adds
  <2> QED BY <2>1 DEF Logins
<1>3. Deletes(E, T, C)
  <2>1. ASSUME Deleting(C)
        PROVE  /\ \A row \in Rows : BelongsTo(row, E[row], C.user) => row \in C.todo \cup DOMAIN T.writes
               /\ \A row \in C.todo : BelongsTo(row, E[row], C.user)
    <3>1. C.user \in Users /\ Locked(T, UserRow(C.user)) /\ C.todo \subseteq Rows
        BY <2>1 DEF Parameters, Deletes, Deleting, Call
    <3>2. D[UserRow(C.user)] # None
      <4>1. UserRow(C.user) \in DOMAIN T.writes /\ ~Live(T.writes[UserRow(C.user)])
        BY <2>1 DEF Deletes, Deleting
      <4>2. Follows(UserRow(C.user), D[UserRow(C.user)], T.writes[UserRow(C.user)])
        BY <4>1 DEF WritesFollow
      <4> QED BY <3>1, <4>1, <4>2, RowFacts DEF Follows, Live
    <3>3. \A row \in Rows : BelongsTo(row, E[row], C.user) => BelongsTo(row, D[row], C.user)
        BY <3>1, <3>2, NothingAdded
    <3>4. \A row \in Rows : BelongsTo(row, D[row], C.user) => BelongsTo(row, E[row], C.user)
        BY <3>1, OwnerStable
    <3> QED BY <2>1, <3>1, <3>3, <3>4 DEF Deletes
  <2> QED BY <1>1, <2>1 DEF Deletes
<1>4. Claims(E, T, C)
  <2> SUFFICES ASSUME Claiming(C) PROVE Claims(E, T, C)
    BY DEF Claims
  <2> DEFINE u == C.user
  <2>1. u \in Users
    BY ClaimStage DEF Claiming, Parameters
  <2>2. Locked(T, UserRow(u)) /\ Live(D[UserRow(u)])
    BY DEF Claims
  <2>3. E[UserRow(u)] = D[UserRow(u)] /\ D[UserRow(u)] # None
    BY <2>1, <2>2, RowFacts, LockedStable DEF Live
  <2>4. ASSUME NEW row \in Rows, BelongsTo(row, Seen(E, T, row), u)
        PROVE  /\ BelongsTo(row, Seen(D, T, row), u)
               /\ \/ Seen(E, T, row) = Seen(D, T, row)
                  \/ /\ Live(Seen(E, T, row)) /\ Live(Seen(D, T, row))
                     /\ Follows(row, Seen(D, T, row), Seen(E, T, row))
    <3>1. CASE row \in DOMAIN T.writes
        BY <2>4, <3>1 DEF Seen
    <3>2. CASE row \notin DOMAIN T.writes
      <4>1. BelongsTo(row, E[row], u) /\ Seen(E, T, row) = E[row] /\ Seen(D, T, row) = D[row]
        BY <2>4, <3>2 DEF Seen
      <4>2. /\ BelongsTo(row, D[row], u)
            /\ row \in DOMAIN O.writes => E[row] = O.writes[row]
            /\ row \notin DOMAIN O.writes => E[row] = D[row]
        BY <2>1, <2>2, <2>3, <4>1, NothingAdded
      <4> QED BY <4>1, <4>2 DEF Beside, WritesFollow, BelongsTo
    <3> QED BY <3>1, <3>2
  <2>5. ASSUME NEW t \in Tokens, Stage(C) \in AfterRevoke, BelongsTo(RefreshRow(t), Seen(E, T, RefreshRow(t)), u)
        PROVE  LET token == Seen(E, T, RefreshRow(t))
               IN  token.revoked \/ token.via = "claim" \/ RefreshRow(t) \in C.todo
    <3> DEFINE row == RefreshRow(t)
               was == Seen(D, T, row)
    <3>1. row \in Rows /\ row[1] = "refresh"
        BY RowFacts
    <3>2. was.revoked \/ was.via = "claim" \/ row \in C.todo
        BY <2>4, <2>5, <3>1 DEF Claims
    <3> QED BY <2>4, <2>5, <3>1, <3>2 DEF Follows
  <2>6. ASSUME NEW l \in Links, BelongsTo(LinkRow(l), Seen(E, T, LinkRow(l)), u),
               \/ Stage(C) \in AfterRevoke \ {"invalidate_verify", "invalidate_reset"}
               \/ Stage(C) = "invalidate_reset" /\ Seen(E, T, LinkRow(l)).kind = "verify_email"
        PROVE  Seen(E, T, LinkRow(l)).used \/ LinkRow(l) \in C.todo
    <3> DEFINE row == LinkRow(l)
               was == Seen(D, T, row)
    <3>1. row \in Rows /\ row[1] = "link"
        BY RowFacts
    <3>2. CASE Seen(E, T, row) = was
      <4>1. BelongsTo(row, was, u)
        BY <2>4, <2>6, <3>1
      <4> QED BY <2>6, <3>2, <4>1 DEF Claims
    <3>3. CASE Live(Seen(E, T, row)) /\ Live(was) /\ Follows(row, was, Seen(E, T, row))
        BY <3>1, <3>3 DEF Follows
    <3> QED BY <2>4, <2>6, <3>1, <3>2, <3>3
  <2>7. /\ Stage(C) # "drop_password" =>
              PasswordRow(u) \in DOMAIN T.writes /\ T.writes[PasswordRow(u)] = None /\ Locked(T, PasswordRow(u))
        /\ Stage(C) \in {"issue", "commit"} => HasIdentity(T, C)
    BY DEF Claims
  <2> QED BY <2>2, <2>3, <2>5, <2>6, <2>7 DEF Claims
<1> QED BY <1>2, <1>3, <1>4

\* What holds of a transaction holds after the commit of another.
LEMMA HandlerFramed ==
    ASSUME NEW D, NEW E, NEW T, NEW O, NEW P, NEW C \in Call, Beside(D, E, T, O, P), HandlerSound(D, T, C)
    PROVE  HandlerSound(E, T, C)
<1>1. CASE C = Idle /\ T = NoTx
    BY <1>1 DEF HandlerSound, Working
<1>2. CASE ~(C = Idle /\ T = NoTx)
  <2>1. /\ C.op # "none" /\ Progress(C) /\ Parameters(C)
        /\ WritesLocked(D, T) /\ WritesFollow(D, T) /\ WritesReference(D, T)
        /\ UserKnown(D, T, C) /\ Exchanges(D, T, C) /\ SessionsSound(D, T, C)
        /\ Logins(D, T, C) /\ Deletes(D, T, C) /\ Claims(D, T, C)
    BY <1>2 DEF HandlerSound, Working
  <2>2. WritesLocked(E, T) /\ WritesFollow(E, T) /\ WritesReference(E, T)
    BY <2>1, FrameWrites
  <2>3. UserKnown(E, T, C) /\ Exchanges(E, T, C) /\ SessionsSound(E, T, C)
    BY <2>1, FrameSessions
  <2>4. Logins(E, T, C) /\ Deletes(E, T, C) /\ Claims(E, T, C)
    BY <2>1, FrameAccounts
  <2> QED BY <2>1, <2>2, <2>3, <2>4 DEF HandlerSound, Working
<1> QED BY <1>1, <1>2

-----------------------------------------------------------------------------
(* A commit: what it does to the rows *)

\* Request P, which has come to its end, commits O: D becomes E.
Commits(D, E, O, P) ==
    /\ TypedRows(D) /\ TypedTx(O) /\ P \in Call /\ Committed(D, O, E)
    /\ Stage(P) = "commit" /\ P.todo = {}
    /\ Parameters(P) /\ WritesFollow(D, O) /\ WritesReference(D, O)
    /\ SessionsSound(D, O, P) /\ Logins(D, O, P) /\ Deletes(D, O, P) /\ Claims(D, O, P)

LEMMA CommitTyped ==
    ASSUME NEW D, NEW E, NEW O, TypedRows(D), TypedTx(O), Committed(D, O, E)
    PROVE  TypedRows(E)
BY DEF TypedRows, TypedTx, Committed, Seen

\* A row changes only as Follows says.
LEMMA CommitFollows ==
    ASSUME NEW D, NEW E, NEW O, NEW P, Commits(D, E, O, P), NEW row \in Rows
    PROVE  /\ row \notin DOMAIN O.writes => E[row] = D[row]
           /\ row \in DOMAIN O.writes => E[row] = O.writes[row] /\ Follows(row, D[row], E[row])
BY DEF Commits, Committed, Seen, WritesFollow

\* A user who is deleted is the one of the request.
LEMMA CommitDeletes ==
    ASSUME NEW D, NEW E, NEW O, NEW P, Commits(D, E, O, P), NEW u \in Users
    PROVE  /\ UserRow(u) \in DOMAIN O.writes /\ ~Live(O.writes[UserRow(u)]) => Deleting(P) /\ P.user = u
           /\ Deleting(P) /\ P.user = u => ~Live(E[UserRow(u)])
<1>1. UserRow(u) \in Rows /\ UserRow(u)[1] = "user" /\ UserRow(u)[2] = u
    BY RowFacts
<1>2. Deletes(D, O, P)
    BY DEF Commits
<1>3. ASSUME UserRow(u) \in DOMAIN O.writes, ~Live(O.writes[UserRow(u)])
      PROVE  Deleting(P) /\ P.user = u
  <2>1. UserRow(u) # PasswordRow(P.user) /\ ~BelongsTo(UserRow(u), D[UserRow(u)], P.user)
    BY <1>1 DEF PasswordRow, BelongsTo
  <2>2. Deleting(P) /\ UserRow(u) = UserRow(P.user)
    BY <1>2, <1>3, <2>1 DEF Deletes
  <2> QED BY <2>2 DEF UserRow
<1>4. ASSUME Deleting(P), P.user = u PROVE ~Live(E[UserRow(u)])
  <2>1. UserRow(u) \in DOMAIN O.writes /\ ~Live(O.writes[UserRow(u)])
    BY <1>2, <1>4 DEF Deletes, Deleting
  <2> QED BY <1>1, <2>1, CommitFollows
<1> QED BY <1>3, <1>4

\* A foreign key that holds before a commit holds after it.
LEMMA CommitOwners ==
    ASSUME NEW D, NEW E, NEW O, NEW P, Commits(D, E, O, P), OwnersLive(D)
    PROVE  OwnersLive(E)
<1> SUFFICES ASSUME NEW row \in Rows, NEW u \in Users, BelongsTo(row, E[row], u)
             PROVE  Live(E[UserRow(u)])
    BY DEF OwnersLive
<1>1. UserRow(u) \in Rows
    BY RowFacts
<1>2. CASE row \notin DOMAIN O.writes
  <2>1. BelongsTo(row, D[row], u) /\ Live(D[UserRow(u)])
    BY <1>2, CommitFollows DEF OwnersLive
  <2>2. CASE UserRow(u) \notin DOMAIN O.writes
    BY <1>1, <2>1, <2>2, CommitFollows
  <2>3. CASE UserRow(u) \in DOMAIN O.writes
    <3>1. ~(Deleting(P) /\ P.user = u)
        BY <1>2, <2>1 DEF Commits, Deletes
    <3> QED BY <1>1, <2>3, <3>1, CommitDeletes, CommitFollows
  <2> QED BY <2>2, <2>3
<1>3. CASE row \in DOMAIN O.writes
  <2>1. E[row] = O.writes[row] /\ Live(O.writes[row]) /\ BelongsTo(row, O.writes[row], u)
    BY <1>3, CommitFollows DEF BelongsTo
  <2>2. ~Deleting(P)
    BY <1>3, <2>1 DEF Commits, Deletes, Deleting
  <2>3. UserRow(u) \in DOMAIN O.writes => Live(E[UserRow(u)])
    BY <1>1, <2>2, CommitDeletes, CommitFollows
  <2>4. \/ BelongsTo(row, D[row], u)
        \/ Live(Seen(D, O, UserRow(u)))
        \/ Adds(D, O, u)
    BY <1>3, <2>1 DEF Commits, WritesReference, Referenced
  <2>5. BelongsTo(row, D[row], u) => Live(D[UserRow(u)])
    BY DEF OwnersLive
  <2>6. Seen(D, O, UserRow(u)) = E[UserRow(u)]
    BY <1>1 DEF Commits, Committed
  <2> QED BY <1>1, <2>3, <2>4, <2>5, <2>6, CommitFollows DEF Adds
<1> QED BY <1>2, <1>3

\* A user who is known and verified, or deleted, stays so.
LEMMA CommitUsers ==
    ASSUME NEW D, NEW E, NEW O, NEW P, Commits(D, E, O, P), NEW u \in Users
    PROVE  Trusted(D[UserRow(u)]) => Trusted(E[UserRow(u)])
<1>1. \A F : Seen(F, NoTx, UserRow(u)) = F[UserRow(u)]
    BY DEF Seen, NoTx, NoWrites
<1>2. Trusted(Seen(D, NoTx, UserRow(u))) => Trusted(Seen(E, NoTx, UserRow(u)))
    BY UserStable DEF Commits
<1> QED BY <1>1, <1>2

\* A session that a commit leaves was there before, with the same user, family and
\* origin, or is the one that the request has issued.
LEMMA CommitSessions ==
    ASSUME NEW D, NEW E, NEW O, NEW P, Commits(D, E, O, P), NEW t \in Tokens, Live(E[RefreshRow(t)])
    PROVE  /\ E[RefreshRow(t)] \in RefreshToken
           /\ \/ /\ Live(D[RefreshRow(t)]) /\ D[RefreshRow(t)] \in RefreshToken
                 /\ E[RefreshRow(t)].user = D[RefreshRow(t)].user
                 /\ E[RefreshRow(t)].family = D[RefreshRow(t)].family
                 /\ E[RefreshRow(t)].from = D[RefreshRow(t)].from
                 /\ E[RefreshRow(t)].via = D[RefreshRow(t)].via
              \/ /\ t \in NewTokens(D, O) /\ D[RefreshRow(t)] = None
                 /\ E[RefreshRow(t)] = O.writes[RefreshRow(t)]
                 /\ SessionSound(D, O, t)
<1> DEFINE row == RefreshRow(t)
<1>1. row \in Rows /\ row[1] = "refresh"
    BY RowFacts
<1>2. TypedRows(D) /\ TypedRows(E)
    BY CommitTyped DEF Commits
<1>3. E[row] \in RefreshToken /\ (Live(D[row]) => D[row] \in RefreshToken)
    BY <1>1, <1>2, ValueFacts DEF TypedRows
<1>4. CASE row \notin DOMAIN O.writes
    BY <1>1, <1>3, <1>4, CommitFollows
<1>5. CASE row \in DOMAIN O.writes
  <2>1. E[row] = O.writes[row] /\ Follows(row, D[row], E[row])
    BY <1>1, <1>5, CommitFollows
  <2>2. CASE D[row] = None
    <3>1. t \in NewTokens(D, O)
        BY <1>5, <2>2 DEF NewTokens
    <3>2. SessionSound(D, O, t)
        BY <3>1 DEF Commits, SessionsSound
    <3> QED BY <1>3, <2>1, <2>2, <3>1, <3>2
  <2>3. CASE D[row] # None
    <3>1. Live(D[row])
        BY <2>1, <2>3 DEF Follows, Live
    <3> QED BY <1>1, <1>3, <2>1, <3>1 DEF Follows
  <2> QED BY <2>2, <2>3
<1> QED BY <1>4, <1>5

\* Those who hold a session, an identity or an access token are verified.
LEMMA CommitHolders ==
    ASSUME NEW D, NEW E, NEW O, NEW P, Commits(D, E, O, P),
           NEW Q \in SUBSET Users, NEW R, HoldersTrusted(D, Q),
           R = Q \cup {O.writes[RefreshRow(t)].user : t \in {t \in Tokens : RefreshRow(t) \in DOMAIN O.writes
                                                               /\ O.writes[RefreshRow(t)] # Gone}}
    PROVE  HoldersTrusted(E, R) /\ R \subseteq Users
<1>1. ASSUME NEW t \in Tokens, Live(E[RefreshRow(t)])
      PROVE  E[RefreshRow(t)].user \in Users /\ Trusted(E[UserRow(E[RefreshRow(t)].user)])
  <2> DEFINE u == E[RefreshRow(t)].user
  <2>1. u \in Users
    BY <1>1, CommitSessions DEF RefreshToken
  <2>2. UserRow(u) \in Rows
    BY <2>1, RowFacts
  <2>3. CASE Live(D[RefreshRow(t)]) /\ u = D[RefreshRow(t)].user
    BY <2>1, <2>3, CommitUsers DEF HoldersTrusted
  <2>4. CASE E[RefreshRow(t)] = O.writes[RefreshRow(t)] /\ SessionSound(D, O, t)
    BY <2>1, <2>2, <2>4 DEF SessionSound, Commits, Committed
  <2> QED BY <1>1, <2>1, <2>3, <2>4, CommitSessions
<1>2. ASSUME NEW s \in Subjects, Live(E[IdentityRow(s)])
      PROVE  Trusted(E[UserRow(E[IdentityRow(s)].user)])
  <2> DEFINE u == E[IdentityRow(s)].user
  <2>1. IdentityRow(s) \in Rows /\ IdentityRow(s)[1] = "identity"
    BY RowFacts
  <2>2. u \in Users
    <3>1. E[IdentityRow(s)] \in Stored(IdentityRow(s))
        BY <2>1, CommitTyped DEF Commits, TypedRows
    <3> QED BY <1>2, <2>1, <3>1, OwnerTyped DEF OwnerOf
  <2>3. CASE IdentityRow(s) \notin DOMAIN O.writes
    BY <1>2, <2>1, <2>2, <2>3, CommitFollows, CommitUsers DEF HoldersTrusted
  <2>4. CASE IdentityRow(s) \in DOMAIN O.writes
    <3>1. E[IdentityRow(s)] = O.writes[IdentityRow(s)]
        BY <2>1, <2>4, CommitFollows
    <3>2. Trusted(Seen(D, O, UserRow(u)))
        BY <1>2, <2>4, <3>1 DEF Commits, SessionsSound
    <3> QED BY <2>2, <3>2, RowFacts DEF Commits, Committed
  <2> QED BY <2>3, <2>4
<1>3. ASSUME NEW u \in R PROVE u \in Users /\ Trusted(E[UserRow(u)])
  <2>1. CASE u \in Q
    BY <2>1, CommitUsers DEF HoldersTrusted
  <2>2. CASE u \notin Q
    <3>1. PICK t \in Tokens : /\ RefreshRow(t) \in DOMAIN O.writes /\ O.writes[RefreshRow(t)] # Gone
                              /\ u = O.writes[RefreshRow(t)].user
        BY <1>3, <2>2
    <3>2. RefreshRow(t) \in Rows /\ RefreshRow(t)[1] = "refresh"
        BY RowFacts
    <3>3. E[RefreshRow(t)] = O.writes[RefreshRow(t)] /\ E[RefreshRow(t)] # None
        BY <3>1, <3>2, CommitFollows DEF Follows
    <3> QED BY <1>1, <3>1, <3>3 DEF Live
  <2> QED BY <2>1, <2>2
<1> QED BY <1>1, <1>2, <1>3 DEF HoldersTrusted

\* A refresh token that was there is there, or deleted; a used one stays used.
LEMMA CommitTokens ==
    ASSUME NEW D, NEW E, NEW O, NEW P, Commits(D, E, O, P), NEW t \in Tokens
    PROVE  /\ D[RefreshRow(t)] # None => E[RefreshRow(t)] # None
           /\ LET old == D[RefreshRow(t)]
                  new == E[RefreshRow(t)]
              IN  old = Gone \/ (Live(old) /\ old.used # None) => new = Gone \/ (Live(new) /\ new.used # None)
<1> DEFINE row == RefreshRow(t)
<1>1. row \in Rows /\ row[1] = "refresh"
    BY RowFacts
<1>2. CASE row \notin DOMAIN O.writes
    BY <1>1, <1>2, CommitFollows
<1>3. CASE row \in DOMAIN O.writes
  <2>1. Follows(row, D[row], E[row])
    BY <1>1, <1>3, CommitFollows
  <2>2. E[row] # None /\ D[row] # Gone
    BY <1>1, <2>1 DEF Follows
  <2> QED BY <1>1, <2>1, <2>2 DEF Follows, Live
<1> QED BY <1>2, <1>3

LEMMA CommitFamilies ==
    ASSUME NEW D, NEW E, NEW O, NEW P, Commits(D, E, O, P), FamiliesKept(D)
    PROVE  FamiliesKept(E)
<1> SUFFICES ASSUME NEW t \in Tokens, Live(E[RefreshRow(t)])
             PROVE  LET token == E[RefreshRow(t)]
                    IN  /\ E[RefreshRow(token.family)] # None
                        /\ token.via = "rotate" =>
                              /\ token.from \in Tokens
                              /\ LET old == E[RefreshRow(token.from)]
                                 IN  old = Gone \/ (Live(old) /\ old.used # None)
    BY DEF FamiliesKept
<1> DEFINE token == E[RefreshRow(t)]
           was == D[RefreshRow(t)]
<1>1. token \in RefreshToken /\ token.family \in Tokens
    BY CommitSessions DEF RefreshToken
<1>2. CASE Live(was) /\ token.family = was.family /\ token.from = was.from /\ token.via = was.via
  <2>1. D[RefreshRow(token.family)] # None
    BY <1>2 DEF FamiliesKept
  <2>2. token.via = "rotate" => /\ token.from \in Tokens
                                /\ LET old == D[RefreshRow(token.from)]
                                   IN  old = Gone \/ (Live(old) /\ old.used # None)
    BY <1>2 DEF FamiliesKept
  <2> QED BY <1>1, <2>1, <2>2, CommitTokens
<1>3. CASE token = O.writes[RefreshRow(t)] /\ SessionSound(D, O, t)
  <2>1. CASE token.via \notin {"rotate", "grace"}
    <3>1. token.family = t
        BY <1>3, <2>1 DEF SessionSound
    <3> QED BY <2>1, <3>1 DEF Live
  <2>2. CASE token.via \in {"rotate", "grace"}
    <3> DEFINE row == RefreshRow(token.from)
    <3>1. /\ token.from \in Tokens /\ Live(D[row]) /\ D[row].family = token.family
          /\ token.via = "rotate" => row \in DOMAIN O.writes /\ O.writes[row].used # None
        BY <1>3, <2>2 DEF SessionSound
    <3>2. row \in Rows /\ row[1] = "refresh"
        BY <3>1, RowFacts
    <3>3. D[RefreshRow(token.family)] # None
        BY <3>1 DEF FamiliesKept
    <3>4. token.via = "rotate" => E[row] = O.writes[row] /\ E[row] # None
        BY <3>1, <3>2, CommitFollows DEF Follows
    <3> QED BY <1>1, <3>1, <3>3, <3>4, CommitTokens DEF Live
  <2> QED BY <2>1, <2>2
<1> QED BY <1>2, <1>3, CommitSessions

LEMMA CommitRotation ==
    ASSUME NEW D, NEW E, NEW O, NEW P, Commits(D, E, O, P), FamiliesKept(D), RotatedOnceIn(D)
    PROVE  RotatedOnceIn(E)
<1> SUFFICES ASSUME NEW t1 \in Tokens, NEW t2 \in Tokens, Live(E[RefreshRow(t1)]), Live(E[RefreshRow(t2)]),
                    E[RefreshRow(t1)].via = "rotate", E[RefreshRow(t2)].via = "rotate",
                    E[RefreshRow(t1)].from = E[RefreshRow(t2)].from
             PROVE  t1 = t2
    BY DEF RotatedOnceIn
<1> DEFINE Old(t) == /\ Live(D[RefreshRow(t)]) /\ D[RefreshRow(t)].via = "rotate"
                     /\ D[RefreshRow(t)].from = E[RefreshRow(t)].from
           New(t) == /\ t \in NewTokens(D, O)
                     /\ E[RefreshRow(t)] = O.writes[RefreshRow(t)] /\ SessionSound(D, O, t)
<1>1. \A t \in {t1, t2} : Old(t) \/ New(t)
    BY CommitSessions
<1>2. CASE Old(t1) /\ Old(t2)
    BY <1>2 DEF RotatedOnceIn
<1>3. CASE New(t1) /\ New(t2)
    BY <1>3 DEF Commits, SessionsSound
<1>4. ASSUME NEW t \in {t1, t2}, NEW x \in {t1, t2}, Old(t), New(x) PROVE FALSE
  <2> DEFINE row == RefreshRow(E[RefreshRow(t)].from)
  <2>1. D[row] = Gone \/ (Live(D[row]) /\ D[row].used # None)
    BY <1>4 DEF FamiliesKept
  <2>2. Live(D[row]) /\ D[row].used = None
    BY <1>4 DEF SessionSound
  <2> QED BY <2>1, <2>2 DEF Live
<1> QED BY <1>1, <1>2, <1>3, <1>4

\* An account that a commit leaves can be signed in to.
LEMMA CommitLogins ==
    ASSUME NEW D, NEW E, NEW O, NEW P, Commits(D, E, O, P), LoginKept(D)
    PROVE  LoginKept(E)
<1> SUFFICES ASSUME NEW u \in Users, Live(E[UserRow(u)])
             PROVE  \/ Live(E[PasswordRow(u)])
                    \/ \E s \in Subjects : Live(E[IdentityRow(s)]) /\ E[IdentityRow(s)].user = u
    BY DEF LoginKept
<1> DEFINE user == UserRow(u)
           password == PasswordRow(u)
<1>1. /\ user \in Rows /\ user[1] = "user"
      /\ password \in Rows /\ password[1] = "password" /\ password[2] = u
      /\ \A s \in Subjects : IdentityRow(s) \in Rows /\ IdentityRow(s)[1] = "identity"
    BY RowFacts
<1>2. ~(Deleting(P) /\ P.user = u)
    BY CommitDeletes
<1>3. ASSUME P.subject \in Subjects, P.user = u, HasIdentity(O, P)
      PROVE  \E s \in Subjects : Live(E[IdentityRow(s)]) /\ E[IdentityRow(s)].user = u
  <2>1. E[IdentityRow(P.subject)] = O.writes[IdentityRow(P.subject)]
    BY <1>1, <1>3, CommitFollows DEF HasIdentity
  <2> QED BY <1>3, <2>1 DEF HasIdentity
<1>4. CASE Adds(D, O, u)
  <2>1. \/ password \in DOMAIN O.writes /\ Live(O.writes[password])
        \/ P.op = "federated" /\ P.user = u /\ HasIdentity(O, P)
    BY <1>4 DEF Commits, Logins
  <2>2. P.op = "federated" => P.subject \in Subjects
    BY DEF Commits, Parameters
  <2> QED BY <1>1, <1>3, <2>1, <2>2, CommitFollows
<1>5. CASE ~Adds(D, O, u)
  <2>1. Live(D[user])
    <3>1. CASE user \notin DOMAIN O.writes
        BY <1>1, <3>1, CommitFollows
    <3>2. CASE user \in DOMAIN O.writes
        BY <1>1, <1>5, <3>2, CommitFollows DEF Follows, Adds, Live
    <3> QED BY <3>1, <3>2
  <2>2. ASSUME NEW row \in Rows, row[1] \in {"password", "identity"}, BelongsTo(row, D[row], u), ~Live(E[row])
        PROVE  Claiming(P) /\ row = PasswordRow(P.user)
    <3>1. row \in DOMAIN O.writes /\ ~Live(O.writes[row])
        BY <2>2, CommitFollows DEF BelongsTo
    <3>2. row # UserRow(P.user)
        BY <2>2 DEF UserRow
    <3>3. ~(Deleting(P) /\ BelongsTo(row, D[row], P.user))
        BY <1>2, <2>2 DEF BelongsTo
    <3> QED BY <3>1, <3>2, <3>3 DEF Commits, Deletes
  <2>3. CASE Live(D[password])
    <3>1. BelongsTo(password, D[password], u)
        BY <1>1, <2>3 DEF BelongsTo, OwnerOf
    <3>2. CASE ~Live(E[password])
      <4>1. Claiming(P) /\ P.user = u
        BY <1>1, <2>2, <3>1, <3>2 DEF PasswordRow
      <4>2. HasIdentity(O, P) /\ P.subject \in Subjects
        BY <4>1 DEF Commits, Claims, Claiming, Parameters
      <4> QED BY <1>3, <4>1, <4>2
    <3> QED BY <3>2
  <2>4. ASSUME NEW s \in Subjects, Live(D[IdentityRow(s)]), D[IdentityRow(s)].user = u
        PROVE  Live(E[IdentityRow(s)]) /\ E[IdentityRow(s)].user = u
    <3> DEFINE row == IdentityRow(s)
    <3>1. BelongsTo(row, D[row], u)
        BY <1>1, <2>4 DEF BelongsTo, OwnerOf
    <3>2. Live(E[row])
      <4>1. row # PasswordRow(P.user)
        BY <1>1 DEF PasswordRow
      <4> QED BY <1>1, <2>2, <3>1, <4>1
    <3>3. row \notin DOMAIN O.writes
        BY <1>1, <2>4, <3>2, CommitFollows DEF Follows
    <3> QED BY <1>1, <2>4, <3>2, <3>3, CommitFollows
  <2> QED BY <2>1, <2>3, <2>4 DEF LoginKept
<1> QED BY <1>4, <1>5

-----------------------------------------------------------------------------
(* A statement: what it adds to its transaction *)

\* Transaction T, with the writes W and the locks L of one more statement, is U.
Grows(T, W, L, U) ==
    /\ DOMAIN U.writes = DOMAIN W \cup DOMAIN T.writes
    /\ \A row \in DOMAIN W : U.writes[row] = W[row]
    /\ \A row \in DOMAIN T.writes \ DOMAIN W : U.writes[row] = T.writes[row]
    /\ U.locks = T.locks \cup L

Lockable == (Rows \cup {EmailKey(e) : e \in Emails} \cup {LinkedKey(u) : u \in Users}) \X Modes

\* A statement may write W, given the locks and the writes of U.
Allowed(D, U, W) ==
    \A row \in DOMAIN W : /\ row \in Rows /\ W[row] \in Stored(row)
                          /\ WriteLocked(D, U, row) /\ Follows(row, D[row], W[row])
                          /\ \A u \in Users : BelongsTo(row, W[row], u) => Referenced(D, U, row, u)

KeepsUsers(D, T, U) ==
    \A u \in Users : /\ Seen(D, T, UserRow(u)) # None => Seen(D, U, UserRow(u)) # None
                     /\ Trusted(Seen(D, T, UserRow(u))) => Trusted(Seen(D, U, UserRow(u)))

LEMMA GrownSeen ==
    ASSUME NEW D, NEW T, NEW W, NEW L, NEW U, Grows(T, W, L, U), NEW row
    PROVE  Seen(D, U, row) = IF row \in DOMAIN W THEN W[row] ELSE Seen(D, T, row)
BY DEF Grows, Seen

LEMMA GrownReference ==
    ASSUME NEW D, NEW T, NEW W, NEW L, NEW U, Grows(T, W, L, U), NEW u \in Users, NEW row \in Rows,
           \A v \in Users : UserRow(v) \in DOMAIN W => Live(W[UserRow(v)]), Referenced(D, T, row, u)
    PROVE  Referenced(D, U, row, u)
<1>1. Live(Seen(D, T, UserRow(u))) => Live(Seen(D, U, UserRow(u)))
    BY GrownSeen
<1>2. (Pins(T, u) => Pins(U, u)) /\ (Adds(D, T, u) => Adds(D, U, u)) /\ (Locked(T, row) => Locked(U, row))
    BY DEF Pins, Adds, Locked, Grows
<1> QED BY <1>1, <1>2 DEF Referenced

LEMMA GrownWrites ==
    ASSUME NEW D, NEW T, NEW W, NEW L, NEW U, Grows(T, W, L, U), TypedTx(T), L \subseteq Lockable,
           WritesLocked(D, T), WritesFollow(D, T), WritesReference(D, T), Allowed(D, U, W),
           \/ \A u \in Users : UserRow(u) \in DOMAIN W => Live(W[UserRow(u)])
           \/ DOMAIN T.writes = {}
    PROVE  TypedTx(U) /\ WritesLocked(D, U) /\ WritesFollow(D, U) /\ WritesReference(D, U)
<1>1. \A row \in DOMAIN U.writes : /\ row \in DOMAIN W => U.writes[row] = W[row]
                                   /\ row \notin DOMAIN W => row \in DOMAIN T.writes /\ U.writes[row] = T.writes[row]
    BY DEF Grows
<1>2. T.locks \subseteq U.locks /\ U.locks = T.locks \cup L
    BY DEF Grows
<1>3. \A u : Adds(D, T, u) => Adds(D, U, u)
    BY DEF Adds, Grows
<1>4. TypedTx(U)
    BY <1>1, <1>2 DEF TypedTx, Lockable, Allowed
<1>5. WritesLocked(D, U)
  <2>1. \A row : WriteLocked(D, T, row) => WriteLocked(D, U, row)
    BY <1>2, <1>3 DEF WriteLocked, Locked
  <2> QED BY <1>1, <2>1 DEF WritesLocked, Allowed
<1>6. WritesFollow(D, U)
    BY <1>1 DEF WritesFollow, Allowed
<1>7. ASSUME NEW u \in Users, NEW row \in Rows, row \in DOMAIN T.writes, Referenced(D, T, row, u)
      PROVE  Referenced(D, U, row, u)
    BY <1>7, GrownReference
<1>8. WritesReference(D, U)
  <2> SUFFICES ASSUME NEW row \in DOMAIN U.writes, NEW u \in Users, BelongsTo(row, U.writes[row], u)
               PROVE  Referenced(D, U, row, u)
    BY DEF WritesReference
  <2>1. CASE row \in DOMAIN W
    BY <1>1, <2>1 DEF Allowed
  <2>2. CASE row \notin DOMAIN W
    <3>1. row \in DOMAIN T.writes /\ BelongsTo(row, T.writes[row], u) /\ row \in Rows
        BY <1>1, <2>2 DEF TypedTx
    <3> QED BY <1>7, <3>1 DEF WritesReference
  <2> QED BY <2>1, <2>2
<1> QED BY <1>4, <1>5, <1>6, <1>8

\* Until a request has issued its session it has none.
LEMMA NoSessionYet ==
    ASSUME NEW D, NEW T, NEW C, SessionsSound(D, T, C), Stage(C) # "commit" \/ C.todo # {}
    PROVE  NewTokens(D, T) = {}
BY DEF SessionsSound

\* The sessions and identities of a transaction stay sound.
LEMMA GrownSessions ==
    ASSUME NEW D, NEW T, NEW W, NEW L, NEW U, NEW C, NEW C2, Grows(T, W, L, U), TypedTx(T),
           SessionsSound(D, T, C), KeepsUsers(D, T, U), NewTokens(D, T) = {},
           \A t \in Tokens : LET row == RefreshRow(t)
                             IN  row \in DOMAIN W =>
                                    /\ D[row] # None
                                    /\ Live(D[row]) /\ Live(W[row]) => W[row].revoked \/ Pins(U, D[row].user),
           \A s \in Subjects : IdentityRow(s) \in DOMAIN W /\ Live(W[IdentityRow(s)]) =>
                                  Trusted(Seen(D, U, UserRow(W[IdentityRow(s)].user)))
    PROVE  SessionsSound(D, U, C2)
<1>1. \A row \in DOMAIN U.writes : /\ row \in DOMAIN W => U.writes[row] = W[row]
                                   /\ row \notin DOMAIN W => row \in DOMAIN T.writes /\ U.writes[row] = T.writes[row]
    BY DEF Grows
<1>2. NewTokens(D, U) = {}
    BY <1>1 DEF NewTokens
<1>3. \A u : Pins(T, u) => Pins(U, u)
    BY DEF Pins, Grows
<1>4. ASSUME NEW t \in Tokens, RefreshRow(t) \in DOMAIN U.writes, Live(D[RefreshRow(t)]),
            Live(U.writes[RefreshRow(t)])
      PROVE  U.writes[RefreshRow(t)].revoked \/ Pins(U, D[RefreshRow(t)].user)
    BY <1>1, <1>3, <1>4 DEF SessionsSound
<1>5. ASSUME NEW s \in Subjects, IdentityRow(s) \in DOMAIN U.writes, Live(U.writes[IdentityRow(s)])
      PROVE  Trusted(Seen(D, U, UserRow(U.writes[IdentityRow(s)].user)))
  <2>1. CASE IdentityRow(s) \in DOMAIN W
    BY <1>1, <1>5, <2>1
  <2>2. CASE IdentityRow(s) \notin DOMAIN W
    <3>1. IdentityRow(s) \in DOMAIN T.writes /\ U.writes[IdentityRow(s)] = T.writes[IdentityRow(s)]
        BY <1>1, <1>5, <2>2
    <3>2. Trusted(Seen(D, T, UserRow(T.writes[IdentityRow(s)].user)))
        BY <1>5, <3>1 DEF SessionsSound
    <3>3. T.writes[IdentityRow(s)].user \in Users
      <4>1. IdentityRow(s) \in Rows /\ IdentityRow(s)[1] = "identity" /\ T.writes[IdentityRow(s)] \in Stored(IdentityRow(s))
        BY <3>1, RowFacts DEF TypedTx
      <4> QED BY <1>5, <3>1, <4>1, OwnerTyped DEF OwnerOf
    <3> QED BY <3>1, <3>2, <3>3 DEF KeepsUsers
  <2> QED BY <2>1, <2>2
<1> QED BY <1>2, <1>4, <1>5 DEF SessionsSound

LEMMA GrownUser ==
    ASSUME NEW D, NEW T, NEW U, NEW C, NEW C2, UserKnown(D, T, C), KeepsUsers(D, T, U),
           C2.user = C.user, Vouched(C2) => Vouched(C)
    PROVE  UserKnown(D, U, C2)
BY DEF UserKnown, KeepsUsers

LEMMA GrownExchanges ==
    ASSUME NEW D, NEW T, NEW U, NEW C, NEW C2, Exchanges(D, T, C), T.locks \subseteq U.locks,
           C2.op = C.op, C2.token = C.token, C2.link = C.link, C2.user = C.user, C2.family = C.family,
           C2.via = C.via,
           C.op = "refresh" /\ Stage(C2) = "issue" => Stage(C) = "issue",
           C.op \in {"verify", "reset"} => Stage(C) \in {"set_verified", "set_password", "revoke", "issue"}
    PROVE  Exchanges(D, U, C2)
BY DEF Exchanges, Locked

\* A statement that has locked what it needs, and adds rows or changes rows that it
\* has locked, excludes the transactions beside it.
LEMMA GrownExclusive ==
    ASSUME NEW D, NEW T, NEW W, NEW L, NEW U, NEW G, Grows(T, W, L, U), TypedTx(G), Exclusive(T, G),
           WritesLocked(D, G),
           \A k \in L, l \in G.locks : k[1] = l[1] => ~Conflict(k[2], l[2]),
           \A row \in DOMAIN W :
              \/ row \in DOMAIN T.writes
              \/ row \notin DOMAIN G.writes
              \/ /\ Locked(U, row) \/ <<row, "no_key_update">> \in U.locks
                 /\ row[1] \in {"user", "refresh", "link"} => D[row] # None
                 /\ row[1] = "password" => ~Adds(D, G, row[2])
    PROVE  Exclusive(U, G) /\ Exclusive(G, U)
<1>1. \A k \in U.locks, l \in G.locks : k[1] = l[1] => ~Conflict(k[2], l[2])
    BY DEF Grows, Exclusive
<1>2. ASSUME NEW row \in DOMAIN W, row \in DOMAIN G.writes,
             Locked(U, row) \/ <<row, "no_key_update">> \in U.locks,
             row[1] \in {"user", "refresh", "link"} => D[row] # None,
             row[1] = "password" => ~Adds(D, G, row[2])
      PROVE  FALSE
  <2>1. ~Locked(G, row) /\ <<row, "no_key_update">> \notin G.locks
    BY <1>1, <1>2 DEF Locked, Conflict
  <2> QED BY <1>2, <2>1 DEF WritesLocked, WriteLocked
<1>3. DOMAIN U.writes \cap DOMAIN G.writes = {}
    BY <1>2 DEF Grows, Exclusive
<1>4. \A k \in G.locks, l \in U.locks : k[1] = l[1] => ~Conflict(k[2], l[2])
    BY <1>1 DEF Conflict
<1> QED BY <1>1, <1>3, <1>4 DEF Exclusive

-----------------------------------------------------------------------------
(* The order of the statements of a method *)

\* A request is at statement s, and rest comes after it.
Before(C, s, rest) == Head(C.steps) = s /\ Tail(C.steps) = rest

LEMMA Tuples ==
    /\ Head(Register) = "insert_user" /\ Tail(Register) = <<"commit">>
    /\ /\ Head(ResendVerification) = "read_user"
       /\ Tail(ResendVerification) = <<"invalidate_verify", "insert_link", "commit">>
    /\ /\ Head(ForgotPassword) = "read_user"
       /\ Tail(ForgotPassword) = <<"invalidate_reset", "insert_link", "commit">>
    /\ Head(VerifyEmail) = "lock_link" /\ Tail(VerifyEmail) = <<"set_verified", "issue", "commit">>
    /\ /\ Head(ResetPassword) = "lock_link"
       /\ Tail(ResetPassword) = <<"set_verified", "set_password", "revoke", "issue", "commit">>
    /\ Head(Login) = "read_credential" /\ Tail(Login) = <<"issue", "commit">>
    /\ Head(Refresh) = "lock_token" /\ Tail(Refresh) = <<>>
    /\ Head(RotateToken) = "issue" /\ Tail(RotateToken) = <<"commit">>
    /\ Head(ReuseDetected) = "revoke" /\ Tail(ReuseDetected) = <<"commit">>
    /\ Head(Logout) = "revoke" /\ Tail(Logout) = <<"commit">>
    /\ Head(SetPassword) = "set_password" /\ Tail(SetPassword) = <<"commit", "revoke", "commit">>
    /\ Head(DeleteAccount) = "delete" /\ Tail(DeleteAccount) = <<"commit">>
    /\ Head(FederatedLogin) = "read_identity" /\ Tail(FederatedLogin) = <<>>
    /\ Head(KnownIdentity) = "issue" /\ Tail(KnownIdentity) = <<"commit">>
    /\ Head(NewIdentity) = "insert_user" /\ Tail(NewIdentity) = <<"insert_identity", "issue", "commit">>
    /\ /\ Head(ClaimUnverifiedAccount) = "lock_account"
       /\ Tail(ClaimUnverifiedAccount) =
            <<"drop_password", "revoke", "invalidate_verify", "invalidate_reset", "set_verified",
                        "insert_identity", "issue", "commit">>
    /\ Head(LinkFederated) = "read_identity" /\ Tail(LinkFederated) = <<"insert_identity", "commit">>
    /\ Head(<<"commit">>) = "commit" /\ Tail(<<"commit">>) = <<>>
    /\ /\ Head(<<"invalidate_verify", "insert_link", "commit">>) = "invalidate_verify"
       /\ Tail(<<"invalidate_verify", "insert_link", "commit">>) = <<"insert_link", "commit">>
    /\ Head(<<"insert_link", "commit">>) = "insert_link" /\ Tail(<<"insert_link", "commit">>) = <<"commit">>
    /\ /\ Head(<<"invalidate_reset", "insert_link", "commit">>) = "invalidate_reset"
       /\ Tail(<<"invalidate_reset", "insert_link", "commit">>) = <<"insert_link", "commit">>
    /\ /\ Head(<<"set_verified", "issue", "commit">>) = "set_verified"
       /\ Tail(<<"set_verified", "issue", "commit">>) = <<"issue", "commit">>
    /\ /\ Head(<<"set_verified", "set_password", "revoke", "issue", "commit">>) = "set_verified"
       /\ Tail(<<"set_verified", "set_password", "revoke", "issue", "commit">>) =
            <<"set_password", "revoke", "issue", "commit">>
    /\ /\ Head(<<"set_password", "revoke", "issue", "commit">>) = "set_password"
       /\ Tail(<<"set_password", "revoke", "issue", "commit">>) = <<"revoke", "issue", "commit">>
    /\ /\ Head(<<"revoke", "issue", "commit">>) = "revoke"
       /\ Tail(<<"revoke", "issue", "commit">>) = <<"issue", "commit">>
    /\ /\ Head(<<"read_credential", "set_password", "commit", "revoke", "commit">>) = "read_credential"
       /\ Tail(<<"read_credential", "set_password", "commit", "revoke", "commit">>) =
            <<"set_password", "commit", "revoke", "commit">>
    /\ /\ Head(<<"commit", "revoke", "commit">>) = "commit"
       /\ Tail(<<"commit", "revoke", "commit">>) = <<"revoke", "commit">>
    /\ Head(<<"revoke", "commit">>) = "revoke" /\ Tail(<<"revoke", "commit">>) = <<"commit">>
    /\ /\ Head(<<"insert_identity", "commit">>) = "insert_identity"
       /\ Tail(<<"insert_identity", "commit">>) = <<"commit">>
    /\ Head(<<"read_email">>) = "read_email" /\ Tail(<<"read_email">>) = <<>>
    /\ /\ Head(<<"insert_identity", "issue", "commit">>) = "insert_identity"
       /\ Tail(<<"insert_identity", "issue", "commit">>) = <<"issue", "commit">>
    /\ /\ Head(<<"drop_password", "revoke", "invalidate_verify", "invalidate_reset", "set_verified",
                "insert_identity", "issue", "commit">>) = "drop_password"
       /\ Tail(<<"drop_password", "revoke", "invalidate_verify", "invalidate_reset", "set_verified",
                   "insert_identity", "issue", "commit">>) =
            <<"revoke", "invalidate_verify", "invalidate_reset", "set_verified", "insert_identity",
                        "issue", "commit">>
    /\ /\ Head(<<"revoke", "invalidate_verify", "invalidate_reset", "set_verified", "insert_identity",
                "issue", "commit">>) = "revoke"
       /\ Tail(<<"revoke", "invalidate_verify", "invalidate_reset", "set_verified", "insert_identity",
                   "issue", "commit">>) =
            <<"invalidate_verify", "invalidate_reset", "set_verified", "insert_identity", "issue", "commit">>
    /\ /\ Head(<<"invalidate_verify", "invalidate_reset", "set_verified", "insert_identity", "issue",
                "commit">>) = "invalidate_verify"
       /\ Tail(<<"invalidate_verify", "invalidate_reset", "set_verified", "insert_identity", "issue",
                   "commit">>) =
            <<"invalidate_reset", "set_verified", "insert_identity", "issue", "commit">>
    /\ /\ Head(<<"invalidate_reset", "set_verified", "insert_identity", "issue", "commit">>) = "invalidate_reset"
       /\ Tail(<<"invalidate_reset", "set_verified", "insert_identity", "issue", "commit">>) =
            <<"set_verified", "insert_identity", "issue", "commit">>
    /\ /\ Head(<<"set_verified", "insert_identity", "issue", "commit">>) = "set_verified"
       /\ Tail(<<"set_verified", "insert_identity", "issue", "commit">>) =
            <<"insert_identity", "issue", "commit">>
    /\ Head(<<"issue", "commit">>) = "issue" /\ Tail(<<"issue", "commit">>) = <<"commit">>
    /\ /\ Head(<<"set_password", "commit", "revoke", "commit">>) = "set_password"
       /\ Tail(<<"set_password", "commit", "revoke", "commit">>) = <<"commit", "revoke", "commit">>
BY DEF Register, ResendVerification, ForgotPassword, VerifyEmail, ResetPassword, Login, Refresh,
            RotateToken, ReuseDetected, Logout, SetPassword, DeleteAccount, FederatedLogin, KnownIdentity,
            NewIdentity, ClaimUnverifiedAccount, LinkFederated

LEMMA Shape ==
    ASSUME NEW C, Progress(C)
    PROVE  /\ C.op \in {"register", "createAdmin"} =>
                 Before(C, "insert_user", <<"commit">>) \/ Before(C, "commit", <<>>)
           /\ C.op = "resend" =>
                 \/ Before(C, "read_user", <<"invalidate_verify", "insert_link", "commit">>)
                 \/ Before(C, "invalidate_verify", <<"insert_link", "commit">>)
                 \/ Before(C, "insert_link", <<"commit">>) \/ Before(C, "commit", <<>>)
           /\ C.op = "forgot" =>
                 \/ Before(C, "read_user", <<"invalidate_reset", "insert_link", "commit">>)
                 \/ Before(C, "invalidate_reset", <<"insert_link", "commit">>)
                 \/ Before(C, "insert_link", <<"commit">>) \/ Before(C, "commit", <<>>)
           /\ C.op = "verify" =>
                 \/ Before(C, "lock_link", <<"set_verified", "issue", "commit">>)
                 \/ Before(C, "set_verified", <<"issue", "commit">>)
                 \/ Before(C, "issue", <<"commit">>) \/ Before(C, "commit", <<>>)
           /\ C.op = "reset" =>
                 \/ Before(C, "lock_link", <<"set_verified", "set_password", "revoke", "issue", "commit">>)
                 \/ Before(C, "set_verified", <<"set_password", "revoke", "issue", "commit">>)
                 \/ Before(C, "set_password", <<"revoke", "issue", "commit">>)
                 \/ Before(C, "revoke", <<"issue", "commit">>)
                 \/ Before(C, "issue", <<"commit">>) \/ Before(C, "commit", <<>>)
           /\ C.op = "login" =>
                 \/ Before(C, "read_credential", <<"issue", "commit">>)
                 \/ Before(C, "issue", <<"commit">>) \/ Before(C, "commit", <<>>)
           /\ C.op = "refresh" =>
                 \/ Before(C, "lock_token", <<>>) \/ Before(C, "issue", <<"commit">>)
                 \/ Before(C, "revoke", <<"commit">>) \/ Before(C, "commit", <<>>)
           /\ C.op = "logout" => Before(C, "revoke", <<"commit">>) \/ Before(C, "commit", <<>>)
           /\ C.op = "changePassword" =>
                 \/ Before(C, "read_credential", <<"set_password", "commit", "revoke", "commit">>)
                 \/ Before(C, "set_password", <<"commit", "revoke", "commit">>)
                 \/ Before(C, "commit", <<"revoke", "commit">>)
                 \/ Before(C, "revoke", <<"commit">>) \/ Before(C, "commit", <<>>)
           /\ C.op = "delete" => Before(C, "delete", <<"commit">>) \/ Before(C, "commit", <<>>)
           /\ C.op = "link" =>
                 \/ Before(C, "read_identity", <<"insert_identity", "commit">>)
                 \/ Before(C, "insert_identity", <<"commit">>) \/ Before(C, "commit", <<>>)
           /\ C.op = "federated" => C.via \in {"none", "identity", "claim"}
           /\ C.op = "federated" /\ C.via = "none" =>
                 Before(C, "read_identity", <<>>) \/ Before(C, "read_email", <<>>)
           /\ C.op = "federated" /\ C.via = "identity" =>
                 \/ Before(C, "insert_user", <<"insert_identity", "issue", "commit">>)
                 \/ Before(C, "insert_identity", <<"issue", "commit">>)
                 \/ Before(C, "issue", <<"commit">>) \/ Before(C, "commit", <<>>)
           /\ C.op = "federated" /\ C.via = "claim" =>
                 \/ Before(C, "lock_account", <<"drop_password", "revoke", "invalidate_verify",
                             "invalidate_reset",
                                            "set_verified", "insert_identity", "issue", "commit">>)
                 \/ Before(C, "drop_password", <<"revoke", "invalidate_verify", "invalidate_reset",
                                             "set_verified", "insert_identity", "issue", "commit">>)
                 \/ Before(C, "revoke", <<"invalidate_verify", "invalidate_reset",
                                      "set_verified", "insert_identity", "issue", "commit">>)
                 \/ Before(C, "invalidate_verify", <<"invalidate_reset",
                                                 "set_verified", "insert_identity", "issue", "commit">>)
                 \/ Before(C, "invalidate_reset", <<"set_verified", "insert_identity", "issue", "commit">>)
                 \/ Before(C, "set_verified", <<"insert_identity", "issue", "commit">>)
                 \/ Before(C, "insert_identity", <<"issue", "commit">>)
                 \/ Before(C, "issue", <<"commit">>) \/ Before(C, "commit", <<>>)
<1>1. C.op \in {"register", "createAdmin"} =>
         Before(C, "insert_user", <<"commit">>) \/ Before(C, "commit", <<>>)
    BY Tuples, ZenonT(60) DEF Progress, Before
<1>2. C.op = "resend" =>
         \/ Before(C, "read_user", <<"invalidate_verify", "insert_link", "commit">>)
         \/ Before(C, "invalidate_verify", <<"insert_link", "commit">>)
         \/ Before(C, "insert_link", <<"commit">>) \/ Before(C, "commit", <<>>)
    BY Tuples, ZenonT(60) DEF Progress, Before
<1>3. C.op = "forgot" =>
         \/ Before(C, "read_user", <<"invalidate_reset", "insert_link", "commit">>)
         \/ Before(C, "invalidate_reset", <<"insert_link", "commit">>)
         \/ Before(C, "insert_link", <<"commit">>) \/ Before(C, "commit", <<>>)
    BY Tuples, ZenonT(60) DEF Progress, Before
<1>4. C.op = "verify" =>
         \/ Before(C, "lock_link", <<"set_verified", "issue", "commit">>)
         \/ Before(C, "set_verified", <<"issue", "commit">>)
         \/ Before(C, "issue", <<"commit">>) \/ Before(C, "commit", <<>>)
    BY Tuples, ZenonT(60) DEF Progress, Before
<1>5. C.op = "reset" =>
         \/ Before(C, "lock_link", <<"set_verified", "set_password", "revoke", "issue", "commit">>)
         \/ Before(C, "set_verified", <<"set_password", "revoke", "issue", "commit">>)
         \/ Before(C, "set_password", <<"revoke", "issue", "commit">>)
         \/ Before(C, "revoke", <<"issue", "commit">>)
         \/ Before(C, "issue", <<"commit">>) \/ Before(C, "commit", <<>>)
    BY Tuples, ZenonT(60) DEF Progress, Before
<1>6. C.op = "login" =>
         \/ Before(C, "read_credential", <<"issue", "commit">>)
         \/ Before(C, "issue", <<"commit">>) \/ Before(C, "commit", <<>>)
    BY Tuples, ZenonT(60) DEF Progress, Before
<1>7. C.op = "refresh" =>
         \/ Before(C, "lock_token", <<>>) \/ Before(C, "issue", <<"commit">>)
         \/ Before(C, "revoke", <<"commit">>) \/ Before(C, "commit", <<>>)
    BY Tuples, ZenonT(60) DEF Progress, Before
<1>8. C.op = "logout" => Before(C, "revoke", <<"commit">>) \/ Before(C, "commit", <<>>)
    BY Tuples, ZenonT(60) DEF Progress, Before
<1>9. C.op = "changePassword" =>
         \/ Before(C, "read_credential", <<"set_password", "commit", "revoke", "commit">>)
         \/ Before(C, "set_password", <<"commit", "revoke", "commit">>)
         \/ Before(C, "commit", <<"revoke", "commit">>)
         \/ Before(C, "revoke", <<"commit">>) \/ Before(C, "commit", <<>>)
    BY Tuples, ZenonT(60) DEF Progress, Before
<1>10. C.op = "delete" => Before(C, "delete", <<"commit">>) \/ Before(C, "commit", <<>>)
    BY Tuples, ZenonT(60) DEF Progress, Before
<1>11. C.op = "link" =>
         \/ Before(C, "read_identity", <<"insert_identity", "commit">>)
         \/ Before(C, "insert_identity", <<"commit">>) \/ Before(C, "commit", <<>>)
    BY Tuples, ZenonT(60) DEF Progress, Before
<1>12. C.op = "federated" => C.via \in {"none", "identity", "claim"}
    BY Tuples, ZenonT(60) DEF Progress, Before
<1>13. C.op = "federated" /\ C.via = "none" =>
         Before(C, "read_identity", <<>>) \/ Before(C, "read_email", <<>>)
    BY Tuples, ZenonT(60) DEF Progress, Before
<1>14. C.op = "federated" /\ C.via = "identity" =>
         \/ Before(C, "insert_user", <<"insert_identity", "issue", "commit">>)
         \/ Before(C, "insert_identity", <<"issue", "commit">>)
         \/ Before(C, "issue", <<"commit">>) \/ Before(C, "commit", <<>>)
    BY Tuples, ZenonT(60) DEF Progress, Before
<1>15. C.op = "federated" /\ C.via = "claim" =>
         \/ Before(C, "lock_account", <<"drop_password", "revoke", "invalidate_verify", "invalidate_reset",
                                    "set_verified", "insert_identity", "issue", "commit">>)
         \/ Before(C, "drop_password", <<"revoke", "invalidate_verify", "invalidate_reset",
                                     "set_verified", "insert_identity", "issue", "commit">>)
         \/ Before(C, "revoke", <<"invalidate_verify", "invalidate_reset",
                              "set_verified", "insert_identity", "issue", "commit">>)
         \/ Before(C, "invalidate_verify", <<"invalidate_reset",
                                         "set_verified", "insert_identity", "issue", "commit">>)
         \/ Before(C, "invalidate_reset", <<"set_verified", "insert_identity", "issue", "commit">>)
         \/ Before(C, "set_verified", <<"insert_identity", "issue", "commit">>)
         \/ Before(C, "insert_identity", <<"issue", "commit">>)
         \/ Before(C, "issue", <<"commit">>) \/ Before(C, "commit", <<>>)
    BY Tuples, ZenonT(60) DEF Progress, Before
<1> QED BY <1>1, <1>2, <1>3, <1>4, <1>5, <1>6, <1>7, <1>8, <1>9, <1>10, <1>11, <1>12, <1>13, <1>14, <1>15

\* Statement s of a request is followed by statement n.
Leads(C, C2, s, n) == Stage(C) = s /\ Stage(C2) = n

\* The statements of each method follow one another in this order.
Ordered(C, C2) ==
    \/ C.op \in {"register", "createAdmin"} /\ Leads(C, C2, "insert_user", "commit")
    \/ C.op = "resend" /\ \/ Leads(C, C2, "read_user", "invalidate_verify")
                          \/ Leads(C, C2, "invalidate_verify", "insert_link")
                          \/ Leads(C, C2, "insert_link", "commit")
    \/ C.op = "forgot" /\ \/ Leads(C, C2, "read_user", "invalidate_reset")
                          \/ Leads(C, C2, "invalidate_reset", "insert_link")
                          \/ Leads(C, C2, "insert_link", "commit")
    \/ C.op = "verify" /\ \/ Leads(C, C2, "lock_link", "set_verified")
                          \/ Leads(C, C2, "set_verified", "issue")
                          \/ Leads(C, C2, "issue", "commit")
    \/ C.op = "reset" /\ \/ Leads(C, C2, "lock_link", "set_verified")
                         \/ Leads(C, C2, "set_verified", "set_password")
                         \/ Leads(C, C2, "set_password", "revoke")
                         \/ Leads(C, C2, "revoke", "issue")
                         \/ Leads(C, C2, "issue", "commit")
    \/ C.op = "login" /\ \/ Leads(C, C2, "read_credential", "issue")
                         \/ Leads(C, C2, "issue", "commit")
    \/ C.op = "refresh" /\ \/ Leads(C, C2, "issue", "commit")
                           \/ Leads(C, C2, "revoke", "commit")
    \/ C.op = "logout" /\ Leads(C, C2, "revoke", "commit")
    \/ C.op = "changePassword" /\ \/ Leads(C, C2, "read_credential", "set_password")
                                  \/ Leads(C, C2, "set_password", "commit")
                                  \/ Leads(C, C2, "revoke", "commit")
    \/ C.op = "delete" /\ Leads(C, C2, "delete", "commit")
    \/ C.op = "link" /\ \/ Leads(C, C2, "read_identity", "insert_identity")
                        \/ Leads(C, C2, "insert_identity", "commit")
    \/ /\ C.op = "federated" /\ C.via = "identity"
       /\ \/ Leads(C, C2, "insert_user", "insert_identity")
          \/ Leads(C, C2, "insert_identity", "issue")
          \/ Leads(C, C2, "issue", "commit")
    \/ /\ C.op = "federated" /\ C.via = "claim"
       /\ \/ Leads(C, C2, "lock_account", "drop_password")
          \/ Leads(C, C2, "drop_password", "revoke")
          \/ Leads(C, C2, "revoke", "invalidate_verify")
          \/ Leads(C, C2, "invalidate_verify", "invalidate_reset")
          \/ Leads(C, C2, "invalidate_reset", "set_verified")
          \/ Leads(C, C2, "set_verified", "insert_identity")
          \/ Leads(C, C2, "insert_identity", "issue")
          \/ Leads(C, C2, "issue", "commit")

\* A statement that does not branch is followed by the next one of the method.
LEMMA Flow ==
    ASSUME NEW C \in Call, NEW C2, C.op # "none", Progress(C), C2.op = C.op, C2.steps = Tail(C.steps),
           C.op = "federated" => C2.via = C.via,
           Stage(C) \notin {"lock_token", "read_email", "commit"}, Stage(C) = "read_identity" => C.op = "link"
    PROVE  Progress(C2) /\ Ordered(C, C2)
<1>1. CASE C.op \in {"register", "createAdmin"}
  <2>1. Stage(C) = "insert_user" /\ C2.steps = <<"commit">>
    BY <1>1, Shape, ZenonT(60) DEF Before, Stage
  <2>2. Progress(C2)
    BY <1>1, <2>1 DEF Progress, RotateToken, ReuseDetected, SetPassword, KnownIdentity
  <2>3. Leads(C, C2, "insert_user", "commit")
    BY <2>1, Tuples, ZenonT(60) DEF Leads, Stage
  <2> QED BY <1>1, <2>2, <2>3 DEF Ordered
<1>2. CASE C.op = "resend"
  <2>1. \/ Stage(C) = "read_user" /\ C2.steps = <<"invalidate_verify", "insert_link", "commit">>
        \/ Stage(C) = "invalidate_verify" /\ C2.steps = <<"insert_link", "commit">>
        \/ Stage(C) = "insert_link" /\ C2.steps = <<"commit">>
    BY <1>2, Shape, ZenonT(60) DEF Before, Stage
  <2>2. Progress(C2)
    BY <1>2, <2>1 DEF Progress, RotateToken, ReuseDetected, SetPassword, KnownIdentity
  <2>3. \/ Leads(C, C2, "read_user", "invalidate_verify")
        \/ Leads(C, C2, "invalidate_verify", "insert_link")
        \/ Leads(C, C2, "insert_link", "commit")
    BY <2>1, Tuples, ZenonT(60) DEF Leads, Stage
  <2> QED BY <1>2, <2>2, <2>3 DEF Ordered
<1>3. CASE C.op = "forgot"
  <2>1. \/ Stage(C) = "read_user" /\ C2.steps = <<"invalidate_reset", "insert_link", "commit">>
        \/ Stage(C) = "invalidate_reset" /\ C2.steps = <<"insert_link", "commit">>
        \/ Stage(C) = "insert_link" /\ C2.steps = <<"commit">>
    BY <1>3, Shape, ZenonT(60) DEF Before, Stage
  <2>2. Progress(C2)
    BY <1>3, <2>1 DEF Progress, RotateToken, ReuseDetected, SetPassword, KnownIdentity
  <2>3. \/ Leads(C, C2, "read_user", "invalidate_reset")
        \/ Leads(C, C2, "invalidate_reset", "insert_link")
        \/ Leads(C, C2, "insert_link", "commit")
    BY <2>1, Tuples, ZenonT(60) DEF Leads, Stage
  <2> QED BY <1>3, <2>2, <2>3 DEF Ordered
<1>4. CASE C.op = "verify"
  <2>1. \/ Stage(C) = "lock_link" /\ C2.steps = <<"set_verified", "issue", "commit">>
        \/ Stage(C) = "set_verified" /\ C2.steps = <<"issue", "commit">>
        \/ Stage(C) = "issue" /\ C2.steps = <<"commit">>
    BY <1>4, Shape, ZenonT(60) DEF Before, Stage
  <2>2. Progress(C2)
    BY <1>4, <2>1 DEF Progress, RotateToken, ReuseDetected, SetPassword, KnownIdentity
  <2>3. \/ Leads(C, C2, "lock_link", "set_verified")
        \/ Leads(C, C2, "set_verified", "issue")
        \/ Leads(C, C2, "issue", "commit")
    BY <2>1, Tuples, ZenonT(60) DEF Leads, Stage
  <2> QED BY <1>4, <2>2, <2>3 DEF Ordered
<1>5. CASE C.op = "reset"
  <2>1. \/ Stage(C) = "lock_link" /\ C2.steps = <<"set_verified", "set_password", "revoke", "issue", "commit">>
        \/ Stage(C) = "set_verified" /\ C2.steps = <<"set_password", "revoke", "issue", "commit">>
        \/ Stage(C) = "set_password" /\ C2.steps = <<"revoke", "issue", "commit">>
        \/ Stage(C) = "revoke" /\ C2.steps = <<"issue", "commit">>
        \/ Stage(C) = "issue" /\ C2.steps = <<"commit">>
    BY <1>5, Shape, ZenonT(60) DEF Before, Stage
  <2>2. Progress(C2)
    BY <1>5, <2>1 DEF Progress, RotateToken, ReuseDetected, SetPassword, KnownIdentity
  <2>3. \/ Leads(C, C2, "lock_link", "set_verified")
        \/ Leads(C, C2, "set_verified", "set_password")
        \/ Leads(C, C2, "set_password", "revoke")
        \/ Leads(C, C2, "revoke", "issue")
        \/ Leads(C, C2, "issue", "commit")
    BY <2>1, Tuples, ZenonT(60) DEF Leads, Stage
  <2> QED BY <1>5, <2>2, <2>3 DEF Ordered
<1>6. CASE C.op = "login"
  <2>1. \/ Stage(C) = "read_credential" /\ C2.steps = <<"issue", "commit">>
        \/ Stage(C) = "issue" /\ C2.steps = <<"commit">>
    BY <1>6, Shape, ZenonT(60) DEF Before, Stage
  <2>2. Progress(C2)
    BY <1>6, <2>1 DEF Progress, RotateToken, ReuseDetected, SetPassword, KnownIdentity
  <2>3. \/ Leads(C, C2, "read_credential", "issue")
        \/ Leads(C, C2, "issue", "commit")
    BY <2>1, Tuples, ZenonT(60) DEF Leads, Stage
  <2> QED BY <1>6, <2>2, <2>3 DEF Ordered
<1>7. CASE C.op = "refresh"
  <2>1. \/ Stage(C) = "issue" /\ C2.steps = <<"commit">>
        \/ Stage(C) = "revoke" /\ C2.steps = <<"commit">>
    BY <1>7, Shape, ZenonT(60) DEF Before, Stage
  <2>2. Progress(C2)
    BY <1>7, <2>1 DEF Progress, RotateToken, ReuseDetected, SetPassword, KnownIdentity
  <2>3. \/ Leads(C, C2, "issue", "commit")
        \/ Leads(C, C2, "revoke", "commit")
    BY <2>1, Tuples, ZenonT(60) DEF Leads, Stage
  <2> QED BY <1>7, <2>2, <2>3 DEF Ordered
<1>8. CASE C.op = "logout"
  <2>1. Stage(C) = "revoke" /\ C2.steps = <<"commit">>
    BY <1>8, Shape, ZenonT(60) DEF Before, Stage
  <2>2. Progress(C2)
    BY <1>8, <2>1 DEF Progress, RotateToken, ReuseDetected, SetPassword, KnownIdentity
  <2>3. Leads(C, C2, "revoke", "commit")
    BY <2>1, Tuples, ZenonT(60) DEF Leads, Stage
  <2> QED BY <1>8, <2>2, <2>3 DEF Ordered
<1>9. CASE C.op = "changePassword"
  <2>1. \/ Stage(C) = "read_credential" /\ C2.steps = <<"set_password", "commit", "revoke", "commit">>
        \/ Stage(C) = "set_password" /\ C2.steps = <<"commit", "revoke", "commit">>
        \/ Stage(C) = "revoke" /\ C2.steps = <<"commit">>
    BY <1>9, Shape, ZenonT(60) DEF Before, Stage
  <2>2. Progress(C2)
    BY <1>9, <2>1 DEF Progress, RotateToken, ReuseDetected, SetPassword, KnownIdentity
  <2>3. \/ Leads(C, C2, "read_credential", "set_password")
        \/ Leads(C, C2, "set_password", "commit")
        \/ Leads(C, C2, "revoke", "commit")
    BY <2>1, Tuples, ZenonT(60) DEF Leads, Stage
  <2> QED BY <1>9, <2>2, <2>3 DEF Ordered
<1>10. CASE C.op = "delete"
  <2>1. Stage(C) = "delete" /\ C2.steps = <<"commit">>
    BY <1>10, Shape, ZenonT(60) DEF Before, Stage
  <2>2. Progress(C2)
    BY <1>10, <2>1 DEF Progress, RotateToken, ReuseDetected, SetPassword, KnownIdentity
  <2>3. Leads(C, C2, "delete", "commit")
    BY <2>1, Tuples, ZenonT(60) DEF Leads, Stage
  <2> QED BY <1>10, <2>2, <2>3 DEF Ordered
<1>11. CASE C.op = "link"
  <2>1. \/ Stage(C) = "read_identity" /\ C2.steps = <<"insert_identity", "commit">>
        \/ Stage(C) = "insert_identity" /\ C2.steps = <<"commit">>
    BY <1>11, Shape, ZenonT(60) DEF Before, Stage
  <2>2. Progress(C2)
    BY <1>11, <2>1 DEF Progress, RotateToken, ReuseDetected, SetPassword, KnownIdentity
  <2>3. \/ Leads(C, C2, "read_identity", "insert_identity")
        \/ Leads(C, C2, "insert_identity", "commit")
    BY <2>1, Tuples, ZenonT(60) DEF Leads, Stage
  <2> QED BY <1>11, <2>2, <2>3 DEF Ordered
<1>12. CASE C.op = "federated" /\ C.via = "identity"
  <2>1. \/ Stage(C) = "insert_user" /\ C2.steps = <<"insert_identity", "issue", "commit">>
        \/ Stage(C) = "insert_identity" /\ C2.steps = <<"issue", "commit">>
        \/ Stage(C) = "issue" /\ C2.steps = <<"commit">>
    BY <1>12, Shape, ZenonT(60) DEF Before, Stage
  <2>2. Progress(C2)
    BY <1>12, <2>1 DEF Progress, RotateToken, ReuseDetected, SetPassword, KnownIdentity
  <2>3. \/ Leads(C, C2, "insert_user", "insert_identity")
        \/ Leads(C, C2, "insert_identity", "issue")
        \/ Leads(C, C2, "issue", "commit")
    BY <2>1, Tuples, ZenonT(60) DEF Leads, Stage
  <2> QED BY <1>12, <2>2, <2>3 DEF Ordered
<1>13. CASE C.op = "federated" /\ C.via = "claim"
  <2>1. \/ Stage(C) = "lock_account" /\ C2.steps = <<"drop_password", "revoke", "invalidate_verify",
              "invalidate_reset", "set_verified", "insert_identity", "issue", "commit">>
        \/ Stage(C) = "drop_password" /\ C2.steps = <<"revoke", "invalidate_verify", "invalidate_reset",
                    "set_verified", "insert_identity", "issue", "commit">>
        \/ Stage(C) = "revoke" /\ C2.steps = <<"invalidate_verify", "invalidate_reset", "set_verified",
                    "insert_identity", "issue", "commit">>
        \/ Stage(C) = "invalidate_verify" /\ C2.steps = <<"invalidate_reset", "set_verified",
                    "insert_identity", "issue", "commit">>
        \/ Stage(C) = "invalidate_reset" /\ C2.steps = <<"set_verified", "insert_identity", "issue", "commit">>
        \/ Stage(C) = "set_verified" /\ C2.steps = <<"insert_identity", "issue", "commit">>
        \/ Stage(C) = "insert_identity" /\ C2.steps = <<"issue", "commit">>
        \/ Stage(C) = "issue" /\ C2.steps = <<"commit">>
    BY <1>13, Shape, ZenonT(60) DEF Before, Stage
  <2>2. Progress(C2)
    BY <1>13, <2>1 DEF Progress, RotateToken, ReuseDetected, SetPassword, KnownIdentity
  <2>3. \/ Leads(C, C2, "lock_account", "drop_password")
        \/ Leads(C, C2, "drop_password", "revoke")
        \/ Leads(C, C2, "revoke", "invalidate_verify")
        \/ Leads(C, C2, "invalidate_verify", "invalidate_reset")
        \/ Leads(C, C2, "invalidate_reset", "set_verified")
        \/ Leads(C, C2, "set_verified", "insert_identity")
        \/ Leads(C, C2, "insert_identity", "issue")
        \/ Leads(C, C2, "issue", "commit")
    BY <2>1, Tuples, ZenonT(60) DEF Leads, Stage
  <2> QED BY <1>13, <2>2, <2>3 DEF Ordered
<1>14. ~(C.op = "federated" /\ C.via = "none")
    BY Shape DEF Before, Stage
<1> QED BY <1>1, <1>2, <1>3, <1>4, <1>5, <1>6, <1>7, <1>8, <1>9, <1>10, <1>11, <1>12, <1>13, <1>14, Shape DEF Call

-----------------------------------------------------------------------------
(* A statement: what it does to the invariant *)

\* A request under way, on sound rows.
Start(D, T, C) == TypedRows(D) /\ TypedTx(T) /\ C \in Call /\ Working(D, T, C) /\ OwnersLive(D)

LEMMA Typing ==
    TypeOK <=> /\ scenario \in Scenarios
               /\ TypedRows(db) /\ DOMAIN tx = Handlers /\ DOMAIN call = Handlers
               /\ \A h \in Handlers : /\ TypedTx(tx[h]) /\ call[h] \in Call
                                      /\ call[h].op = "none" => call[h] = Idle /\ tx[h] = NoTx
               /\ principals \subseteq Users /\ now \in 0..scenario.until /\ faults \in 0..scenario.faults
BY DEF TypeOK, TypedRows, TypedTx

LEMMA BusyWorks ==
    ASSUME TypeOK, AuthInv, NEW h \in Handlers, call[h].op # "none"
    PROVE  Start(db, tx[h], call[h]) /\ HoldersTrusted(db, principals)
<1>1. HandlerSound(db, tx[h], call[h]) /\ OwnersLive(db) /\ HoldersTrusted(db, principals)
    BY DEF AuthInv, RowsSound
<1>2. call[h] # Idle
    BY DEF Idle
<1> QED BY <1>1, <1>2, Typing DEF HandlerSound, Start

LEMMA StatementGrows ==
    ASSUME TypeOK, NEW h \in Handlers, NEW W, NEW C2, Continues(h, W, C2)
    PROVE  /\ Grows(tx[h], W, Wants(h), tx'[h])
           /\ call'[h] = C2
           /\ \A g \in Handlers \ {h} : tx'[g] = tx[g] /\ call'[g] = call[g]
           /\ DOMAIN tx' = Handlers /\ DOMAIN call' = Handlers
           /\ db' = db /\ now' = now /\ principals' = principals /\ faults' = faults
<1>1. DOMAIN tx = Handlers /\ DOMAIN call = Handlers
    BY DEF TypeOK
<1>2. /\ tx' = [tx EXCEPT ![h] = [writes |-> Over(W, @.writes), locks |-> @.locks \cup Wants(h)]]
      /\ call' = [call EXCEPT ![h] = C2]
      /\ db' = db /\ now' = now /\ principals' = principals /\ faults' = faults
    BY DEF Continues, Statement
<1>3. tx'[h] = [writes |-> Over(W, tx[h].writes), locks |-> tx[h].locks \cup Wants(h)]
    BY <1>1, <1>2
<1>4. Grows(tx[h], W, Wants(h), tx'[h])
    BY <1>3 DEF Grows, Over
<1> QED BY <1>1, <1>2, <1>4

\* No other transaction writes what a statement of h writes.
Apart(h, W, U) ==
    \A row \in DOMAIN W :
        \/ row \in DOMAIN tx[h].writes
        \/ \A g \in Handlers : row \notin DOMAIN tx[g].writes
        \/ /\ Locked(U, row) \/ <<row, "no_key_update">> \in U.locks
           /\ row[1] \in {"user", "refresh", "link"} => db[row] # None
           /\ row[1] = "password" => Seen(db, tx[h], UserRow(row[2])) # None

LEMMA StatementKeeps ==
    ASSUME TypeOK, AuthInv, NEW h \in Handlers, Blockers(h) = {}, NEW W, NEW C2, Continues(h, W, C2),
           UNCHANGED scenario, C2 \in Call, TypedTx(tx'[h]), Working(db, tx'[h], C2), Apart(h, W, tx'[h])
    PROVE  TypeOK' /\ AuthInv'
<1>1. /\ Grows(tx[h], W, Wants(h), tx'[h])
      /\ call'[h] = C2
      /\ \A g \in Handlers \ {h} : tx'[g] = tx[g] /\ call'[g] = call[g]
      /\ DOMAIN tx' = Handlers /\ DOMAIN call' = Handlers
      /\ db' = db /\ now' = now /\ principals' = principals /\ faults' = faults
    BY StatementGrows
<1>2. C2.op # "none"
    BY DEF Working
<1>3. TypeOK'
    BY <1>1, <1>2 DEF TypeOK, TypedTx
<1>4. ASSUME NEW g \in Handlers \ {h} PROVE Exclusive(tx'[h], tx[g]) /\ Exclusive(tx[g], tx'[h])
  <2>1. TypedTx(tx[g]) /\ Exclusive(tx[h], tx[g])
    BY <1>4, Typing DEF AuthInv
  <2>2. WritesLocked(db, tx[g])
    <3>1. HandlerSound(db, tx[g], call[g])
        BY <1>4 DEF AuthInv
    <3>2. WritesLocked(db, NoTx)
        BY DEF WritesLocked, NoTx, NoWrites
    <3> QED BY <3>1, <3>2 DEF HandlerSound, Working
  <2>3. \A k \in Wants(h), l \in tx[g].locks : k[1] = l[1] => ~Conflict(k[2], l[2])
    BY <1>4 DEF Blockers, Holders
  <2>4. ASSUME NEW u, UserRow(u) \in DOMAIN tx[g].writes, Seen(db, tx[h], UserRow(u)) # None
        PROVE  ~Adds(db, tx[g], u)
    BY <2>1, <2>4 DEF Exclusive, Seen, Adds
  <2>5. \A row \in DOMAIN W :
              \/ row \in DOMAIN tx[h].writes
              \/ row \notin DOMAIN tx[g].writes
              \/ /\ Locked(tx'[h], row) \/ <<row, "no_key_update">> \in tx'[h].locks
                 /\ row[1] \in {"user", "refresh", "link"} => db[row] # None
                 /\ row[1] = "password" => ~Adds(db, tx[g], row[2])
    BY <1>4, <2>4 DEF Apart, Adds
  <2> QED BY <1>1, <2>1, <2>2, <2>3, <2>5, GrownExclusive
<1>5. AuthInv'
  <2>1. RowsSound(db, principals)'
    BY <1>1 DEF AuthInv
  <2>2. \A g \in Handlers : HandlerSound(db', tx'[g], call'[g])
    BY <1>1 DEF AuthInv, HandlerSound
  <2>3. \A g, k \in Handlers : g # k => Exclusive(tx'[g], tx'[k])
    BY <1>1, <1>4 DEF AuthInv
  <2> QED BY <2>1, <2>2, <2>3 DEF AuthInv
<1> QED BY <1>3, <1>5

\* A request that ends without a commit leaves no trace.
LEMMA EndKeeps ==
    ASSUME TypeOK, AuthInv, NEW h \in Handlers, tx' = [tx EXCEPT ![h] = NoTx], call' = [call EXCEPT ![h] = Idle],
           UNCHANGED <<db, now, principals, scenario>>, faults' \in 0..scenario.faults
    PROVE  TypeOK' /\ AuthInv'
<1>1. DOMAIN tx = Handlers /\ DOMAIN call = Handlers
    BY DEF TypeOK
<1>2. /\ tx'[h] = NoTx /\ call'[h] = Idle
      /\ \A g \in Handlers \ {h} : tx'[g] = tx[g] /\ call'[g] = call[g]
      /\ DOMAIN tx' = Handlers /\ DOMAIN call' = Handlers
    BY <1>1
<1>3. Idle \in Call /\ TypedTx(NoTx)
    BY DEF Idle, Call, Vias, TypedTx, NoTx, NoWrites
<1>4. TypeOK'
    BY <1>2, <1>3 DEF TypeOK, TypedTx
<1>5. \A T : Exclusive(T, NoTx) /\ Exclusive(NoTx, T)
    BY DEF Exclusive, NoTx, NoWrites
<1>6. AuthInv'
  <2>1. RowsSound(db, principals)'
    BY DEF AuthInv
  <2>2. \A g \in Handlers : HandlerSound(db', tx'[g], call'[g])
    BY <1>2 DEF AuthInv, HandlerSound
  <2>3. \A g, k \in Handlers : g # k => Exclusive(tx'[g], tx'[k])
    BY <1>2, <1>5 DEF AuthInv
  <2> QED BY <2>1, <2>2, <2>3 DEF AuthInv
<1> QED BY <1>4, <1>6

LEMMA ReturnsKeeps ==
    ASSUME TypeOK, AuthInv, NEW h \in Handlers, Returns(h), UNCHANGED scenario
    PROVE  TypeOK' /\ AuthInv'
BY EndKeeps DEF Returns, RollbackTx, TypeOK

\* The locks of each statement.
LEMMA WantsFacts ==
    ASSUME NEW h
    PROVE  LET c == call[h]
               shared == {<<UserRow(c.user), "key_share">>}
           IN  /\ c.todo # {} => Wants(h) = {<<NextRow(c.todo), "update">>}
               /\ At(h, "insert_user") => Wants(h) = {<<EmailKey(c.email), "update">>}
               /\ At(h, "set_verified") => Wants(h) = {<<UserRow(c.user), "no_key_update">>}
               /\ At(h, "set_password") =>
                     Wants(h) = {<<PasswordRow(c.user), "update">>}
                                    \cup IF Visible(h, PasswordRow(c.user)) THEN {} ELSE shared
               /\ At(h, "insert_link") \/ At(h, "issue") => Wants(h) = shared
               /\ At(h, "insert_identity") =>
                     Wants(h) = {<<IdentityRow(c.subject), "update">>, <<LinkedKey(c.user), "update">>,
                                 <<UserRow(c.user), "key_share">>}
               /\ At(h, "drop_password") => Wants(h) = {<<PasswordRow(c.user), "update">>}
               /\ At(h, "lock_token") => Wants(h) = TokenLock(c)
               /\ At(h, "lock_link") => Wants(h) = LinkLock(c)
               /\ At(h, "lock_account") => Wants(h) = AccountLock(c)
               /\ At(h, "delete") /\ Visible(h, UserRow(c.user)) =>
                     Wants(h) = {<<UserRow(c.user), "update">>, <<EmailKey(db[UserRow(c.user)].email), "update">>}
               /\ At(h, "read_user") \/ At(h, "read_credential") \/ At(h, "revoke") \/ At(h, "invalidate_verify")
                    \/ At(h, "invalidate_reset") \/ At(h, "read_identity") \/ At(h, "read_email")
                  => Wants(h) = {}
<1> DEFINE c == call[h]
<1>1. CASE c.todo # {}
  <2>1. Wants(h) = {<<NextRow(c.todo), "update">>}
    BY <1>1 DEF Wants, At
  <2> QED BY <1>1, <2>1 DEF At
<1>2. CASE c.todo = {}
    BY <1>2 DEF Wants, At
<1> QED BY <1>1, <1>2

\* C2 is C after a statement that does not branch.
Advances(C, C2) ==
    /\ C2 \in Call /\ C2.op = C.op /\ C2.steps = Tail(C.steps)
    /\ C2.token = C.token /\ C2.link = C.link /\ C2.email = C.email /\ C2.subject = C.subject
    /\ C2.password = C.password /\ C2.family = C.family
    /\ C2.via = IF Stage(C) = "read_credential" THEN "password" ELSE IF Stage(C) = "lock_link" THEN "link" ELSE C.via
    /\ Stage(C) \notin {"lock_token", "read_email", "commit"}
    /\ Stage(C) = "read_identity" => C.op = "link"

\* The rows that a statement other than a deletion goes through.
Visited == {"refresh", "link"} \X (Tokens \cup Links)

\* Flow for requests.
LEMMA Advance ==
    ASSUME NEW C \in Call, NEW C2, C.op # "none", Progress(C), Parameters(C), Advances(C, C2),
           C.op # "logout" => C2.user \in Users,
           C.op # "delete" => C2.todo \subseteq Visited, \A row \in C2.todo : row[1] # "user"
    PROVE  Progress(C2) /\ Parameters(C2) /\ C2.op # "none" /\ Stage(C2) \notin Finding /\ Ordered(C, C2)
<1>1. C.op = "federated" => C2.via = C.via
  <2>1. Stage(C) \in {"read_credential", "lock_link"} => C.op # "federated"
    BY Shape DEF Before, Stage
  <2> QED BY <2>1 DEF Advances
<1>2. Progress(C2) /\ Ordered(C, C2)
    BY <1>1, Flow DEF Advances
<1>3. Stage(C2) \notin Finding \cup {"delete"}
    BY <1>2 DEF Ordered, Leads, Finding
<1>4. /\ Stage(C2) = "issue" => C2.via \in {"password", "identity", "claim", "link", "rotate", "grace"}
      /\ C2.op \in {"verify", "reset"} => C2.via = "link"
      /\ C2.op = "refresh" => Stage(C2) # "issue"
    BY <1>2 DEF Ordered, Leads, Advances, Parameters
<1>5. /\ C2.via \in {"rotate", "grace"} => C2.op = "refresh"
      /\ C2.via = "link" => C2.op \in {"verify", "reset"}
      /\ C2.via = "claim" => C2.op = "federated"
    BY <1>2 DEF Ordered, Leads, Advances, Parameters
<1>6. Parameters(C2)
    BY <1>3, <1>4, <1>5 DEF Parameters, Advances, Finding, Visited
<1> QED BY <1>2, <1>3, <1>6 DEF Advances

\* A statement that only reads and locks.
LEMMA ReadWorks ==
    ASSUME NEW D, NEW T, NEW L, NEW U, NEW C, NEW C2, Start(D, T, C), Grows(T, NoWrites, L, U),
           L \subseteq Lockable,
           Stage(C) # "commit", C.op # "delete", C.op = "federated" => C.via # "identity", C2.op = C.op,
           Stage(C2) \in Finding => Stage(C) \in Finding,
           Progress(C2), Parameters(C2), UserKnown(D, U, C2), Exchanges(D, U, C2),
           Claiming(C) => Claiming(C2) /\ C2.user = C.user, Claims(D, U, C2)
    PROVE  TypedTx(U) /\ Working(D, U, C2)
<1>1. /\ TypedTx(T) /\ WritesLocked(D, T) /\ WritesFollow(D, T) /\ WritesReference(D, T)
      /\ SessionsSound(D, T, C) /\ Logins(D, T, C) /\ Deletes(D, T, C) /\ C.op # "none"
    BY DEF Start, Working
<1>2. DOMAIN NoWrites = {}
    BY DEF NoWrites
<1>3. \A row : Seen(D, U, row) = Seen(D, T, row)
    BY <1>2, GrownSeen
<1>4. DOMAIN U.writes = DOMAIN T.writes /\ \A row \in DOMAIN T.writes : U.writes[row] = T.writes[row]
    BY <1>2 DEF Grows
<1>5. TypedTx(U) /\ WritesLocked(D, U) /\ WritesFollow(D, U) /\ WritesReference(D, U)
    BY <1>1, <1>2, GrownWrites DEF Allowed
<1>6. SessionsSound(D, U, C2)
  <2>1. KeepsUsers(D, T, U)
    BY <1>3 DEF KeepsUsers
  <2>2. NewTokens(D, T) = {}
    BY <1>1, NoSessionYet
  <2> QED BY <1>1, <1>2, <2>1, <2>2, GrownSessions
<1>7. Logins(D, U, C2)
    BY <1>1, <1>4 DEF Logins, Adds
<1>8. Deletes(D, U, C2)
    BY <1>1, <1>4 DEF Deletes, Deleting
<1> QED BY <1>1, <1>5, <1>6, <1>7, <1>8 DEF Working

\* Whatever is committed of a user, a transaction sees it or a later state of it.
LEMMA SeenUser ==
    ASSUME NEW D, NEW T, NEW u \in Users, WritesFollow(D, T)
    PROVE  /\ D[UserRow(u)] # None => Seen(D, T, UserRow(u)) # None
           /\ Trusted(D[UserRow(u)]) => Trusted(Seen(D, T, UserRow(u)))
<1> DEFINE row == UserRow(u)
<1>1. row[1] = "user"
    BY RowFacts
<1>2. CASE row \notin DOMAIN T.writes
    BY <1>2 DEF Seen
<1>3. CASE row \in DOMAIN T.writes
  <2>1. Follows(row, D[row], T.writes[row]) /\ Seen(D, T, row) = T.writes[row]
    BY <1>3 DEF WritesFollow, Seen
  <2> QED BY <1>1, <2>1 DEF Follows, Trusted, Live
<1> QED BY <1>2, <1>3

LEMMA GetSeen == ASSUME NEW h, NEW row PROVE Get(h, row) = Seen(db, tx[h], row)
BY DEF Get, Seen

LEMMA VisibleSeen == ASSUME NEW h, NEW row PROVE Visible(h, row) <=> Live(Seen(db, tx[h], row))
BY DEF Visible, Get, Seen, Live

\* A live user has the fields of one.
LEMMA UserTyped ==
    ASSUME NEW D, NEW T, TypedRows(D), TypedTx(T), NEW u \in Users, Live(Seen(D, T, UserRow(u)))
    PROVE  Seen(D, T, UserRow(u)) \in User /\ (Seen(D, T, UserRow(u)).verified => Trusted(Seen(D, T, UserRow(u))))
<1>1. UserRow(u) \in Rows /\ UserRow(u)[1] = "user"
    BY RowFacts
<1>2. Seen(D, T, UserRow(u)) \in Stored(UserRow(u))
    BY <1>1 DEF Seen, TypedRows, TypedTx
<1> QED BY <1>1, <1>2, ValueFacts DEF Trusted

LEMMA TailTyped == ASSUME NEW S, NEW q \in Seq(S), q # <<>> PROVE Tail(q) \in Seq(S)
OBVIOUS

\* The request of a handler whose next statement is s.
LEMMA AtStage ==
    ASSUME TypeOK, AuthInv, NEW h \in Handlers, NEW s, At(h, s)
    PROVE  /\ call[h].op # "none" /\ Start(db, tx[h], call[h]) /\ HoldersTrusted(db, principals)
           /\ Stage(call[h]) = s /\ call[h].todo = {}
           /\ call[h].steps # <<>> /\ call[h].steps \in Seq(Statements) /\ Tail(call[h].steps) \in Seq(Statements)
<1>1. call[h] # Idle /\ call[h].todo = {} /\ call[h].steps # <<>> /\ Stage(call[h]) = s
    BY DEF At, Idle, Stage
<1>2. call[h] \in Call /\ call[h].op # "none"
    BY <1>1, Typing
<1>3. call[h].steps \in Seq(Statements)
    BY <1>2 DEF Call
<1>4. Tail(call[h].steps) \in Seq(Statements)
    BY <1>1, <1>3, TailTyped
<1> QED BY <1>1, <1>2, <1>3, <1>4, BusyWorks

-----------------------------------------------------------------------------
(* The statements that read *)

LEMMA ReadUserKeeps ==
    ASSUME TypeOK, AuthInv, NEW h \in Handlers, ReadUser(h), UNCHANGED scenario
    PROVE  TypeOK' /\ AuthInv'
<1> DEFINE C == call[h]
<1>1. Runs(h, "read_user") /\ At(h, "read_user") /\ Blockers(h) = {}
    BY DEF ReadUser, Runs
<1>2. /\ C.op # "none" /\ Start(db, tx[h], C) /\ Stage(C) = "read_user" /\ C.todo = {}
      /\ C.steps # <<>> /\ C.steps \in Seq(Statements) /\ Tail(C.steps) \in Seq(Statements)
    BY <1>1, AtStage
<1>3. ASSUME NEW u \in GetUserByEmail(h, C.email), Continues(h, NoWrites, [Rest(h) EXCEPT !.user = u])
      PROVE  TypeOK' /\ AuthInv'
  <2> DEFINE C2 == [Rest(h) EXCEPT !.user = u]
             U == tx'[h]
  <2>1. u \in Users /\ Live(Seen(db, tx[h], UserRow(u)))
    BY <1>3, VisibleSeen DEF GetUserByEmail
  <2>2. Advances(C, C2) /\ C2.user = u /\ C2.todo = {}
    BY <1>2, <2>1 DEF Start, Advances, Rest, Call
  <2>3. Progress(C2) /\ Parameters(C2) /\ C2.op # "none" /\ Stage(C2) \notin Finding /\ Ordered(C, C2)
    BY <1>2, <2>1, <2>2, Advance DEF Start, Working
  <2>4. C.op \in {"resend", "forgot"} /\ Stage(C2) \in {"invalidate_verify", "invalidate_reset"}
    BY <1>2, <2>3 DEF Ordered, Leads
  <2>5. Grows(tx[h], NoWrites, {}, U) /\ Wants(h) = {}
    BY <1>1, <1>3, StatementGrows, WantsFacts
  <2>6. UserKnown(db, U, C2)
    BY <2>1, <2>2, <2>4, <2>5, GrownSeen DEF UserKnown, Vouched, Live, NoWrites, Advances
  <2>7. Exchanges(db, U, C2) /\ Claims(db, U, C2) /\ ~Claiming(C)
    BY <2>2, <2>4 DEF Exchanges, Claims, Claiming, Advances
  <2>8. TypedTx(U) /\ Working(db, U, C2)
    BY <1>2, <2>2, <2>3, <2>4, <2>5, <2>6, <2>7, ReadWorks DEF Advances
  <2> QED BY <1>1, <1>3, <2>2, <2>8, StatementKeeps DEF Advances, Apart, NoWrites
<1> QED BY <1>3, ReturnsKeeps DEF ReadUser

LEMMA ReadCredentialKeeps ==
    ASSUME TypeOK, AuthInv, NEW h \in Handlers, ReadCredential(h), UNCHANGED scenario
    PROVE  TypeOK' /\ AuthInv'
<1> DEFINE C == call[h]
           T == tx[h]
           C2(u) == [Rest(h) EXCEPT !.user = u, !.via = "password"]
<1>1. At(h, "read_credential") /\ Blockers(h) = {}
    BY DEF ReadCredential, Runs
<1>2. /\ C.op # "none" /\ Start(db, T, C) /\ Stage(C) = "read_credential" /\ C.todo = {}
      /\ C.steps # <<>> /\ C.steps \in Seq(Statements) /\ Tail(C.steps) \in Seq(Statements)
    BY <1>1, AtStage
<1>3. C.op \in {"login", "changePassword"}
    BY <1>2, Shape DEF Before, Stage, Start, Working, Call
<1>4. ASSUME NEW u, C.op = "login" => /\ u \in Users /\ Live(Seen(db, T, UserRow(u)))
                                      /\ Seen(db, T, UserRow(u)).verified,
             C.op = "changePassword" => u = C.user,
             Continues(h, NoWrites, C2(u))
      PROVE  TypeOK' /\ AuthInv'
  <2> DEFINE U == tx'[h]
  <2>1. u \in Users
    BY <1>2, <1>3, <1>4 DEF Start, Working, Parameters
  <2>2. Advances(C, C2(u)) /\ C2(u).user = u /\ C2(u).todo = {}
    BY <1>2, <2>1, ZenonT(60) DEF Start, Advances, Rest, Call, Vias
  <2>3. Progress(C2(u)) /\ Parameters(C2(u)) /\ C2(u).op # "none" /\ Stage(C2(u)) \notin Finding /\ Ordered(C, C2(u))
    BY <1>2, <2>1, <2>2, Advance DEF Start, Working
  <2>4. C.op = "login" \/ (C.op = "changePassword" /\ Stage(C2(u)) = "set_password")
    BY <1>2, <2>3 DEF Ordered, Leads
  <2>5. Grows(T, NoWrites, {}, U) /\ Wants(h) = {}
    BY <1>1, <1>4, StatementGrows, WantsFacts
  <2>6. UserKnown(db, U, C2(u))
    <3>1. Seen(db, U, UserRow(u)) = Seen(db, T, UserRow(u))
        BY <2>5, GrownSeen DEF NoWrites
    <3>2. CASE C.op = "login"
        BY <1>2, <1>4, <2>2, <3>1, <3>2, UserTyped DEF UserKnown, Start, Live
    <3>3. CASE C.op = "changePassword"
      <4>1. ~Vouched(C2(u))
        BY <2>2, <2>4, <3>3 DEF Vouched, Advances
      <4> QED BY <1>2, <1>4, <2>2, <3>1, <3>3, <4>1 DEF UserKnown, Start, Working
    <3> QED BY <1>3, <3>2, <3>3
  <2>7. Exchanges(db, U, C2(u)) /\ Claims(db, U, C2(u)) /\ ~Claiming(C)
    BY <1>3, <2>2 DEF Exchanges, Claims, Claiming, Advances
  <2>8. TypedTx(U) /\ Working(db, U, C2(u))
    BY <1>2, <1>3, <2>2, <2>3, <2>5, <2>6, <2>7, ReadWorks DEF Advances
  <2> QED BY <1>1, <1>4, <2>2, <2>8, StatementKeeps DEF Advances, Apart, NoWrites
<1>5. ASSUME NEW u, u \in IF C.op = "login" THEN GetPasswordCredentialByEmail(h, C.email) ELSE {C.user},
             C.op = "login" => Get(h, UserRow(u)).verified
      PROVE  /\ C.op = "login" => /\ u \in Users /\ Live(Seen(db, T, UserRow(u)))
                                  /\ Seen(db, T, UserRow(u)).verified
             /\ C.op = "changePassword" => u = C.user
    BY <1>5, VisibleSeen, GetSeen DEF GetPasswordCredentialByEmail, GetUserByEmail
<1> QED BY <1>4, <1>5, ReturnsKeeps DEF ReadCredential

\* A statement that goes through many rows finds them.
LEMMA RevokeKeeps ==
    ASSUME TypeOK, AuthInv, NEW h \in Handlers, Revoke(h), UNCHANGED scenario
    PROVE  TypeOK' /\ AuthInv'
<1> DEFINE C == call[h]
           T == tx[h]
           U == tx'[h]
           rows == CASE C.op = "logout" -> RevokeRefreshToken(h, C.token)
                     [] C.op = "refresh" -> RevokeRefreshFamily(h, C.family)
                     [] OTHER -> RevokeAllUserRefreshTokens(h, C.user)
           C2 == [Rest(h) EXCEPT !.todo = rows]
<1>1. At(h, "revoke") /\ Blockers(h) = {} /\ Continues(h, NoWrites, C2)
    BY DEF Revoke, Runs
<1>2. /\ C.op # "none" /\ Start(db, T, C) /\ Stage(C) = "revoke" /\ C.todo = {}
      /\ C.steps # <<>> /\ C.steps \in Seq(Statements) /\ Tail(C.steps) \in Seq(Statements)
    BY <1>1, AtStage
<1>3. rows \subseteq {"refresh"} \X Tokens
    BY DEF RevokeRefreshToken, RevokeRefreshFamily, RevokeAllUserRefreshTokens, Unrevoked
<1>4. rows \subseteq Rows /\ rows \subseteq Visited /\ \A row \in rows : row[1] # "user"
    BY <1>3 DEF Rows, Visited
<1>5. C.op # "logout" => C.user \in Users
    BY <1>2 DEF Start, Working, Parameters, Finding
<1> HIDE DEF rows
<1>6. Advances(C, C2) /\ C2.user = C.user /\ C2.todo = rows /\ C2.via = C.via
    BY <1>2, <1>4, ZenonT(60) DEF Start, Advances, Rest, Call
<1> HIDE DEF C2
<1>7. Progress(C2) /\ Parameters(C2) /\ C2.op # "none" /\ Stage(C2) \notin Finding /\ Ordered(C, C2)
    BY <1>2, <1>4, <1>5, <1>6, Advance DEF Start, Working
<1>8. \/ C.op = "reset" /\ Stage(C2) = "issue"
      \/ C.op \in {"refresh", "logout", "changePassword"} /\ Stage(C2) = "commit"
      \/ C.op = "federated" /\ C.via = "claim" /\ Stage(C2) = "invalidate_verify"
    BY <1>2, <1>7 DEF Ordered, Leads
<1>9. Grows(T, NoWrites, {}, U)
    BY <1>1, StatementGrows, WantsFacts
<1>10. \A row : Seen(db, U, row) = Seen(db, T, row)
    BY <1>9, GrownSeen DEF NoWrites
<1>11. UserKnown(db, U, C2)
  <2>1. Vouched(C2) => Vouched(C)
    BY <1>2, <1>6, <1>8 DEF Vouched, Advances
  <2> QED BY <1>2, <1>6, <1>10, <2>1, GrownUser DEF Start, Working, KeepsUsers
<1>12. Exchanges(db, U, C2)
    BY <1>2, <1>6, <1>8, <1>9, GrownExchanges DEF Start, Working, Advances, Grows
<1>13. ASSUME Claiming(C2)
       PROVE  Claiming(C) /\ Claims(db, U, C2)
  <2>1. C.op = "federated" /\ C.via = "claim" /\ Stage(C2) = "invalidate_verify"
    BY <1>6, <1>8, <1>13 DEF Claiming, Advances
  <2>2. Claiming(C) /\ Claims(db, T, C)
    BY <1>2, <2>1 DEF Claiming, Start, Working
  <2>3. ASSUME NEW t \in Tokens, BelongsTo(RefreshRow(t), Seen(db, U, RefreshRow(t)), C.user)
        PROVE  Seen(db, U, RefreshRow(t)).revoked \/ RefreshRow(t) \in rows
    <3>1. RefreshRow(t) \in {"refresh"} \X Tokens
        BY DEF RefreshRow
    <3>2. Visible(h, RefreshRow(t)) /\ Get(h, RefreshRow(t)).user = C.user
        BY <1>10, <2>3, GetSeen, VisibleSeen DEF BelongsTo, OwnerOf, RefreshRow
    <3>3. rows = RevokeAllUserRefreshTokens(h, C.user)
        BY <2>1 DEF rows
    <3> QED BY <1>10, <3>1, <3>2, <3>3, GetSeen DEF RevokeAllUserRefreshTokens, Unrevoked
  <2>4. T.locks \subseteq U.locks /\ DOMAIN U.writes = DOMAIN T.writes
            /\ \A row \in DOMAIN T.writes : U.writes[row] = T.writes[row]
    BY <1>9 DEF Grows, NoWrites
  <2> QED BY <1>2, <1>6, <2>1, <2>2, <2>3, <2>4 DEF Claims, AfterRevoke, Locked
<1>14. Claiming(C) => Claiming(C2)
    BY <1>6, <1>8 DEF Claiming, Advances
<1>15. TypedTx(U) /\ Working(db, U, C2)
  <2>1. Claims(db, U, C2)
    BY <1>13 DEF Claims
  <2>2. C.op # "delete" /\ (C.op = "federated" => C.via # "identity")
    BY <1>8
  <2> QED BY <1>2, <1>6, <1>7, <1>9, <1>11, <1>12, <1>14, <2>1, <2>2, ReadWorks DEF Advances
<1> QED BY <1>1, <1>6, <1>15, StatementKeeps DEF Advances, Apart, NoWrites

LEMMA InvalidateKeeps ==
    ASSUME TypeOK, AuthInv, NEW h \in Handlers, NEW s \in {"invalidate_verify", "invalidate_reset"}, NEW kind,
           kind = IF s = "invalidate_verify" THEN "verify_email" ELSE "reset_password",
           InvalidateKind(h, s, kind), UNCHANGED scenario
    PROVE  TypeOK' /\ AuthInv'
<1> DEFINE C == call[h]
           T == tx[h]
           U == tx'[h]
           rows == InvalidateUserOneTimeTokens(h, C.user, kind)
           C2 == [Rest(h) EXCEPT !.todo = rows]
<1>1. At(h, s) /\ Blockers(h) = {} /\ Continues(h, NoWrites, C2)
    BY DEF InvalidateKind, Runs
<1>2. /\ C.op # "none" /\ Start(db, T, C) /\ Stage(C) = s /\ C.todo = {}
      /\ C.steps # <<>> /\ C.steps \in Seq(Statements) /\ Tail(C.steps) \in Seq(Statements)
    BY <1>1, AtStage
<1>3. rows \subseteq {"link"} \X Links
    BY DEF InvalidateUserOneTimeTokens
<1>4. rows \subseteq Rows /\ rows \subseteq Visited /\ \A row \in rows : row[1] # "user"
    BY <1>3 DEF Rows, Visited
<1>5. C.op # "logout" => C.user \in Users
    BY <1>2 DEF Start, Working, Parameters, Finding
<1> HIDE DEF rows
<1>6. Advances(C, C2) /\ C2.user = C.user /\ C2.todo = rows /\ C2.via = C.via
  <2>1. Stage(C) \notin {"read_credential", "lock_link", "lock_token", "read_email", "commit", "read_identity"}
    BY <1>2
  <2> HIDE DEF C
  <2>2. C \in Call /\ Rest(h) = [C EXCEPT !.steps = Tail(C.steps)]
    BY <1>2 DEF Start, Rest, C
  <2> QED BY <1>2, <1>4, <2>1, <2>2, ZenonT(60) DEF Advances, Call
<1> HIDE DEF C2
<1>7. Progress(C2) /\ Parameters(C2) /\ C2.op # "none" /\ Stage(C2) \notin Finding /\ Ordered(C, C2)
    BY <1>2, <1>4, <1>5, <1>6, Advance DEF Start, Working
<1>8. \/ C.op \in {"resend", "forgot"} /\ Stage(C2) = "insert_link"
      \/ C.op = "federated" /\ C.via = "claim" /\ s = "invalidate_verify" /\ Stage(C2) = "invalidate_reset"
      \/ C.op = "federated" /\ C.via = "claim" /\ s = "invalidate_reset" /\ Stage(C2) = "set_verified"
    BY <1>2, <1>7 DEF Ordered, Leads
<1>9. Grows(T, NoWrites, {}, U)
    BY <1>1, StatementGrows, WantsFacts
<1>10. \A row : Seen(db, U, row) = Seen(db, T, row)
    BY <1>9, GrownSeen DEF NoWrites
<1>11. UserKnown(db, U, C2)
  <2>1. ~Vouched(C2)
    BY <1>6, <1>8 DEF Vouched, Advances
  <2> QED BY <1>2, <1>6, <1>10, <2>1, GrownUser DEF Start, Working, KeepsUsers
<1>12. Exchanges(db, U, C2)
    BY <1>6, <1>8 DEF Exchanges, Advances
<1>13. ASSUME Claiming(C2)
       PROVE  Claims(db, U, C2)
  <2>1. C.op = "federated" /\ C.via = "claim"
    BY <1>6, <1>8, <1>13 DEF Claiming, Advances
  <2>2. Claiming(C) /\ Claims(db, T, C) /\ Stage(C) \in AfterRevoke /\ Stage(C) # "drop_password"
    BY <1>2, <2>1 DEF Claiming, Start, Working, AfterRevoke
  <2>3. ASSUME NEW l \in Links, BelongsTo(LinkRow(l), Seen(db, U, LinkRow(l)), C.user),
               Stage(C2) = "invalidate_reset" => Seen(db, U, LinkRow(l)).kind = "verify_email"
        PROVE  Seen(db, U, LinkRow(l)).used \/ LinkRow(l) \in rows
    <3> DEFINE link == Seen(db, T, LinkRow(l))
    <3>1. LinkRow(l) \in {"link"} \X Links /\ LinkRow(l) \in Rows /\ LinkRow(l)[1] = "link"
        BY RowFacts DEF LinkRow
    <3>2. BelongsTo(LinkRow(l), link, C.user) /\ Live(link)
        BY <1>10, <2>3 DEF BelongsTo
    <3>3. Visible(h, LinkRow(l)) /\ Get(h, LinkRow(l)) = link /\ link.user = C.user
        BY <3>1, <3>2, GetSeen, VisibleSeen DEF BelongsTo, OwnerOf
    <3>4. link.kind = kind => link.used \/ LinkRow(l) \in rows
        BY <3>1, <3>3 DEF rows, InvalidateUserOneTimeTokens
    <3>5. link \in OneTimeToken
      <4>1. link \in Stored(LinkRow(l))
        BY <1>2, <3>1 DEF Start, TypedRows, TypedTx, Seen
      <4> QED BY <3>1, <3>2, <4>1, ValueFacts
    <3>6. CASE s = "invalidate_verify"
        BY <1>8, <1>10, <2>1, <2>3, <3>4, <3>6
    <3>7. CASE s = "invalidate_reset"
      <4>1. link.kind = "verify_email" => link.used
        BY <1>2, <2>2, <3>2, <3>7 DEF Claims
      <4>2. link.kind \in {"verify_email", "reset_password"}
        BY <3>5 DEF OneTimeToken
      <4> QED BY <1>10, <3>4, <3>7, <4>1, <4>2
    <3> QED BY <3>6, <3>7
  <2>4. ASSUME NEW t \in Tokens, BelongsTo(RefreshRow(t), Seen(db, U, RefreshRow(t)), C.user)
        PROVE  Seen(db, U, RefreshRow(t)).revoked \/ Seen(db, U, RefreshRow(t)).via = "claim"
    BY <1>2, <1>10, <2>2, <2>4 DEF Claims
  <2>5. T.locks \subseteq U.locks /\ DOMAIN U.writes = DOMAIN T.writes
            /\ \A row \in DOMAIN T.writes : U.writes[row] = T.writes[row]
    BY <1>9 DEF Grows, NoWrites
  <2>6. Stage(C2) \in {"invalidate_reset", "set_verified"}
    BY <1>8, <2>1
  <2> QED BY <1>6, <2>2, <2>3, <2>4, <2>5, <2>6 DEF Claims, Locked
<1>14. Claiming(C) => Claiming(C2)
    BY <1>6, <1>8 DEF Claiming, Advances
<1>15. TypedTx(U) /\ Working(db, U, C2)
  <2>1. Claims(db, U, C2)
    BY <1>13 DEF Claims
  <2>2. C.op # "delete" /\ (C.op = "federated" => C.via # "identity")
    BY <1>8
  <2> QED BY <1>2, <1>6, <1>7, <1>9, <1>11, <1>12, <1>14, <2>1, <2>2, ReadWorks DEF Advances
<1> QED BY <1>1, <1>6, <1>15, StatementKeeps DEF Advances, Apart, NoWrites

\* A link that is found is locked, unused, and its user known.
LEMMA LockLinkKeeps ==
    ASSUME TypeOK, AuthInv, NEW h \in Handlers, LockLink(h), UNCHANGED scenario
    PROVE  TypeOK' /\ AuthInv'
<1> DEFINE C == call[h]
           T == tx[h]
           U == tx'[h]
           row == LinkRow(C.link)
           C2 == [Rest(h) EXCEPT !.user = db[row].user, !.via = "link"]
<1>1. At(h, "lock_link") /\ Blockers(h) = {}
    BY DEF LockLink, Runs
<1>2. /\ C.op # "none" /\ Start(db, T, C) /\ Stage(C) = "lock_link" /\ C.todo = {}
      /\ C.steps # <<>> /\ C.steps \in Seq(Statements) /\ Tail(C.steps) \in Seq(Statements)
    BY <1>1, AtStage
<1>3. ASSUME Live(db[row]), ~db[row].used, row \in GetOneTimeTokenForUpdate(C.link, LinkKind(C.op)),
             Continues(h, NoWrites, C2)
      PROVE  TypeOK' /\ AuthInv'
  <2>1. C.op \in {"verify", "reset"} /\ C.link \in Links
    BY <1>2, Shape DEF Before, Stage, Start, Working, Call, Parameters
  <2>2. row \in Rows /\ row[1] = "link"
    BY <2>1, RowFacts
  <2>3. db[row].user \in Users /\ BelongsTo(row, db[row], db[row].user)
    BY <1>2, <1>3, <2>2, OwnerTyped DEF Start, TypedRows, OwnerOf
  <2>4. Seen(db, T, UserRow(db[row].user)) # None
    BY <1>2, <2>2, <2>3, SeenUser DEF Start, Working, OwnersLive, Live
  <2>5. Advances(C, C2) /\ C2.user = db[row].user /\ C2.todo = {}
    BY <1>2, <2>3, ZenonT(60) DEF Start, Advances, Rest, Call, Vias
  <2> HIDE DEF C2
  <2>6. Progress(C2) /\ Parameters(C2) /\ C2.op # "none" /\ Stage(C2) \notin Finding /\ Ordered(C, C2)
    BY <1>2, <2>3, <2>5, Advance DEF Start, Working
  <2>7. Stage(C2) = "set_verified"
    BY <1>2, <2>6 DEF Ordered, Leads
  <2>8. Wants(h) = {<<row, "update">>}
    BY <1>1, <1>3, WantsFacts DEF LinkLock, ForUpdate, GetOneTimeTokenForUpdate
  <2>9. Grows(T, NoWrites, {<<row, "update">>}, U)
    BY <1>3, <2>8, StatementGrows
  <2>10. UserKnown(db, U, C2)
    <3>1. ~Vouched(C2)
        BY <2>1, <2>5, <2>7 DEF Vouched, Advances
    <3> QED BY <2>4, <2>5, <2>9, <3>1, GrownSeen DEF UserKnown, NoWrites
  <2>11. Exchanges(db, U, C2)
    BY <1>3, <2>1, <2>5, <2>9 DEF Exchanges, Advances, Grows, Locked
  <2>12. Claims(db, U, C2) /\ ~Claiming(C)
    BY <2>1, <2>5 DEF Claims, Claiming, Advances
  <2>13. {<<row, "update">>} \subseteq Lockable
    BY <2>2 DEF Lockable, Modes
  <2>14. TypedTx(U) /\ Working(db, U, C2)
    BY <1>2, <2>1, <2>5, <2>6, <2>9, <2>10, <2>11, <2>12, <2>13, ReadWorks DEF Advances
  <2> QED BY <1>1, <1>3, <2>5, <2>14, StatementKeeps DEF Advances, Apart, NoWrites
<1>4. \A r \in GetOneTimeTokenForUpdate(C.link, LinkKind(C.op)) : r = row /\ Live(db[row])
    BY DEF GetOneTimeTokenForUpdate, Live
<1> QED BY <1>3, <1>4, ReturnsKeeps DEF LockLink

\* A token that is found is locked; it is good, or the family is revoked.
LEMMA LockTokenKeeps ==
    ASSUME TypeOK, AuthInv, NEW h \in Handlers, LockToken(h), UNCHANGED scenario
    PROVE  TypeOK' /\ AuthInv'
<1> DEFINE C == call[h]
           T == tx[h]
           U == tx'[h]
           row == RefreshRow(C.token)
           C2(steps, via) == [C EXCEPT !.steps = steps, !.via = via, !.user = db[row].user,
                       !.family = db[row].family]
<1>1. At(h, "lock_token") /\ Blockers(h) = {}
    BY DEF LockToken, Runs
<1>2. /\ C.op # "none" /\ Start(db, T, C) /\ Stage(C) = "lock_token" /\ C.todo = {}
      /\ HoldersTrusted(db, principals)
    BY <1>1, AtStage
<1>3. C.op = "refresh" /\ C.token \in Tokens
    BY <1>2, Shape DEF Before, Stage, Start, Working, Call, Parameters
<1>4. row \in Rows /\ row[1] = "refresh"
    BY <1>3, RowFacts
<1>5. ASSUME NEW steps, NEW via, Live(db[row]), Continues(h, NoWrites, C2(steps, via)),
             \/ steps = ReuseDetected /\ via = "none"
             \/ /\ steps = RotateToken /\ ~db[row].revoked
                /\ via = "grace" \/ (via = "rotate" /\ db[row].used = None)
      PROVE  TypeOK' /\ AuthInv'
  <2> DEFINE N == C2(steps, via)
  <2>1. db[row] \in RefreshToken /\ db[row].user \in Users /\ db[row].family \in Tokens
    <3>1. db[row] \in RefreshToken
        BY <1>2, <1>4, <1>5, ValueFacts DEF Start, TypedRows
    <3> QED BY <3>1 DEF RefreshToken
  <2>2. Trusted(Seen(db, T, UserRow(db[row].user)))
    BY <1>2, <1>3, <1>5, <2>1, SeenUser DEF HoldersTrusted, Start, Working
  <2>3. steps \in Seq(Statements) /\ via \in Vias
    <3>1. ReuseDetected \in Seq(Statements) /\ RotateToken \in Seq(Statements)
        BY DEF ReuseDetected, RotateToken, Statements
    <3> QED BY <1>5, <3>1 DEF Vias
  <2>4. /\ N \in Call /\ N.op = "refresh" /\ N.steps = steps /\ N.via = via /\ N.token = C.token
        /\ N.user = db[row].user /\ N.family = db[row].family /\ N.todo = {}
    BY <1>2, <1>3, <2>1, <2>3 DEF Start, Call
  <2>5. \/ Stage(N) = "revoke" /\ N.via = "none"
        \/ /\ Stage(N) = "issue" /\ N.via \in {"rotate", "grace"} /\ ~db[row].revoked
           /\ N.via = "rotate" => db[row].used = None
    BY <1>5, <2>4, Tuples DEF Stage
  <2> HIDE DEF N
  <2>6. Progress(N)
    BY <1>5, <2>4 DEF Progress
  <2>7. Parameters(N)
    BY <1>3, <2>1, <2>4, <2>5 DEF Parameters, Finding
  <2>8. Wants(h) = {<<row, "update">>}
    BY <1>1, <1>5, WantsFacts DEF TokenLock, ForUpdate, GetRefreshTokenForUpdate, Live
  <2>9. Grows(T, NoWrites, {<<row, "update">>}, U)
    BY <1>5, <2>8, StatementGrows DEF N
  <2>10. UserKnown(db, U, N)
    <3>1. Seen(db, T, UserRow(db[row].user)) # None
        BY <2>2, AuthAssumption DEF Trusted, Live
    <3> QED BY <2>2, <2>4, <2>9, <3>1, GrownSeen DEF UserKnown, NoWrites
  <2>11. Exchanges(db, U, N)
    BY <1>5, <2>4, <2>5, <2>9 DEF Exchanges, Grows, Locked
  <2>12. Claims(db, U, N) /\ ~Claiming(C)
    BY <1>3, <2>4 DEF Claims, Claiming
  <2>13. {<<row, "update">>} \subseteq Lockable
    BY <1>4 DEF Lockable, Modes
  <2>14. TypedTx(U) /\ Working(db, U, N)
    <3>1. Stage(N) \notin Finding
        BY <2>5 DEF Finding
    <3> QED BY <1>2, <1>3, <2>4, <2>6, <2>7, <2>9, <2>10, <2>11, <2>12, <2>13, <3>1, ReadWorks
  <2> QED BY <1>1, <1>5, <2>4, <2>14, StatementKeeps DEF Apart, NoWrites, N
<1>6. GetRefreshTokenForUpdate(C.token) # {} => Live(db[row])
    BY DEF GetRefreshTokenForUpdate, Live
<1> QED BY <1>5, <1>6, ReturnsKeeps DEF LockToken, WithinGrace

\* Where a federated login turns to, once it has read.
LEMMA FederatedTurns ==
    ASSUME TypeOK, AuthInv, NEW h \in Handlers, NEW s \in {"read_identity", "read_email"}, At(h, s),
           Blockers(h) = {},
           call[h].op = "federated", UNCHANGED scenario,
           NEW steps, NEW via, NEW u, NEW C2, Continues(h, NoWrites, C2),
           C2 = [call[h] EXCEPT !.steps = steps, !.via = via, !.user = u],
           \/ steps = <<"read_email">> /\ via = "none" /\ u = call[h].user
           \/ steps = NewIdentity /\ via = "identity" /\ u = call[h].user
           \/ steps = ClaimUnverifiedAccount /\ via = "claim" /\ u = call[h].user
           \/ steps = KnownIdentity /\ via = "identity" /\ u \in Users /\ Trusted(Seen(db, tx[h], UserRow(u)))
    PROVE  TypeOK' /\ AuthInv'
<1> DEFINE C == call[h]
           T == tx[h]
           U == tx'[h]
<1>1. /\ C.op # "none" /\ Start(db, T, C) /\ Stage(C) = s /\ C.todo = {}
    BY AtStage
<1>2. C.via = "none" /\ C.subject \in Subjects /\ C.email \in Emails
    BY <1>1, Shape DEF Before, Stage, Start, Working, Parameters
<1>3. steps \in Seq(Statements) /\ via \in Vias
  <2>1. /\ <<"read_email">> \in Seq(Statements) /\ NewIdentity \in Seq(Statements)
        /\ ClaimUnverifiedAccount \in Seq(Statements) /\ KnownIdentity \in Seq(Statements)
    BY DEF NewIdentity, ClaimUnverifiedAccount, KnownIdentity, Statements
  <2> QED BY <2>1 DEF Vias
<1> u \in Users \cup {None}
    BY <1>1 DEF Start, Call
<1>4. /\ C2 \in Call /\ C2.op = "federated" /\ C2.steps = steps /\ C2.via = via /\ C2.subject = C.subject
      /\ C2.email = C.email /\ C2.user = u /\ C2.todo = {} /\ C2.family = C.family
    BY <1>1, <1>3 DEF Start, Call
<1>5. \/ Stage(C2) \in {"read_email", "insert_user", "lock_account"} /\ u = C.user
      \/ Stage(C2) = "issue" /\ via = "identity" /\ u \in Users /\ Trusted(Seen(db, T, UserRow(u)))
    BY <1>4, Tuples DEF Stage
<1>6. Progress(C2)
    BY <1>4 DEF Progress, FederatedLogin
<1>7. Parameters(C2)
    BY <1>1, <1>2, <1>4, <1>5 DEF Parameters, Finding, Start, Working
<1>8. Grows(T, NoWrites, {}, U)
  <2>1. Wants(h) = {}
    BY WantsFacts
  <2>2. Grows(T, NoWrites, Wants(h), U)
    BY StatementGrows
  <2> QED BY <2>1, <2>2
<1>9. UserKnown(db, U, C2)
  <2>1. Seen(db, U, UserRow(u)) = Seen(db, T, UserRow(u))
    BY <1>8, GrownSeen DEF NoWrites
  <2>2. CASE Stage(C2) = "issue" /\ u \in Users /\ Trusted(Seen(db, T, UserRow(u)))
    BY <1>4, <2>1, <2>2, AuthAssumption DEF UserKnown, Trusted, Live
  <2>3. CASE Stage(C2) \in {"read_email", "insert_user", "lock_account"} /\ u = C.user
    <3>1. ~Vouched(C2)
        BY <1>4, <2>3 DEF Vouched
    <3> QED BY <1>1, <1>4, <2>1, <2>3, <3>1 DEF UserKnown, Start, Working
  <2> QED BY <1>5, <2>2, <2>3
<1>10. Exchanges(db, U, C2)
    BY <1>4 DEF Exchanges
<1>11. ~Claiming(C) /\ Claims(db, U, C2)
  <2>1. ~Claiming(C2)
    BY <1>4, Tuples DEF Claiming, Stage
  <2> QED BY <1>2, <2>1 DEF Claiming, Claims
<1>12. TypedTx(U) /\ Working(db, U, C2)
  <2>1. Stage(C) \in Finding
    BY <1>1 DEF Finding
  <2> QED BY <1>1, <1>2, <1>4, <1>6, <1>7, <1>8, <1>9, <1>10, <1>11, <2>1, ReadWorks
<1> QED BY <1>4, <1>12, StatementKeeps DEF Apart, NoWrites

LEMMA ReadIdentityKeeps ==
    ASSUME TypeOK, AuthInv, NEW h \in Handlers, ReadIdentity(h), UNCHANGED scenario
    PROVE  TypeOK' /\ AuthInv'
<1> DEFINE C == call[h]
           T == tx[h]
           U == tx'[h]
<1>1. At(h, "read_identity") /\ Blockers(h) = {}
    BY DEF ReadIdentity, Runs
<1>2. /\ C.op # "none" /\ Start(db, T, C) /\ Stage(C) = "read_identity" /\ C.todo = {}
      /\ C.steps # <<>> /\ C.steps \in Seq(Statements) /\ Tail(C.steps) \in Seq(Statements)
      /\ HoldersTrusted(db, principals)
    BY <1>1, AtStage
<1>3. C.op \in {"link", "federated"} /\ C.subject \in Subjects /\ (C.op = "federated" => C.via = "none")
    BY <1>2, Shape DEF Before, Stage, Start, Working, Call, Parameters
<1>4. ASSUME C.op = "link", Continues(h, NoWrites, Rest(h))
      PROVE  TypeOK' /\ AuthInv'
  <2> DEFINE C2 == Rest(h)
  <2>1. C.user \in Users
    BY <1>2, <1>4 DEF Start, Working, Parameters
  <2>2. Advances(C, C2) /\ C2.user = C.user /\ C2.todo = {}
    BY <1>2, <1>4, ZenonT(60) DEF Start, Advances, Rest, Call
  <2> HIDE DEF C2
  <2>3. Progress(C2) /\ Parameters(C2) /\ C2.op # "none" /\ Stage(C2) \notin Finding /\ Ordered(C, C2)
    BY <1>2, <2>1, <2>2, Advance DEF Start, Working
  <2>4. Grows(T, NoWrites, {}, U)
    BY <1>1, <1>4, StatementGrows, WantsFacts
  <2>5. KeepsUsers(db, T, U)
    BY <2>4, GrownSeen DEF NoWrites, KeepsUsers
  <2>6. UserKnown(db, U, C2)
    BY <1>2, <1>4, <2>2, <2>5, GrownUser DEF Start, Working, Vouched
  <2>7. Exchanges(db, U, C2) /\ Claims(db, U, C2) /\ ~Claiming(C)
    BY <1>4, <2>2 DEF Exchanges, Claims, Claiming, Advances
  <2>8. TypedTx(U) /\ Working(db, U, C2)
    BY <1>2, <1>4, <2>2, <2>3, <2>4, <2>6, <2>7, ReadWorks DEF Advances
  <2> QED BY <1>1, <1>4, <2>2, <2>8, StatementKeeps DEF Advances, Apart, NoWrites, C2
<1>5. ASSUME C.op = "federated", Continues(h, NoWrites, [C EXCEPT !.steps = <<"read_email">>])
      PROVE  TypeOK' /\ AuthInv'
  <2> DEFINE C2 == [C EXCEPT !.steps = <<"read_email">>]
  <2>1. C2 = [C EXCEPT !.steps = <<"read_email">>, !.via = "none", !.user = C.user]
    BY <1>2, <1>3, <1>5 DEF Start, Call
  <2>2. Continues(h, NoWrites, C2)
    BY <1>5
  <2> HIDE DEF C2
  <2> QED BY <1>1, <1>5, <2>1, <2>2, FederatedTurns
<1>6. ASSUME C.op = "federated", NEW u \in GetUserByIdentity(h, C.subject),
             Continues(h, NoWrites, [C EXCEPT !.steps = KnownIdentity, !.user = u, !.via = "identity"])
      PROVE  TypeOK' /\ AuthInv'
  <2> DEFINE row == IdentityRow(C.subject)
  <2>1. u \in Users /\ Live(Seen(db, T, row)) /\ Seen(db, T, row).user = u
    BY <1>6, GetSeen, VisibleSeen DEF GetUserByIdentity
  <2>2. Trusted(Seen(db, T, UserRow(u)))
    <3>1. CASE row \in DOMAIN T.writes
        BY <1>2, <1>3, <2>1, <3>1 DEF Start, Working, SessionsSound, Seen
    <3>2. CASE row \notin DOMAIN T.writes
      <4>1. Live(db[row]) /\ db[row].user = u
        BY <2>1, <3>2 DEF Seen
      <4>2. Trusted(db[UserRow(u)])
        BY <1>2, <1>3, <4>1 DEF HoldersTrusted
      <4> QED BY <1>2, <2>1, <4>2, SeenUser DEF Start, Working
    <3> QED BY <3>1, <3>2
  <2> DEFINE C2 == [C EXCEPT !.steps = KnownIdentity, !.user = u, !.via = "identity"]
  <2>3. C2 = [C EXCEPT !.steps = KnownIdentity, !.via = "identity", !.user = u]
    BY <1>2 DEF Start, Call
  <2>4. Continues(h, NoWrites, C2)
    BY <1>6
  <2> HIDE DEF C2
  <2> QED BY <1>1, <1>6, <2>1, <2>2, <2>3, <2>4, FederatedTurns
<1> QED BY <1>3, <1>4, <1>5, <1>6, ReturnsKeeps DEF ReadIdentity

LEMMA ReadEmailKeeps ==
    ASSUME TypeOK, AuthInv, NEW h \in Handlers, ReadEmail(h), UNCHANGED scenario
    PROVE  TypeOK' /\ AuthInv'
<1> DEFINE C == call[h]
<1>1. At(h, "read_email") /\ Blockers(h) = {}
    BY DEF ReadEmail, Runs
<1>2. Start(db, tx[h], C) /\ Stage(C) = "read_email" /\ C.op # "none"
    BY <1>1, AtStage
<1>3. C.op = "federated"
    BY <1>2, Shape DEF Before, Stage, Start, Working, Call
<1>4. \A steps, via : [C EXCEPT !.steps = steps, !.via = via]
                        = [C EXCEPT !.steps = steps, !.via = via, !.user = C.user]
    BY <1>2 DEF Start, Call
<1>5. ASSUME NEW steps, NEW via, Continues(h, NoWrites, [C EXCEPT !.steps = steps, !.via = via]),
             \/ steps = NewIdentity /\ via = "identity"
             \/ steps = ClaimUnverifiedAccount /\ via = "claim"
      PROVE  TypeOK' /\ AuthInv'
  <2> DEFINE C2 == [C EXCEPT !.steps = steps, !.via = via]
  <2>1. C2 = [C EXCEPT !.steps = steps, !.via = via, !.user = C.user] /\ Continues(h, NoWrites, C2)
    BY <1>4, <1>5
  <2> HIDE DEF C2
  <2> QED BY <1>1, <1>3, <1>5, <2>1, FederatedTurns
<1> QED BY <1>5, ReturnsKeeps DEF ReadEmail

\* An account that is claimed is locked.
LEMMA LockAccountKeeps ==
    ASSUME TypeOK, AuthInv, NEW h \in Handlers, LockAccount(h), UNCHANGED scenario
    PROVE  TypeOK' /\ AuthInv'
<1> DEFINE C == call[h]
           T == tx[h]
           U == tx'[h]
           found == GetUserByEmailForUpdate(C.email)
<1>1. At(h, "lock_account") /\ Blockers(h) = {}
    BY DEF LockAccount, Runs
<1>2. /\ C.op # "none" /\ Start(db, T, C) /\ Stage(C) = "lock_account" /\ C.todo = {}
      /\ C.steps # <<>> /\ C.steps \in Seq(Statements) /\ Tail(C.steps) \in Seq(Statements)
    BY <1>1, AtStage
<1>3. ASSUME NEW u \in found, Continues(h, NoWrites, [Rest(h) EXCEPT !.user = u])
      PROVE  TypeOK' /\ AuthInv'
  <2> DEFINE C2 == [Rest(h) EXCEPT !.user = u]
             L == {<<UserRow(v), "update">> : v \in found}
  <2>1. u \in Users /\ Live(db[UserRow(u)])
    BY <1>3 DEF GetUserByEmailForUpdate, Live
  <2>2. Advances(C, C2) /\ C2.user = u /\ C2.todo = {} /\ C2.via = C.via
    BY <1>2, <2>1, ZenonT(60) DEF Start, Advances, Rest, Call
  <2> HIDE DEF C2
  <2>3. Progress(C2) /\ Parameters(C2) /\ C2.op # "none" /\ Stage(C2) \notin Finding /\ Ordered(C, C2)
    BY <1>2, <2>1, <2>2, Advance DEF Start, Working
  <2>4. C.op = "federated" /\ C.via = "claim" /\ Stage(C2) = "drop_password"
    BY <1>2, <2>3 DEF Ordered, Leads
  <2>5. Wants(h) = L
    BY <1>1, WantsFacts DEF AccountLock, ForUpdate
  <2>6. L \subseteq Lockable
    BY RowFacts DEF Lockable, Modes, GetUserByEmailForUpdate
  <2>7. Grows(T, NoWrites, L, U)
    BY <1>3, <2>5, StatementGrows DEF C2
  <2>8. UserKnown(db, U, C2)
    <3>1. ~Vouched(C2)
        BY <2>2, <2>4 DEF Vouched, Advances
    <3>2. Seen(db, T, UserRow(u)) # None
        BY <1>2, <2>1, SeenUser DEF Start, Working, Live
    <3> QED BY <2>2, <2>7, <3>1, <3>2, GrownSeen DEF UserKnown, NoWrites
  <2>9. Locked(U, UserRow(u))
    BY <1>3, <2>7 DEF Grows, Locked
  <2>10. Claims(db, U, C2) /\ ~Claiming(C)
    BY <1>2, <2>1, <2>2, <2>4, <2>9 DEF Claims, Claiming, AfterRevoke
  <2>11. Exchanges(db, U, C2)
    BY <2>2, <2>4 DEF Exchanges, Advances
  <2>12. TypedTx(U) /\ Working(db, U, C2)
    BY <1>2, <2>2, <2>3, <2>4, <2>6, <2>7, <2>8, <2>10, <2>11, ReadWorks DEF Advances
  <2> QED BY <1>1, <1>3, <2>2, <2>12, StatementKeeps DEF Advances, Apart, NoWrites, C2
<1> QED BY <1>3, ReturnsKeeps DEF LockAccount

-----------------------------------------------------------------------------
(* The statements that write *)

\* A statement that issues no session.
LEMMA WriteWorks ==
    ASSUME NEW D, NEW T, NEW W, NEW L, NEW U, NEW C, NEW C2, Start(D, T, C), Grows(T, W, L, U),
           L \subseteq Lockable,
           Allowed(D, U, W), KeepsUsers(D, T, U),
           Stage(C) # "commit" \/ C.todo # {},
           \/ \A u \in Users : UserRow(u) \in DOMAIN W => Live(W[UserRow(u)])
           \/ DOMAIN T.writes = {},
           \A t \in Tokens : LET row == RefreshRow(t)
                             IN  row \in DOMAIN W => D[row] # None /\ (Live(W[row]) => W[row].revoked),
           \A s \in Subjects : IdentityRow(s) \in DOMAIN W /\ Live(W[IdentityRow(s)]) =>
                                  Trusted(Seen(D, U, UserRow(W[IdentityRow(s)].user))),
           C2.op # "none", Progress(C2), Parameters(C2), UserKnown(D, U, C2), Exchanges(D, U, C2),
           Logins(D, U, C2), Deletes(D, U, C2), Claims(D, U, C2)
    PROVE  TypedTx(U) /\ Working(D, U, C2)
<1>1. /\ TypedTx(T) /\ WritesLocked(D, T) /\ WritesFollow(D, T) /\ WritesReference(D, T)
      /\ SessionsSound(D, T, C)
    BY DEF Start, Working
<1>2. TypedTx(U) /\ WritesLocked(D, U) /\ WritesFollow(D, U) /\ WritesReference(D, U)
    BY <1>1, GrownWrites
<1>3. NewTokens(D, T) = {}
    BY <1>1, NoSessionYet
<1>4. SessionsSound(D, U, C2)
    BY <1>1, <1>3, GrownSessions
<1> QED BY <1>2, <1>4 DEF Working

\* A statement that adds no user and drops no password of a new one.
LEMMA GrownLogins ==
    ASSUME NEW D, NEW T, NEW W, NEW L, NEW U, NEW C, NEW C2, Grows(T, W, L, U), Logins(D, T, C),
           Stage(C2) \notin Finding,
           \A u \in Users : UserRow(u) \in DOMAIN W => UserRow(u) \in DOMAIN T.writes \/ D[UserRow(u)] # None,
           \A u \in Users : PasswordRow(u) \in DOMAIN W => Live(W[PasswordRow(u)]) \/ ~Adds(D, T, u),
           C.op = "federated" /\ C.via = "identity" =>
              /\ C2.op = C.op /\ C2.via = C.via /\ C2.user = C.user
              /\ Stage(C) = "insert_identity" \/ HasIdentity(T, C) =>
                    Stage(C2) = "insert_identity" \/ HasIdentity(U, C2)
    PROVE  Logins(D, U, C2)
<1> SUFFICES ASSUME NEW u \in Users, Adds(D, U, u)
             PROVE  \/ PasswordRow(u) \in DOMAIN U.writes /\ Live(U.writes[PasswordRow(u)])
                    \/ /\ C2.op = "federated" /\ C2.via = "identity" /\ C2.user = u
                       /\ Stage(C2) = "insert_identity" \/ HasIdentity(U, C2)
    BY DEF Logins
<1>1. Adds(D, T, u)
    BY DEF Adds, Grows
<1>2. CASE PasswordRow(u) \in DOMAIN T.writes /\ Live(T.writes[PasswordRow(u)])
    BY <1>1, <1>2 DEF Grows
<1>3. CASE /\ C.op = "federated" /\ C.via = "identity" /\ C.user = u
           /\ Stage(C) = "insert_identity" \/ HasIdentity(T, C)
    BY <1>3
<1> QED BY <1>1, <1>2, <1>3 DEF Logins

\* A statement that deletes nothing.
LEMMA GrownDeletes ==
    ASSUME NEW D, NEW T, NEW W, NEW L, NEW U, NEW C, NEW C2, Grows(T, W, L, U), Deletes(D, T, C),
           C.op # "delete", C2.op = C.op, Claiming(C) => Claiming(C2) /\ C2.user = C.user,
           \A row \in DOMAIN W : Live(W[row])
    PROVE  Deletes(D, U, C2)
<1>1. \A row \in DOMAIN U.writes : ~Live(U.writes[row]) =>
            row \in DOMAIN T.writes /\ ~Live(T.writes[row]) /\ U.writes[row] = T.writes[row]
    BY DEF Grows
<1> QED BY <1>1 DEF Deletes, Deleting

\* A claim that is past its revocations.
LEMMA GrownClaims ==
    ASSUME NEW D, NEW T, NEW W, NEW L, NEW U, NEW C, NEW C2, Grows(T, W, L, U), Claims(D, T, C), Claiming(C),
           C.todo = {}, C2.user = C.user, Stage(C) \in {"set_verified", "insert_identity", "issue"},
           Stage(C2) \in {"insert_identity", "issue", "commit"},
           \A row \in DOMAIN W : \/ row[1] \in {"user", "identity"}
                                 \/ row[1] = "refresh" /\ W[row].via = "claim",
           Stage(C2) \in {"issue", "commit"} => HasIdentity(U, C2)
    PROVE  Claims(D, U, C2)
<1>1. /\ \A l : LinkRow(l) \notin DOMAIN W
      /\ \A u : PasswordRow(u) \notin DOMAIN W
      /\ \A t : RefreshRow(t) \in DOMAIN W => W[RefreshRow(t)].via = "claim"
    BY DEF LinkRow, PasswordRow, RefreshRow
<1>2. \A t : \/ Seen(D, U, RefreshRow(t)) = Seen(D, T, RefreshRow(t))
             \/ Seen(D, U, RefreshRow(t)).via = "claim"
    BY <1>1, GrownSeen
<1>3. \A l : Seen(D, U, LinkRow(l)) = Seen(D, T, LinkRow(l))
    BY <1>1, GrownSeen
<1>4. \A row : Locked(T, row) => Locked(U, row)
    BY DEF Grows, Locked
<1>5. /\ Locked(T, UserRow(C.user)) /\ Live(D[UserRow(C.user)])
      /\ PasswordRow(C.user) \in DOMAIN T.writes /\ T.writes[PasswordRow(C.user)] = None
      /\ Locked(T, PasswordRow(C.user))
    BY DEF Claims
<1>6. /\ Locked(U, UserRow(C.user))
      /\ PasswordRow(C.user) \in DOMAIN U.writes /\ U.writes[PasswordRow(C.user)] = None
      /\ Locked(U, PasswordRow(C.user))
    BY <1>1, <1>4, <1>5 DEF Grows
<1>7. ASSUME NEW t \in Tokens, BelongsTo(RefreshRow(t), Seen(D, U, RefreshRow(t)), C.user)
      PROVE  Seen(D, U, RefreshRow(t)).revoked \/ Seen(D, U, RefreshRow(t)).via = "claim"
  <2>1. CASE Seen(D, U, RefreshRow(t)) = Seen(D, T, RefreshRow(t))
    BY <1>7, <2>1 DEF Claims, AfterRevoke
  <2> QED BY <1>2, <2>1
<1>8. ASSUME NEW l \in Links, BelongsTo(LinkRow(l), Seen(D, U, LinkRow(l)), C.user)
      PROVE  Seen(D, U, LinkRow(l)).used
  <2>1. Seen(D, U, LinkRow(l)) = Seen(D, T, LinkRow(l))
    BY <1>3
  <2> QED BY <1>8, <2>1 DEF Claims, AfterRevoke
<1> QED BY <1>5, <1>6, <1>7, <1>8 DEF Claims

\* The email of a user is proven.
LEMMA SetVerifiedKeeps ==
    ASSUME TypeOK, AuthInv, NEW h \in Handlers, SetVerified(h), UNCHANGED scenario
    PROVE  TypeOK' /\ AuthInv'
<1> DEFINE C == call[h]
           T == tx[h]
           U == tx'[h]
           row == UserRow(C.user)
           W == SetUserEmailVerified(h, C.user)
           C2 == Rest(h)
           L == {<<row, "no_key_update">>}
<1>1. At(h, "set_verified") /\ Blockers(h) = {} /\ Continues(h, W, C2)
    BY DEF SetVerified, Runs
<1>2. /\ C.op # "none" /\ Start(db, T, C) /\ Stage(C) = "set_verified" /\ C.todo = {}
      /\ C.steps # <<>> /\ C.steps \in Seq(Statements) /\ Tail(C.steps) \in Seq(Statements)
    BY <1>1, AtStage
<1>3. Advances(C, C2) /\ C2.user = C.user /\ C2.todo = {} /\ C2.via = C.via
    BY <1>2, ZenonT(60) DEF Start, Advances, Rest, Call
<1>4. C.op # "logout" /\ C.user \in Users
  <2>1. C.op # "logout"
    BY <1>2, Shape DEF Before, Stage, Start, Working
  <2> QED BY <1>2, <2>1 DEF Start, Working, Parameters, Finding
<1> HIDE DEF C2
<1>5. Progress(C2) /\ Parameters(C2) /\ C2.op # "none" /\ Stage(C2) \notin Finding /\ Ordered(C, C2)
    BY <1>2, <1>3, <1>4, Advance DEF Start, Working
<1>6. \/ C.op = "verify" /\ Stage(C2) = "issue"
      \/ C.op = "reset" /\ Stage(C2) = "set_password"
      \/ C.op = "federated" /\ C.via = "claim" /\ Stage(C2) = "insert_identity"
    BY <1>2, <1>5 DEF Ordered, Leads
<1>7. row \in Rows /\ row[1] = "user"
    BY <1>4, RowFacts
<1>8. Grows(T, W, L, U)
    BY <1>1, StatementGrows, WantsFacts
<1>9. /\ DOMAIN W \subseteq {row}
      /\ row \in DOMAIN W => /\ Live(Seen(db, T, row)) /\ Live(W[row]) /\ W[row] \in Stored(row)
                             /\ W[row].verified /\ Trusted(W[row])
      /\ row \notin DOMAIN W => ~Live(Seen(db, T, row))
  <2>1. CASE Live(Seen(db, T, row))
    <3>1. W = Put(row, [Seen(db, T, row) EXCEPT !.verified = TRUE])
        BY <2>1, VisibleSeen, GetSeen DEF SetUserEmailVerified
    <3>2. Seen(db, T, row) \in User
        BY <1>2, <1>4, <2>1, UserTyped DEF Start
    <3>3. [Seen(db, T, row) EXCEPT !.verified = TRUE] \in User
              /\ [Seen(db, T, row) EXCEPT !.verified = TRUE].verified
        BY <3>2 DEF User
    <3>4. DOMAIN W = {row} /\ W[row] \in User /\ W[row].verified
        BY <3>1, <3>3 DEF Put
    <3> HIDE DEF W
    <3>5. Live(W[row]) /\ W[row] \in Stored(row)
        BY <1>7, <3>4, ValueFacts
    <3> QED BY <2>1, <3>4, <3>5 DEF Trusted
  <2>2. CASE ~Live(Seen(db, T, row))
    <3>1. W = NoWrites
        BY <2>2, VisibleSeen DEF SetUserEmailVerified
    <3> QED BY <2>2, <3>1 DEF NoWrites
  <2> QED BY <2>1, <2>2
<1> HIDE DEF W
<1>10. Seen(db, T, row) # None
    BY <1>2, <1>4 DEF Start, Working, UserKnown
<1>11. Trusted(Seen(db, U, row))
  <2>1. CASE row \in DOMAIN W
    BY <1>8, <1>9, <2>1, GrownSeen
  <2>2. CASE row \notin DOMAIN W
    BY <1>8, <1>9, <1>10, <2>2, GrownSeen DEF Trusted, Live
  <2> QED BY <2>1, <2>2
<1>12. KeepsUsers(db, T, U)
  <2> SUFFICES ASSUME NEW u \in Users
               PROVE  /\ Seen(db, T, UserRow(u)) # None => Seen(db, U, UserRow(u)) # None
                      /\ Trusted(Seen(db, T, UserRow(u))) => Trusted(Seen(db, U, UserRow(u)))
    BY DEF KeepsUsers
  <2>1. CASE UserRow(u) = row
    BY <1>11, <2>1, AuthAssumption DEF Trusted, Live
  <2>2. CASE UserRow(u) # row
    BY <1>8, <1>9, <2>2, GrownSeen
  <2> QED BY <2>1, <2>2
<1>13. row \in DOMAIN W => db[row] # Gone /\ (row \in DOMAIN T.writes \/ db[row] # None)
  <2>1. WritesFollow(db, T)
    BY <1>2 DEF Start, Working
  <2> QED BY <1>9, <2>1 DEF Seen, Live, WritesFollow, Follows
<1>14. Allowed(db, U, W)
  <2>1. WriteLocked(db, U, row)
    BY <1>7, <1>8 DEF WriteLocked, Grows
  <2>2. row \in DOMAIN W => Follows(row, db[row], W[row])
    BY <1>7, <1>9, <1>13 DEF Follows, Live
  <2>3. \A u : ~BelongsTo(row, W[row], u)
    BY <1>7 DEF BelongsTo
  <2> QED BY <1>7, <1>9, <2>1, <2>2, <2>3 DEF Allowed
<1>15. \A r \in DOMAIN W : r = row
    BY <1>9
<1>16. UserKnown(db, U, C2)
    BY <1>3, <1>11, AuthAssumption DEF UserKnown, Trusted, Live
<1>17. Exchanges(db, U, C2)
    BY <1>2, <1>3, <1>6, <1>8, GrownExchanges DEF Start, Working, Advances, Grows
<1>18. Logins(db, U, C2)
  <2>1. \A u : PasswordRow(u) # row
    BY <1>7 DEF PasswordRow
  <2>2. \A u \in Users : UserRow(u) \in DOMAIN W => UserRow(u) \in DOMAIN T.writes \/ db[UserRow(u)] # None
    BY <1>13, <1>15
  <2> QED BY <1>2, <1>5, <1>6, <1>8, <1>15, <2>1, <2>2, GrownLogins DEF Start, Working
<1>19. Claiming(C) => Claiming(C2)
    BY <1>3, <1>6 DEF Claiming, Advances
<1>20. Deletes(db, U, C2)
    BY <1>2, <1>3, <1>6, <1>8, <1>9, <1>15, <1>19, GrownDeletes DEF Start, Working, Advances
<1>21. Claims(db, U, C2)
  <2>1. CASE ~Claiming(C2)
    BY <2>1 DEF Claims
  <2>2. CASE Claiming(C2)
    <3>1. Claiming(C) /\ Stage(C2) = "insert_identity"
        BY <1>2, <1>3, <1>6, <2>2 DEF Claiming, Advances
    <3> QED BY <1>2, <1>3, <1>7, <1>8, <1>15, <3>1, GrownClaims DEF Start, Working
  <2> QED BY <2>1, <2>2
<1>22. L \subseteq Lockable
    BY <1>7 DEF Lockable, Modes
<1>23. TypedTx(U) /\ Working(db, U, C2)
  <2>1. \A t : RefreshRow(t) # row
    BY <1>7 DEF RefreshRow
  <2>2. \A s : IdentityRow(s) # row
    BY <1>7 DEF IdentityRow
  <2>3. \A u \in Users : UserRow(u) \in DOMAIN W => Live(W[UserRow(u)])
    BY <1>9, <1>15
  <2>4. \A t \in Tokens : RefreshRow(t) \notin DOMAIN W
    BY <1>15, <2>1
  <2>5. \A s \in Subjects : IdentityRow(s) \notin DOMAIN W
    BY <1>15, <2>2
  <2> QED BY <1>2, <1>5, <1>8, <1>12, <1>14, <1>16, <1>17, <1>18, <1>20, <1>21, <1>22, <2>3, <2>4, <2>5,
              WriteWorks
<1>24. Apart(h, W, U)
    BY <1>7, <1>8, <1>13, <1>15 DEF Apart, Grows
<1> QED BY <1>1, <1>3, <1>23, <1>24, StatementKeeps DEF Advances

\* A statement that writes no user leaves the users as they are.
LEMMA UsersKept ==
    ASSUME NEW D, NEW T, NEW W, NEW L, NEW U, Grows(T, W, L, U), \A u \in Users : UserRow(u) \notin DOMAIN W
    PROVE  KeepsUsers(D, T, U) /\ \A u \in Users : Seen(D, U, UserRow(u)) = Seen(D, T, UserRow(u))
<1>1. \A u \in Users : Seen(D, U, UserRow(u)) = Seen(D, T, UserRow(u))
    BY GrownSeen
<1> QED BY <1>1 DEF KeepsUsers

\* A statement that writes one row, of another table than the users.
LEMMA OneRowKeeps ==
    ASSUME TypeOK, AuthInv, NEW h \in Handlers, Blockers(h) = {}, NEW W, NEW C2, Continues(h, W, C2),
           UNCHANGED scenario, call[h].op # "none", C2 \in Call, C2.op # "none", Wants(h) \subseteq Lockable,
           NEW row \in Rows, row[1] # "user", DOMAIN W \subseteq {row},
           Allowed(db, tx'[h], W), Apart(h, W, tx'[h]),
           Stage(call[h]) # "commit" \/ call[h].todo # {},
           row \in DOMAIN W /\ row[1] = "refresh" => db[row] # None /\ (Live(W[row]) => W[row].revoked),
           row \in DOMAIN W /\ row[1] = "identity" /\ Live(W[row]) =>
              Trusted(Seen(db, tx'[h], UserRow(W[row].user))),
           Progress(C2), Parameters(C2), UserKnown(db, tx'[h], C2), Exchanges(db, tx'[h], C2),
           Logins(db, tx'[h], C2), Deletes(db, tx'[h], C2), Claims(db, tx'[h], C2)
    PROVE  TypeOK' /\ AuthInv'
<1> DEFINE C == call[h]
           T == tx[h]
           U == tx'[h]
<1>1. Grows(T, W, Wants(h), U)
    BY StatementGrows
<1>2. Start(db, T, C)
    BY BusyWorks
<1>3. \A u \in Users : UserRow(u) \notin DOMAIN W
    BY RowFacts
<1>4. KeepsUsers(db, T, U)
    BY <1>1, <1>3, UsersKept
<1>5. \A t \in Tokens : RefreshRow(t) \in DOMAIN W =>
            db[RefreshRow(t)] # None /\ (Live(W[RefreshRow(t)]) => W[RefreshRow(t)].revoked)
    BY RowFacts
<1>6. \A s \in Subjects : IdentityRow(s) \in DOMAIN W /\ Live(W[IdentityRow(s)]) =>
            Trusted(Seen(db, U, UserRow(W[IdentityRow(s)].user)))
    BY RowFacts
<1>7. TypedTx(U) /\ Working(db, U, C2)
    BY <1>1, <1>2, <1>3, <1>4, <1>5, <1>6, WriteWorks
<1> QED BY <1>7, StatementKeeps

\* A claim forgets the password.
LEMMA DropPasswordKeeps ==
    ASSUME TypeOK, AuthInv, NEW h \in Handlers, DropPassword(h), UNCHANGED scenario
    PROVE  TypeOK' /\ AuthInv'
<1> DEFINE C == call[h]
           T == tx[h]
           U == tx'[h]
           row == PasswordRow(C.user)
           W == DeletePasswordCredential(C.user)
           C2 == Rest(h)
           L == {<<row, "update">>}
<1>1. At(h, "drop_password") /\ Blockers(h) = {} /\ Continues(h, W, C2)
    BY DEF DropPassword, Runs
<1>2. /\ C.op # "none" /\ Start(db, T, C) /\ Stage(C) = "drop_password" /\ C.todo = {}
      /\ C.steps # <<>> /\ C.steps \in Seq(Statements) /\ Tail(C.steps) \in Seq(Statements)
    BY <1>1, AtStage
<1>3. Advances(C, C2) /\ C2.user = C.user /\ C2.todo = {} /\ C2.via = C.via
    BY <1>2, ZenonT(60) DEF Start, Advances, Rest, Call
<1>4. C.op # "logout" /\ C.user \in Users
  <2>1. C.op # "logout"
    BY <1>2, Shape DEF Before, Stage, Start, Working
  <2> QED BY <1>2, <2>1 DEF Start, Working, Parameters, Finding
<1> HIDE DEF C2
<1>5. Progress(C2) /\ Parameters(C2) /\ C2.op # "none" /\ Stage(C2) \notin Finding /\ Ordered(C, C2)
    BY <1>2, <1>3, <1>4, Advance DEF Start, Working
<1>6. C.op = "federated" /\ C.via = "claim" /\ Stage(C2) = "revoke" /\ Claiming(C) /\ Claiming(C2)
  <2>1. C.op = "federated" /\ C.via = "claim" /\ Stage(C2) = "revoke"
    BY <1>2, <1>5 DEF Ordered, Leads
  <2> QED BY <1>2, <1>3, <2>1 DEF Claiming, Advances
<1>7. /\ row \in Rows /\ row[1] = "password" /\ row[2] = C.user /\ UserRow(C.user) \in Rows
      /\ DOMAIN W = {row} /\ W[row] = None
  <2>1. row \in Rows /\ row[1] = "password" /\ row[2] = C.user /\ UserRow(C.user) \in Rows
    BY <1>4, RowFacts
  <2> QED BY <2>1 DEF DeletePasswordCredential, Put
<1> HIDE DEF W
<1>8. Grows(T, W, L, U) /\ Wants(h) = L
    BY <1>1, StatementGrows, WantsFacts
<1>9. Locked(T, UserRow(C.user)) /\ Live(db[UserRow(C.user)])
    BY <1>2, <1>6 DEF Start, Working, Claims
<1>10. /\ Locked(U, row) /\ Locked(U, UserRow(C.user))
       /\ \A r \in DOMAIN U.writes : r # row => r \in DOMAIN T.writes /\ U.writes[r] = T.writes[r]
    BY <1>7, <1>8, <1>9 DEF Grows, Locked
<1>11. row \in DOMAIN U.writes /\ U.writes[row] = None
    BY <1>7, <1>8 DEF Grows
<1>12. Allowed(db, U, W)
  <2>1. db[row] # Gone
    BY <1>2, <1>7, ValueFacts DEF Start, TypedRows
  <2>2. Follows(row, db[row], W[row])
    BY <1>7, <2>1, AuthAssumption DEF Follows, Live
  <2>3. W[row] \in Stored(row)
    BY <1>7, ValueFacts
  <2>4. \A u : ~BelongsTo(row, W[row], u)
    BY <1>7 DEF BelongsTo, Live
  <2> QED BY <1>7, <1>10, <2>2, <2>3, <2>4 DEF Allowed, WriteLocked
<1>13. KeepsUsers(db, T, U)
    BY <1>7, <1>8, RowFacts, UsersKept
<1>14. UserKnown(db, U, C2)
    BY <1>2, <1>3, <1>6, <1>13, GrownUser DEF Start, Working, Vouched, Advances
<1>15. Exchanges(db, U, C2)
    BY <1>3, <1>6 DEF Exchanges, Advances
<1>16. Logins(db, U, C2)
  <2>1. \A u \in Users : UserRow(u) \notin DOMAIN W
    BY <1>7, RowFacts
  <2>2. \A u \in Users : PasswordRow(u) \in DOMAIN W => ~Adds(db, T, u)
    BY <1>7, <1>9 DEF PasswordRow, Adds, Live
  <2> QED BY <1>2, <1>5, <1>6, <1>8, <2>1, <2>2, GrownLogins DEF Start, Working
<1>17. Deletes(db, U, C2)
  <2>1. \A r \in DOMAIN T.writes : ~Live(T.writes[r]) => r = row
    BY <1>2, <1>6 DEF Start, Working, Deletes, Deleting
  <2>2. \A r \in DOMAIN U.writes : ~Live(U.writes[r]) => r = row
    BY <1>10, <2>1
  <2> QED BY <1>3, <1>6, <2>2 DEF Deletes, Deleting, Advances
<1>18. Claims(db, U, C2)
    BY <1>3, <1>6, <1>9, <1>10, <1>11 DEF Claims, AfterRevoke
<1>19. L \subseteq Lockable
    BY <1>7 DEF Lockable, Modes
<1>20. Apart(h, W, U)
  <2>1. Seen(db, T, UserRow(C.user)) # None
    BY <1>2, <1>4 DEF Start, Working, UserKnown
  <2> QED BY <1>7, <1>10, <2>1 DEF Apart
<1> QED BY <1>1, <1>2, <1>3, <1>5, <1>7, <1>8, <1>12, <1>14, <1>15, <1>16, <1>17, <1>18, <1>19, <1>20,
            OneRowKeeps DEF Advances

\* A password is replaced, or given to an account that has none.
LEMMA SetCredentialKeeps ==
    ASSUME TypeOK, AuthInv, NEW h \in Handlers, SetCredential(h), UNCHANGED scenario
    PROVE  TypeOK' /\ AuthInv'
<1> DEFINE C == call[h]
           T == tx[h]
           U == tx'[h]
           row == PasswordRow(C.user)
           W == UpsertPasswordCredential(C.user, C.password)
           C2 == Rest(h)
           L == Wants(h)
<1>1. At(h, "set_password") /\ Blockers(h) = {}
    BY DEF SetCredential, Runs
<1> SUFFICES ASSUME References(h, C.user), Continues(h, W, C2) PROVE TypeOK' /\ AuthInv'
    BY ReturnsKeeps DEF SetCredential
<1>2. /\ C.op # "none" /\ Start(db, T, C) /\ Stage(C) = "set_password" /\ C.todo = {}
      /\ C.steps # <<>> /\ C.steps \in Seq(Statements) /\ Tail(C.steps) \in Seq(Statements)
    BY <1>1, AtStage
<1>3. Advances(C, C2) /\ C2.user = C.user /\ C2.todo = {} /\ C2.via = C.via
    BY <1>2, ZenonT(60) DEF Start, Advances, Rest, Call
<1>4. C.op # "logout" /\ C.user \in Users
  <2>1. C.op # "logout"
    BY <1>2, Shape DEF Before, Stage, Start, Working
  <2> QED BY <1>2, <2>1 DEF Start, Working, Parameters, Finding
<1> HIDE DEF C2
<1>5. Progress(C2) /\ Parameters(C2) /\ C2.op # "none" /\ Stage(C2) \notin Finding /\ Ordered(C, C2)
    BY <1>2, <1>3, <1>4, Advance DEF Start, Working
<1>6. \/ C.op = "reset" /\ Stage(C2) = "revoke"
      \/ C.op = "changePassword" /\ Stage(C2) = "commit"
    BY <1>2, <1>5 DEF Ordered, Leads
<1>7. row \in Rows /\ row[1] = "password" /\ row[2] = C.user /\ UserRow(C.user) \in Rows
    BY <1>4, RowFacts
<1>8. DOMAIN W = {row} /\ W[row] \in Stored(row) /\ Live(W[row])
  <2>1. C.password \in Passwords
    BY <1>2, <1>6 DEF Start, Working, Parameters
  <2>2. DOMAIN W = {row} /\ W[row] \in Password
    BY <2>1 DEF UpsertPasswordCredential, Put, Password
  <2> QED BY <1>7, <2>2, ValueFacts
<1> HIDE DEF W
<1>9. Grows(T, W, L, U)
    BY StatementGrows
<1>10. /\ <<row, "update">> \in L
       /\ ~Live(Seen(db, T, row)) => <<UserRow(C.user), "key_share">> \in L
       /\ L \subseteq Lockable
    BY <1>1, <1>7, WantsFacts, VisibleSeen DEF Lockable, Modes
<1> HIDE DEF L
<1>11. Locked(U, row) /\ T.locks \subseteq U.locks
    BY <1>9, <1>10 DEF Grows, Locked
<1>12. \A u \in Users : UserRow(u) \notin DOMAIN W
    BY <1>8, <1>7, RowFacts
<1>13. KeepsUsers(db, T, U) /\ Live(Seen(db, T, UserRow(C.user))) /\ Live(Seen(db, U, UserRow(C.user)))
    BY <1>4, <1>9, <1>12, UsersKept, VisibleSeen DEF References
<1>14. Referenced(db, U, row, C.user)
  <2>1. CASE ~Live(Seen(db, T, row))
    <3>1. Pins(U, C.user)
        BY <1>9, <1>10, <2>1 DEF Pins, Grows, Modes
    <3> QED BY <1>13, <3>1 DEF Referenced
  <2>2. CASE Live(Seen(db, T, row)) /\ row \notin DOMAIN T.writes
    BY <1>7, <1>11, <2>2 DEF Referenced, BelongsTo, OwnerOf, Seen
  <2>3. CASE Live(Seen(db, T, row)) /\ row \in DOMAIN T.writes
    <3>1. BelongsTo(row, T.writes[row], C.user)
        BY <1>7, <2>3 DEF BelongsTo, OwnerOf, Seen
    <3>2. Referenced(db, T, row, C.user)
        BY <1>2, <1>4, <2>3, <3>1 DEF Start, Working, WritesReference
    <3> QED BY <1>4, <1>7, <1>9, <1>12, <3>2, GrownReference
  <2> QED BY <2>1, <2>2, <2>3
<1>15. Allowed(db, U, W)
  <2>1. db[row] # Gone
    BY <1>2, <1>7, ValueFacts DEF Start, TypedRows
  <2>2. Follows(row, db[row], W[row])
    BY <1>7, <1>8, <2>1 DEF Follows, Live
  <2>3. \A u : BelongsTo(row, W[row], u) => u = C.user
    BY <1>7 DEF BelongsTo, OwnerOf
  <2> QED BY <1>7, <1>8, <1>11, <1>14, <2>2, <2>3 DEF Allowed, WriteLocked
<1>16. UserKnown(db, U, C2)
    BY <1>2, <1>3, <1>6, <1>13, GrownUser DEF Start, Working, Vouched, Advances
<1>17. Exchanges(db, U, C2)
    BY <1>2, <1>3, <1>6, <1>11, GrownExchanges DEF Start, Working, Advances
<1>18. Logins(db, U, C2)
  <2>1. \A u \in Users : PasswordRow(u) \in DOMAIN W => Live(W[PasswordRow(u)])
    BY <1>8
  <2> QED BY <1>2, <1>5, <1>6, <1>9, <1>12, <2>1, GrownLogins DEF Start, Working
<1>19. Deletes(db, U, C2) /\ Claims(db, U, C2)
  <2>1. ~Claiming(C) /\ ~Claiming(C2)
    BY <1>3, <1>6 DEF Claiming, Advances
  <2> QED BY <1>2, <1>3, <1>6, <1>8, <1>9, <2>1, GrownDeletes DEF Start, Working, Advances, Claims
<1>20. Apart(h, W, U)
    BY <1>7, <1>8, <1>11, <1>13 DEF Apart, Live
<1> QED BY <1>1, <1>2, <1>3, <1>5, <1>7, <1>8, <1>10, <1>15, <1>16, <1>17, <1>18, <1>19, <1>20,
            OneRowKeeps DEF Advances, L

\* An identity is linked to an account.
LEMMA InsertIdentityKeeps ==
    ASSUME TypeOK, AuthInv, NEW h \in Handlers, InsertIdentity(h), UNCHANGED scenario
    PROVE  TypeOK' /\ AuthInv'
<1> DEFINE C == call[h]
           T == tx[h]
           U == tx'[h]
           row == IdentityRow(C.subject)
           W == CreateIdentity(C.subject, C.user)
           C2 == Rest(h)
           L == Wants(h)
<1>1. At(h, "insert_identity") /\ Blockers(h) = {}
    BY DEF InsertIdentity, Runs
<1> SUFFICES ASSUME References(h, C.user), ~Visible(h, row), Continues(h, W, C2) PROVE TypeOK' /\ AuthInv'
    BY ReturnsKeeps DEF InsertIdentity
<1>2. /\ C.op # "none" /\ Start(db, T, C) /\ Stage(C) = "insert_identity" /\ C.todo = {}
      /\ C.steps # <<>> /\ C.steps \in Seq(Statements) /\ Tail(C.steps) \in Seq(Statements)
    BY <1>1, AtStage
<1>3. Advances(C, C2) /\ C2.user = C.user /\ C2.todo = {} /\ C2.via = C.via /\ C2.subject = C.subject
    BY <1>2, ZenonT(60) DEF Start, Advances, Rest, Call
<1>4. C.op # "logout" /\ C.user \in Users
  <2>1. C.op # "logout"
    BY <1>2, Shape DEF Before, Stage, Start, Working
  <2> QED BY <1>2, <2>1 DEF Start, Working, Parameters, Finding
<1> HIDE DEF C2
<1>5. Progress(C2) /\ Parameters(C2) /\ C2.op # "none" /\ Stage(C2) \notin Finding /\ Ordered(C, C2)
    BY <1>2, <1>3, <1>4, Advance DEF Start, Working
<1>6. \/ C.op = "link" /\ Stage(C2) = "commit"
      \/ C.op = "federated" /\ Stage(C2) = "issue"
    BY <1>2, <1>5 DEF Ordered, Leads
<1>7. row \in Rows /\ row[1] = "identity" /\ UserRow(C.user) \in Rows /\ C.subject \in Subjects
  <2>1. C.subject \in Subjects
    BY <1>2, <1>6 DEF Start, Working, Parameters
  <2> QED BY <1>4, <2>1, RowFacts
<1>8. DOMAIN W = {row} /\ W[row] \in Stored(row) /\ Live(W[row]) /\ W[row].user = C.user
  <2>1. DOMAIN W = {row} /\ W[row] \in Identity /\ W[row].user = C.user
    BY <1>4 DEF CreateIdentity, Put, Identity
  <2> QED BY <1>7, <2>1, ValueFacts
<1> HIDE DEF W
<1>9. Grows(T, W, L, U)
    BY StatementGrows
<1>10. L = {<<row, "update">>, <<LinkedKey(C.user), "update">>, <<UserRow(C.user), "key_share">>}
    BY <1>1, WantsFacts
<1> HIDE DEF L
<1>11. L \subseteq Lockable
    BY <1>4, <1>7, <1>10 DEF Lockable, Modes
<1>12. Locked(U, row) /\ T.locks \subseteq U.locks /\ Pins(U, C.user)
    BY <1>9, <1>10 DEF Grows, Locked, Pins, Modes
<1>13. \A u \in Users : UserRow(u) \notin DOMAIN W
    BY <1>7, <1>8, RowFacts
<1>14. /\ KeepsUsers(db, T, U) /\ Live(Seen(db, U, UserRow(C.user)))
       /\ Seen(db, U, UserRow(C.user)) = Seen(db, T, UserRow(C.user))
    BY <1>4, <1>9, <1>13, UsersKept, VisibleSeen DEF References
<1>15. Trusted(Seen(db, U, UserRow(C.user)))
    BY <1>2, <1>4, <1>14 DEF Start, Working, UserKnown, Vouched
<1>16. ~Live(db[row])
  <2>1. ~Live(Seen(db, T, row))
    BY VisibleSeen
  <2>2. CASE row \notin DOMAIN T.writes
    BY <2>1, <2>2 DEF Seen
  <2>3. CASE row \in DOMAIN T.writes
    <3>1. ~Live(T.writes[row]) /\ Deletes(db, T, C)
        BY <1>2, <2>1, <2>3 DEF Seen, Start, Working
    <3>2. row # PasswordRow(C.user)
        BY <1>7 DEF PasswordRow
    <3> QED BY <1>6, <2>3, <3>1, <3>2 DEF Deletes, Deleting
  <2> QED BY <2>2, <2>3
<1>17. Allowed(db, U, W)
  <2>1. db[row] # Gone
    BY <1>2, <1>7, ValueFacts DEF Start, TypedRows
  <2>2. Follows(row, db[row], W[row])
    BY <1>7, <1>8, <1>16, <2>1 DEF Follows, Live
  <2>3. \A u : BelongsTo(row, W[row], u) => u = C.user
    BY <1>7, <1>8 DEF BelongsTo, OwnerOf
  <2>4. Referenced(db, U, row, C.user)
    BY <1>12, <1>14 DEF Referenced
  <2> QED BY <1>7, <1>8, <1>12, <2>2, <2>3, <2>4 DEF Allowed, WriteLocked
<1>18. UserKnown(db, U, C2)
    BY <1>3, <1>15, AuthAssumption DEF UserKnown, Trusted, Live
<1>19. Exchanges(db, U, C2)
    BY <1>3, <1>6 DEF Exchanges, Advances
<1>20. HasIdentity(U, C2)
    BY <1>3, <1>8, <1>9 DEF HasIdentity, Grows
<1>21. Logins(db, U, C2)
  <2>1. \A u \in Users : PasswordRow(u) \notin DOMAIN W
    BY <1>7, <1>8, RowFacts
  <2> QED BY <1>2, <1>3, <1>5, <1>9, <1>13, <1>20, <2>1, GrownLogins DEF Start, Working, Advances
<1>22. Claiming(C) => Claiming(C2)
    BY <1>3, <1>6 DEF Claiming, Advances
<1>23. Deletes(db, U, C2)
    BY <1>2, <1>3, <1>6, <1>8, <1>9, <1>22, GrownDeletes DEF Start, Working, Advances
<1>24. Claims(db, U, C2)
  <2>1. CASE ~Claiming(C2)
    BY <2>1 DEF Claims
  <2>2. CASE Claiming(C2)
    <3>1. Claiming(C) /\ Stage(C2) = "issue"
        BY <1>2, <1>3, <1>6, <2>2 DEF Claiming, Advances
    <3> QED BY <1>2, <1>3, <1>7, <1>8, <1>9, <1>20, <3>1, GrownClaims DEF Start, Working
  <2> QED BY <2>1, <2>2
<1>25. Apart(h, W, U)
    BY <1>7, <1>8, <1>12 DEF Apart
<1> QED BY <1>1, <1>2, <1>3, <1>5, <1>7, <1>8, <1>11, <1>15, <1>17, <1>18, <1>19, <1>21, <1>23, <1>24,
            <1>25, OneRowKeeps DEF Advances, L

\* An id that is new.
LEMMA Fresh ==
    ASSUME NEW table, NEW ids, NEW i \in NewId(table, ids)
    PROVE  /\ i \in ids /\ db[<<table, i>>] = None
           /\ \A g \in Handlers : <<table, i>> \notin DOMAIN tx[g].writes
BY DEF NewId

\* A link is mailed.
LEMMA InsertLinkKeeps ==
    ASSUME TypeOK, AuthInv, NEW h \in Handlers, InsertLink(h), UNCHANGED scenario
    PROVE  TypeOK' /\ AuthInv'
<1> DEFINE C == call[h]
           T == tx[h]
           U == tx'[h]
           C2 == Rest(h)
           L == Wants(h)
           ttl == IF C.op = "resend" THEN VerifyTTL ELSE ResetTTL
<1>1. At(h, "insert_link") /\ Blockers(h) = {}
    BY DEF InsertLink, Runs
<1> SUFFICES ASSUME References(h, C.user), NEW l \in NewId("link", Links),
                    Continues(h, CreateOneTimeToken(l, C.user, LinkKind(C.op), now + ttl), C2)
             PROVE  TypeOK' /\ AuthInv'
    BY ReturnsKeeps DEF InsertLink
<1> DEFINE row == LinkRow(l)
           W == CreateOneTimeToken(l, C.user, LinkKind(C.op), now + ttl)
<1>2. /\ C.op # "none" /\ Start(db, T, C) /\ Stage(C) = "insert_link" /\ C.todo = {}
      /\ C.steps # <<>> /\ C.steps \in Seq(Statements) /\ Tail(C.steps) \in Seq(Statements)
    BY <1>1, AtStage
<1>3. Advances(C, C2) /\ C2.user = C.user /\ C2.todo = {} /\ C2.via = C.via
    BY <1>2, ZenonT(60) DEF Start, Advances, Rest, Call
<1>4. C.op # "logout" /\ C.user \in Users
  <2>1. C.op # "logout"
    BY <1>2, Shape DEF Before, Stage, Start, Working
  <2> QED BY <1>2, <2>1 DEF Start, Working, Parameters, Finding
<1> HIDE DEF C2
<1>5. Progress(C2) /\ Parameters(C2) /\ C2.op # "none" /\ Stage(C2) \notin Finding /\ Ordered(C, C2)
    BY <1>2, <1>3, <1>4, Advance DEF Start, Working
<1>6. C.op \in {"resend", "forgot"} /\ Stage(C2) = "commit"
    BY <1>2, <1>5 DEF Ordered, Leads
<1>7. l \in Links /\ row \in Rows /\ row[1] = "link" /\ UserRow(C.user) \in Rows
    BY <1>4, RowFacts, Fresh
<1>8. db[row] = None /\ \A g \in Handlers : row \notin DOMAIN tx[g].writes
    BY Fresh DEF LinkRow
<1>9. DOMAIN W = {row} /\ W[row] \in Stored(row) /\ Live(W[row]) /\ W[row].user = C.user
  <2>1. now + ttl \in Nat
    BY AuthAssumption DEF TypeOK
  <2>2. LinkKind(C.op) \in {"verify_email", "reset_password"}
    BY DEF LinkKind
  <2> HIDE DEF ttl
  <2>3. DOMAIN W = {row} /\ W[row] \in OneTimeToken /\ W[row].user = C.user
    BY <1>4, <2>1, <2>2 DEF CreateOneTimeToken, Put, OneTimeToken
  <2> QED BY <1>7, <2>3, ValueFacts
<1> HIDE DEF W
<1>10. Grows(T, W, L, U)
    BY StatementGrows DEF W
<1>11. L = {<<UserRow(C.user), "key_share">>}
    BY <1>1, WantsFacts
<1> HIDE DEF L
<1>12. L \subseteq Lockable
    BY <1>7, <1>11 DEF Lockable, Modes
<1>13. Pins(U, C.user)
    BY <1>10, <1>11 DEF Grows, Pins, Modes
<1>14. \A u \in Users : UserRow(u) \notin DOMAIN W /\ PasswordRow(u) \notin DOMAIN W
    BY <1>7, <1>9, RowFacts
<1>15. KeepsUsers(db, T, U) /\ Live(Seen(db, U, UserRow(C.user)))
    BY <1>4, <1>10, <1>14, UsersKept, VisibleSeen DEF References
<1>16. Allowed(db, U, W)
  <2>1. Follows(row, db[row], W[row])
    BY <1>7, <1>8, <1>9, AuthAssumption DEF Follows, Live
  <2>2. \A u : BelongsTo(row, W[row], u) => u = C.user
    BY <1>7, <1>9 DEF BelongsTo, OwnerOf
  <2>3. Referenced(db, U, row, C.user)
    BY <1>13, <1>15 DEF Referenced
  <2> QED BY <1>7, <1>8, <1>9, <2>1, <2>2, <2>3 DEF Allowed, WriteLocked
<1>17. UserKnown(db, U, C2)
    BY <1>2, <1>3, <1>6, <1>15, GrownUser DEF Start, Working, Vouched, Advances
<1>18. Exchanges(db, U, C2)
    BY <1>3, <1>6 DEF Exchanges, Advances
<1>19. Logins(db, U, C2)
    BY <1>2, <1>5, <1>6, <1>10, <1>14, GrownLogins DEF Start, Working
<1>20. Deletes(db, U, C2) /\ Claims(db, U, C2)
  <2>1. ~Claiming(C) /\ ~Claiming(C2)
    BY <1>3, <1>6 DEF Claiming, Advances
  <2> QED BY <1>2, <1>3, <1>6, <1>9, <1>10, <2>1, GrownDeletes DEF Start, Working, Advances, Claims
<1>21. Apart(h, W, U)
    BY <1>8, <1>9 DEF Apart
<1> QED BY <1>1, <1>2, <1>3, <1>5, <1>7, <1>9, <1>12, <1>16, <1>17, <1>18, <1>19, <1>20, <1>21,
            OneRowKeeps DEF Advances, L, W

\* C2 is C, but for the row that C has just visited.
Visits(C, row, C2) ==
    /\ row \in C.todo /\ C2 \in Call /\ C2.todo = C.todo \ {row} /\ C2.steps = C.steps /\ C2.op = C.op
    /\ C2.via = C.via /\ C2.user = C.user /\ C2.token = C.token /\ C2.link = C.link
    /\ C2.subject = C.subject /\ C2.family = C.family /\ Progress(C2) /\ Parameters(C2)

LEMMA VisitBegins ==
    ASSUME TypeOK, AuthInv, NEW h \in Handlers, VisitRow(h), NEW row, row = NextRow(call[h].todo),
           NEW C2, C2 = [call[h] EXCEPT !.todo = @ \ {row}]
    PROVE  /\ call[h].op # "none" /\ Start(db, tx[h], call[h]) /\ Blockers(h) = {} /\ call[h].todo # {}
           /\ Continues(h, ChangeRow(h, row, call[h].op = "delete"), C2)
           /\ row \in Rows /\ row[1] # "user" /\ Visits(call[h], row, C2)
           /\ Wants(h) = {<<row, "update">>} /\ Wants(h) \subseteq Lockable
<1> DEFINE C == call[h]
<1>1. /\ C.todo # {} /\ Blockers(h) = {}
      /\ Continues(h, ChangeRow(h, row, C.op = "delete"), C2)
    BY DEF VisitRow
<1>2. C.op # "none" /\ C \in Call
  <2>1. C # Idle
    BY <1>1 DEF Idle
  <2> QED BY <2>1, Typing
<1>3. Start(db, tx[h], C)
    BY <1>2, BusyWorks
<1>4. row \in C.todo
    BY <1>1 DEF NextRow
<1>5. row \in Rows /\ row[1] # "user" /\ C.todo \subseteq Rows
    BY <1>2, <1>3, <1>4 DEF Call, Start, Working, Parameters
<1>6. /\ C2 \in Call /\ C2.todo = C.todo \ {row} /\ C2.steps = C.steps /\ C2.op = C.op
      /\ C2.via = C.via /\ C2.user = C.user /\ C2.token = C.token /\ C2.link = C.link
      /\ C2.subject = C.subject /\ C2.family = C.family /\ C2.email = C.email /\ C2.password = C.password
    BY <1>2, <1>5 DEF Call
<1>7. Progress(C2)
    BY <1>3, <1>6 DEF Start, Working, Progress
<1>8. Parameters(C2)
    BY <1>3, <1>6 DEF Start, Working, Parameters, Stage
<1>9. Wants(h) = {<<row, "update">>} /\ Wants(h) \subseteq Lockable
    BY <1>1, <1>5, WantsFacts DEF Lockable, Modes
<1> QED BY <1>1, <1>2, <1>3, <1>4, <1>5, <1>6, <1>7, <1>8, <1>9 DEF Visits

\* A revocation or an invalidation comes to a row.
LEMMA UpdateKeeps ==
    ASSUME TypeOK, AuthInv, NEW h \in Handlers, VisitRow(h), UNCHANGED scenario, call[h].op # "delete"
    PROVE  TypeOK' /\ AuthInv'
<1> DEFINE C == call[h]
           T == tx[h]
           U == tx'[h]
           row == NextRow(C.todo)
           old == Seen(db, T, row)
           W == ChangeRow(h, row, C.op = "delete")
           C2 == [C EXCEPT !.todo = @ \ {row}]
<1>1. /\ C.op # "none" /\ Start(db, T, C) /\ Blockers(h) = {} /\ C.todo # {}
      /\ Continues(h, W, C2) /\ row \in Rows /\ row[1] # "user" /\ Visits(C, row, C2)
      /\ Wants(h) = {<<row, "update">>} /\ Wants(h) \subseteq Lockable
    BY VisitBegins
<1> HIDE DEF C2
<1>2. row[1] \in {"refresh", "link"}
    BY <1>1 DEF Visits, Start, Working, Parameters
<1>3. /\ DOMAIN W \subseteq {row}
      /\ row \in DOMAIN W <=> Live(old)
      /\ row \in DOMAIN W => /\ Live(W[row]) /\ W[row] \in Stored(row) /\ W[row].user = old.user
                             /\ row[1] = "refresh" => /\ W[row].revoked /\ W[row].family = old.family
                                                      /\ W[row].from = old.from /\ W[row].via = old.via
                                                      /\ W[row].used = old.used
                             /\ row[1] = "link" => W[row].used
  <2>1. CASE ~Live(old)
    <3>1. W = NoWrites
        BY <2>1, VisibleSeen DEF ChangeRow
    <3> QED BY <2>1, <3>1 DEF NoWrites
  <2>2. CASE Live(old) /\ row[1] = "refresh"
    <3>1. old \in RefreshToken
        BY <1>1, <2>2, ValueFacts DEF Start, TypedRows, TypedTx, Seen
    <3>2. W = Put(row, [old EXCEPT !.revoked = TRUE])
        BY <2>2, VisibleSeen, GetSeen DEF ChangeRow
    <3> DEFINE new == [old EXCEPT !.revoked = TRUE]
    <3> HIDE DEF W, old
    <3>3. /\ new \in RefreshToken /\ new.revoked /\ new.user = old.user /\ new.family = old.family
          /\ new.from = old.from /\ new.via = old.via /\ new.used = old.used
        BY <3>1 DEF RefreshToken
    <3> HIDE DEF new
    <3>4. DOMAIN W = {row} /\ W[row] = new
        BY <3>2 DEF Put, new
    <3>5. Live(new) /\ new \in Stored(row)
        BY <1>1, <2>2, <3>3, ValueFacts
    <3> QED BY <2>2, <3>3, <3>4, <3>5
  <2>3. CASE Live(old) /\ row[1] = "link"
    <3>1. old \in OneTimeToken
        BY <1>1, <2>3, ValueFacts DEF Start, TypedRows, TypedTx, Seen
    <3>2. W = Put(row, [old EXCEPT !.used = TRUE])
        BY <2>3, VisibleSeen, GetSeen DEF ChangeRow
    <3> DEFINE new == [old EXCEPT !.used = TRUE]
    <3> HIDE DEF W, old
    <3>3. new \in OneTimeToken /\ new.used /\ new.user = old.user
        BY <3>1 DEF OneTimeToken
    <3> HIDE DEF new
    <3>4. DOMAIN W = {row} /\ W[row] = new
        BY <3>2 DEF Put, new
    <3>5. Live(new) /\ new \in Stored(row)
        BY <1>1, <2>3, <3>3, ValueFacts
    <3> QED BY <2>3, <3>3, <3>4, <3>5
  <2> QED BY <1>2, <2>1, <2>2, <2>3
<1> HIDE DEF W
<1>4. Grows(T, W, Wants(h), U)
    BY <1>1, StatementGrows
<1>5. Locked(U, row) /\ T.locks \subseteq U.locks
    BY <1>1, <1>4 DEF Grows, Locked
<1>6. \A u \in Users : UserRow(u) \notin DOMAIN W /\ PasswordRow(u) \notin DOMAIN W
    BY <1>2, <1>3, RowFacts
<1>7. row \in DOMAIN T.writes => Follows(row, db[row], old)
    BY <1>1 DEF Start, Working, WritesFollow, Seen
<1>8. row \notin DOMAIN T.writes => old = db[row]
    BY DEF Seen
<1>9. row \in DOMAIN W => Follows(row, db[row], W[row])
    BY <1>2, <1>3, <1>7, <1>8 DEF Follows, Live
<1>10. ASSUME row \in DOMAIN W, NEW u \in Users, BelongsTo(row, W[row], u) PROVE Referenced(db, U, row, u)
  <2>1. BelongsTo(row, old, u)
    BY <1>2, <1>3, <1>10 DEF BelongsTo, OwnerOf
  <2>2. CASE row \in DOMAIN T.writes
    <3>1. Referenced(db, T, row, u)
        BY <1>1, <2>1, <2>2 DEF Start, Working, WritesReference, Seen
    <3> QED BY <1>1, <1>4, <1>6, <3>1, GrownReference
  <2>3. CASE row \notin DOMAIN T.writes
    BY <1>5, <1>8, <2>1, <2>3 DEF Referenced
  <2> QED BY <2>2, <2>3
<1>11. Allowed(db, U, W)
    BY <1>1, <1>3, <1>5, <1>9, <1>10 DEF Allowed, WriteLocked
<1>12. row \in DOMAIN W /\ row[1] = "refresh" => db[row] # None
  <2>1. NewTokens(db, T) = {}
    BY <1>1, NoSessionYet DEF Start, Working
  <2>2. row[1] = "refresh" => row[2] \in Tokens /\ row = RefreshRow(row[2])
    BY <1>1, RowFacts
  <2> QED BY <1>3, <1>8, <2>1, <2>2 DEF NewTokens, Live
<1>13. KeepsUsers(db, T, U)
    BY <1>4, <1>6, UsersKept
<1>14. Stage(C2) = Stage(C)
    BY <1>1 DEF Visits, Stage
<1>15. UserKnown(db, U, C2)
    BY <1>1, <1>13, <1>14, GrownUser DEF Start, Working, Vouched, Visits
<1>16. Exchanges(db, U, C2)
    BY <1>1, <1>5, <1>14 DEF Start, Working, Exchanges, Visits, Locked
<1>17. ASSUME HasIdentity(T, C) PROVE HasIdentity(U, C2)
  <2>1. IdentityRow(C.subject) # row
    BY <1>2 DEF IdentityRow
  <2> QED BY <1>1, <1>3, <1>4, <1>17, <2>1 DEF HasIdentity, Visits, Grows
<1>18. Logins(db, U, C2)
  <2>1. Stage(C) \notin Finding
    BY <1>1 DEF Start, Working, Parameters
  <2> QED BY <1>1, <1>4, <1>6, <1>14, <1>17, <2>1, GrownLogins DEF Start, Working, Visits
<1>19. Claiming(C) <=> Claiming(C2)
    BY <1>1, <1>14 DEF Claiming, Visits
<1>20. Deletes(db, U, C2)
    BY <1>1, <1>3, <1>4, <1>19, GrownDeletes DEF Start, Working, Visits
<1>21. Claims(db, U, C2)
  <2> SUFFICES ASSUME Claiming(C2) PROVE Claims(db, U, C2)
    BY DEF Claims
  <2>1. Claims(db, T, C) /\ Claiming(C)
    BY <1>1, <1>19 DEF Start, Working
  <2>2. \A r : Seen(db, U, r) = IF r \in DOMAIN W THEN W[r] ELSE Seen(db, T, r)
    BY <1>4, GrownSeen
  <2>3. ASSUME NEW t \in Tokens, Stage(C) \in AfterRevoke,
               BelongsTo(RefreshRow(t), Seen(db, U, RefreshRow(t)), C.user)
        PROVE  \/ Seen(db, U, RefreshRow(t)).revoked \/ Seen(db, U, RefreshRow(t)).via = "claim"
               \/ RefreshRow(t) \in C2.todo
    <3>1. CASE RefreshRow(t) = row
      <4>1. row \in DOMAIN W
        BY <1>3, <2>2, <2>3, <3>1 DEF BelongsTo
      <4> QED BY <1>3, <2>2, <3>1, <4>1, RowFacts
    <3>2. CASE RefreshRow(t) # row
      <4>1. Seen(db, U, RefreshRow(t)) = Seen(db, T, RefreshRow(t))
        BY <1>3, <2>2, <3>2
      <4> QED BY <1>1, <2>1, <2>3, <3>2, <4>1 DEF Claims, Visits
    <3> QED BY <3>1, <3>2
  <2>4. ASSUME NEW l \in Links, BelongsTo(LinkRow(l), Seen(db, U, LinkRow(l)), C.user),
               \/ Stage(C) \in AfterRevoke \ {"invalidate_verify", "invalidate_reset"}
               \/ Stage(C) = "invalidate_reset" /\ Seen(db, U, LinkRow(l)).kind = "verify_email"
        PROVE  Seen(db, U, LinkRow(l)).used \/ LinkRow(l) \in C2.todo
    <3>1. CASE LinkRow(l) = row
      <4>1. row \in DOMAIN W
        BY <1>3, <2>2, <2>4, <3>1 DEF BelongsTo
      <4> QED BY <1>3, <2>2, <3>1, <4>1, RowFacts
    <3>2. CASE LinkRow(l) # row
      <4>1. Seen(db, U, LinkRow(l)) = Seen(db, T, LinkRow(l))
        BY <1>3, <2>2, <3>2
      <4> QED BY <1>1, <2>1, <2>4, <3>2, <4>1 DEF Claims, Visits
    <3> QED BY <3>1, <3>2
  <2>5. Locked(U, UserRow(C.user)) /\ Live(db[UserRow(C.user)])
    BY <1>5, <2>1 DEF Claims, Locked
  <2>6. Stage(C) # "drop_password" => /\ PasswordRow(C.user) \in DOMAIN U.writes
                                      /\ U.writes[PasswordRow(C.user)] = None /\ Locked(U, PasswordRow(C.user))
    <3>1. PasswordRow(C.user) # row
        BY <1>2 DEF PasswordRow
    <3> QED BY <1>3, <1>4, <1>5, <2>1, <3>1 DEF Claims, Locked, Grows
  <2>7. Stage(C) \in {"issue", "commit"} => HasIdentity(U, C2)
    BY <1>17, <2>1 DEF Claims
  <2>8. C2.user = C.user
    BY <1>1 DEF Visits
  <2> QED BY <1>14, <2>3, <2>4, <2>5, <2>6, <2>7, <2>8 DEF Claims
<1>22. Apart(h, W, U)
  <2>1. row \in DOMAIN W /\ row \notin DOMAIN T.writes => db[row] # None
    BY <1>3, <1>8 DEF Live
  <2> QED BY <1>2, <1>3, <1>5, <2>1 DEF Apart
<1>23. Progress(C2) /\ Parameters(C2) /\ C2 \in Call /\ C2.op # "none"
    BY <1>1 DEF Visits
<1> QED BY <1>1, <1>2, <1>3, <1>11, <1>12, <1>15, <1>16, <1>18, <1>20, <1>21, <1>22, <1>23, OneRowKeeps

\* A deletion comes to a row that belongs to the user.
LEMMA CascadeKeeps ==
    ASSUME TypeOK, AuthInv, NEW h \in Handlers, VisitRow(h), UNCHANGED scenario, call[h].op = "delete"
    PROVE  TypeOK' /\ AuthInv'
<1> DEFINE C == call[h]
           T == tx[h]
           U == tx'[h]
           row == NextRow(C.todo)
           W == ChangeRow(h, row, C.op = "delete")
           C2 == [C EXCEPT !.todo = @ \ {row}]
<1>1. /\ C.op # "none" /\ Start(db, T, C) /\ Blockers(h) = {} /\ C.todo # {}
      /\ Continues(h, W, C2) /\ row \in Rows /\ row[1] # "user" /\ Visits(C, row, C2)
      /\ Wants(h) = {<<row, "update">>} /\ Wants(h) \subseteq Lockable
    BY VisitBegins
<1> HIDE DEF C2
<1>2. row[1] \in {"password", "identity", "refresh", "link"}
    BY <1>1, RowFacts
<1>3. Stage(C) = "commit" /\ Stage(C2) = "commit" /\ Deleting(C) /\ Deleting(C2) /\ C.user \in Users
  <2>1. Stage(C) \in {"delete", "commit"}
    BY <1>1, Shape DEF Before, Stage, Start, Working
  <2>2. Stage(C) # "delete" /\ C.user \in Users
    BY <1>1 DEF Start, Working, Parameters
  <2> QED BY <1>1, <2>1, <2>2 DEF Visits, Stage, Deleting
<1>4. /\ \A r \in DOMAIN T.writes : ~Live(T.writes[r])
      /\ Locked(T, UserRow(C.user)) /\ UserRow(C.user) \in DOMAIN T.writes
      /\ \A r \in Rows : BelongsTo(r, db[r], C.user) => r \in C.todo \cup DOMAIN T.writes
      /\ \A r \in C.todo : BelongsTo(r, db[r], C.user)
    BY <1>1, <1>3 DEF Start, Working, Deletes
<1>5. BelongsTo(row, db[row], C.user) /\ Live(db[row])
    BY <1>1, <1>4 DEF Visits, BelongsTo
<1>6. /\ DOMAIN W \subseteq {row}
      /\ row \in DOMAIN W <=> row \notin DOMAIN T.writes
      /\ row \in DOMAIN W => /\ ~Live(W[row]) /\ W[row] \in Stored(row)
                             /\ row[1] \in {"user", "refresh", "link"} => W[row] # None
  <2>1. CASE row \in DOMAIN T.writes
    <3>1. W = NoWrites
        BY <1>4, <2>1, VisibleSeen DEF ChangeRow, Seen
    <3> QED BY <2>1, <3>1 DEF NoWrites
  <2>2. CASE row \notin DOMAIN T.writes
    <3>1. Visible(h, row)
        BY <1>5, <2>2, VisibleSeen DEF Seen
    <3>2. W = Put(row, IF row[1] \in {"password", "identity"} THEN None ELSE Gone)
        BY <1>2, <3>1 DEF ChangeRow
    <3>3. DOMAIN W = {row} /\ W[row] = IF row[1] \in {"password", "identity"} THEN None ELSE Gone
        BY <3>2 DEF Put
    <3> HIDE DEF W
    <3> QED BY <1>1, <1>2, <2>2, <3>3, ValueFacts, AuthAssumption DEF Live
  <2> QED BY <2>1, <2>2
<1> HIDE DEF W
<1>7. Grows(T, W, Wants(h), U)
    BY <1>1, StatementGrows
<1>8. Locked(U, row) /\ T.locks \subseteq U.locks
    BY <1>1, <1>7 DEF Grows, Locked
<1>9. \A u \in Users : UserRow(u) \notin DOMAIN W
    BY <1>1, <1>6, RowFacts
<1>10. KeepsUsers(db, T, U)
    BY <1>7, <1>9, UsersKept
<1>11. Allowed(db, U, W)
  <2>1. row \in DOMAIN W => Follows(row, db[row], W[row])
    BY <1>5, <1>6 DEF Follows, Live
  <2>2. row \in DOMAIN W => \A u : ~BelongsTo(row, W[row], u)
    BY <1>6 DEF BelongsTo
  <2> QED BY <1>1, <1>6, <1>8, <2>1, <2>2 DEF Allowed, WriteLocked
<1>12. UserKnown(db, U, C2)
    BY <1>1, <1>3, <1>10, GrownUser DEF Start, Working, Vouched, Visits
<1>13. Exchanges(db, U, C2) /\ Claims(db, U, C2)
    BY <1>1 DEF Exchanges, Claims, Claiming, Visits
<1>14. Logins(db, U, C2)
  <2>1. ASSUME NEW u \in Users, PasswordRow(u) \in DOMAIN W PROVE ~Adds(db, T, u)
    <3>1. row = PasswordRow(u) /\ BelongsTo(row, db[row], u)
        BY <1>5, <1>6, <2>1, RowFacts DEF BelongsTo, OwnerOf
    <3> QED BY <1>1, <3>1 DEF Start, OwnersLive, Adds, Live
  <2>2. Stage(C2) \notin Finding
    BY <1>3 DEF Finding
  <2> QED BY <1>1, <1>7, <1>9, <2>1, <2>2, GrownLogins DEF Start, Working
<1>15. Deletes(db, U, C2)
  <2>1. DOMAIN U.writes = DOMAIN T.writes \cup {row}
    BY <1>6, <1>7 DEF Grows
  <2>2. \A r \in DOMAIN U.writes : ~Live(U.writes[r])
    BY <1>4, <1>6, <1>7 DEF Grows
  <2>3. \A r \in DOMAIN U.writes : r = UserRow(C.user) \/ BelongsTo(r, db[r], C.user)
    <3>1. \A r \in DOMAIN T.writes : r = UserRow(C.user) \/ BelongsTo(r, db[r], C.user)
        BY <1>1, <1>4 DEF Start, Working, Deletes, Claiming
    <3> QED BY <1>5, <2>1, <3>1
  <2>4. C2.user = C.user /\ C2.todo = C.todo \ {row} /\ C2.op = "delete"
    BY <1>1 DEF Visits
  <2>5. Locked(U, UserRow(C.user))
    BY <1>4, <1>8 DEF Locked
  <2> QED BY <1>3, <1>4, <2>1, <2>2, <2>3, <2>4, <2>5 DEF Deletes
<1>16. Apart(h, W, U)
  <2>1. row[1] = "password" => row[2] = C.user
    BY <1>5 DEF BelongsTo, OwnerOf
  <2>2. Seen(db, T, UserRow(C.user)) # None
    BY <1>1, <1>3 DEF Start, Working, UserKnown
  <2> QED BY <1>5, <1>6, <1>8, <2>1, <2>2 DEF Apart, Live
<1>17. Progress(C2) /\ Parameters(C2) /\ C2 \in Call /\ C2.op # "none"
    BY <1>1 DEF Visits
<1> QED BY <1>1, <1>5, <1>6, <1>11, <1>12, <1>13, <1>14, <1>15, <1>16, <1>17, OneRowKeeps DEF Live

LEMMA VisitRowKeeps ==
    ASSUME TypeOK, AuthInv, NEW h \in Handlers, VisitRow(h), UNCHANGED scenario
    PROVE  TypeOK' /\ AuthInv'
BY UpdateKeeps, CascadeKeeps

\* A user is deleted; what belongs to the user comes next.
LEMMA DeleteKeeps ==
    ASSUME TypeOK, AuthInv, NEW h \in Handlers, Delete(h), UNCHANGED scenario
    PROVE  TypeOK' /\ AuthInv'
<1> DEFINE C == call[h]
           T == tx[h]
           U == tx'[h]
           row == UserRow(C.user)
           W == DeleteUser(C.user)
           rows == CascadeOf(h, C.user)
           C2 == [Rest(h) EXCEPT !.todo = rows]
           L == Wants(h)
<1>1. At(h, "delete") /\ Blockers(h) = {}
    BY DEF Delete, Runs
<1> SUFFICES ASSUME Visible(h, row), Continues(h, W, C2) PROVE TypeOK' /\ AuthInv'
    BY ReturnsKeeps DEF Delete
<1>2. /\ C.op # "none" /\ Start(db, T, C) /\ Stage(C) = "delete" /\ C.todo = {}
      /\ C.steps # <<>> /\ C.steps \in Seq(Statements) /\ Tail(C.steps) \in Seq(Statements)
    BY <1>1, AtStage
<1>3. rows \subseteq Rows /\ \A r \in rows : r[1] # "user"
    BY DEF CascadeOf
<1>4. C.op = "delete" /\ C.user \in Users
  <2>1. C.op = "delete"
    BY <1>2, Shape DEF Before, Stage, Start, Working, Call
  <2> QED BY <1>2, <2>1 DEF Start, Working, Parameters
<1> HIDE DEF rows
<1>5. Advances(C, C2) /\ C2.user = C.user /\ C2.todo = rows /\ C2.via = C.via
    BY <1>2, <1>3, ZenonT(60) DEF Start, Advances, Rest, Call
<1> HIDE DEF C2
<1>6. Progress(C2) /\ Parameters(C2) /\ C2.op # "none" /\ Stage(C2) \notin Finding /\ Ordered(C, C2)
    BY <1>2, <1>3, <1>4, <1>5, Advance DEF Start, Working
<1>7. Stage(C2) = "commit" /\ Deleting(C2) /\ C2.op = "delete" /\ C2 \in Call
  <2>1. Stage(C2) = "commit"
    BY <1>2, <1>6 DEF Ordered, Leads
  <2> QED BY <1>4, <1>5, <2>1 DEF Deleting, Advances
<1>8. row \in Rows /\ row[1] = "user"
    BY <1>4, RowFacts
<1>9. DOMAIN T.writes = {}
  <2> SUFFICES ASSUME NEW r \in DOMAIN T.writes PROVE FALSE
    OBVIOUS
  <2>1. ~Live(T.writes[r])
    BY <1>2, <1>4 DEF Start, Working, Deletes
  <2> QED BY <1>2, <1>4, <2>1 DEF Start, Working, Deletes, Deleting, Claiming
<1>10. \A r : Seen(db, T, r) = db[r]
    BY <1>9 DEF Seen
<1>11. Live(db[row]) /\ db[row] \in User
  <2>1. Live(Seen(db, T, row))
    BY VisibleSeen
  <2>2. Seen(db, T, row) \in User
    BY <1>2, <1>4, <2>1, UserTyped DEF Start
  <2> QED BY <1>10, <2>1, <2>2
<1>12. DOMAIN W = {row} /\ W[row] = Gone
    BY DEF DeleteUser, Put
<1> HIDE DEF W
<1>13. Grows(T, W, L, U)
    BY StatementGrows
<1>14. L = {<<row, "update">>, <<EmailKey(db[row].email), "update">>}
    BY <1>1, WantsFacts
<1> HIDE DEF L
<1>15. L \subseteq Lockable
  <2>1. db[row].email \in Emails
    BY <1>11 DEF User
  <2> QED BY <1>8, <1>14, <2>1 DEF Lockable, Modes
<1>16. Locked(U, row) /\ DOMAIN U.writes = {row} /\ U.writes[row] = Gone
    BY <1>9, <1>12, <1>13, <1>14 DEF Grows, Locked
<1>17. Allowed(db, U, W)
  <2>1. Follows(row, db[row], W[row]) /\ W[row] \in Stored(row)
    BY <1>8, <1>11, <1>12, ValueFacts, AuthAssumption DEF Follows, Live
  <2>2. \A u : ~BelongsTo(row, W[row], u)
    BY <1>8 DEF BelongsTo
  <2> QED BY <1>8, <1>12, <1>16, <2>1, <2>2 DEF Allowed, WriteLocked
<1>18. KeepsUsers(db, T, U)
  <2> SUFFICES ASSUME NEW u \in Users
               PROVE  /\ Seen(db, T, UserRow(u)) # None => Seen(db, U, UserRow(u)) # None
                      /\ Trusted(Seen(db, T, UserRow(u))) => Trusted(Seen(db, U, UserRow(u)))
    BY DEF KeepsUsers
  <2>1. CASE UserRow(u) = row
    BY <1>16, <2>1, AuthAssumption DEF Seen, Trusted
  <2>2. CASE UserRow(u) # row
    BY <1>12, <1>13, <2>2, GrownSeen
  <2> QED BY <2>1, <2>2
<1>19. UserKnown(db, U, C2)
    BY <1>2, <1>5, <1>7, <1>18, GrownUser DEF Start, Working, Vouched
<1>20. Exchanges(db, U, C2) /\ Claims(db, U, C2)
    BY <1>7 DEF Exchanges, Claims, Claiming
<1>21. Logins(db, U, C2)
    BY <1>6, <1>11, <1>16 DEF Logins, Adds, Live, UserRow
<1>22. Deletes(db, U, C2)
  <2>1. \A r \in Rows : BelongsTo(r, db[r], C.user) <=> r \in rows
    <3>1. \A r : Get(h, r) = db[r] /\ (Visible(h, r) <=> Live(db[r]))
        BY <1>10, GetSeen, VisibleSeen
    <3> QED BY <3>1 DEF BelongsTo, rows, CascadeOf
  <2>2. \A r \in rows : BelongsTo(r, db[r], C.user)
    BY <1>3, <2>1
  <2>3. ~Live(Gone)
    BY DEF Live
  <2> QED BY <1>5, <1>7, <1>16, <2>1, <2>2, <2>3 DEF Deletes
<1>23. TypedTx(U) /\ Working(db, U, C2)
  <2>1. \A t \in Tokens : RefreshRow(t) \notin DOMAIN W
    BY <1>8, <1>12, RowFacts
  <2>2. \A s \in Subjects : IdentityRow(s) \notin DOMAIN W
    BY <1>8, <1>12, RowFacts
  <2> QED BY <1>2, <1>6, <1>9, <1>13, <1>15, <1>17, <1>18, <1>19, <1>20, <1>21, <1>22, <2>1, <2>2, WriteWorks
<1>24. Apart(h, W, U)
    BY <1>8, <1>11, <1>12, <1>16 DEF Apart, Live
<1> QED BY <1>1, <1>7, <1>23, <1>24, StatementKeeps

\* Nobody has or writes the password of a user id that is new.
LEMMA FreshPassword ==
    ASSUME TypeOK, AuthInv, NEW u \in NewId("user", Users)
    PROVE  /\ u \in Users /\ db[UserRow(u)] = None /\ ~Live(db[PasswordRow(u)])
           /\ \A g \in Handlers : UserRow(u) \notin DOMAIN tx[g].writes /\ PasswordRow(u) \notin DOMAIN tx[g].writes
<1> DEFINE row == PasswordRow(u)
<1>1. u \in Users /\ db[UserRow(u)] = None /\ \A g \in Handlers : UserRow(u) \notin DOMAIN tx[g].writes
    BY Fresh DEF UserRow
<1>2. row \in Rows /\ row[1] = "password" /\ row[2] = u
    BY <1>1, RowFacts
<1>3. ~Live(db[row])
  <2>1. Live(db[row]) => BelongsTo(row, db[row], u)
    BY <1>2 DEF BelongsTo, OwnerOf
  <2> QED BY <1>1, <1>2, <2>1 DEF AuthInv, RowsSound, OwnersLive, Live
<1>4. ASSUME NEW g \in Handlers, row \in DOMAIN tx[g].writes PROVE FALSE
  <2> DEFINE T == tx[g]
             C == call[g]
  <2>1. T # NoTx
    BY <1>4 DEF NoTx, NoWrites
  <2>2. Working(db, T, C)
    BY <2>1 DEF AuthInv, HandlerSound
  <2>3. CASE Live(T.writes[row])
    <3>1. BelongsTo(row, T.writes[row], u)
        BY <1>2, <2>3 DEF BelongsTo, OwnerOf
    <3>2. Referenced(db, T, row, u)
        BY <1>1, <1>4, <2>2, <3>1 DEF Working, WritesReference
    <3>3. ~Adds(db, T, u) /\ Seen(db, T, UserRow(u)) = None /\ ~BelongsTo(row, db[row], u)
        BY <1>1, <1>3 DEF Adds, Seen, BelongsTo
    <3> QED BY <3>2, <3>3 DEF Referenced, Live
  <2>4. CASE ~Live(T.writes[row])
    <3>1. row # UserRow(C.user) /\ ~BelongsTo(row, db[row], C.user)
        BY <1>2, <1>3 DEF UserRow, BelongsTo
    <3>2. Claiming(C) /\ row = PasswordRow(C.user)
        BY <1>4, <2>2, <2>4, <3>1 DEF Working, Deletes
    <3>3. C.user = u
        BY <3>2 DEF PasswordRow
    <3> QED BY <1>1, <2>2, <3>2, <3>3 DEF Working, Claims, Live
  <2> QED BY <2>3, <2>4
<1> QED BY <1>1, <1>3, <1>4

\* What is written with a user who is new.
NewUserWrites(W, u, op) ==
    /\ \A row \in DOMAIN W : \/ row = UserRow(u) /\ W[row] \in User
                             \/ row = PasswordRow(u) /\ W[row] \in Password
                             \/ /\ \E l \in NewId("link", Links) : row = LinkRow(l)
                                /\ W[row] \in OneTimeToken /\ W[row].user = u
    /\ UserRow(u) \in DOMAIN W
    /\ op = "federated" => W[UserRow(u)].verified
    /\ op # "federated" => PasswordRow(u) \in DOMAIN W

LEMMA AddUserKeeps ==
    ASSUME TypeOK, AuthInv, NEW h \in Handlers, At(h, "insert_user"), Blockers(h) = {}, UNCHANGED scenario,
           NEW u \in NewId("user", Users), NEW W, NewUserWrites(W, u, call[h].op),
           Continues(h, W, [Rest(h) EXCEPT !.user = u])
    PROVE  TypeOK' /\ AuthInv'
<1> DEFINE C == call[h]
           T == tx[h]
           U == tx'[h]
           L == Wants(h)
           C2 == [Rest(h) EXCEPT !.user = u]
<1>1. /\ u \in Users /\ db[UserRow(u)] = None /\ ~Live(db[PasswordRow(u)])
      /\ \A g \in Handlers : UserRow(u) \notin DOMAIN tx[g].writes /\ PasswordRow(u) \notin DOMAIN tx[g].writes
    BY FreshPassword
<1>2. /\ C.op # "none" /\ Start(db, T, C) /\ Stage(C) = "insert_user" /\ C.todo = {}
      /\ C.steps # <<>> /\ C.steps \in Seq(Statements) /\ Tail(C.steps) \in Seq(Statements)
    BY AtStage
<1>3. Advances(C, C2) /\ C2.user = u /\ C2.todo = {} /\ C2.via = C.via
  <2>1. u \in Users
    BY <1>1
  <2>2. C \in Call
    BY <1>2 DEF Start
  <2> QED BY <1>2, <2>1, <2>2, ZenonT(60) DEF Advances, Rest, Call
<1> HIDE DEF C2
<1>4. Progress(C2) /\ Parameters(C2) /\ C2.op # "none" /\ Stage(C2) \notin Finding /\ Ordered(C, C2)
    BY <1>1, <1>2, <1>3, Advance DEF Start, Working
<1>5. \/ C.op \in {"register", "createAdmin"} /\ Stage(C2) = "commit"
      \/ C.op = "federated" /\ C.via = "identity" /\ Stage(C2) = "insert_identity"
    BY <1>2, <1>4 DEF Ordered, Leads
<1>6. C.email \in Emails
    BY <1>2, <1>5 DEF Start, Working, Parameters
<1>7. DOMAIN T.writes = {}
    BY <1>2 DEF Start, Working, Logins, Finding
<1>8. Grows(T, W, L, U) /\ L \subseteq Lockable
  <2>1. L = {<<EmailKey(C.email), "update">>}
    BY WantsFacts
  <2>2. Grows(T, W, L, U)
    BY StatementGrows DEF C2
  <2>3. L \subseteq Lockable
    BY <1>6, <2>1 DEF Lockable, Modes
  <2> QED BY <2>2, <2>3
<1> HIDE DEF L
<1>9. DOMAIN U.writes = DOMAIN W /\ \A row \in DOMAIN W : U.writes[row] = W[row]
    BY <1>7, <1>8 DEF Grows
<1>10. Adds(db, U, u)
    BY <1>1, <1>9 DEF Adds, NewUserWrites
<1>11. ASSUME NEW row \in DOMAIN W
       PROVE  /\ row \in Rows /\ W[row] \in Stored(row) /\ Live(W[row]) /\ WriteLocked(db, U, row)
              /\ Follows(row, db[row], W[row])
              /\ \A v \in Users : BelongsTo(row, W[row], v) => Referenced(db, U, row, v)
              /\ \A g \in Handlers : row \notin DOMAIN tx[g].writes
              /\ row[1] \in {"user", "password", "link"} /\ (row[1] = "user" => row = UserRow(u))
  <2>1. CASE row = UserRow(u) /\ W[row] \in User
    <3>1. row \in Rows /\ row[1] = "user"
        BY <1>1, <2>1, RowFacts
    <3>2. W[row] \in Stored(row) /\ Live(W[row])
        BY <2>1, <3>1, ValueFacts
    <3>3. Follows(row, db[row], W[row])
        BY <1>1, <2>1, <3>2, AuthAssumption DEF Follows, Live
    <3> QED BY <1>1, <2>1, <3>1, <3>2, <3>3 DEF WriteLocked, BelongsTo
  <2>2. CASE row = PasswordRow(u) /\ W[row] \in Password
    <3>1. row \in Rows /\ row[1] = "password" /\ row[2] = u
        BY <1>1, <2>2, RowFacts
    <3>2. W[row] \in Stored(row) /\ Live(W[row]) /\ db[row] # Gone
        BY <1>2, <2>2, <3>1, ValueFacts DEF Start, TypedRows
    <3>3. Follows(row, db[row], W[row])
        BY <3>1, <3>2 DEF Follows, Live
    <3>4. \A v : BelongsTo(row, W[row], v) => v = u
        BY <3>1 DEF BelongsTo, OwnerOf
    <3> QED BY <1>1, <1>10, <2>2, <3>1, <3>2, <3>3, <3>4 DEF WriteLocked, Referenced
  <2>3. ASSUME NEW l \in NewId("link", Links), row = LinkRow(l), W[row] \in OneTimeToken, W[row].user = u
        PROVE  /\ row \in Rows /\ W[row] \in Stored(row) /\ Live(W[row]) /\ WriteLocked(db, U, row)
               /\ Follows(row, db[row], W[row])
               /\ \A v \in Users : BelongsTo(row, W[row], v) => Referenced(db, U, row, v)
               /\ \A g \in Handlers : row \notin DOMAIN tx[g].writes
               /\ row[1] = "link"
    <3>1. l \in Links /\ db[row] = None /\ \A g \in Handlers : row \notin DOMAIN tx[g].writes
        BY <2>3, Fresh DEF LinkRow
    <3>2. row \in Rows /\ row[1] = "link"
        BY <2>3, <3>1, RowFacts
    <3>3. W[row] \in Stored(row) /\ Live(W[row])
        BY <2>3, <3>2, ValueFacts
    <3>4. Follows(row, db[row], W[row])
        BY <3>1, <3>2, <3>3, AuthAssumption DEF Follows, Live
    <3>5. \A v : BelongsTo(row, W[row], v) => v = u
        BY <2>3, <3>2 DEF BelongsTo, OwnerOf
    <3> QED BY <1>10, <3>1, <3>2, <3>3, <3>4, <3>5 DEF WriteLocked, Referenced
  <2> QED BY <2>1, <2>2, <2>3 DEF NewUserWrites
<1>12. Allowed(db, U, W)
    BY <1>11 DEF Allowed
<1>13. \A v \in Users : UserRow(v) \in DOMAIN W => v = u
    BY <1>1, <1>11, RowFacts
<1>14. Seen(db, U, UserRow(u)) = W[UserRow(u)] /\ Live(W[UserRow(u)]) /\ UserRow(u) \in DOMAIN W
    BY <1>8, <1>11, GrownSeen DEF NewUserWrites
<1>15. KeepsUsers(db, T, U)
  <2> SUFFICES ASSUME NEW v \in Users
               PROVE  /\ Seen(db, T, UserRow(v)) # None => Seen(db, U, UserRow(v)) # None
                      /\ Trusted(Seen(db, T, UserRow(v))) => Trusted(Seen(db, U, UserRow(v)))
    BY DEF KeepsUsers
  <2>1. CASE v = u
    BY <1>1, <1>7, <2>1, AuthAssumption DEF Seen, Trusted, Live
  <2>2. CASE v # u
    BY <1>8, <1>13, <2>2, GrownSeen
  <2> QED BY <2>1, <2>2
<1>16. UserKnown(db, U, C2)
  <2>1. Vouched(C2) => C.op = "federated"
    BY <1>3, <1>5 DEF Vouched, Advances
  <2>2. C.op = "federated" => Trusted(W[UserRow(u)])
    BY <1>14 DEF NewUserWrites, Trusted
  <2> QED BY <1>3, <1>14, <2>1, <2>2 DEF UserKnown, Live
<1>17. Exchanges(db, U, C2) /\ Claims(db, U, C2) /\ ~Claiming(C)
    BY <1>3, <1>5 DEF Exchanges, Claims, Claiming, Advances
<1>18. Logins(db, U, C2)
  <2> SUFFICES ASSUME NEW v \in Users, Adds(db, U, v)
               PROVE  \/ PasswordRow(v) \in DOMAIN U.writes /\ Live(U.writes[PasswordRow(v)])
                      \/ /\ C2.op = "federated" /\ C2.via = "identity" /\ C2.user = v
                         /\ Stage(C2) = "insert_identity"
    BY <1>4 DEF Logins
  <2>1. v = u
    BY <1>9, <1>13 DEF Adds
  <2> QED BY <1>3, <1>5, <1>9, <1>11, <2>1 DEF NewUserWrites, Advances
<1>19. Deletes(db, U, C2)
  <2>1. \A row \in DOMAIN W : Live(W[row])
    BY <1>11
  <2> QED BY <1>2, <1>3, <1>5, <1>8, <1>17, <2>1, GrownDeletes DEF Start, Working, Advances
<1>20. TypedTx(U) /\ Working(db, U, C2)
  <2>1. \A v \in Users : UserRow(v) \in DOMAIN W => Live(W[UserRow(v)])
    BY <1>11
  <2>2. \A t \in Tokens : RefreshRow(t) \notin DOMAIN W
    BY <1>11, RowFacts
  <2>3. \A s \in Subjects : IdentityRow(s) \notin DOMAIN W
    BY <1>11, RowFacts
  <2> QED BY <1>2, <1>4, <1>8, <1>12, <1>15, <1>16, <1>17, <1>18, <1>19, <2>1, <2>2, <2>3, WriteWorks
<1>21. Apart(h, W, U)
    BY <1>11 DEF Apart
<1> QED BY <1>3, <1>20, <1>21, StatementKeeps DEF Advances, C2

LEMMA InsertUserKeeps ==
    ASSUME TypeOK, AuthInv, NEW h \in Handlers, InsertUser(h), UNCHANGED scenario
    PROVE  TypeOK' /\ AuthInv'
<1> DEFINE C == call[h]
           C2(u) == [Rest(h) EXCEPT !.user = u]
           expires == now + VerifyTTL
<1>1. At(h, "insert_user") /\ Blockers(h) = {}
    BY DEF InsertUser, Runs
<1>2. C.op # "none" /\ Start(db, tx[h], C)
    BY <1>1, AtStage
<1>3. /\ C.op \in {"register", "createAdmin", "federated"} => C.email \in Emails
      /\ C.op \in {"register", "createAdmin"} => C.password \in Passwords
      /\ expires \in Nat
    BY <1>2, AuthAssumption DEF Start, Working, Parameters, TypeOK
<1> HIDE DEF expires
<1>4. ASSUME NEW u \in NewId("user", Users), NEW W, Continues(h, W, C2(u)), NewUserWrites(W, u, C.op)
      PROVE  TypeOK' /\ AuthInv'
    BY <1>1, <1>4, AddUserKeeps
<1>5. \A u, l : UserRow(u) # PasswordRow(u) /\ UserRow(u) # LinkRow(l) /\ PasswordRow(u) # LinkRow(l)
    BY DEF UserRow, PasswordRow, LinkRow
<1>6. ASSUME NEW u \in NewId("user", Users), C.op = "register", NEW l \in NewId("link", Links)
      PROVE  NewUserWrites(Over(Over(CreateUser(u, C.email), CreatePasswordCredential(u, C.password)),
                                CreateOneTimeToken(l, u, LinkKind(C.op), expires)), u, C.op)
  <2> DEFINE A == CreateUser(u, C.email)
             B == CreatePasswordCredential(u, C.password)
             M == CreateOneTimeToken(l, u, LinkKind(C.op), expires)
  <2>1. DOMAIN A = {UserRow(u)} /\ A[UserRow(u)] \in User
    BY <1>3, <1>6 DEF CreateUser, Put, User
  <2>2. DOMAIN B = {PasswordRow(u)} /\ B[PasswordRow(u)] \in Password
    BY <1>3, <1>6 DEF CreatePasswordCredential, Put, Password
  <2>3. DOMAIN M = {LinkRow(l)} /\ M[LinkRow(l)] \in OneTimeToken /\ M[LinkRow(l)].user = u
    <3>1. u \in Users /\ LinkKind(C.op) \in {"verify_email", "reset_password"}
        BY <1>6, Fresh DEF LinkKind
    <3> QED BY <1>3, <3>1 DEF CreateOneTimeToken, Put, OneTimeToken
  <2> HIDE DEF A, B, M
  <2> DEFINE W == Over(Over(A, B), M)
  <2>4. /\ DOMAIN W = {UserRow(u), PasswordRow(u), LinkRow(l)}
        /\ W[UserRow(u)] = A[UserRow(u)] /\ W[PasswordRow(u)] = B[PasswordRow(u)] /\ W[LinkRow(l)] = M[LinkRow(l)]
    BY <1>5, <2>1, <2>2, <2>3 DEF Over
  <2> HIDE DEF W
  <2>5. NewUserWrites(W, u, C.op)
    BY <1>6, <2>1, <2>2, <2>3, <2>4 DEF NewUserWrites
  <2> QED BY <2>5 DEF W, A, B, M
<1>7. ASSUME NEW u \in NewId("user", Users), C.op = "createAdmin"
      PROVE  NewUserWrites(Over(CreateAdminUser(u, C.email), CreatePasswordCredential(u, C.password)), u, C.op)
  <2> DEFINE A == CreateAdminUser(u, C.email)
             B == CreatePasswordCredential(u, C.password)
  <2>1. DOMAIN A = {UserRow(u)} /\ A[UserRow(u)] \in User
    BY <1>3, <1>7 DEF CreateAdminUser, Put, User
  <2>2. DOMAIN B = {PasswordRow(u)} /\ B[PasswordRow(u)] \in Password
    BY <1>3, <1>7 DEF CreatePasswordCredential, Put, Password
  <2> HIDE DEF A, B
  <2> DEFINE W == Over(A, B)
  <2>3. /\ DOMAIN W = {UserRow(u), PasswordRow(u)}
        /\ W[UserRow(u)] = A[UserRow(u)] /\ W[PasswordRow(u)] = B[PasswordRow(u)]
    BY <1>5, <2>1, <2>2 DEF Over
  <2> HIDE DEF W
  <2>4. NewUserWrites(W, u, C.op)
    BY <1>7, <2>1, <2>2, <2>3 DEF NewUserWrites
  <2> QED BY <2>4 DEF W, A, B
<1>8. ASSUME NEW u \in NewId("user", Users), C.op = "federated"
      PROVE  NewUserWrites(Put(UserRow(u), [email |-> C.email, verified |-> TRUE]), u, C.op)
  <2> DEFINE W == Put(UserRow(u), [email |-> C.email, verified |-> TRUE])
  <2>1. DOMAIN W = {UserRow(u)} /\ W[UserRow(u)] \in User /\ W[UserRow(u)].verified
    BY <1>3, <1>8 DEF Put, User
  <2> HIDE DEF W
  <2>2. NewUserWrites(W, u, C.op)
    BY <1>8, <2>1 DEF NewUserWrites
  <2> QED BY <2>2 DEF W
<1>9. CASE GetUserByEmail(h, C.email) # {}
    BY <1>9, ReturnsKeeps DEF InsertUser
<1>10. CASE GetUserByEmail(h, C.email) = {}
  <2>1. PICK u \in NewId("user", Users) :
            \/ /\ C.op = "register"
               /\ \E l \in NewId("link", Links) :
                    Continues(h, Over(Over(CreateUser(u, C.email), CreatePasswordCredential(u, C.password)),
                                      CreateOneTimeToken(l, u, LinkKind(C.op), expires)), C2(u))
            \/ /\ C.op = "createAdmin"
               /\ Continues(h, Over(CreateAdminUser(u, C.email), CreatePasswordCredential(u, C.password)), C2(u))
            \/ /\ C.op = "federated"
               /\ Continues(h, Put(UserRow(u), [email |-> C.email, verified |-> TRUE]), C2(u))
    BY <1>10 DEF InsertUser, expires
  <2> HIDE DEF C2
  <2> QED BY <1>4, <1>6, <1>7, <1>8, <2>1
<1> QED BY <1>9, <1>10

\* S is what is written of the token or the link that request C gives for a session.
Spent(D, T, C, S) ==
    /\ \A row \in DOMAIN S :
          /\ \/ row = RefreshRow(C.token) /\ C.via = "rotate" /\ D[row].user = C.user
             \/ row = LinkRow(C.link) /\ C.via = "link"
          /\ row \in Rows /\ row[1] \in {"refresh", "link"} /\ Locked(T, row) /\ Live(D[row])
          /\ S[row] \in Stored(row) /\ Live(S[row]) /\ Follows(row, D[row], S[row])
          /\ S[row].user = D[row].user
    /\ C.via = "rotate" => LET row == RefreshRow(C.token)
                           IN  \/ row \in DOMAIN S /\ S[row].used # None
                               \/ row \notin DOMAIN S /\ row \in DOMAIN T.writes /\ T.writes[row].used # None

\* What a transaction that deletes nothing sees of a live row is live.
LEMMA SeenLive ==
    ASSUME NEW D, NEW T, NEW C, NEW row \in Rows, TypedRows(D), TypedTx(T), WritesFollow(D, T), Deletes(D, T, C),
           C.op # "delete", row[1] \in {"refresh", "link"}, Live(D[row])
    PROVE  LET v == Seen(D, T, row)
           IN  Live(v) /\ v \in ValueOf(row) /\ (v = D[row] \/ Follows(row, D[row], v)) /\ v.user = D[row].user
<1> DEFINE v == Seen(D, T, row)
<1>1. CASE row \notin DOMAIN T.writes
  <2>1. v = D[row]
    BY <1>1 DEF Seen
  <2> QED BY <2>1, ValueFacts DEF TypedRows
<1>2. CASE row \in DOMAIN T.writes
  <2>1. v = T.writes[row] /\ Follows(row, D[row], v) /\ v \in Stored(row)
    BY <1>2 DEF Seen, WritesFollow, TypedTx
  <2>2. row # PasswordRow(C.user)
    BY DEF PasswordRow
  <2>3. Live(v)
    BY <1>2, <2>1, <2>2 DEF Deletes, Deleting
  <2> QED BY <2>1, <2>3, ValueFacts DEF Follows
<1> QED BY <1>1, <1>2

LEMMA SpentSound ==
    ASSUME TypeOK, AuthInv, NEW h \in Handlers, At(h, "issue"), NEW S,
           S = CASE call[h].via = "rotate" -> MarkRefreshTokenUsed(h, call[h].token, call[h].began)
                 [] call[h].via = "link" -> MarkOneTimeTokenUsed(h, call[h].link)
                 [] OTHER -> NoWrites
    PROVE  Spent(db, tx[h], call[h], S)
<1> DEFINE C == call[h]
           T == tx[h]
<1>1. C.op # "none" /\ Start(db, T, C) /\ Stage(C) = "issue"
    BY AtStage
<1>2. /\ C.via = "rotate" => C.op = "refresh" /\ C.token \in Tokens
      /\ C.via = "link" => C.op \in {"verify", "reset"} /\ C.link \in Links
    BY <1>1 DEF Start, Working, Parameters
<1>3. CASE C.via = "rotate"
  <2> DEFINE row == RefreshRow(C.token)
             v == Seen(db, T, row)
             new == [v EXCEPT !.used = C.began]
  <2>1. row \in Rows /\ row[1] = "refresh"
    BY <1>2, <1>3, RowFacts
  <2>2. Locked(T, row) /\ Live(db[row]) /\ db[row].user = C.user
    BY <1>1, <1>2, <1>3 DEF Start, Working, Exchanges
  <2>3. Live(v) /\ v \in ValueOf(row) /\ (v = db[row] \/ Follows(row, db[row], v)) /\ v.user = db[row].user
    BY <1>1, <1>2, <1>3, <2>1, <2>2, SeenLive DEF Start, Working
  <2>4. v \in RefreshToken
    BY <2>1, <2>3, ValueFacts
  <2>5. S = IF v.used = None THEN Put(row, new) ELSE NoWrites
    BY <1>3, GetSeen DEF MarkRefreshTokenUsed
  <2>6. C.began \in Nat /\ C.began # None
    BY <1>1, AuthAssumption DEF Start, Call
  <2> HIDE DEF v
  <2>7. /\ new \in RefreshToken /\ new.user = v.user /\ new.family = v.family /\ new.from = v.from
        /\ new.via = v.via /\ new.revoked = v.revoked /\ new.used # None
    BY <2>4, <2>6 DEF RefreshToken
  <2> HIDE DEF new
  <2>8. new \in Stored(row) /\ Live(new)
    BY <2>1, <2>7, ValueFacts
  <2>9. Follows(row, db[row], new)
    BY <2>1, <2>2, <2>3, <2>7, <2>8 DEF Follows, Live
  <2>10. CASE v.used = None
    <3>1. DOMAIN S = {row} /\ S[row] = new
        BY <2>5, <2>10 DEF Put
    <3> QED BY <1>3, <2>1, <2>2, <2>3, <2>7, <2>8, <2>9, <3>1 DEF Spent
  <2>11. CASE v.used # None
    <3>1. DOMAIN S = {}
        BY <2>5, <2>11 DEF NoWrites
    <3>2. db[row].used = None
        BY <1>1, <1>2, <1>3 DEF Start, Working, Exchanges
    <3>3. row \in DOMAIN T.writes /\ T.writes[row] = v
        BY <2>11, <3>2 DEF v, Seen
    <3> QED BY <1>3, <2>11, <3>1, <3>3 DEF Spent
  <2> QED BY <2>10, <2>11
<1>4. CASE C.via = "link"
  <2> DEFINE row == LinkRow(C.link)
             v == Seen(db, T, row)
             new == [v EXCEPT !.used = TRUE]
  <2>1. row \in Rows /\ row[1] = "link"
    BY <1>2, <1>4, RowFacts
  <2>2. Locked(T, row) /\ Live(db[row])
    BY <1>1, <1>2, <1>4 DEF Start, Working, Exchanges
  <2>3. Live(v) /\ v \in ValueOf(row) /\ (v = db[row] \/ Follows(row, db[row], v)) /\ v.user = db[row].user
    BY <1>1, <1>2, <1>4, <2>1, <2>2, SeenLive DEF Start, Working
  <2>4. v \in OneTimeToken
    BY <2>1, <2>3, ValueFacts
  <2>5. S = Put(row, new)
    BY <1>4, GetSeen DEF MarkOneTimeTokenUsed
  <2> HIDE DEF v
  <2>6. new \in OneTimeToken /\ new.user = v.user /\ new.used
    BY <2>4 DEF OneTimeToken
  <2> HIDE DEF new
  <2>7. new \in Stored(row) /\ Live(new)
    BY <2>1, <2>6, ValueFacts
  <2>8. Follows(row, db[row], new)
    BY <2>1, <2>2, <2>3, <2>6, <2>7 DEF Follows, Live
  <2>9. DOMAIN S = {row} /\ S[row] = new
    BY <2>5 DEF Put
  <2> QED BY <1>4, <2>1, <2>2, <2>3, <2>6, <2>7, <2>8, <2>9 DEF Spent
<1>5. CASE C.via \notin {"rotate", "link"}
  <2>1. DOMAIN S = {}
    BY <1>5 DEF NoWrites
  <2> QED BY <1>5, <2>1 DEF Spent
<1> QED BY <1>3, <1>4, <1>5

\* The session that request C gives out as token t.
NewSession(C, t, new) ==
    /\ new \in RefreshToken /\ new.user = C.user /\ new.via = C.via
    /\ new.family = IF C.family = None THEN t ELSE C.family
    /\ C.via \in {"rotate", "grace"} => new.from = C.token
    /\ C.via = "link" => new.from = C.link

LEMMA SessionIssued ==
    ASSUME NEW D, NEW T, NEW U, NEW C, Start(D, T, C), Stage(C) = "issue", NEW t \in Tokens,
           D[RefreshRow(t)] = None,
           T.locks \subseteq U.locks, RefreshRow(t) \in DOMAIN U.writes,
           NewSession(C, t, U.writes[RefreshRow(t)]),
           Trusted(Seen(D, U, UserRow(C.user))),
           C.via = "rotate" => /\ RefreshRow(C.token) \in DOMAIN U.writes
                               /\ U.writes[RefreshRow(C.token)].used # None
    PROVE  SessionSound(D, U, t)
<1> DEFINE new == U.writes[RefreshRow(t)]
<1>1. Parameters(C) /\ Exchanges(D, T, C)
    BY DEF Start, Working
<1>2. C.via \in {"rotate", "grace"} =>
        LET row == RefreshRow(C.token)
        IN  /\ C.token \in Tokens /\ Locked(U, row) /\ Live(D[row]) /\ ~D[row].revoked
            /\ D[row].family = C.family
            /\ C.via = "rotate" => D[row].used = None
    BY <1>1 DEF Parameters, Exchanges, Locked
<1>3. C.via \in {"rotate", "grace"} => C.family # None
  <2> SUFFICES ASSUME C.via \in {"rotate", "grace"} PROVE C.family # None
    OBVIOUS
  <2>1. RefreshRow(C.token) \in Rows /\ RefreshRow(C.token)[1] = "refresh"
    BY <1>2, RowFacts
  <2>2. D[RefreshRow(C.token)] \in RefreshToken
    BY <1>2, <2>1, ValueFacts DEF Start, TypedRows
  <2>3. C.family \in Tokens
    BY <1>2, <2>2 DEF RefreshToken
  <2> QED BY <2>3, AuthAssumption
<1>4. C.via \notin {"rotate", "grace"} => C.family = None
    BY <1>1 DEF Parameters
<1>5. C.via = "link" =>
        LET row == LinkRow(C.link) IN C.link \in Links /\ Locked(U, row) /\ Live(D[row]) /\ ~D[row].used
    BY <1>1 DEF Parameters, Exchanges, Locked
<1>6. /\ new.user = C.user /\ new.via = C.via /\ new.family = IF C.family = None THEN t ELSE C.family
      /\ C.via \in {"rotate", "grace"} => new.from = C.token
      /\ C.via = "link" => new.from = C.link
    BY DEF NewSession
<1> HIDE DEF new
<1>7. SessionSound(D, U, t)
    BY <1>2, <1>3, <1>4, <1>5, <1>6 DEF SessionSound, new
<1> QED BY <1>7

\* A session is issued, and what it is exchanged for is spent.
LEMMA SessionKeeps ==
    ASSUME TypeOK, AuthInv, NEW h \in Handlers, At(h, "issue"), Blockers(h) = {}, UNCHANGED scenario,
           References(h, call[h].user), NEW t \in NewId("refresh", Tokens), NEW S, NEW new, NEW W,
           Spent(db, tx[h], call[h], S), NewSession(call[h], t, new), ~new.revoked,
           W = Over(S, Put(RefreshRow(t), new)), Continues(h, W, Rest(h))
    PROVE  TypeOK' /\ AuthInv'
<1> DEFINE C == call[h]
           T == tx[h]
           U == tx'[h]
           C2 == Rest(h)
           L == Wants(h)
           row == RefreshRow(t)
<1>1. /\ C.op # "none" /\ Start(db, T, C) /\ Stage(C) = "issue" /\ C.todo = {}
      /\ C.steps # <<>> /\ C.steps \in Seq(Statements) /\ Tail(C.steps) \in Seq(Statements)
    BY AtStage
<1>2. Advances(C, C2) /\ C2.user = C.user /\ C2.todo = {} /\ C2.via = C.via /\ C2.subject = C.subject
    BY <1>1, ZenonT(60) DEF Start, Advances, Rest, Call
<1>3. C.op # "logout" /\ C.user \in Users
  <2>1. C.op # "logout"
    BY <1>1, Shape DEF Before, Stage, Start, Working
  <2> QED BY <1>1, <2>1 DEF Start, Working, Parameters, Finding
<1> HIDE DEF C2
<1>4. Progress(C2) /\ Parameters(C2) /\ C2.op # "none" /\ Stage(C2) \notin Finding /\ Ordered(C, C2)
    BY <1>1, <1>2, <1>3, Advance DEF Start, Working
<1>5. Stage(C2) = "commit" /\ C.op # "delete"
    BY <1>1, <1>4 DEF Ordered, Leads
<1>6. t \in Tokens /\ db[row] = None /\ \A g \in Handlers : row \notin DOMAIN tx[g].writes
    BY Fresh DEF RefreshRow
<1>7. row \in Rows /\ row[1] = "refresh" /\ UserRow(C.user) \in Rows
    BY <1>3, <1>6, RowFacts
<1>8. new \in Stored(row) /\ Live(new)
    BY <1>7, ValueFacts DEF NewSession
<1>9. \A r \in DOMAIN S : r # row
    BY <1>6 DEF Spent, Live
<1>10. DOMAIN W = DOMAIN S \cup {row} /\ W[row] = new /\ \A r \in DOMAIN S : W[r] = S[r]
    BY <1>9 DEF Over, Put
<1>11. Grows(T, W, L, U) /\ L = {<<UserRow(C.user), "key_share">>}
    BY StatementGrows, WantsFacts DEF C2
<1> HIDE DEF L
<1>12. L \subseteq Lockable
    BY <1>7, <1>11 DEF Lockable, Modes
<1>13. Pins(U, C.user) /\ T.locks \subseteq U.locks
    BY <1>11 DEF Grows, Pins, Modes
<1>14. \A r \in DOMAIN W : r[1] \in {"refresh", "link"} /\ Live(W[r])
    BY <1>7, <1>8, <1>10 DEF Spent
<1>15. \A u \in Users : UserRow(u) \notin DOMAIN W /\ PasswordRow(u) \notin DOMAIN W
    BY <1>14, RowFacts
<1>16. /\ KeepsUsers(db, T, U) /\ Live(Seen(db, U, UserRow(C.user)))
       /\ Seen(db, U, UserRow(C.user)) = Seen(db, T, UserRow(C.user))
  <2>1. Grows(T, W, L, U) /\ \A u \in Users : UserRow(u) \notin DOMAIN W
    BY <1>11, <1>15
  <2>2. KeepsUsers(db, T, U) /\ \A u \in Users : Seen(db, U, UserRow(u)) = Seen(db, T, UserRow(u))
    BY <2>1, UsersKept, ZenonT(40)
  <2>3. Live(Seen(db, T, UserRow(C.user)))
    BY VisibleSeen DEF References
  <2> QED BY <1>3, <2>2, <2>3
<1>17. Trusted(Seen(db, U, UserRow(C.user)))
    BY <1>1, <1>3, <1>16 DEF Start, Working, UserKnown, Vouched
<1>18. Allowed(db, U, W)
  <2>1. ASSUME NEW r \in DOMAIN S
        PROVE  /\ r \in Rows /\ W[r] \in Stored(r) /\ WriteLocked(db, U, r) /\ Follows(r, db[r], W[r])
               /\ \A u \in Users : BelongsTo(r, W[r], u) => Referenced(db, U, r, u)
    <3>1. /\ r \in Rows /\ r[1] \in {"refresh", "link"} /\ Locked(T, r) /\ Live(db[r])
          /\ W[r] \in Stored(r) /\ Live(W[r]) /\ Follows(r, db[r], W[r]) /\ W[r].user = db[r].user
        BY <1>10, <2>1 DEF Spent
    <3>2. Locked(U, r)
        BY <1>13, <3>1 DEF Locked
    <3>3. \A u : BelongsTo(r, W[r], u) => BelongsTo(r, db[r], u)
        BY <3>1 DEF BelongsTo, OwnerOf
    <3> QED BY <3>1, <3>2, <3>3 DEF WriteLocked, Referenced
  <2>2. /\ row \in Rows /\ W[row] \in Stored(row) /\ WriteLocked(db, U, row) /\ Follows(row, db[row], W[row])
        /\ \A u \in Users : BelongsTo(row, W[row], u) => Referenced(db, U, row, u)
    <3>1. Follows(row, db[row], new)
        BY <1>6, <1>7, <1>8, AuthAssumption DEF Follows, Live
    <3>2. \A u : BelongsTo(row, new, u) => u = C.user
        BY <1>7 DEF BelongsTo, OwnerOf, NewSession
    <3> QED BY <1>6, <1>7, <1>8, <1>10, <1>13, <1>16, <3>1, <3>2 DEF WriteLocked, Referenced
  <2> QED BY <1>10, <2>1, <2>2 DEF Allowed
<1>19. TypedTx(U) /\ WritesLocked(db, U) /\ WritesFollow(db, U) /\ WritesReference(db, U)
    BY <1>1, <1>11, <1>12, <1>15, <1>18, GrownWrites DEF Start, Working
<1>20. row \in DOMAIN U.writes /\ U.writes[row] = new
    BY <1>10, <1>11 DEF Grows
<1>21. SessionSound(db, U, t)
  <2>1. C.via = "rotate" => RefreshRow(C.token) \in DOMAIN U.writes /\ U.writes[RefreshRow(C.token)].used # None
    <3> SUFFICES ASSUME C.via = "rotate"
                 PROVE  RefreshRow(C.token) \in DOMAIN U.writes /\ U.writes[RefreshRow(C.token)].used # None
        OBVIOUS
    <3> DEFINE r == RefreshRow(C.token)
    <3>1. CASE r \in DOMAIN S /\ S[r].used # None
        BY <1>10, <1>11, <3>1 DEF Grows
    <3>2. CASE r \notin DOMAIN S /\ r \in DOMAIN T.writes /\ T.writes[r].used # None
        BY <1>6, <1>10, <1>11, <3>2 DEF Grows
    <3> QED BY <3>1, <3>2 DEF Spent
  <2> QED BY <1>1, <1>6, <1>13, <1>17, <1>20, <2>1, SessionIssued
<1>22. NewTokens(db, U) = {t}
  <2>1. NewTokens(db, T) = {}
    BY <1>1, NoSessionYet DEF Start, Working
  <2>2. ASSUME NEW x \in NewTokens(db, U) PROVE x = t
    <3>1. x \in Tokens /\ RefreshRow(x) \in DOMAIN U.writes /\ db[RefreshRow(x)] = None
        BY <2>2 DEF NewTokens
    <3>2. RefreshRow(x) \notin DOMAIN S
        BY <3>1 DEF Spent, Live
    <3>3. RefreshRow(x) \notin DOMAIN T.writes
        BY <2>1, <3>1 DEF NewTokens
    <3>4. RefreshRow(x) = row
        BY <1>10, <1>11, <3>1, <3>2, <3>3 DEF Grows
    <3> QED BY <3>4 DEF RefreshRow
  <2> QED BY <1>6, <1>20, <2>2 DEF NewTokens
<1>23. SessionsSound(db, U, C2)
  <2>1. SessionsSound(db, T, C) /\ TypedTx(T)
    BY <1>1 DEF Start, Working
  <2>2. ASSUME NEW x \in Tokens, RefreshRow(x) \in DOMAIN U.writes, Live(db[RefreshRow(x)]),
               Live(U.writes[RefreshRow(x)])
        PROVE  U.writes[RefreshRow(x)].revoked \/ Pins(U, db[RefreshRow(x)].user)
    <3>1. RefreshRow(x) # row
        BY <1>6, <2>2 DEF Live
    <3>2. CASE RefreshRow(x) \in DOMAIN S
      <4>1. RefreshRow(x) # LinkRow(C.link)
        BY DEF RefreshRow, LinkRow
      <4> QED BY <1>13, <3>2, <4>1 DEF Spent
    <3>3. CASE RefreshRow(x) \notin DOMAIN S
      <4>1. RefreshRow(x) \in DOMAIN T.writes /\ U.writes[RefreshRow(x)] = T.writes[RefreshRow(x)]
        BY <1>10, <1>11, <2>2, <3>1, <3>3 DEF Grows
      <4>2. \A u : Pins(T, u) => Pins(U, u)
        BY <1>13 DEF Pins
      <4> QED BY <2>1, <2>2, <4>1, <4>2 DEF SessionsSound
    <3> QED BY <3>2, <3>3
  <2>3. ASSUME NEW s \in Subjects, IdentityRow(s) \in DOMAIN U.writes, Live(U.writes[IdentityRow(s)])
        PROVE  Trusted(Seen(db, U, UserRow(U.writes[IdentityRow(s)].user)))
    <3>1. IdentityRow(s) \notin DOMAIN W /\ IdentityRow(s) \in Rows /\ IdentityRow(s)[1] = "identity"
        BY <1>14, RowFacts
    <3>2. IdentityRow(s) \in DOMAIN T.writes /\ U.writes[IdentityRow(s)] = T.writes[IdentityRow(s)]
        BY <1>11, <2>3, <3>1 DEF Grows
    <3>3. Trusted(Seen(db, T, UserRow(T.writes[IdentityRow(s)].user)))
        BY <2>1, <2>3, <3>2 DEF SessionsSound
    <3>4. T.writes[IdentityRow(s)].user \in Users
        BY <2>1, <2>3, <3>1, <3>2, OwnerTyped DEF OwnerOf, TypedTx
    <3> QED BY <1>16, <3>2, <3>3, <3>4 DEF KeepsUsers
  <2> QED BY <1>2, <1>5, <1>21, <1>22, <2>2, <2>3 DEF SessionsSound
<1>24. UserKnown(db, U, C2)
    BY <1>2, <1>17, AuthAssumption DEF UserKnown, Trusted, Live
<1>25. Exchanges(db, U, C2)
    BY <1>5 DEF Exchanges
<1>26. ASSUME HasIdentity(T, C) PROVE HasIdentity(U, C2)
  <2>1. IdentityRow(C.subject) \notin DOMAIN W
    BY <1>14 DEF IdentityRow
  <2> QED BY <1>2, <1>11, <1>26, <2>1 DEF HasIdentity, Grows
<1>27. Logins(db, U, C2)
    BY <1>1, <1>2, <1>4, <1>11, <1>15, <1>26, GrownLogins DEF Start, Working, Advances
<1>28. Claiming(C) => Claiming(C2)
    BY <1>2, <1>5 DEF Claiming, Advances
<1>29. Deletes(db, U, C2)
    BY <1>1, <1>2, <1>5, <1>11, <1>14, <1>28, GrownDeletes DEF Start, Working, Advances
<1>30. Claims(db, U, C2)
  <2>1. CASE ~Claiming(C2)
    BY <2>1 DEF Claims
  <2>2. CASE Claiming(C2)
    <3>1. Claiming(C) /\ C.via = "claim"
        BY <1>1, <1>2, <2>2 DEF Claiming, Advances
    <3>2. DOMAIN S = {}
        BY <3>1 DEF Spent
    <3>3. \A r \in DOMAIN W : r[1] = "refresh" /\ W[r].via = "claim"
        BY <1>7, <1>10, <3>1, <3>2 DEF NewSession
    <3>4. HasIdentity(T, C)
        BY <1>1, <3>1 DEF Start, Working, Claims
    <3> QED BY <1>1, <1>2, <1>5, <1>11, <1>26, <3>1, <3>3, <3>4, GrownClaims DEF Start, Working
  <2> QED BY <2>1, <2>2
<1>31. Apart(h, W, U)
  <2>1. \A r \in DOMAIN S : Locked(U, r) /\ db[r] # None /\ r[1] \in {"refresh", "link"}
    BY <1>13 DEF Spent, Locked, Live
  <2> QED BY <1>6, <1>10, <2>1 DEF Apart
<1>32. Working(db, U, C2)
    BY <1>4, <1>19, <1>23, <1>24, <1>25, <1>27, <1>29, <1>30 DEF Working
<1> QED BY <1>2, <1>19, <1>31, <1>32, StatementKeeps DEF Advances, C2

LEMMA IssueKeeps ==
    ASSUME TypeOK, AuthInv, NEW h \in Handlers, Issue(h), UNCHANGED scenario
    PROVE  TypeOK' /\ AuthInv'
<1> DEFINE C == call[h]
           from == CASE C.via \in {"rotate", "grace"} -> C.token
                     [] C.via = "link" -> C.link
                     [] OTHER -> None
           S == CASE C.via = "rotate" -> MarkRefreshTokenUsed(h, C.token, C.began)
                  [] C.via = "link" -> MarkOneTimeTokenUsed(h, C.link)
                  [] OTHER -> NoWrites
           family(t) == IF C.family = None THEN t ELSE C.family
           new(t) == [user |-> C.user, family |-> family(t), expires |-> now + RefreshTTL, used |-> None,
                      revoked |-> FALSE, from |-> from, via |-> C.via]
<1>1. At(h, "issue") /\ Blockers(h) = {}
    BY DEF Issue, Runs
<1> SUFFICES ASSUME References(h, C.user), NEW t \in NewId("refresh", Tokens),
                    Continues(h, Over(S, Put(RefreshRow(t), new(t))), Rest(h))
             PROVE  TypeOK' /\ AuthInv'
    BY ReturnsKeeps DEF Issue, CreateRefreshToken
<1>2. C.op # "none" /\ Start(db, tx[h], C) /\ Stage(C) = "issue"
    BY <1>1, AtStage
<1>3. Spent(db, tx[h], C, S)
    BY <1>1, SpentSound
<1> HIDE DEF S
<1>4. t \in Tokens /\ now + RefreshTTL \in Nat
  <2>1. t \in Tokens
    BY Fresh
  <2>2. now \in Nat /\ RefreshTTL \in Nat
    BY AuthAssumption DEF TypeOK
  <2> QED BY <2>1, <2>2
<1>5. C.user \in Users
  <2>1. C.op # "logout"
    BY <1>2, Shape DEF Before, Stage, Start, Working
  <2> QED BY <1>2, <2>1 DEF Start, Working, Parameters, Finding
<1>6. /\ C.via \in {"password", "identity", "claim", "link", "rotate", "grace"}
      /\ C.family \in Tokens \cup {None}
      /\ C.token \in Tokens \cup {None} /\ C.link \in Links \cup {None}
    BY <1>2 DEF Start, Working, Parameters, Call
<1>7. /\ from \in Tokens \cup Links \cup {None}
      /\ C.via \in {"rotate", "grace"} => from = C.token
      /\ C.via = "link" => from = C.link
    BY <1>6
<1>8. family(t) \in Tokens
    BY <1>4, <1>6
<1> HIDE DEF from, family
<1>9. new(t) \in RefreshToken /\ ~new(t).revoked
    BY <1>4, <1>5, <1>6, <1>7, <1>8 DEF RefreshToken
<1>10. NewSession(C, t, new(t))
    BY <1>7, <1>9 DEF NewSession, family
<1> HIDE DEF new
<1> QED BY <1>1, <1>3, <1>9, <1>10, SessionKeeps

-----------------------------------------------------------------------------
(* The commit of a request, its end and its beginning *)

\* A request that has no transaction open.
LEMMA NoTxWorks ==
    ASSUME NEW D, NEW C, C.op # "none", Progress(C), Parameters(C), UserKnown(D, NoTx, C), Exchanges(D, NoTx, C),
           ~Deleting(C), ~Claiming(C)
    PROVE  Working(D, NoTx, C)
<1>1. DOMAIN NoTx.writes = {}
    BY DEF NoTx, NoWrites
<1>2. WritesLocked(D, NoTx) /\ WritesFollow(D, NoTx) /\ WritesReference(D, NoTx)
    BY <1>1 DEF WritesLocked, WritesFollow, WritesReference
<1>3. SessionsSound(D, NoTx, C)
    BY <1>1 DEF SessionsSound, NewTokens
<1>4. Logins(D, NoTx, C) /\ Deletes(D, NoTx, C) /\ Claims(D, NoTx, C)
    BY <1>1 DEF Logins, Adds, Deletes, Claims
<1> QED BY <1>2, <1>3, <1>4 DEF Working

LEMMA LastTail == ASSUME NEW S, NEW q \in Seq(S), q # <<>>, Tail(q) = <<>> PROVE Len(q) = 1
<1>1. Len(Tail(q)) = Len(q) - 1 /\ Len(q) \in Nat
    OBVIOUS
<1>2. Len(<<>>) = 0
    OBVIOUS
<1>3. Len(q) - 1 = 0
    BY <1>1, <1>2, Zenon
<1> QED BY <1>1, <1>3

\* Only a change of password goes on after a commit.
LEMMA CommitEnds ==
    ASSUME NEW C \in Call, C.op # "none", Progress(C), Stage(C) = "commit", C.steps # <<>>
    PROVE  \/ Len(C.steps) = 1
           \/ C.op = "changePassword" /\ Tail(C.steps) = <<"revoke", "commit">>
<1>1. C.steps \in Seq(Statements)
    BY DEF Call
<1>2. \/ Tail(C.steps) = <<>>
      \/ C.op = "changePassword" /\ Tail(C.steps) = <<"revoke", "commit">>
  <2>1. C.op \in {"register", "createAdmin", "resend", "forgot", "verify", "reset", "login", "refresh",
                  "logout", "changePassword", "delete", "federated", "link"}
    BY DEF Call
  <2> QED BY <2>1, Shape DEF Before, Stage
<1>3. Tail(C.steps) = <<>> => Len(C.steps) = 1
    BY <1>1, LastTail
<1> QED BY <1>2, <1>3

\* What SetPassword has left when the password is stored.
LEMMA PasswordStored ==
    ASSUME NEW D, NEW E, NEW T, NEW C, NEW C2, Start(D, T, C), Stage(C) = "commit", Committed(D, T, E),
           C.op = "changePassword", Tail(C.steps) = <<"revoke", "commit">>, C.todo = {},
           C2 = [C EXCEPT !.steps = Tail(@)]
    PROVE  C2 \in Call /\ Working(E, NoTx, C2)
<1>1. C \in Call /\ Parameters(C) /\ UserKnown(D, T, C) /\ WritesFollow(D, T)
    BY DEF Start, Working
<1>2. /\ C2.op = "changePassword" /\ C2.steps = <<"revoke", "commit">> /\ C2.todo = {}
      /\ C2.user = C.user /\ C2.password = C.password /\ C2.family = C.family /\ C2.via = C.via
    BY <1>1 DEF Call
<1>3. <<"revoke", "commit">> \in Seq(Statements)
    BY DEF Statements
<1>4. C2 \in Call
    BY <1>1, <1>3 DEF Call
<1>5. Stage(C2) = "revoke"
    BY <1>2, Tuples, Zenon DEF Stage
<1>6. Progress(C2)
    BY <1>2, Zenon DEF Progress
<1>7. Parameters(C2)
    BY <1>1, <1>2, <1>5 DEF Parameters, Finding
<1>8. UserKnown(E, NoTx, C2)
  <2>1. C.user \in Users /\ UserRow(C.user) \in Rows
    BY <1>1, RowFacts DEF Parameters
  <2>2. Seen(D, T, UserRow(C.user)) # None
    BY <1>1, <2>1 DEF UserKnown
  <2>3. E[UserRow(C.user)] # None
    BY <2>1, <2>2 DEF Committed
  <2>4. Seen(E, NoTx, UserRow(C.user)) = E[UserRow(C.user)]
    BY DEF Seen, NoTx, NoWrites
  <2> QED BY <1>2, <1>5, <2>3, <2>4 DEF UserKnown, Vouched
<1>9. Exchanges(E, NoTx, C2) /\ ~Deleting(C2) /\ ~Claiming(C2)
    BY <1>2 DEF Exchanges, Deleting, Claiming
<1> QED BY <1>2, <1>4, <1>6, <1>7, <1>8, <1>9, NoTxWorks

\* Handler h commits its transaction.
LEMMA CommitBegins ==
    ASSUME TypeOK, AuthInv, NEW h \in Handlers, Commit(h)
    PROVE  /\ Commits(db, db', tx[h], call[h]) /\ WritesLocked(db, tx[h]) /\ Start(db, tx[h], call[h])
           /\ At(h, "commit")
<1>1. At(h, "commit") /\ db' = Over(tx[h].writes, db)
    BY DEF Commit, Runs, CommitTx
<1>2. Start(db, tx[h], call[h]) /\ Stage(call[h]) = "commit" /\ call[h].todo = {}
    BY <1>1, AtStage
<1>3. Committed(db, tx[h], db')
    BY <1>1, <1>2 DEF Committed, Over, Seen, Start, TypedRows, TypedTx
<1> QED BY <1>1, <1>2, <1>3 DEF Commits, Start, Working

LEMMA CommitKeeps ==
    ASSUME TypeOK, AuthInv, NEW h \in Handlers, Commit(h), UNCHANGED scenario
    PROVE  TypeOK' /\ AuthInv'
<1> DEFINE C == call[h]
           T == tx[h]
           C2 == IF Len(C.steps) = 1 THEN Idle ELSE Rest(h)
<1>1. Commits(db, db', T, C) /\ WritesLocked(db, T) /\ Start(db, T, C) /\ At(h, "commit")
    BY CommitBegins
<1>2. /\ RowsSound(db, principals) /\ principals \in SUBSET Users
      /\ DOMAIN tx = Handlers /\ DOMAIN call = Handlers
    BY Typing DEF AuthInv
<1>3. /\ tx' = [tx EXCEPT ![h] = NoTx]
      /\ call' = [call EXCEPT ![h] = C2]
      /\ principals' = principals \cup {T.writes[RefreshRow(t)].user : t \in
                           {t \in Tokens : RefreshRow(t) \in DOMAIN T.writes /\ T.writes[RefreshRow(t)] # Gone}}
      /\ now' = now /\ faults' = faults
    BY <1>2 DEF Commit, CommitTx
<1>4. /\ tx'[h] = NoTx /\ call'[h] = C2
      /\ \A g \in Handlers \ {h} : tx'[g] = tx[g] /\ call'[g] = call[g]
      /\ DOMAIN tx' = Handlers /\ DOMAIN call' = Handlers
    BY <1>2, <1>3
<1>5. C2 \in Call /\ HandlerSound(db', NoTx, C2) /\ (C2.op = "none" => C2 = Idle)
  <2>1. C \in Call /\ C.op # "none" /\ Progress(C) /\ Stage(C) = "commit" /\ C.steps # <<>> /\ C.todo = {}
    BY <1>1 DEF Start, Working, Commits, At
  <2>2. CASE Len(C.steps) = 1
    <3>1. Idle \in Call
        BY DEF Idle, Call, Vias
    <3> QED BY <2>2, <3>1 DEF HandlerSound
  <2>3. CASE Len(C.steps) # 1
    <3>1. C.op = "changePassword" /\ Tail(C.steps) = <<"revoke", "commit">>
        BY <2>1, <2>3, CommitEnds
    <3>2. C2 = [C EXCEPT !.steps = Tail(@)]
        BY <2>3 DEF Rest
    <3>3. Committed(db, T, db')
        BY <1>1 DEF Commits
    <3> HIDE DEF C2
    <3>4. C2 \in Call /\ Working(db', NoTx, C2)
        BY <1>1, <2>1, <3>1, <3>2, <3>3, PasswordStored
    <3> QED BY <3>4 DEF HandlerSound, Working
  <2> QED BY <2>2, <2>3
<1> HIDE DEF C2
<1>6. TypedRows(db') /\ TypedTx(NoTx)
  <2>1. TypedRows(db')
    BY <1>1, CommitTyped DEF Commits
  <2> QED BY <2>1 DEF TypedTx, NoTx, NoWrites
<1>7. HoldersTrusted(db', principals') /\ principals' \subseteq Users
    BY <1>1, <1>2, <1>3, CommitHolders DEF RowsSound
<1>8. RowsSound(db', principals')
  <2>1. OwnersLive(db') /\ FamiliesKept(db')
    BY <1>1, <1>2, CommitOwners, CommitFamilies DEF RowsSound
  <2>2. RotatedOnceIn(db') /\ LoginKept(db')
    BY <1>1, <1>2, CommitRotation, CommitLogins DEF RowsSound
  <2> QED BY <1>7, <2>1, <2>2 DEF RowsSound
<1>9. TypeOK'
  <2>1. \A g \in Handlers : /\ TypedTx(tx'[g]) /\ call'[g] \in Call
                            /\ call'[g].op = "none" => call'[g] = Idle /\ tx'[g] = NoTx
    BY <1>4, <1>5, <1>6, Typing
  <2>2. now' \in 0..scenario'.until /\ faults' \in 0..scenario'.faults
    BY <1>3, Typing
  <2> QED BY <1>4, <1>6, <1>7, <2>1, <2>2 DEF TypeOK, TypedRows, TypedTx
<1>10. ASSUME NEW g \in Handlers \ {h} PROVE HandlerSound(db', tx[g], call[g])
  <2>1. HandlerSound(db, tx[g], call[g]) /\ Exclusive(tx[g], T)
    BY <1>10 DEF AuthInv
  <2>2. TypedTx(tx[g]) /\ call[g] \in Call
    BY <1>10, Typing
  <2>3. Beside(db, db', tx[g], T, C)
    BY <1>1, <2>1, <2>2 DEF Beside, Commits, Start
  <2> QED BY <2>1, <2>2, <2>3, HandlerFramed
<1>11. \A X : Exclusive(X, NoTx) /\ Exclusive(NoTx, X)
    BY DEF Exclusive, NoTx, NoWrites
<1>12. AuthInv'
  <2>1. \A g \in Handlers : HandlerSound(db', tx'[g], call'[g])
    BY <1>4, <1>5, <1>10
  <2>2. \A g, k \in Handlers : g # k => Exclusive(tx'[g], tx'[k])
    BY <1>4, <1>11 DEF AuthInv
  <2> QED BY <1>8, <2>1, <2>2 DEF AuthInv
<1> QED BY <1>9, <1>12

LEMMA Methods ==
    /\ Register \in Seq(Statements) /\ ResendVerification \in Seq(Statements)
    /\ ForgotPassword \in Seq(Statements) /\ VerifyEmail \in Seq(Statements)
    /\ ResetPassword \in Seq(Statements) /\ Login \in Seq(Statements) /\ Refresh \in Seq(Statements)
    /\ Logout \in Seq(Statements) /\ ChangePassword \in Seq(Statements)
    /\ DeleteAccount \in Seq(Statements) /\ FederatedLogin \in Seq(Statements)
    /\ LinkFederated \in Seq(Statements) /\ CreateAdmin \in Seq(Statements)
<1>1. /\ Register \in Seq(Statements) /\ ResendVerification \in Seq(Statements)
      /\ ForgotPassword \in Seq(Statements) /\ VerifyEmail \in Seq(Statements)
    BY DEF Register, ResendVerification, ForgotPassword, VerifyEmail, Statements
<1>2. /\ ResetPassword \in Seq(Statements) /\ Login \in Seq(Statements) /\ Refresh \in Seq(Statements)
      /\ Logout \in Seq(Statements)
    BY DEF ResetPassword, Login, Refresh, Logout, Statements
<1>3. ChangePassword \in Seq(Statements)
    BY DEF ChangePassword, SetPassword, Statements
<1>4. /\ DeleteAccount \in Seq(Statements) /\ FederatedLogin \in Seq(Statements)
      /\ LinkFederated \in Seq(Statements) /\ CreateAdmin \in Seq(Statements)
    BY DEF DeleteAccount, FederatedLogin, LinkFederated, CreateAdmin, Statements
<1> QED BY <1>1, <1>2, <1>3, <1>4

LEMMA ChangePasswordSteps == ChangePassword = <<"read_credential", "set_password", "commit", "revoke", "commit">>
<1> DEFINE steps == <<"read_credential", "set_password", "commit", "revoke", "commit">>
<1>1. Len(ChangePassword) = 5 /\ ChangePassword \in Seq(Statements)
    BY DEF ChangePassword, SetPassword, Statements
<1>2. /\ ChangePassword[1] = "read_credential" /\ ChangePassword[2] = "set_password"
      /\ ChangePassword[3] = "commit" /\ ChangePassword[4] = "revoke" /\ ChangePassword[5] = "commit"
    BY DEF ChangePassword, SetPassword
<1>3. ChangePassword = [i \in 1..5 |-> ChangePassword[i]]
    BY <1>1
<1>4. steps = [i \in 1..5 |-> steps[i]]
    OBVIOUS
<1>5. \A i \in 1..5 : ChangePassword[i] = steps[i]
    BY <1>2
<1> QED BY <1>3, <1>4, <1>5

\* A request that its handler begins to serve.
Begins(h, C) ==
    /\ call[h].op = "none" /\ call' = [call EXCEPT ![h] = C]
    /\ UNCHANGED <<db, tx, now, principals, faults>>

LEMMA BeginKeeps ==
    ASSUME TypeOK, AuthInv, NEW h \in Handlers, UNCHANGED scenario, NEW C \in Call, Begins(h, C),
           C.op # "none", Progress(C), Parameters(C), C.via = "none",
           Stage(C) \in Finding \/ C.op \in {"logout", "delete"}, Stage(C) # "commit",
           C.user = None \/ C.user \in principals
    PROVE  TypeOK' /\ AuthInv'
<1>1. /\ DOMAIN call = Handlers /\ call'[h] = C /\ \A g \in Handlers \ {h} : call'[g] = call[g]
      /\ DOMAIN call' = Handlers
    BY Typing DEF Begins
<1>2. tx[h] = NoTx /\ RowsSound(db, principals) /\ principals \subseteq Users
    BY Typing DEF Begins, AuthInv
<1>3. UserKnown(db, NoTx, C)
  <2>1. CASE C.user = None
    BY <2>1, AuthAssumption DEF UserKnown
  <2>2. CASE C.user \in principals
    <3>1. Trusted(db[UserRow(C.user)])
        BY <1>2, <2>2 DEF RowsSound, HoldersTrusted
    <3>2. Seen(db, NoTx, UserRow(C.user)) = db[UserRow(C.user)]
        BY DEF Seen, NoTx, NoWrites
    <3>3. Gone # None
        BY AuthAssumption
    <3> QED BY <3>1, <3>2, <3>3 DEF UserKnown, Trusted, Live
  <2> QED BY <2>1, <2>2
<1>4. Exchanges(db, NoTx, C) /\ ~Deleting(C) /\ ~Claiming(C)
    BY DEF Exchanges, Deleting, Claiming, Finding
<1>5. Working(db, NoTx, C)
    BY <1>3, <1>4, NoTxWorks
<1>6. TypeOK'
    BY <1>1 DEF TypeOK, Begins
<1>7. AuthInv'
  <2>1. \A g \in Handlers : HandlerSound(db, tx[g], call'[g])
    BY <1>1, <1>2, <1>5 DEF AuthInv, HandlerSound
  <2> QED BY <2>1 DEF AuthInv, Begins
<1> QED BY <1>6, <1>7

-----------------------------------------------------------------------------
(* The endpoints *)

\* A request as it comes in: its method, and the parameters that method has.
Asks(op, method, u, t, l, e, s, new) ==
    \/ op = "register" /\ method = Register /\ u = None /\ e \in Emails /\ new \in Passwords
    \/ op = "createAdmin" /\ method = CreateAdmin /\ u = None /\ e \in Emails /\ new \in Passwords
    \/ op = "resend" /\ method = ResendVerification /\ u = None
    \/ op = "forgot" /\ method = ForgotPassword /\ u = None
    \/ op = "verify" /\ method = VerifyEmail /\ u = None /\ l \in Links
    \/ op = "reset" /\ method = ResetPassword /\ u = None /\ l \in Links /\ new \in Passwords
    \/ op = "login" /\ method = Login /\ u = None
    \/ op = "refresh" /\ method = Refresh /\ u = None /\ t \in Tokens
    \/ op = "logout" /\ method = Logout /\ u = None /\ t \in Tokens
    \/ op = "changePassword" /\ method = ChangePassword /\ u \in principals /\ new \in Passwords
    \/ op = "delete" /\ method = DeleteAccount /\ u \in principals
    \/ op = "federated" /\ method = FederatedLogin /\ u = None /\ e \in Emails /\ s \in Subjects
    \/ op = "link" /\ method = LinkFederated /\ u \in principals /\ s \in Subjects

\* The parameters of a request, all others left as they are in Idle.
Carries(r, u, t, l, e, s, new) ==
    /\ r \in Call /\ r.todo = {} /\ r.family = None /\ r.via = "none"
    /\ r.user = u /\ r.token = t /\ r.link = l /\ r.email = e /\ r.subject = s /\ r.password = new

LEMMA IdleCarries == Carries(Idle, None, None, None, None, None, None)
<1>1. Idle \in Call
    BY DEF Idle, Call, Vias
<1> QED BY <1>1 DEF Idle, Carries

LEMMA AskKeeps ==
    ASSUME TypeOK, AuthInv, NEW h \in Handlers, UNCHANGED scenario, NEW op, NEW method, NEW request,
           Serve(h, op, method, request), NEW u, NEW t, NEW l, NEW e, NEW s, NEW new,
           Carries(request, u, t, l, e, s, new), Asks(op, method, u, t, l, e, s, new)
    PROVE  TypeOK' /\ AuthInv'
<1> DEFINE C == [request EXCEPT !.op = op, !.steps = method]
<1>1. method \in Seq(Statements)
    BY Methods DEF Asks
<1>2. /\ op \in {"register", "createAdmin", "resend", "forgot", "verify", "reset", "login", "refresh",
                 "logout", "changePassword", "delete", "federated", "link"}
      /\ u = None \/ u \in principals
    BY DEF Asks
<1>3. principals \subseteq Users
    BY Typing
<1>4. C \in Call
  <2>1. request \in Call
    BY DEF Carries
  <2> QED BY <1>1, <1>2, <2>1, ZenonT(60) DEF Call
<1>5. /\ C.op = op /\ C.steps = method /\ C.todo = {} /\ C.user = u /\ C.token = t /\ C.link = l /\ C.email = e
      /\ C.subject = s /\ C.password = new /\ C.family = None /\ C.via = "none"
    BY DEF Call, Carries
<1>0. Begins(h, C)
    BY DEF Serve, Begins, Busy
<1> HIDE DEF C
<1>6. /\ op \in {"register", "createAdmin"} => Stage(C) = "insert_user"
      /\ op \in {"resend", "forgot"} => Stage(C) = "read_user"
      /\ op \in {"verify", "reset"} => Stage(C) = "lock_link"
      /\ op \in {"login", "changePassword"} => Stage(C) = "read_credential"
      /\ op = "refresh" => Stage(C) = "lock_token"
      /\ op = "logout" => Stage(C) = "revoke"
      /\ op = "delete" => Stage(C) = "delete"
      /\ op \in {"federated", "link"} => Stage(C) = "read_identity"
  <2>1. /\ op \in {"register", "createAdmin"} => method = Register
        /\ op = "resend" => method = ResendVerification
        /\ op = "forgot" => method = ForgotPassword
        /\ op = "verify" => method = VerifyEmail
        /\ op = "reset" => method = ResetPassword
        /\ op = "login" => method = Login
        /\ op = "changePassword" =>
              method = <<"read_credential", "set_password", "commit", "revoke", "commit">>
    BY ChangePasswordSteps DEF Asks, CreateAdmin, Register
  <2>2. /\ op = "refresh" => method = Refresh
        /\ op = "logout" => method = Logout
        /\ op = "delete" => method = DeleteAccount
        /\ op = "federated" => method = FederatedLogin
        /\ op = "link" => method = LinkFederated
    BY DEF Asks
  <2>3. /\ Head(Register) = "insert_user"
        /\ Head(ResendVerification) = "read_user" /\ Head(ForgotPassword) = "read_user"
        /\ Head(VerifyEmail) = "lock_link" /\ Head(ResetPassword) = "lock_link"
        /\ Head(Login) = "read_credential"
        /\ Head(<<"read_credential", "set_password", "commit", "revoke", "commit">>) = "read_credential"
        /\ Head(Refresh) = "lock_token" /\ Head(Logout) = "revoke" /\ Head(DeleteAccount) = "delete"
        /\ Head(FederatedLogin) = "read_identity" /\ Head(LinkFederated) = "read_identity"
    BY Tuples
  <2> QED BY <1>5, <2>1, <2>2, <2>3, ZenonT(60) DEF Stage
<1>7. Progress(C)
  <2>1. /\ op \in {"register", "createAdmin"} => method = Register
        /\ op = "changePassword" =>
              method = <<"read_credential", "set_password", "commit", "revoke", "commit">>
    BY ChangePasswordSteps DEF Asks, CreateAdmin, Register
  <2>2. /\ op = "resend" => method = ResendVerification
        /\ op = "forgot" => method = ForgotPassword
        /\ op = "verify" => method = VerifyEmail
        /\ op = "reset" => method = ResetPassword
        /\ op = "login" => method = Login
        /\ op = "refresh" => method = Refresh
        /\ op = "logout" => method = Logout
        /\ op = "delete" => method = DeleteAccount
        /\ op = "federated" => method = FederatedLogin
        /\ op = "link" => method = LinkFederated
    BY DEF Asks
  <2> QED BY <1>5, <2>1, <2>2, ZenonT(60) DEF Progress
<1>8. /\ op \in {"register", "createAdmin", "federated"} => e \in Emails
      /\ op \in {"register", "createAdmin", "reset", "changePassword"} => new \in Passwords
      /\ op \in {"federated", "link"} => s \in Subjects
      /\ op \in {"refresh", "logout"} => t \in Tokens
      /\ op \in {"verify", "reset"} => l \in Links
      /\ op \in {"link", "delete", "changePassword"} => u \in Users
    BY <1>3 DEF Asks
<1>9. Stage(C) \in Finding \/ op \in {"logout", "delete"}
    BY <1>2, <1>6 DEF Finding
<1>10. Stage(C) \notin {"commit", "issue"}
    BY <1>2, <1>6
<1>11. Parameters(C)
    BY <1>5, <1>6, <1>8, <1>9, <1>10 DEF Parameters
<1>12. C.op # "none" /\ C.via = "none" /\ (C.user = None \/ C.user \in principals)
      /\ (Stage(C) \in Finding \/ C.op \in {"logout", "delete"}) /\ Stage(C) # "commit"
    BY <1>2, <1>5, <1>9, <1>10
<1> QED BY <1>0, <1>4, <1>7, <1>11, <1>12, BeginKeeps

\* The parameters that a request leaves open, and what it reads of the bounds.
LEMMA AskFacts ==
    ASSUME TypeOK
    PROVE  /\ scenario.emails \subseteq Emails /\ now \in Nat /\ principals \subseteq Users
           /\ SubjectEmail \in [Subjects -> Emails]
           /\ Issued("link") \subseteq Links /\ Issued("refresh") \subseteq Tokens
<1>1. scenario.emails \subseteq Emails /\ scenario.until \in Nat
    BY AuthAssumption DEF TypeOK
<1>2. now \in Nat
    BY <1>1 DEF TypeOK
<1>3. Issued("link") \subseteq Links /\ Issued("refresh") \subseteq Tokens
    BY DEF Issued, IdsOf
<1> QED BY <1>1, <1>2, <1>3, AuthAssumption DEF TypeOK

LEMMA RequestKeeps ==
    ASSUME TypeOK, AuthInv, NEW h \in Handlers, Request(h), UNCHANGED scenario
    PROVE  TypeOK' /\ AuthInv'
<1>0. /\ Idle \in Call /\ Idle.todo = {} /\ Idle.family = None /\ Idle.via = "none"
      /\ Idle.user = None /\ Idle.token = None
      /\ Idle.link = None /\ Idle.email = None /\ Idle.subject = None /\ Idle.password = None
    BY IdleCarries DEF Carries
<1>1. CASE PostRegister(h)
  <2>1. PICK e \in scenario.emails, p \in Passwords :
            Serve(h, "register", Register, [Idle EXCEPT !.email = e, !.password = p])
    BY <1>1 DEF PostRegister
  <2>2. e \in Emails
    BY AskFacts
  <2>3. Carries([Idle EXCEPT !.email = e, !.password = p], None, None, None, e, None, p)
    <3>1. [Idle EXCEPT !.email = e, !.password = p] \in Call
        BY <2>2, <1>0 DEF Call
    <3> QED BY <1>0, <3>1 DEF Carries, Call
  <2>4. Asks("register", Register, None, None, None, e, None, p)
    BY <2>2 DEF Asks
  <2> QED BY <2>1, <2>3, <2>4, AskKeeps
<1>2. CASE RunCreateAdmin(h)
  <2>1. PICK e \in scenario.emails, p \in Passwords :
            Serve(h, "createAdmin", CreateAdmin, [Idle EXCEPT !.email = e, !.password = p])
    BY <1>2 DEF RunCreateAdmin
  <2>2. e \in Emails
    BY AskFacts
  <2>3. Carries([Idle EXCEPT !.email = e, !.password = p], None, None, None, e, None, p)
    <3>1. [Idle EXCEPT !.email = e, !.password = p] \in Call
        BY <2>2, <1>0 DEF Call
    <3> QED BY <1>0, <3>1 DEF Carries, Call
  <2>4. Asks("createAdmin", CreateAdmin, None, None, None, e, None, p)
    BY <2>2 DEF Asks
  <2> QED BY <2>1, <2>3, <2>4, AskKeeps
<1>3. CASE PostResendVerification(h)
  <2>1. PICK e \in scenario.emails : Serve(h, "resend", ResendVerification, [Idle EXCEPT !.email = e])
    BY <1>3 DEF PostResendVerification
  <2>2. e \in Emails
    BY AskFacts
  <2>3. Carries([Idle EXCEPT !.email = e], None, None, None, e, None, None)
    <3>1. [Idle EXCEPT !.email = e] \in Call
        BY <2>2, <1>0 DEF Call
    <3> QED BY <1>0, <3>1 DEF Carries, Call
  <2>4. Asks("resend", ResendVerification, None, None, None, e, None, None)
    BY DEF Asks
  <2> QED BY <2>1, <2>3, <2>4, AskKeeps
<1>4. CASE PostForgotPassword(h)
  <2>1. PICK e \in scenario.emails : Serve(h, "forgot", ForgotPassword, [Idle EXCEPT !.email = e])
    BY <1>4 DEF PostForgotPassword
  <2>2. e \in Emails
    BY AskFacts
  <2>3. Carries([Idle EXCEPT !.email = e], None, None, None, e, None, None)
    <3>1. [Idle EXCEPT !.email = e] \in Call
        BY <2>2, <1>0 DEF Call
    <3> QED BY <1>0, <3>1 DEF Carries, Call
  <2>4. Asks("forgot", ForgotPassword, None, None, None, e, None, None)
    BY DEF Asks
  <2> QED BY <2>1, <2>3, <2>4, AskKeeps
<1>5. CASE PostVerifyEmail(h)
  <2>1. PICK l \in Issued("link") : Serve(h, "verify", VerifyEmail, [Idle EXCEPT !.link = l])
    BY <1>5 DEF PostVerifyEmail
  <2>2. l \in Links
    BY AskFacts
  <2>3. Carries([Idle EXCEPT !.link = l], None, None, l, None, None, None)
    <3>1. [Idle EXCEPT !.link = l] \in Call
        BY <2>2, <1>0 DEF Call
    <3> QED BY <1>0, <3>1 DEF Carries, Call
  <2>4. Asks("verify", VerifyEmail, None, None, l, None, None, None)
    BY <2>2 DEF Asks
  <2> QED BY <2>1, <2>3, <2>4, AskKeeps
<1>6. CASE PostResetPassword(h)
  <2>1. PICK l \in Issued("link"), p \in Passwords :
            Serve(h, "reset", ResetPassword, [Idle EXCEPT !.link = l, !.password = p])
    BY <1>6 DEF PostResetPassword
  <2>2. l \in Links
    BY AskFacts
  <2>3. Carries([Idle EXCEPT !.link = l, !.password = p], None, None, l, None, None, p)
    <3>1. [Idle EXCEPT !.link = l, !.password = p] \in Call
        BY <2>2, <1>0 DEF Call
    <3> QED BY <1>0, <3>1 DEF Carries, Call
  <2>4. Asks("reset", ResetPassword, None, None, l, None, None, p)
    BY <2>2 DEF Asks
  <2> QED BY <2>1, <2>3, <2>4, AskKeeps
<1>7. CASE PostLogin(h)
  <2>1. PICK e \in scenario.emails, p \in Passwords :
            Serve(h, "login", Login, [Idle EXCEPT !.email = e, !.current = p])
    BY <1>7 DEF PostLogin
  <2>2. e \in Emails
    BY AskFacts
  <2>3. Carries([Idle EXCEPT !.email = e, !.current = p], None, None, None, e, None, None)
    <3>1. [Idle EXCEPT !.email = e, !.current = p] \in Call
        BY <2>2, <1>0 DEF Call
    <3> QED BY <1>0, <3>1 DEF Carries, Call
  <2>4. Asks("login", Login, None, None, None, e, None, None)
    BY DEF Asks
  <2> QED BY <2>1, <2>3, <2>4, AskKeeps
<1>8. CASE PostRefresh(h)
  <2>1. PICK t \in Issued("refresh") : Serve(h, "refresh", Refresh, [Idle EXCEPT !.token = t, !.began = now])
    BY <1>8 DEF PostRefresh
  <2>2. t \in Tokens /\ now \in Nat
    BY AskFacts
  <2>3. Carries([Idle EXCEPT !.token = t, !.began = now], None, t, None, None, None, None)
    <3>1. [Idle EXCEPT !.token = t, !.began = now] \in Call
        BY <2>2, <1>0 DEF Call
    <3> QED BY <1>0, <3>1 DEF Carries, Call
  <2>4. Asks("refresh", Refresh, None, t, None, None, None, None)
    BY <2>2 DEF Asks
  <2> QED BY <2>1, <2>3, <2>4, AskKeeps
<1>9. CASE PostLogout(h)
  <2>1. PICK t \in Issued("refresh") : Serve(h, "logout", Logout, [Idle EXCEPT !.token = t])
    BY <1>9 DEF PostLogout
  <2>2. t \in Tokens
    BY AskFacts
  <2>3. Carries([Idle EXCEPT !.token = t], None, t, None, None, None, None)
    <3>1. [Idle EXCEPT !.token = t] \in Call
        BY <2>2, <1>0 DEF Call
    <3> QED BY <1>0, <3>1 DEF Carries, Call
  <2>4. Asks("logout", Logout, None, t, None, None, None, None)
    BY <2>2 DEF Asks
  <2> QED BY <2>1, <2>3, <2>4, AskKeeps
<1>10. CASE PostFederatedLogin(h)
  <2>1. PICK s \in Subjects :
            Serve(h, "federated", FederatedLogin, [Idle EXCEPT !.subject = s, !.email = SubjectEmail[s]])
    BY <1>10 DEF PostFederatedLogin
  <2>2. SubjectEmail[s] \in Emails
    BY AskFacts
  <2>3. Carries([Idle EXCEPT !.subject = s, !.email = SubjectEmail[s]], None, None, None, SubjectEmail[s],
              s, None)
    <3>1. [Idle EXCEPT !.subject = s, !.email = SubjectEmail[s]] \in Call
        BY <2>2, <1>0 DEF Call
    <3> QED BY <1>0, <3>1 DEF Carries, Call
  <2>4. Asks("federated", FederatedLogin, None, None, None, SubjectEmail[s], s, None)
    BY <2>2 DEF Asks
  <2> QED BY <2>1, <2>3, <2>4, AskKeeps
<1>11. CASE PostLinkFederated(h)
  <2>1. PICK u \in principals, s \in Subjects :
            Serve(h, "link", LinkFederated, [Idle EXCEPT !.user = u, !.subject = s])
    BY <1>11 DEF PostLinkFederated
  <2>2. u \in Users
    BY AskFacts
  <2>3. Carries([Idle EXCEPT !.user = u, !.subject = s], u, None, None, None, s, None)
    <3>1. [Idle EXCEPT !.user = u, !.subject = s] \in Call
        BY <2>2, <1>0 DEF Call
    <3> QED BY <1>0, <3>1 DEF Carries, Call
  <2>4. Asks("link", LinkFederated, u, None, None, None, s, None)
    BY DEF Asks
  <2> QED BY <2>1, <2>3, <2>4, AskKeeps
<1>12. CASE PostChangePassword(h)
  <2>1. PICK u \in principals, old, new \in Passwords :
            Serve(h, "changePassword", ChangePassword,
                  [Idle EXCEPT !.user = u, !.current = old, !.password = new])
    BY <1>12 DEF PostChangePassword
  <2>2. u \in Users
    BY AskFacts
  <2>3. Carries([Idle EXCEPT !.user = u, !.current = old, !.password = new], u, None, None, None, None, new)
    <3>1. [Idle EXCEPT !.user = u, !.current = old, !.password = new] \in Call
        BY <2>2, <1>0 DEF Call
    <3> QED BY <1>0, <3>1 DEF Carries, Call
  <2>4. Asks("changePassword", ChangePassword, u, None, None, None, None, new)
    BY DEF Asks
  <2> QED BY <2>1, <2>3, <2>4, AskKeeps
<1>13. CASE DeleteMe(h)
  <2>1. PICK u \in principals : Serve(h, "delete", DeleteAccount, [Idle EXCEPT !.user = u])
    BY <1>13 DEF DeleteMe
  <2>2. u \in Users
    BY AskFacts
  <2>3. Carries([Idle EXCEPT !.user = u], u, None, None, None, None, None)
    <3>1. [Idle EXCEPT !.user = u] \in Call
        BY <2>2, <1>0 DEF Call
    <3> QED BY <1>0, <3>1 DEF Carries, Call
  <2>4. Asks("delete", DeleteAccount, u, None, None, None, None, None)
    BY DEF Asks
  <2> QED BY <2>1, <2>3, <2>4, AskKeeps
<1> QED BY <1>1, <1>2, <1>3, <1>4, <1>5, <1>6, <1>7, <1>8, <1>9, <1>10, <1>11, <1>12, <1>13 DEF Request

LEMMA TickKeeps ==
    ASSUME TypeOK, AuthInv, Tick, UNCHANGED scenario
    PROVE  TypeOK' /\ AuthInv'
<1>1. now' \in 0..scenario'.until
  <2>1. scenario.until \in Nat
    BY AuthAssumption DEF TypeOK
  <2> QED BY <2>1 DEF Tick, TypeOK
<1>2. TypeOK'
    BY <1>1 DEF TypeOK, Tick
<1>3. AuthInv'
    BY DEF AuthInv, Tick
<1> QED BY <1>2, <1>3

LEMMA ServiceKeeps ==
    ASSUME TypeOK, AuthInv, NEW h \in Handlers, ServiceStep(h), UNCHANGED scenario
    PROVE  TypeOK' /\ AuthInv'
<1>1. CASE InsertUser(h) \/ ReadUser(h) \/ InsertLink(h) \/ ReadCredential(h)
    BY <1>1, InsertUserKeeps, ReadUserKeeps, InsertLinkKeeps, ReadCredentialKeeps
<1>2. CASE Revoke(h) \/ Invalidate(h) \/ VisitRow(h)
  <2>1. CASE InvalidateKind(h, "invalidate_verify", "verify_email")
    BY <2>1, InvalidateKeeps
  <2>2. CASE InvalidateKind(h, "invalidate_reset", "reset_password")
    BY <2>2, InvalidateKeeps
  <2> QED BY <1>2, <2>1, <2>2, RevokeKeeps, VisitRowKeeps DEF Invalidate
<1>3. CASE LockLink(h) \/ SetVerified(h) \/ SetCredential(h)
    BY <1>3, LockLinkKeeps, SetVerifiedKeeps, SetCredentialKeeps
<1>4. CASE LockToken(h) \/ Issue(h)
    BY <1>4, LockTokenKeeps, IssueKeeps
<1>5. CASE ReadIdentity(h) \/ ReadEmail(h) \/ LockAccount(h) \/ DropPassword(h)
    BY <1>5, ReadIdentityKeeps, ReadEmailKeeps, LockAccountKeeps, DropPasswordKeeps
<1>6. CASE InsertIdentity(h) \/ Delete(h) \/ Commit(h)
    BY <1>6, InsertIdentityKeeps, DeleteKeeps, CommitKeeps
<1> QED BY <1>1, <1>2, <1>3, <1>4, <1>5, <1>6 DEF ServiceStep

LEMMA FailKeeps ==
    ASSUME TypeOK, AuthInv, NEW h \in Handlers, Fail(h), UNCHANGED scenario
    PROVE  TypeOK' /\ AuthInv'
<1>1. faults' \in 0..scenario.faults
  <2>1. scenario.faults \in Nat
    BY AuthAssumption DEF TypeOK
  <2> QED BY <2>1 DEF Fail, TypeOK
<1> QED BY <1>1, EndKeeps DEF Fail, RollbackTx

LEMMA NextKeeps ==
    ASSUME TypeOK, AuthInv, [Next]_vars
    PROVE  TypeOK' /\ AuthInv'
<1>1. CASE Next
  <2>1. UNCHANGED scenario
    BY <1>1 DEF Next
  <2>2. CASE Tick
    BY <2>1, <2>2, TickKeeps
  <2>3. ASSUME NEW h \in Handlers, Request(h) \/ ServiceStep(h) \/ DeadlockVictim(h) \/ Fail(h)
        PROVE  TypeOK' /\ AuthInv'
    BY <2>1, <2>3, RequestKeeps, ServiceKeeps, ReturnsKeeps, FailKeeps DEF DeadlockVictim
  <2> QED BY <1>1, <2>2, <2>3 DEF Next
<1>2. CASE UNCHANGED vars
  <2>1. db' = db /\ tx' = tx /\ call' = call /\ now' = now /\ principals' = principals /\ faults' = faults
        /\ scenario' = scenario
    BY <1>2 DEF vars, authVars
  <2> QED BY <2>1 DEF TypeOK, AuthInv
<1> QED BY <1>1, <1>2

-----------------------------------------------------------------------------
(* The initial state *)

LEMMA ElementOf == ASSUME NEW S, NEW q \in Seq(S), NEW i \in DOMAIN q PROVE q[i] \in S
OBVIOUS

\* The values of the rows of an account.
LEMMA FirstRows ==
    ASSUME NEW e \in Emails, NEW p \in Passwords, NEW v \in BOOLEAN, NEW i, i \in Users, i \in Tokens
    PROVE  /\ LET user == [email |-> e, verified |-> v] IN user \in User /\ user.verified = v
           /\ [hash |-> p] \in Password
           /\ LET token == [user |-> i, family |-> i, expires |-> RefreshTTL, used |-> None, revoked |-> FALSE,
                            from |-> None, via |-> "password"]
              IN  token \in RefreshToken /\ token.user = i /\ token.family = i /\ token.via = "password"
           /\ LET link == [user |-> i, kind |-> "verify_email", expires |-> VerifyTTL, used |-> FALSE]
              IN  link \in OneTimeToken /\ link.user = i
<1>1. RefreshTTL \in Nat /\ VerifyTTL \in Nat
    BY AuthAssumption
<1>2. LET user == [email |-> e, verified |-> v] IN user \in User /\ user.verified = v
    BY DEF User
<1>3. [hash |-> p] \in Password
    BY DEF Password
<1>4. LET token == [user |-> i, family |-> i, expires |-> RefreshTTL, used |-> None, revoked |-> FALSE,
                    from |-> None, via |-> "password"]
      IN  token \in RefreshToken /\ token.user = i /\ token.family = i /\ token.via = "password"
    BY <1>1 DEF RefreshToken
<1>5. LET link == [user |-> i, kind |-> "verify_email", expires |-> VerifyTTL, used |-> FALSE]
      IN  link \in OneTimeToken /\ link.user = i
    BY <1>1 DEF OneTimeToken
<1> QED BY <1>2, <1>3, <1>4, <1>5

\* The rows of account i at the start, and of what is no account.
LEMMA InitRows ==
    ASSUME Init
    PROVE  /\ scenario \in Scenarios /\ DOMAIN db = Rows
           /\ DOMAIN Accounts \subseteq Users /\ DOMAIN Accounts \subseteq Tokens /\ DOMAIN Accounts \subseteq Links
           /\ \A i \in DOMAIN Accounts :
                 /\ Accounts[i].email \in Emails /\ Accounts[i].password \in Passwords
                 /\ Accounts[i].verified \in BOOLEAN
                 /\ db[UserRow(i)] = [email |-> Accounts[i].email, verified |-> Accounts[i].verified]
                 /\ db[PasswordRow(i)] = [hash |-> Accounts[i].password]
                 /\ db[RefreshRow(i)] =
                       IF ~Accounts[i].verified THEN None
                       ELSE [user |-> i, family |-> i, expires |-> RefreshTTL,
                             used |-> None, revoked |-> FALSE, from |-> None, via |-> "password"]
                 /\ db[LinkRow(i)] =
                       IF Accounts[i].verified THEN None
                       ELSE [user |-> i, kind |-> "verify_email", expires |-> VerifyTTL, used |-> FALSE]
           /\ \A row \in Rows : row[1] = "identity" \/ row[2] \notin DOMAIN Accounts => db[row] = None
<1>1. scenario \in Scenarios
    BY DEF Init
<1>2. /\ Accounts \in Seq([email : Emails, password : Passwords, verified : BOOLEAN])
      /\ DOMAIN Accounts \subseteq Users /\ DOMAIN Accounts \subseteq Tokens /\ DOMAIN Accounts \subseteq Links
    BY <1>1, AuthAssumption DEF Accounts
<1> DEFINE Row(row) == IF row[1] \notin {"user", "password", "refresh", "link"} \/ row[2] \notin DOMAIN Accounts
                THEN None
                ELSE LET account == Accounts[row[2]]
                     IN  CASE row[1] = "user" -> [email |-> account.email, verified |-> account.verified]
                           [] row[1] = "password" -> [hash |-> account.password]
                           [] row[1] = "refresh" ->
                                IF ~account.verified THEN None
                                ELSE [user |-> row[2], family |-> row[2], expires |-> RefreshTTL,
                                      used |-> None, revoked |-> FALSE, from |-> None, via |-> "password"]
                           [] row[1] = "link" ->
                                IF account.verified THEN None
                                ELSE [user |-> row[2], kind |-> "verify_email", expires |-> VerifyTTL,
                                      used |-> FALSE]
<1>3. db = [row \in Rows |-> Row(row)]
    BY DEF Init
<1> HIDE DEF Accounts
<1>4. \A row \in Rows : row[1] = "identity" \/ row[2] \notin DOMAIN Accounts => db[row] = None
    BY <1>3
<1>5. ASSUME NEW i \in DOMAIN Accounts
      PROVE  /\ Accounts[i].email \in Emails /\ Accounts[i].password \in Passwords
             /\ Accounts[i].verified \in BOOLEAN
             /\ db[UserRow(i)] = [email |-> Accounts[i].email, verified |-> Accounts[i].verified]
             /\ db[PasswordRow(i)] = [hash |-> Accounts[i].password]
             /\ db[RefreshRow(i)] =
                   IF ~Accounts[i].verified THEN None
                   ELSE [user |-> i, family |-> i, expires |-> RefreshTTL,
                         used |-> None, revoked |-> FALSE, from |-> None, via |-> "password"]
             /\ db[LinkRow(i)] =
                   IF Accounts[i].verified THEN None
                   ELSE [user |-> i, kind |-> "verify_email", expires |-> VerifyTTL, used |-> FALSE]
  <2>1. Accounts[i] \in [email : Emails, password : Passwords, verified : BOOLEAN]
    BY <1>2, ElementOf
  <2>2. /\ UserRow(i) \in Rows /\ UserRow(i)[1] = "user" /\ UserRow(i)[2] = i
        /\ PasswordRow(i) \in Rows /\ PasswordRow(i)[1] = "password" /\ PasswordRow(i)[2] = i
        /\ RefreshRow(i) \in Rows /\ RefreshRow(i)[1] = "refresh" /\ RefreshRow(i)[2] = i
        /\ LinkRow(i) \in Rows /\ LinkRow(i)[1] = "link" /\ LinkRow(i)[2] = i
    BY <1>2, RowFacts
  <2>3. db[UserRow(i)] = [email |-> Accounts[i].email, verified |-> Accounts[i].verified]
    BY <1>3, <2>2
  <2>4. db[PasswordRow(i)] = [hash |-> Accounts[i].password]
    BY <1>3, <2>2
  <2>5. db[RefreshRow(i)] = IF ~Accounts[i].verified THEN None
                            ELSE [user |-> i, family |-> i, expires |-> RefreshTTL,
                                  used |-> None, revoked |-> FALSE, from |-> None, via |-> "password"]
    BY <1>3, <2>2
  <2>6. db[LinkRow(i)] = IF Accounts[i].verified THEN None
                         ELSE [user |-> i, kind |-> "verify_email", expires |-> VerifyTTL, used |-> FALSE]
    BY <1>3, <2>2
  <2> QED BY <2>1, <2>3, <2>4, <2>5, <2>6
<1>6. DOMAIN db = Rows
    BY <1>3
<1> HIDE DEF Row
<1> QED BY <1>1, <1>2, <1>4, <1>5, <1>6

LEMMA InitSound ==
    ASSUME Init
    PROVE  TypeOK /\ AuthInv
<1> DEFINE A == Accounts
<1>1. /\ scenario \in Scenarios /\ DOMAIN db = Rows
      /\ DOMAIN A \subseteq Users /\ DOMAIN A \subseteq Tokens /\ DOMAIN A \subseteq Links
      /\ \A row \in Rows : row[1] = "identity" \/ row[2] \notin DOMAIN A => db[row] = None
    BY InitRows
<1>2. /\ tx = [h \in Handlers |-> NoTx] /\ call = [h \in Handlers |-> Idle] /\ now = 0
      /\ principals = {i \in DOMAIN A : A[i].verified} /\ faults = scenario.faults
    BY DEF Init
<1>3. \A i \in DOMAIN A : /\ db[UserRow(i)] = [email |-> A[i].email, verified |-> A[i].verified]
                          /\ A[i].email \in Emails /\ A[i].verified \in BOOLEAN
    BY InitRows
<1>4. \A i \in DOMAIN A : db[PasswordRow(i)] = [hash |-> A[i].password] /\ A[i].password \in Passwords
    BY InitRows
<1>5. \A i \in DOMAIN A : db[RefreshRow(i)] =
                             IF ~A[i].verified THEN None
                             ELSE [user |-> i, family |-> i, expires |-> RefreshTTL,
                                   used |-> None, revoked |-> FALSE, from |-> None, via |-> "password"]
    BY InitRows
<1>6. \A i \in DOMAIN A : db[LinkRow(i)] =
                             IF A[i].verified THEN None
                             ELSE [user |-> i, kind |-> "verify_email", expires |-> VerifyTTL, used |-> FALSE]
    BY InitRows
<1> HIDE DEF A
<1>7. ASSUME NEW i \in DOMAIN A
      PROVE  /\ db[UserRow(i)] \in User /\ db[UserRow(i)].verified = A[i].verified
             /\ db[PasswordRow(i)] \in Password
             /\ \/ db[RefreshRow(i)] = None
                \/ /\ A[i].verified /\ db[RefreshRow(i)] \in RefreshToken
                   /\ db[RefreshRow(i)].user = i /\ db[RefreshRow(i)].family = i
                   /\ db[RefreshRow(i)].via = "password"
             /\ \/ db[LinkRow(i)] = None
                \/ db[LinkRow(i)] \in OneTimeToken /\ db[LinkRow(i)].user = i
  <2> DEFINE e == A[i].email
             p == A[i].password
             v == A[i].verified
             user == [email |-> e, verified |-> v]
             token == [user |-> i, family |-> i, expires |-> RefreshTTL, used |-> None, revoked |-> FALSE,
                       from |-> None, via |-> "password"]
             link == [user |-> i, kind |-> "verify_email", expires |-> VerifyTTL, used |-> FALSE]
  <2>1. e \in Emails /\ v \in BOOLEAN /\ p \in Passwords /\ i \in Users /\ i \in Tokens
    BY <1>1, <1>3, <1>4
  <2>2. /\ db[UserRow(i)] = user /\ db[PasswordRow(i)] = [hash |-> p]
        /\ v => db[RefreshRow(i)] = token /\ db[LinkRow(i)] = None
        /\ ~v => db[RefreshRow(i)] = None /\ db[LinkRow(i)] = link
    BY <1>3, <1>4, <1>5, <1>6
  <2> HIDE DEF e, p, v
  <2>3. /\ user \in User /\ user.verified = v /\ [hash |-> p] \in Password
        /\ token \in RefreshToken /\ token.user = i /\ token.family = i /\ token.via = "password"
        /\ link \in OneTimeToken /\ link.user = i
    BY <2>1, FirstRows
  <2> HIDE DEF user, token, link
  <2> QED BY <2>2, <2>3 DEF v
<1>11. ASSUME NEW row \in Rows
       PROVE  \/ db[row] = None
              \/ /\ row[2] \in DOMAIN A /\ row[1] \in {"user", "password", "refresh", "link"}
                 /\ db[row] \in ValueOf(row)
                 /\ row[1] \in {"refresh", "link"} => db[row].user = row[2]
                 /\ row[1] = "refresh" => A[row[2]].verified /\ db[row].family = row[2]
                                            /\ db[row].via = "password"
  <2>1. CASE row[1] = "identity" \/ row[2] \notin DOMAIN A
    BY <1>1, <2>1
  <2>2. CASE row[1] = "user" /\ row[2] \in DOMAIN A
    <3>1. row = UserRow(row[2]) /\ ValueOf(row) = User
        BY <2>2, RowFacts, ValueFacts
    <3> QED BY <1>7, <2>2, <3>1
  <2>3. CASE row[1] = "password" /\ row[2] \in DOMAIN A
    <3>1. row = PasswordRow(row[2]) /\ ValueOf(row) = Password
        BY <2>3, RowFacts, ValueFacts
    <3> QED BY <1>7, <2>3, <3>1
  <2>4. CASE row[1] = "refresh" /\ row[2] \in DOMAIN A
    <3>1. row = RefreshRow(row[2]) /\ ValueOf(row) = RefreshToken
        BY <2>4, RowFacts, ValueFacts
    <3> QED BY <1>7, <2>4, <3>1
  <2>5. CASE row[1] = "link" /\ row[2] \in DOMAIN A
    <3>1. row = LinkRow(row[2]) /\ ValueOf(row) = OneTimeToken
        BY <2>5, RowFacts, ValueFacts
    <3> QED BY <1>7, <2>5, <3>1
  <2> QED BY <2>1, <2>2, <2>3, <2>4, <2>5, RowFacts
<1>12. \A row \in Rows : db[row] \in Stored(row)
    BY <1>11, ValueFacts
<1>13. Idle \in Call /\ TypedTx(NoTx)
    BY DEF Idle, Call, Vias, TypedTx, NoTx, NoWrites
<1>14. principals \subseteq Users
    BY <1>1, <1>2
<1>15. now \in 0..scenario.until /\ faults \in 0..scenario.faults
  <2>1. scenario.until \in Nat /\ scenario.faults \in Nat
    BY <1>1, AuthAssumption
  <2> QED BY <1>2, <2>1
<1>16. TypeOK
    BY <1>1, <1>2, <1>12, <1>13, <1>14, <1>15 DEF TypeOK, TypedTx
<1>17. \A i \in DOMAIN A : Live(db[UserRow(i)]) /\ Live(db[PasswordRow(i)])
  <2> SUFFICES ASSUME NEW i \in DOMAIN A PROVE Live(db[UserRow(i)]) /\ Live(db[PasswordRow(i)])
    OBVIOUS
  <2>1. /\ UserRow(i) \in Rows /\ UserRow(i)[1] = "user"
        /\ PasswordRow(i) \in Rows /\ PasswordRow(i)[1] = "password"
    BY <1>1, RowFacts
  <2> QED BY <1>7, <2>1, ValueFacts
<1>18. \A i \in DOMAIN A : A[i].verified => Trusted(db[UserRow(i)])
    BY <1>7, <1>17 DEF Trusted
<1>19. OwnersLive(db)
  <2> SUFFICES ASSUME NEW row \in Rows, NEW u \in Users, BelongsTo(row, db[row], u) PROVE Live(db[UserRow(u)])
    BY DEF OwnersLive
  <2>1. db[row] # None /\ row[1] # "user"
    BY DEF BelongsTo, Live
  <2>2. row[2] \in DOMAIN A /\ OwnerOf(row, db[row]) = row[2]
    BY <1>11, <2>1 DEF OwnerOf
  <2> QED BY <1>17, <2>2 DEF BelongsTo
<1>20. \A t \in Tokens : Live(db[RefreshRow(t)]) =>
          /\ t \in DOMAIN A /\ A[t].verified /\ db[RefreshRow(t)].user = t
          /\ db[RefreshRow(t)].family = t /\ db[RefreshRow(t)].via = "password"
  <2> SUFFICES ASSUME NEW t \in Tokens, Live(db[RefreshRow(t)])
               PROVE  /\ t \in DOMAIN A /\ A[t].verified /\ db[RefreshRow(t)].user = t
                      /\ db[RefreshRow(t)].family = t /\ db[RefreshRow(t)].via = "password"
    OBVIOUS
  <2>1. RefreshRow(t) \in Rows /\ RefreshRow(t)[1] = "refresh" /\ RefreshRow(t)[2] = t
    BY RowFacts
  <2>2. db[RefreshRow(t)] # None
    BY DEF Live
  <2> QED BY <1>11, <2>1, <2>2
<1>21. \A s \in Subjects : db[IdentityRow(s)] = None
    BY <1>1, RowFacts
<1>22. HoldersTrusted(db, principals)
    BY <1>2, <1>18, <1>20, <1>21 DEF HoldersTrusted, Live
<1>23. FamiliesKept(db) /\ RotatedOnceIn(db)
    BY <1>20 DEF FamiliesKept, RotatedOnceIn, Live
<1>24. LoginKept(db)
  <2> SUFFICES ASSUME NEW u \in Users, Live(db[UserRow(u)]) PROVE Live(db[PasswordRow(u)])
    BY DEF LoginKept
  <2>1. UserRow(u) \in Rows /\ UserRow(u)[1] = "user" /\ UserRow(u)[2] = u
    BY RowFacts
  <2>2. u \in DOMAIN A
    BY <1>1, <2>1 DEF Live
  <2> QED BY <1>17, <2>2
<1>25. \A g, h \in Handlers : g # h => Exclusive(tx[g], tx[h])
    BY <1>2 DEF Exclusive, NoTx, NoWrites
<1>26. AuthInv
    BY <1>2, <1>19, <1>22, <1>23, <1>24, <1>25 DEF AuthInv, RowsSound, HandlerSound
<1> QED BY <1>16, <1>26

-----------------------------------------------------------------------------
(* The theorems *)

\* Transactions exclude one another by their row locks, and what they have written
\* and committed is sound, whichever requests the methods of auth.Service serve at once
\* (service.go with the queries of auth.sql.go), and however many users, tokens, links
\* and handlers there are.
THEOREM AuthCorrect == Spec => [](TypeOK /\ AuthInv)
<1>1. Init => TypeOK /\ AuthInv
    BY InitSound
<1>2. TypeOK /\ AuthInv /\ [Next]_vars => (TypeOK /\ AuthInv)'
    BY NextKeeps
<1> QED BY <1>1, <1>2, PTL DEF Spec

\* Every table, transaction and request of authentication keeps its type.
THEOREM AuthTypeOK == Spec => []TypeOK
BY AuthCorrect, PTL

\* A refresh token is rotated into one token only (Refresh, service.go:192): who
\* rotates it has locked it, and leaves it used.
THEOREM RotatedOnceAlways == Spec => []RotatedOnce
<1>1. TypeOK /\ AuthInv => RotatedOnce
    BY DEF AuthInv, RowsSound, RotatedOnceIn, RotatedOnce, RowsOf, IdsOf, RefreshRow, Live
<1> QED BY <1>1, AuthCorrect, PTL

\* An account can always be signed in to (claimUnverifiedAccount, service.go:381-408):
\* the password goes in the transaction that inserts the identity.
THEOREM LoginAlways == Spec => []EveryAccountHasALogin
<1>1. TypeOK /\ AuthInv => EveryAccountHasALogin
  <2> SUFFICES ASSUME TypeOK, AuthInv, NEW u \in RowsOf("user")
               PROVE  \/ db[PasswordRow(u)] # None
                      \/ \E s \in Subjects : db[IdentityRow(s)] # None /\ db[IdentityRow(s)].user = u
    BY DEF EveryAccountHasALogin
  <2>1. u \in Users /\ Live(db[UserRow(u)])
    BY DEF RowsOf, IdsOf, UserRow, Live
  <2>2. LoginKept(db)
    BY DEF AuthInv, RowsSound
  <2> QED BY <2>1, <2>2 DEF LoginKept, Live
<1> QED BY <1>1, AuthCorrect, PTL

\* Only verified accounts hold sessions (Login, service.go:168), whichever way a session
\* was issued.
THEOREM VerifiedAlways == Spec => []SessionsAreVerified
<1>1. TypeOK /\ AuthInv => SessionsAreVerified
  <2> SUFFICES ASSUME TypeOK, AuthInv, NEW t \in RowsOf("refresh")
               PROVE  LET user == db[UserRow(db[RefreshRow(t)].user)] IN user \in {None, Gone} \/ user.verified
    BY DEF SessionsAreVerified
  <2>1. t \in Tokens /\ Live(db[RefreshRow(t)])
    BY DEF RowsOf, IdsOf, RefreshRow, Live
  <2>2. HoldersTrusted(db, principals)
    BY DEF AuthInv, RowsSound
  <2> QED BY <2>1, <2>2 DEF HoldersTrusted, Trusted
<1> QED BY <1>1, AuthCorrect, PTL

\* A deleted account leaves no session, link, password or identity behind
\* (DeleteAccount, service.go:527-529).
THEOREM DeletionAlways == Spec => []DeletionIsComplete
<1>1. TypeOK /\ AuthInv => DeletionIsComplete
  <2> SUFFICES ASSUME TypeOK, AuthInv, NEW row \in Rows, row[1] # "user", db[row] \notin {None, Gone}
               PROVE  db[UserRow(OwnerOf(row, db[row]))] # Gone
    BY DEF DeletionIsComplete
  <2>1. OwnerOf(row, db[row]) \in Users /\ BelongsTo(row, db[row], OwnerOf(row, db[row]))
    BY OwnerTyped DEF TypeOK, Live
  <2>2. OwnersLive(db)
    BY DEF AuthInv, RowsSound
  <2> QED BY <2>1, <2>2 DEF OwnersLive, Live
<1> QED BY <1>1, AuthCorrect, PTL

-----------------------------------------------------------------------------
(* What a step may never do *)

\* The committed rows change with a commit only.
LEMMA OnlyCommits ==
    ASSUME [Next]_vars, db' # db
    PROVE  \E h \in Handlers : Commit(h)
<1>1. Next
    BY DEF vars, authVars
<1>2. ~Tick
    BY DEF Tick
<1>3. PICK h \in Handlers : Request(h) \/ ServiceStep(h) \/ DeadlockVictim(h) \/ Fail(h)
    BY <1>1, <1>2 DEF Next
<1>4. \A op, method, request : ~Serve(h, op, method, request)
    BY DEF Serve
<1>5. ~Request(h)
  <2>1. ~(PostRegister(h) \/ PostResendVerification(h) \/ PostVerifyEmail(h) \/ PostLogin(h))
    BY <1>4 DEF PostRegister, PostResendVerification, PostVerifyEmail, PostLogin
  <2>2. ~(PostRefresh(h) \/ PostLogout(h) \/ PostForgotPassword(h) \/ PostResetPassword(h))
    BY <1>4 DEF PostRefresh, PostLogout, PostForgotPassword, PostResetPassword
  <2>3. ~(PostFederatedLogin(h) \/ PostLinkFederated(h) \/ PostChangePassword(h) \/ DeleteMe(h)
            \/ RunCreateAdmin(h))
    BY <1>4 DEF PostFederatedLogin, PostLinkFederated, PostChangePassword, DeleteMe, RunCreateAdmin
  <2> QED BY <2>1, <2>2, <2>3 DEF Request
<1>6. ~Returns(h) /\ ~Fail(h) /\ \A W, C : ~Continues(h, W, C)
    BY DEF Returns, Fail, RollbackTx, Continues
<1>7. ~(InsertUser(h) \/ ReadUser(h) \/ InsertLink(h) \/ ReadCredential(h))
    BY <1>6 DEF InsertUser, ReadUser, InsertLink, ReadCredential
<1>8. ~(Revoke(h) \/ Invalidate(h) \/ VisitRow(h) \/ LockLink(h) \/ SetVerified(h) \/ SetCredential(h))
    BY <1>6 DEF Revoke, Invalidate, InvalidateKind, VisitRow, LockLink, SetVerified, SetCredential
<1>9. ~(LockToken(h) \/ Issue(h) \/ ReadIdentity(h) \/ ReadEmail(h))
    BY <1>6 DEF LockToken, Issue, ReadIdentity, ReadEmail
<1>10. ~(LockAccount(h) \/ DropPassword(h) \/ InsertIdentity(h) \/ Delete(h))
    BY <1>6 DEF LockAccount, DropPassword, InsertIdentity, Delete
<1> QED BY <1>3, <1>5, <1>6, <1>7, <1>8, <1>9, <1>10 DEF ServiceStep, DeadlockVictim

\* A family whose tokens are all revoked gains no live one by a commit.
LEMMA FamilyDead ==
    ASSUME NEW D, NEW E, NEW O, NEW P, Commits(D, E, O, P), FamiliesKept(D),
           NEW f \in Tokens, FamilyIn(D, f) # {}, RevokedIn(D, f)
    PROVE  RevokedIn(E, f)
<1> SUFFICES ASSUME NEW t \in FamilyIn(E, f) PROVE E[RefreshRow(t)].revoked
    BY DEF RevokedIn
<1> DEFINE old == D[RefreshRow(t)]
           new == E[RefreshRow(t)]
<1>1. t \in Tokens /\ Live(new) /\ new.family = f
    BY DEF FamilyIn, Live
<1>2. RefreshRow(t) \in Rows /\ RefreshRow(t)[1] = "refresh"
    BY <1>1, RowFacts
<1>3. CASE Live(old) /\ new.family = old.family
  <2>1. old.revoked
    BY <1>1, <1>3 DEF FamilyIn, RevokedIn, Live
  <2>2. new = old \/ Follows(RefreshRow(t), old, new)
    BY <1>2, CommitFollows
  <2> QED BY <1>1, <1>2, <1>3, <2>1, <2>2 DEF Follows
<1>4. CASE t \in NewTokens(D, O) /\ old = None /\ new = O.writes[RefreshRow(t)] /\ SessionSound(D, O, t)
  <2>1. CASE new.via \in {"rotate", "grace"}
    <3>1. /\ new.from \in Tokens /\ Live(D[RefreshRow(new.from)]) /\ ~D[RefreshRow(new.from)].revoked
          /\ D[RefreshRow(new.from)].family = f
        BY <1>1, <1>4, <2>1 DEF SessionSound
    <3> QED BY <3>1 DEF RevokedIn, FamilyIn, Live
  <2>2. CASE new.via \notin {"rotate", "grace"}
    <3>1. f = t
        BY <1>1, <1>4, <2>2 DEF SessionSound
    <3>2. PICK x \in FamilyIn(D, f) : TRUE
        OBVIOUS
    <3>3. x \in Tokens /\ Live(D[RefreshRow(x)]) /\ D[RefreshRow(x)].family = f
        BY DEF FamilyIn, Live
    <3>4. D[RefreshRow(f)] # None
        BY <3>3 DEF FamiliesKept
    <3> QED BY <1>4, <3>1, <3>4
  <2> QED BY <2>1, <2>2
<1> QED BY <1>1, <1>3, <1>4, CommitSessions

\* Once every token of a family is revoked, no refresh, retry or request under way brings
\* it back to life (Refresh, service.go:190-208): a successor rests on a token that is
\* locked and not revoked, and a new family is named for a new token.
THEOREM DeadFamilyAlways == Spec => DeadFamilyStaysDead
<1>1. TypeOK /\ AuthInv /\ [Next]_vars =>
        [\A f \in Tokens : FamilyIn(db, f) # {} /\ RevokedIn(db, f) => RevokedIn(db', f)]_authVars
  <2> SUFFICES ASSUME TypeOK, AuthInv, [Next]_vars, NEW f \in Tokens, FamilyIn(db, f) # {}, RevokedIn(db, f)
               PROVE  RevokedIn(db', f)
    OBVIOUS
  <2>1. CASE db' = db
    BY <2>1 DEF RevokedIn, FamilyIn
  <2>2. CASE db' # db
    <3>1. PICK h \in Handlers : Commit(h)
        BY <2>2, OnlyCommits
    <3>2. Commits(db, db', tx[h], call[h])
        BY <3>1, CommitBegins
    <3>3. FamiliesKept(db)
        BY DEF AuthInv, RowsSound
    <3> QED BY <3>2, <3>3, FamilyDead
  <2> QED BY <2>1, <2>2
<1> QED BY <1>1, AuthCorrect, PTL DEF Spec, DeadFamilyStaysDead

\* A one-time link that was used or invalidated buys no session, also when it was
\* presented before (consumeOneTimeToken, service.go:562-582): it is locked from the
\* test to the commit.
THEOREM SpentLinkAlways == Spec => SpentLinkIsWorthless
<1>1. TypeOK /\ AuthInv /\ [Next]_vars =>
        [\A t \in Tokens :
            LET old == db[RefreshRow(t)]
                new == db'[RefreshRow(t)]
            IN  old = None /\ new # None => (new.via = "link" => ~db[LinkRow(new.from)].used)]_authVars
  <2> SUFFICES ASSUME TypeOK, AuthInv, [Next]_vars, NEW t \in Tokens,
                      db[RefreshRow(t)] = None, db'[RefreshRow(t)] # None, db'[RefreshRow(t)].via = "link"
               PROVE  ~db[LinkRow(db'[RefreshRow(t)].from)].used
    OBVIOUS
  <2>1. PICK h \in Handlers : Commit(h)
    BY OnlyCommits
  <2>2. Commits(db, db', tx[h], call[h])
    BY <2>1, CommitBegins
  <2>3. RefreshRow(t) \in Rows
    BY RowFacts
  <2>4. Live(db'[RefreshRow(t)]) /\ ~Live(db[RefreshRow(t)])
    BY <2>2, <2>3, CommitFollows DEF Follows, Live
  <2>5. db'[RefreshRow(t)] = tx[h].writes[RefreshRow(t)] /\ SessionSound(db, tx[h], t)
    BY <2>2, <2>4, CommitSessions
  <2> QED BY <2>5 DEF SessionSound
<1> QED BY <1>1, AuthCorrect, PTL DEF Spec, SpentLinkIsWorthless

\* A claim that commits leaves nothing open of the account.
LEMMA ClaimLeaves ==
    ASSUME NEW D, NEW E, NEW O, NEW P, Commits(D, E, O, P), Claiming(P)
    PROVE  OpenIn(E, P.user) = {}
<1> DEFINE u == P.user
<1>1. Claims(D, O, P) /\ Stage(P) = "commit" /\ P.todo = {} /\ Committed(D, O, E)
    BY DEF Commits
<1> SUFFICES ASSUME NEW row \in OpenIn(E, u) PROVE FALSE
    OBVIOUS
<1>2. row \in Rows /\ E[row] = Seen(D, O, row) /\ Live(E[row])
    BY <1>1 DEF OpenIn, Committed, Live
<1>3. CASE row = PasswordRow(u)
  <2>1. row \in DOMAIN O.writes /\ O.writes[row] = None
    BY <1>1, <1>3 DEF Claims
  <2> QED BY <1>2, <2>1 DEF Seen, Live
<1>4. CASE row[1] = "link" /\ E[row].user = u /\ ~E[row].used
  <2>1. row[2] \in Links /\ row = LinkRow(row[2])
    BY <1>2, <1>4, RowFacts
  <2>2. BelongsTo(row, E[row], u)
    BY <1>2, <1>4 DEF BelongsTo, OwnerOf
  <2>3. E[row].used
    BY <1>1, <1>2, <2>1, <2>2 DEF Claims, AfterRevoke
  <2> QED BY <1>4, <2>3
<1>5. CASE row[1] = "refresh" /\ E[row].user = u /\ ~E[row].revoked /\ E[row].via # "claim"
  <2>1. row[2] \in Tokens /\ row = RefreshRow(row[2])
    BY <1>2, <1>5, RowFacts
  <2>2. BelongsTo(row, E[row], u)
    BY <1>2, <1>5 DEF BelongsTo, OwnerOf
  <2>3. E[row].revoked \/ E[row].via = "claim"
    BY <1>1, <1>2, <2>1, <2>2 DEF Claims, AfterRevoke
  <2> QED BY <1>5, <2>3
<1> QED BY <1>3, <1>4, <1>5 DEF OpenIn

\* A transaction beside a claim adds nothing to the account.
LEMMA ClaimExcludes ==
    ASSUME NEW D, NEW T, NEW O, NEW P, NEW C, Claims(D, O, P), Claiming(P), Stage(P) = "commit", P.user \in Users,
           TypedTx(T), HandlerSound(D, T, C), Exclusive(O, T)
    PROVE  OpenIn(T.writes, P.user) = {}
<1> DEFINE u == P.user
<1> SUFFICES ASSUME NEW row \in OpenIn(T.writes, u) PROVE FALSE
    OBVIOUS
<1>1. row \in DOMAIN T.writes /\ Live(T.writes[row]) /\ row \in Rows
    BY DEF OpenIn, Live, TypedTx
<1>2. Working(D, T, C)
  <2>1. T # NoTx
    BY <1>1 DEF NoTx, NoWrites
  <2> QED BY <2>1 DEF HandlerSound
<1>3. Locked(O, UserRow(u)) /\ Live(D[UserRow(u)]) /\ PasswordRow(u) \in DOMAIN O.writes
    BY DEF Claims
<1>4. ~Pins(T, u)
    BY <1>3 DEF Pins, Locked, Exclusive, Conflict
<1>5. ~Adds(D, T, u)
    BY <1>3 DEF Adds, Live
<1>6. row # PasswordRow(u)
    BY <1>1, <1>3 DEF Exclusive
<1>7. row[1] \in {"refresh", "link"} /\ T.writes[row].user = u
    BY <1>6 DEF OpenIn
<1>8. BelongsTo(row, T.writes[row], u)
    BY <1>1, <1>7 DEF BelongsTo, OwnerOf
<1>9. BelongsTo(row, D[row], u)
    BY <1>1, <1>2, <1>4, <1>5, <1>8 DEF Working, WritesReference, Referenced
<1>10. Live(D[row]) /\ D[row].user = u
    BY <1>7, <1>9 DEF BelongsTo, OwnerOf
<1>11. CASE row[1] = "link"
  <2>1. Follows(row, D[row], T.writes[row])
    BY <1>1, <1>2 DEF Working, WritesFollow
  <2>2. T.writes[row].used
    BY <1>1, <1>10, <1>11, <2>1 DEF Follows
  <2> QED BY <1>6, <1>11, <2>2 DEF OpenIn
<1>12. CASE row[1] = "refresh"
  <2>1. row[2] \in Tokens /\ row = RefreshRow(row[2])
    BY <1>1, <1>12, RowFacts
  <2>2. T.writes[row].revoked
    BY <1>1, <1>2, <1>4, <1>10, <2>1 DEF Working, SessionsSound
  <2> QED BY <1>6, <1>12, <2>2 DEF OpenIn
<1> QED BY <1>7, <1>11, <1>12

\* When the provider takes over an unverified account, the unproven password and any
\* outstanding tokens are discarded (claimUnverifiedAccount, service.go:356-358), and no
\* transaction beside it is about to add one: it has the user locked, and every
\* insertion needs a lock on the user it references.
THEOREM ClaimAlways == Spec => ClaimDiscards
<1>1. TypeOK /\ AuthInv /\ [Next]_vars =>
        [\A h \in Handlers :
            call[h].via = "claim" /\ call'[h] = Idle /\ db' # db
            => LET u == call[h].user
               IN  OpenIn(db', u) = {} /\ \A g \in Handlers \ {h} : OpenIn(tx[g].writes, u) = {}]_authVars
  <2> SUFFICES ASSUME TypeOK, AuthInv, [Next]_vars, NEW h \in Handlers,
                      call[h].via = "claim", call'[h] = Idle, db' # db
               PROVE  LET u == call[h].user
                      IN  OpenIn(db', u) = {} /\ \A g \in Handlers \ {h} : OpenIn(tx[g].writes, u) = {}
    OBVIOUS
  <2>1. PICK k \in Handlers : Commit(k)
    BY OnlyCommits
  <2>2. k = h
    <3>1. k # h => call'[h] = call[h]
        BY <2>1, Typing DEF Commit
    <3>2. Idle.via # "claim"
        BY DEF Idle
    <3> QED BY <3>1, <3>2
  <2>3. Commits(db, db', tx[h], call[h]) /\ Start(db, tx[h], call[h])
    BY <2>1, <2>2, CommitBegins
  <2>4. Stage(call[h]) = "commit" /\ Parameters(call[h]) /\ Claims(db, tx[h], call[h])
    BY <2>3 DEF Commits
  <2>5. Claiming(call[h]) /\ call[h].user \in Users
    BY <2>4 DEF Claiming, Parameters, Finding
  <2>6. OpenIn(db', call[h].user) = {}
    BY <2>3, <2>5, ClaimLeaves
  <2>7. ASSUME NEW g \in Handlers \ {h} PROVE OpenIn(tx[g].writes, call[h].user) = {}
    <3>1. HandlerSound(db, tx[g], call[g]) /\ Exclusive(tx[h], tx[g])
        BY <2>7 DEF AuthInv
    <3>2. TypedTx(tx[g])
        BY <2>7, Typing
    <3> QED BY <2>4, <2>5, <3>1, <3>2, ClaimExcludes
  <2> QED BY <2>6, <2>7
<1> QED BY <1>1, AuthCorrect, PTL DEF Spec, ClaimDiscards
=============================================================================
