--------------------------- MODULE AuthInvariants ---------------------------
(***************************************************************************)
(* The inductive invariant of Authentication: what the locks of a          *)
(* transaction keep from changing, what its uncommitted writes may be, and *)
(* what a method that has come so far may rely on.                         *)
(*                                                                         *)
(* The parts about one handler are stated of three values: D, the          *)
(* committed rows, T, the handler's transaction, and C, its request.       *)
(***************************************************************************)
EXTENDS Authentication

Live(value) == value \notin {None, Gone}

\* What a transaction sees of a row.
Seen(D, T, row) == IF row \in DOMAIN T.writes THEN T.writes[row] ELSE D[row]

\* A user that is verified, or deleted.
Trusted(value) == value = Gone \/ (Live(value) /\ value.verified)

Locked(T, row) == <<row, "update">> \in T.locks

\* A lock that keeps user u from being deleted or claimed by another.
Pins(T, u) == \E m \in Modes : <<UserRow(u), m>> \in T.locks

\* u is a user that the transaction has inserted itself.
Adds(D, T, u) == UserRow(u) \in DOMAIN T.writes /\ D[UserRow(u)] = None

\* Row, if it has this value, references user u.
BelongsTo(row, value, u) == row[1] # "user" /\ Live(value) /\ OwnerOf(row, value) = u

-----------------------------------------------------------------------------
(* Requests *)

\* The statements that each method may still have to run.
Progress(C) ==
    /\ C.op \in {"register", "createAdmin"} => C.steps \in {Register, <<"commit">>}
    /\ C.op = "resend" =>
          C.steps \in {ResendVerification, <<"invalidate_verify", "insert_link", "commit">>,
                       <<"insert_link", "commit">>, <<"commit">>}
    /\ C.op = "forgot" =>
          C.steps \in {ForgotPassword, <<"invalidate_reset", "insert_link", "commit">>,
                       <<"insert_link", "commit">>, <<"commit">>}
    /\ C.op = "verify" =>
          C.steps \in {VerifyEmail, <<"set_verified", "issue", "commit">>, RotateToken, <<"commit">>}
    /\ C.op = "reset" =>
          C.steps \in {ResetPassword, <<"set_verified", "set_password", "revoke", "issue", "commit">>,
                       <<"set_password", "revoke", "issue", "commit">>, <<"revoke", "issue", "commit">>,
                       RotateToken, <<"commit">>}
    /\ C.op = "login" => C.steps \in {Login, RotateToken, <<"commit">>}
    /\ C.op = "refresh" => C.steps \in {Refresh, RotateToken, ReuseDetected, <<"commit">>}
    /\ C.op = "logout" => C.steps \in {Logout, <<"commit">>}
    /\ C.op = "changePassword" =>
          C.steps \in {<<"read_credential", "set_password", "commit", "revoke", "commit">>,
                       SetPassword, <<"commit", "revoke", "commit">>, <<"revoke", "commit">>, <<"commit">>}
    /\ C.op = "delete" => C.steps \in {DeleteAccount, <<"commit">>}
    /\ C.op = "link" => C.steps \in {LinkFederated, <<"insert_identity", "commit">>, <<"commit">>}
    /\ C.op = "federated" => C.via \in {"none", "identity", "claim"}
    /\ C.op = "federated" /\ C.via = "none" => C.steps \in {FederatedLogin, <<"read_email">>}
    /\ C.op = "federated" /\ C.via = "identity" =>
          C.steps \in {NewIdentity, <<"insert_identity", "issue", "commit">>, KnownIdentity, <<"commit">>}
    /\ C.op = "federated" /\ C.via = "claim" =>
          C.steps \in {ClaimUnverifiedAccount,
                       <<"drop_password", "revoke", "invalidate_verify", "invalidate_reset",
                         "set_verified", "insert_identity", "issue", "commit">>,
                       <<"revoke", "invalidate_verify", "invalidate_reset",
                         "set_verified", "insert_identity", "issue", "commit">>,
                       <<"invalidate_verify", "invalidate_reset",
                         "set_verified", "insert_identity", "issue", "commit">>,
                       <<"invalidate_reset", "set_verified", "insert_identity", "issue", "commit">>,
                       <<"set_verified", "insert_identity", "issue", "commit">>,
                       <<"insert_identity", "issue", "commit">>, KnownIdentity, <<"commit">>}

\* The statement that a request is at, or has just begun to visit rows for.
Stage(C) == Head(C.steps)

\* The statements before which no user is known.
Finding == {"insert_user", "read_user", "read_credential", "lock_token", "lock_link", "lock_account",
            "read_identity", "read_email"}

Parameters(C) ==
    /\ C.op \in {"register", "createAdmin", "federated"} => C.email \in Emails
    /\ C.op \in {"register", "createAdmin", "reset", "changePassword"} => C.password \in Passwords
    /\ C.op \in {"federated", "link"} => C.subject \in Subjects
    /\ C.op \in {"refresh", "logout"} => C.token \in Tokens
    /\ C.op \in {"verify", "reset"} => C.link \in Links
    /\ C.op \in {"link", "delete", "changePassword"} => C.user \in Users
    /\ C.op # "logout" /\ Stage(C) \notin Finding => C.user \in Users
    /\ C.op # "refresh" \/ Stage(C) = "lock_token" => C.family = None
    /\ C.op # "delete" => C.todo \subseteq {"refresh", "link"} \X (Tokens \cup Links)
    /\ \A row \in C.todo : row[1] # "user"
    /\ C.todo # {} => Stage(C) \notin Finding \cup {"delete"}
    /\ Stage(C) = "issue" => C.via \in {"password", "identity", "claim", "link", "rotate", "grace"}
    /\ C.op \in {"verify", "reset"} /\ Stage(C) # "lock_link" => C.via = "link"
    /\ C.op = "refresh" /\ Stage(C) = "issue" => C.via \in {"rotate", "grace"}
    /\ C.via \in {"rotate", "grace"} => C.op = "refresh"
    /\ C.via = "link" => C.op \in {"verify", "reset"}
    /\ C.via = "claim" => C.op = "federated"

-----------------------------------------------------------------------------
(* Locks and writes *)

\* No two transactions hold locks that conflict, and none writes what another has
\* written and not committed.
Exclusive(T1, T2) ==
    /\ \A k \in T1.locks, l \in T2.locks : k[1] = l[1] => ~Conflict(k[2], l[2])
    /\ DOMAIN T1.writes \cap DOMAIN T2.writes = {}

\* A transaction has locked what it writes, unless it has inserted it.
WriteLocked(D, T, row) ==
    \/ row[1] \in {"user", "refresh", "link"} /\ D[row] = None
    \/ row[1] = "password" /\ Adds(D, T, row[2])
    \/ Locked(T, row)
    \/ row[1] = "user" /\ <<row, "no_key_update">> \in T.locks

WritesLocked(D, T) == \A row \in DOMAIN T.writes : WriteLocked(D, T, row)

\* The ways in which a row changes.
Follows(row, old, new) ==
    /\ old # Gone
    /\ row[1] \in {"user", "refresh", "link"} => new # None
    /\ old = None => new # Gone
    /\ Live(old) /\ Live(new) =>
          CASE row[1] = "user" -> old.verified => new.verified
            [] row[1] = "identity" -> FALSE
            [] row[1] = "refresh" ->
                  /\ new.user = old.user /\ new.family = old.family
                  /\ new.from = old.from /\ new.via = old.via
                  /\ old.used # None => new.used # None
                  /\ old.revoked => new.revoked
            [] row[1] = "link" -> new.user = old.user /\ new.used
            [] OTHER -> TRUE

WritesFollow(D, T) == \A row \in DOMAIN T.writes : Follows(row, D[row], T.writes[row])

\* A foreign key is sound until the commit: the row was there before and is locked,
\* its user is, or its user is new.
Referenced(D, T, row, u) ==
    \/ Locked(T, row) /\ BelongsTo(row, D[row], u)
    \/ Pins(T, u) /\ Live(Seen(D, T, UserRow(u)))
    \/ Adds(D, T, u)

WritesReference(D, T) ==
    \A row \in DOMAIN T.writes, u \in Users : BelongsTo(row, T.writes[row], u) => Referenced(D, T, row, u)

-----------------------------------------------------------------------------
(* Sessions *)

\* A session or an identity comes next.
Vouched(C) ==
    \/ C.op = "link" \/ Stage(C) \in {"issue", "insert_identity"}
    \/ C.op = "reset" /\ Stage(C) \in {"set_password", "revoke"}

\* The user of a request is known to the database, and verified where that matters.
UserKnown(D, T, C) ==
    C.user \in Users => /\ Seen(D, T, UserRow(C.user)) # None
                        /\ Vouched(C) => Trusted(Seen(D, T, UserRow(C.user)))

\* A token or a link that is about to be exchanged is locked and good.
Exchanges(D, T, C) ==
    /\ C.op = "refresh" /\ Stage(C) = "issue" =>
          LET row == RefreshRow(C.token)
          IN  /\ Locked(T, row) /\ Live(D[row]) /\ ~D[row].revoked
              /\ D[row].user = C.user /\ D[row].family = C.family
              /\ C.via = "rotate" => D[row].used = None
    /\ C.op \in {"verify", "reset"} /\ Stage(C) \in {"set_verified", "set_password", "revoke", "issue"} =>
          LET row == LinkRow(C.link)
          IN  Locked(T, row) /\ Live(D[row]) /\ ~D[row].used

NewTokens(D, T) == {t \in Tokens : RefreshRow(t) \in DOMAIN T.writes /\ D[RefreshRow(t)] = None}

\* What a session that was issued and not committed rests on.
SessionSound(D, T, t) ==
    LET new == T.writes[RefreshRow(t)]
    IN  /\ Trusted(Seen(D, T, UserRow(new.user)))
        /\ new.via \in {"rotate", "grace"} =>
              LET row == RefreshRow(new.from)
              IN  /\ new.from \in Tokens /\ Locked(T, row) /\ Live(D[row]) /\ ~D[row].revoked
                  /\ D[row].family = new.family
                  /\ new.via = "rotate" => /\ D[row].used = None
                                           /\ row \in DOMAIN T.writes /\ T.writes[row].used # None
        /\ new.via \notin {"rotate", "grace"} => new.family = t
        /\ new.via = "link" =>
              LET row == LinkRow(new.from)
              IN  new.from \in Links /\ Locked(T, row) /\ Live(D[row]) /\ ~D[row].used

SessionsSound(D, T, C) ==
    /\ \A t \in NewTokens(D, T) : Stage(C) = "commit" /\ C.todo = {} /\ SessionSound(D, T, t)
    /\ \A t1, t2 \in NewTokens(D, T) : t1 = t2
    /\ \A t \in Tokens :
          LET row == RefreshRow(t)
          IN  row \in DOMAIN T.writes /\ Live(D[row]) /\ Live(T.writes[row]) =>
                 T.writes[row].revoked \/ Pins(T, D[row].user)
    /\ \A s \in Subjects :
          LET row == IdentityRow(s)
          IN  row \in DOMAIN T.writes /\ Live(T.writes[row]) =>
                 Trusted(Seen(D, T, UserRow(T.writes[row].user)))

-----------------------------------------------------------------------------
(* Accounts *)

Deleting(C) == C.op = "delete" /\ Stage(C) = "commit"

Claiming(C) == C.op = "federated" /\ C.via = "claim" /\ Stage(C) # "lock_account"

HasIdentity(T, C) ==
    LET row == IdentityRow(C.subject)
    IN  row \in DOMAIN T.writes /\ Live(T.writes[row]) /\ T.writes[row].user = C.user

\* Nothing is written before the user is known, and a user that is inserted has a way
\* to sign in.
Logins(D, T, C) ==
    /\ Stage(C) \in Finding => DOMAIN T.writes = {}
    /\ \A u \in Users : Adds(D, T, u) =>
          \/ PasswordRow(u) \in DOMAIN T.writes /\ Live(T.writes[PasswordRow(u)])
          \/ /\ C.op = "federated" /\ C.via = "identity" /\ C.user = u
             /\ Stage(C) = "insert_identity" \/ HasIdentity(T, C)

\* What disappears goes with its user, or is the password of a claimed account; a
\* deletion has the user locked, and has been or will be at everything of the user.
Deletes(D, T, C) ==
    /\ \A row \in DOMAIN T.writes : ~Live(T.writes[row]) =>
          \/ Deleting(C) /\ row = UserRow(C.user)
          \/ Deleting(C) /\ BelongsTo(row, D[row], C.user)
          \/ Claiming(C) /\ row = PasswordRow(C.user)
    /\ C.op = "delete" => \A row \in DOMAIN T.writes : ~Live(T.writes[row])
    /\ Deleting(C) =>
          /\ Locked(T, UserRow(C.user))
          /\ UserRow(C.user) \in DOMAIN T.writes
          /\ \A row \in Rows : BelongsTo(row, D[row], C.user) => row \in C.todo \cup DOMAIN T.writes
          /\ \A row \in C.todo : BelongsTo(row, D[row], C.user)

AfterRevoke == {"invalidate_verify", "invalidate_reset", "set_verified", "insert_identity", "issue", "commit"}

\* A claim has the user locked; what it has come past of the account is discarded,
\* but for the rows that it is just going through.
Claims(D, T, C) ==
    Claiming(C) =>
        LET u == C.user
            password == PasswordRow(u)
        IN  /\ Locked(T, UserRow(u)) /\ Live(D[UserRow(u)])
            /\ Stage(C) # "drop_password" =>
                  password \in DOMAIN T.writes /\ T.writes[password] = None /\ Locked(T, password)
            /\ Stage(C) \in AfterRevoke =>
                  \A t \in Tokens : LET row == RefreshRow(t)
                                        token == Seen(D, T, row)
                                    IN  BelongsTo(row, token, u) =>
                                            token.revoked \/ token.via = "claim" \/ row \in C.todo
            /\ \A l \in Links : LET row == LinkRow(l)
                                    link == Seen(D, T, row)
                                IN  /\ BelongsTo(row, link, u)
                                    /\ \/ Stage(C) \in AfterRevoke \ {"invalidate_verify", "invalidate_reset"}
                                       \/ Stage(C) = "invalidate_reset" /\ link.kind = "verify_email"
                                    => link.used \/ row \in C.todo
            /\ Stage(C) \in {"issue", "commit"} => HasIdentity(T, C)

-----------------------------------------------------------------------------
(* The committed rows *)

OwnersLive(D) ==
    \A row \in Rows, u \in Users : BelongsTo(row, D[row], u) => Live(D[UserRow(u)])

HoldersTrusted(D, P) ==
    /\ \A t \in Tokens : Live(D[RefreshRow(t)]) => Trusted(D[UserRow(D[RefreshRow(t)].user)])
    /\ \A s \in Subjects : Live(D[IdentityRow(s)]) => Trusted(D[UserRow(D[IdentityRow(s)].user)])
    /\ \A u \in P : Trusted(D[UserRow(u)])

\* A family is named for its first token; a token that was rotated is used.
FamiliesKept(D) ==
    \A t \in Tokens : LET token == D[RefreshRow(t)]
                      IN  Live(token) =>
                            /\ D[RefreshRow(token.family)] # None
                            /\ token.via = "rotate" =>
                                  /\ token.from \in Tokens
                                  /\ LET old == D[RefreshRow(token.from)]
                                     IN  old = Gone \/ (Live(old) /\ old.used # None)

RotatedOnceIn(D) ==
    \A t1, t2 \in Tokens :
        /\ Live(D[RefreshRow(t1)]) /\ Live(D[RefreshRow(t2)])
        /\ D[RefreshRow(t1)].via = "rotate" /\ D[RefreshRow(t2)].via = "rotate"
        /\ D[RefreshRow(t1)].from = D[RefreshRow(t2)].from
        => t1 = t2

LoginKept(D) ==
    \A u \in Users : Live(D[UserRow(u)]) =>
        \/ Live(D[PasswordRow(u)])
        \/ \E s \in Subjects : Live(D[IdentityRow(s)]) /\ D[IdentityRow(s)].user = u

-----------------------------------------------------------------------------

RowsSound(D, P) ==
    OwnersLive(D) /\ HoldersTrusted(D, P) /\ FamiliesKept(D) /\ RotatedOnceIn(D) /\ LoginKept(D)

\* A request under way, and its transaction.
Working(D, T, C) ==
    /\ C.op # "none" /\ Progress(C) /\ Parameters(C)
    /\ WritesLocked(D, T) /\ WritesFollow(D, T) /\ WritesReference(D, T)
    /\ UserKnown(D, T, C) /\ Exchanges(D, T, C) /\ SessionsSound(D, T, C)
    /\ Logins(D, T, C) /\ Deletes(D, T, C) /\ Claims(D, T, C)

HandlerSound(D, T, C) == (C = Idle /\ T = NoTx) \/ Working(D, T, C)

\* Transactions exclude one another by their locks, what they have not committed
\* yet is sound, and so is what they have (the methods of Service in service.go with
\* the queries and row locks they run): behind all properties of Authentication.
AuthInv ==
    /\ RowsSound(db, principals)
    /\ \A h \in Handlers : HandlerSound(db, tx[h], call[h])
    /\ \A g, h \in Handlers : g # h => Exclusive(tx[g], tx[h])
=============================================================================
