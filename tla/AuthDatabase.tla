---------------------------- MODULE AuthDatabase ----------------------------
(***************************************************************************)
(* The PostgreSQL tables behind authentication (users,                     *)
(* password_credentials, identities, refresh_tokens, one_time_tokens), the *)
(* row locks and the READ COMMITTED transactions on them, and one operator *)
(* per SQL query of src/internal/store/db/auth.sql.go.                     *)
(*                                                                         *)
(* A row is named by its table and its key: the user id for a password,    *)
(* the provider's subject for an identity (google is the only provider the *)
(* schema admits).  A token's secret stands for its row, so the id of a    *)
(* token is also what a client presents.  Ids are uuids: one that was      *)
(* committed is never used again, and a deleted row becomes Gone.          *)
(***************************************************************************)
EXTENDS Integers, Sequences, FiniteSets, TLC

CONSTANTS
    Handlers,     \* goroutines that may serve a request at the same time
    Users,        \* user ids, positive integers
    Tokens,       \* refresh token ids, also used as family ids
    Links,        \* one-time token ids
    Emails,       \* normalized email addresses
    Subjects,     \* subjects of the identity provider
    Passwords,    \* passwords that pass validatePassword
    None,         \* no row, no value
    Gone          \* the row of an id that was deleted

VARIABLES
    db,           \* the committed value of every row
    tx            \* per handler: uncommitted writes and the locks held

UserRow(u) == <<"user", u>>
PasswordRow(u) == <<"password", u>>
IdentityRow(s) == <<"identity", s>>
RefreshRow(t) == <<"refresh", t>>
LinkRow(l) == <<"link", l>>

Rows == ({"user", "password"} \X Users) \cup ({"identity"} \X Subjects)
            \cup ({"refresh"} \X Tokens) \cup ({"link"} \X Links)

\* What else a transaction can wait for: an entry of the unique index on
\* users(lower(email)) and of the one on identities(user_id, provider).
EmailKey(e) == <<"email", e>>
LinkedKey(u) == <<"linked", u>>

\* via and from are auxiliary: how a token came to be, and from which token
\* or link.
User == [email : Emails, verified : BOOLEAN]
Password == [hash : Passwords]
Identity == [user : Users]
RefreshToken == [user : Users, family : Tokens, expires : Nat, used : Nat \cup {None},
                 revoked : BOOLEAN, from : Tokens \cup Links \cup {None},
                 via : {"password", "identity", "claim", "link", "rotate", "grace"}]
OneTimeToken == [user : Users, kind : {"verify_email", "reset_password"}, expires : Nat,
                 used : BOOLEAN]

ValueOf(row) == CASE row[1] = "user" -> User
                  [] row[1] = "password" -> Password
                  [] row[1] = "identity" -> Identity
                  [] row[1] = "refresh" -> RefreshToken
                  [] row[1] = "link" -> OneTimeToken

\* Writes map rows to their new values.
Put(row, value) == [r \in {row} |-> value]
NoWrites == [r \in {} |-> None]
Over(new, old) == [r \in DOMAIN new \cup DOMAIN old |-> IF r \in DOMAIN new THEN new[r] ELSE old[r]]

\* What a row may hold: a password or an identity that is deleted may come back.
Stored(row) == ValueOf(row) \cup IF row[1] \in {"password", "identity"} THEN {None} ELSE {None, Gone}

NoTx == [writes |-> NoWrites, locks |-> {}]

----------------------------------------------------------------------------
(* Row locks.  FOR UPDATE and DELETE take "update", an UPDATE of columns   *)
(* that are no key takes "no_key_update", and the foreign key of an INSERT *)
(* takes "key_share" on the row it references.                             *)

Modes == {"key_share", "no_key_update", "update"}

Conflict(m, n) == "update" \in {m, n} \/ (m = "no_key_update" /\ n = "no_key_update")

\* The transactions that stand in the way of h locking what it wants.
Holders(h, wants) ==
    {g \in Handlers \ {h} : \E w \in wants, l \in tx[g].locks : w[1] = l[1] /\ Conflict(w[2], l[2])}

----------------------------------------------------------------------------
(* READ COMMITTED: a statement sees what is committed when it starts, and  *)
(* what its own transaction wrote.                                         *)

Get(h, row) == IF row \in DOMAIN tx[h].writes THEN tx[h].writes[row] ELSE db[row]

Visible(h, row) == Get(h, row) \notin {None, Gone}

\* A statement has run: its locks are held and its writes are pending.
Statement(h, locks, writes) ==
    tx' = [tx EXCEPT ![h] = [writes |-> Over(writes, @.writes), locks |-> @.locks \cup locks]]

CommitTx(h) == /\ db' = Over(tx[h].writes, db)
               /\ tx' = [tx EXCEPT ![h] = NoTx]

RollbackTx(h) == /\ tx' = [tx EXCEPT ![h] = NoTx]
                 /\ UNCHANGED db

\* uuid.New(): an id that neither a committed nor a pending row has; the least
\* of them, or none if the bound on ids is reached.
NewId(table, ids) ==
    LET unused == {i \in ids : /\ db[<<table, i>>] = None
                               /\ \A g \in Handlers : <<table, i>> \notin DOMAIN tx[g].writes}
    IN  {i \in unused : \A j \in unused : i <= j}

----------------------------------------------------------------------------
(* The queries.  A SELECT of one row is the set of the rows it finds, a    *)
(* write is the function from rows to the values it gives them.            *)

GetUserByEmail(h, e) == {u \in Users : Visible(h, UserRow(u)) /\ Get(h, UserRow(u)).email = e}

\* The users that the SELECT ... FOR UPDATE waits for before it reads them.
GetUserByEmailForUpdate(e) == {u \in Users : db[UserRow(u)] \notin {None, Gone} /\ db[UserRow(u)].email = e}

GetUserByIdentity(h, s) == {u \in Users : Visible(h, IdentityRow(s)) /\ Get(h, IdentityRow(s)).user = u}

CountUserIdentities(h, u) == Cardinality({s \in Subjects : u \in GetUserByIdentity(h, s)})

GetPasswordCredentialByUserID(h, u) == {c \in {Get(h, PasswordRow(u))} : Visible(h, PasswordRow(u))}

GetPasswordCredentialByEmail(h, e) ==
    {u \in GetUserByEmail(h, e) : GetPasswordCredentialByUserID(h, u) # {}}

GetRefreshTokenForUpdate(t) == {r \in {RefreshRow(t)} : db[r] \notin {None, Gone}}

GetOneTimeTokenForUpdate(l, kind) ==
    {r \in {LinkRow(l)} : db[r] \notin {None, Gone} /\ db[r].kind = kind}

CreateUser(u, e) == Put(UserRow(u), [email |-> e, verified |-> FALSE])

CreateAdminUser(u, e) == Put(UserRow(u), [email |-> e, verified |-> TRUE])

SetUserEmailVerified(h, u) ==
    IF Visible(h, UserRow(u)) THEN Put(UserRow(u), [Get(h, UserRow(u)) EXCEPT !.verified = TRUE])
    ELSE NoWrites

CreatePasswordCredential(u, p) == Put(PasswordRow(u), [hash |-> p])

UpsertPasswordCredential(u, p) == Put(PasswordRow(u), [hash |-> p])

DeletePasswordCredential(u) == Put(PasswordRow(u), None)

CreateIdentity(s, u) == Put(IdentityRow(s), [user |-> u])

CreateOneTimeToken(l, u, kind, expires) ==
    Put(LinkRow(l), [user |-> u, kind |-> kind, expires |-> expires, used |-> FALSE])

MarkOneTimeTokenUsed(h, l) == Put(LinkRow(l), [Get(h, LinkRow(l)) EXCEPT !.used = TRUE])

CreateRefreshToken(t, family, u, expires, from, via) ==
    Put(RefreshRow(t), [user |-> u, family |-> family, expires |-> expires, used |-> None,
                        revoked |-> FALSE, from |-> from, via |-> via])

\* now() is the time at which the transaction began.
MarkRefreshTokenUsed(h, t, began) ==
    LET row == Get(h, RefreshRow(t))
    IN  IF row.used = None THEN Put(RefreshRow(t), [row EXCEPT !.used = began]) ELSE NoWrites

\* The WHERE clause of an UPDATE of many rows, as the statement's snapshot
\* satisfies it.
Unrevoked(h) == {row \in {"refresh"} \X Tokens : Visible(h, row) /\ ~Get(h, row).revoked}

RevokeRefreshToken(h, t) == Unrevoked(h) \cap {RefreshRow(t)}

RevokeRefreshFamily(h, f) == {row \in Unrevoked(h) : Get(h, row).family = f}

RevokeAllUserRefreshTokens(h, u) == {row \in Unrevoked(h) : Get(h, row).user = u}

InvalidateUserOneTimeTokens(h, u, kind) ==
    {row \in {"link"} \X Links : /\ Visible(h, row)
                                 /\ Get(h, row).user = u
                                 /\ Get(h, row).kind = kind
                                 /\ ~Get(h, row).used}

\* The user that a row of another table references.
OwnerOf(row, value) == IF row[1] = "password" THEN row[2] ELSE value.user

\* DELETE FROM users: the row, and what ON DELETE CASCADE deletes with it.
DeleteUser(u) == Put(UserRow(u), Gone)

CascadeOf(h, u) ==
    {row \in Rows : row[1] # "user" /\ Visible(h, row) /\ OwnerOf(row, Get(h, row)) = u}

\* UPDATE or DELETE of one row, once it is locked: the WHERE clause is
\* evaluated again on the row as it is now.
ChangeRow(h, row, deletes) ==
    IF ~Visible(h, row) THEN NoWrites
    ELSE Put(row, CASE deletes /\ row[1] \in {"password", "identity"} -> None
                    [] deletes /\ row[1] \in {"refresh", "link"} -> Gone
                    [] ~deletes /\ row[1] = "refresh" -> [Get(h, row) EXCEPT !.revoked = TRUE]
                    [] ~deletes /\ row[1] = "link" -> [Get(h, row) EXCEPT !.used = TRUE])
=============================================================================
