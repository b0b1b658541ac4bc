----------------------------- MODULE AuthService -----------------------------
(***************************************************************************)
(* The methods of auth.Service (src/internal/auth/service.go), one action  *)
(* per SQL statement.  A method is the sequence of statements it still has *)
(* to run; a statement that branches replaces the rest.  A statement waits *)
(* until the rows it locks are free, and an early return rolls back.       *)
(*                                                                         *)
(* Statements that touch only rows their transaction has just inserted or  *)
(* has already locked run together with the statement next to them.        *)
(***************************************************************************)
EXTENDS AuthDatabase

CONSTANTS
    SubjectEmail,   \* the verified email the provider asserts for a subject
    Grace,          \* refreshReuseGrace, in clock ticks
    RefreshTTL,     \* config.RefreshTokenTTL
    VerifyTTL,      \* verificationTokenTTL
    ResetTTL        \* passwordResetTTL

VARIABLES
    call,           \* the request each handler serves
    now,            \* the clock
    principals,     \* users that were ever given an access token
    faults          \* bound: how many statements may still fail

authVars == <<db, tx, call, now, principals, faults>>

\* The statements of each method.
Register == <<"insert_user", "commit">>
CreateAdmin == <<"insert_user", "commit">>
ResendVerification == <<"read_user", "invalidate_verify", "insert_link", "commit">>
ForgotPassword == <<"read_user", "invalidate_reset", "insert_link", "commit">>
VerifyEmail == <<"lock_link", "set_verified", "issue", "commit">>
ResetPassword == <<"lock_link", "set_verified", "set_password", "revoke", "issue", "commit">>
Login == <<"read_credential", "issue", "commit">>
Refresh == <<"lock_token">>
RotateToken == <<"issue", "commit">>
ReuseDetected == <<"revoke", "commit">>
Logout == <<"revoke", "commit">>
\* UpsertPasswordCredential and RevokeAllUserRefreshTokens commit on their own.
SetPassword == <<"set_password", "commit", "revoke", "commit">>
ChangePassword == <<"read_credential">> \o SetPassword
DeleteAccount == <<"delete", "commit">>
FederatedLogin == <<"read_identity">>
KnownIdentity == <<"issue", "commit">>
NewIdentity == <<"insert_user", "insert_identity", "issue", "commit">>
MutClaimUnproven == <<"lock_account", "drop_password", "revoke", "invalidate_verify",
                      "invalidate_reset", "insert_identity", "issue", "commit">>
ClaimUnverifiedAccount == <<"lock_account", "drop_password", "revoke", "invalidate_verify",
                            "invalidate_reset", "set_verified", "insert_identity", "issue", "commit">>
LinkFederated == <<"read_identity", "insert_identity", "commit">>

\* A handler that serves nothing, and the parameters no request has set.
Idle == [op |-> "none", steps |-> <<>>, todo |-> {}, user |-> None, token |-> None, link |-> None,
         email |-> None, subject |-> None, current |-> None, password |-> None, family |-> None,
         via |-> "none", began |-> 0]

Statements == {"insert_user", "read_user", "insert_link", "read_credential", "revoke", "invalidate_verify",
               "invalidate_reset", "lock_link", "set_verified", "set_password", "lock_token", "issue",
               "read_identity", "read_email", "lock_account", "drop_password", "insert_identity", "delete",
               "commit"}

Vias == {"none", "password", "identity", "claim", "link", "rotate", "grace"}

Call == [op : {"none", "register", "createAdmin", "resend", "forgot", "verify", "reset", "login", "refresh",
               "logout", "changePassword", "delete", "federated", "link"},
         steps : Seq(Statements), todo : SUBSET Rows, user : Users \cup {None}, token : Tokens \cup {None},
         link : Links \cup {None}, email : Emails \cup {None}, subject : Subjects \cup {None},
         current : Passwords \cup {None}, password : Passwords \cup {None},
         family : Tokens \cup {None}, via : Vias, began : Nat]

\* The foreign key of a row that references user u.
MutDangling(h, u) == TRUE

References(h, u) == Visible(h, UserRow(u))

LinkKind(op) == IF op \in {"verify", "resend", "register"} THEN "verify_email" ELSE "reset_password"

\* The next statement of h; a statement that visits many rows comes first.
At(h, s) == call[h].todo = {} /\ call[h].steps # <<>> /\ Head(call[h].steps) = s

\* A statement that visits many rows does so in an order that nobody promises.
NextRow(rows) == CHOOSE row \in rows : TRUE

\* SELECT ... FOR UPDATE locks the rows it finds.
ForUpdate(rows) == {<<row, "update">> : row \in rows}

MutTokenNotLocked(c) == {}

TokenLock(c) == ForUpdate(GetRefreshTokenForUpdate(c.token))

MutLinkNotLocked(c) == {}

LinkLock(c) == ForUpdate(GetOneTimeTokenForUpdate(c.link, LinkKind(c.op)))

MutAccountNotLocked(c) == {}

AccountLock(c) == ForUpdate({UserRow(u) : u \in GetUserByEmailForUpdate(c.email)})

\* The locks its next statement takes.
Wants(h) ==
    LET c == call[h]
    IN  CASE c.todo # {} -> {<<NextRow(c.todo), "update">>}
          [] At(h, "insert_user") -> {<<EmailKey(c.email), "update">>}
          [] At(h, "set_verified") -> {<<UserRow(c.user), "no_key_update">>}
          [] At(h, "set_password") ->
                {<<PasswordRow(c.user), "update">>}
                \cup IF Visible(h, PasswordRow(c.user)) THEN {} ELSE {<<UserRow(c.user), "key_share">>}
          [] At(h, "insert_link") -> {<<UserRow(c.user), "key_share">>}
          [] At(h, "issue") -> {<<UserRow(c.user), "key_share">>}
          [] At(h, "insert_identity") ->
                {<<IdentityRow(c.subject), "update">>, <<LinkedKey(c.user), "update">>,
                 <<UserRow(c.user), "key_share">>}
          [] At(h, "drop_password") -> {<<PasswordRow(c.user), "update">>}
          [] At(h, "lock_token") -> TokenLock(c)
          [] At(h, "lock_link") -> LinkLock(c)
          [] At(h, "lock_account") -> AccountLock(c)
          [] At(h, "delete") ->
                IF Visible(h, UserRow(c.user))
                THEN {<<UserRow(c.user), "update">>, <<EmailKey(db[UserRow(c.user)].email), "update">>}
                ELSE {}
          [] OTHER -> {}

Blockers(h) == Holders(h, Wants(h))

\* h has locked what its next statement, s, needs.
Runs(h, s) == At(h, s) /\ Blockers(h) = {}

\* The statement succeeds, and c is what the method knows now.
Continues(h, writes, c) ==
    /\ Statement(h, Wants(h), writes)
    /\ call' = [call EXCEPT ![h] = c]
    /\ UNCHANGED <<db, now, principals, faults>>

\* What is left when the next statement is done.
Rest(h) == [call[h] EXCEPT !.steps = Tail(@)]

MutReturnKeepsTx(h) ==
    /\ call' = [call EXCEPT ![h] = Idle]
    /\ UNCHANGED <<db, tx, now, principals, faults>>

\* return: defer tx.Rollback(ctx) undoes what was not committed.
Returns(h) ==
    /\ RollbackTx(h)
    /\ call' = [call EXCEPT ![h] = Idle]
    /\ UNCHANGED <<now, principals, faults>>

----------------------------------------------------------------------------
(* The statements. *)

InsertUser(h) ==
    LET c == call[h]
        goesOn(u, writes) == Continues(h, writes, [Rest(h) EXCEPT !.user = u])
        withPassword(u) == CreatePasswordCredential(u, c.password)
    IN  /\ Runs(h, "insert_user")
        /\ IF GetUserByEmail(h, c.email) # {}
           THEN Returns(h)                        \* email_in_use, account_link_required
           ELSE \E u \in NewId("user", Users) :
                  \/ /\ c.op = "register"
                     /\ \E l \in NewId("link", Links) :
                          goesOn(u, Over(Over(CreateUser(u, c.email), withPassword(u)),
                                         CreateOneTimeToken(l, u, LinkKind(c.op), now + VerifyTTL)))
                  \/ /\ c.op = "createAdmin"
                     /\ goesOn(u, Over(CreateAdminUser(u, c.email), withPassword(u)))
                  \/ /\ c.op = "federated"
                     /\ goesOn(u, Put(UserRow(u), [email |-> c.email, verified |-> TRUE]))

\* GetUserByEmail of ResendVerification and ForgotPassword.
ReadUser(h) ==
    LET found == {u \in GetUserByEmail(h, call[h].email) :
                     call[h].op = "resend" => ~Get(h, UserRow(u)).verified}
    IN  /\ Runs(h, "read_user")
        /\ IF found = {} THEN Returns(h)
           ELSE \E u \in found : Continues(h, NoWrites, [Rest(h) EXCEPT !.user = u])

InsertLink(h) ==
    LET c == call[h]
        ttl == IF c.op = "resend" THEN VerifyTTL ELSE ResetTTL
    IN  /\ Runs(h, "insert_link")
        /\ IF ~References(h, c.user) THEN Returns(h)     \* foreign key violation
           ELSE \E l \in NewId("link", Links) :
                    Continues(h, CreateOneTimeToken(l, c.user, LinkKind(c.op), now + ttl), Rest(h))

\* The credential is read before the transaction that issues the session or
\* the statement that replaces it.
ReadCredential(h) ==
    LET c == call[h]
        found == IF c.op = "login" THEN GetPasswordCredentialByEmail(h, c.email) ELSE {c.user}
        valid == {u \in found : \E p \in GetPasswordCredentialByUserID(h, u) : p.hash = c.current}
        allowed == {u \in valid : c.op = "login" => Get(h, UserRow(u)).verified}
    IN  /\ Runs(h, "read_credential")
        /\ IF allowed = {} THEN Returns(h)
           ELSE \E u \in allowed : Continues(h, NoWrites, [Rest(h) EXCEPT !.user = u, !.via = "password"])

\* RevokeAllUserRefreshTokens, RevokeRefreshFamily or RevokeRefreshToken
\* starts: which rows it visits is settled by what is committed now.
Revoke(h) ==
    LET c == call[h]
    IN  /\ Runs(h, "revoke")
        /\ LET rows == CASE c.op = "logout" -> RevokeRefreshToken(h, c.token)
                         [] c.op = "refresh" -> RevokeRefreshFamily(h, c.family)
                         [] OTHER -> RevokeAllUserRefreshTokens(h, c.user)
           IN  Continues(h, NoWrites, [Rest(h) EXCEPT !.todo = rows])

InvalidateKind(h, s, kind) ==
    /\ Runs(h, s)
    /\ LET rows == InvalidateUserOneTimeTokens(h, call[h].user, kind)
       IN  Continues(h, NoWrites, [Rest(h) EXCEPT !.todo = rows])

Invalidate(h) == InvalidateKind(h, "invalidate_verify", "verify_email")
                   \/ InvalidateKind(h, "invalidate_reset", "reset_password")

\* The row that an UPDATE or ON DELETE CASCADE has come to.
VisitRow(h) ==
    LET c == call[h]
        row == NextRow(c.todo)
    IN  /\ c.todo # {}
        /\ Blockers(h) = {}
        /\ Continues(h, ChangeRow(h, row, c.op = "delete"), [c EXCEPT !.todo = @ \ {row}])

\* consumeOneTimeToken up to apply.
LockLink(h) ==
    LET c == call[h]
        found == {r \in GetOneTimeTokenForUpdate(c.link, LinkKind(c.op)) :
                     ~db[r].used /\ db[r].expires > now}
    IN  /\ Runs(h, "lock_link")
        /\ IF found = {} THEN Returns(h)
           ELSE \E r \in found : Continues(h, NoWrites, [Rest(h) EXCEPT !.user = db[r].user, !.via = "link"])

SetVerified(h) ==
    /\ Runs(h, "set_verified")
    /\ Continues(h, SetUserEmailVerified(h, call[h].user), Rest(h))

SetCredential(h) ==
    LET c == call[h]
    IN  /\ Runs(h, "set_password")
        /\ IF ~References(h, c.user) THEN Returns(h)
           ELSE Continues(h, UpsertPasswordCredential(c.user, c.password), Rest(h))

MutGraceAfterRevocation(row) ==
    row.used # None /\ now - row.used <= Grace /\ row.expires > now

\* The reuse test of Refresh: a retry shortly after rotation is not theft.
WithinGrace(row) ==
    ~row.revoked /\ row.used # None /\ now - row.used <= Grace /\ row.expires > now

LockToken(h) ==
    LET c == call[h]
        row == db[RefreshRow(c.token)]
        goesOn(steps, via) ==
            Continues(h, NoWrites, [c EXCEPT !.steps = steps, !.via = via, !.user = row.user,
                                         !.family = row.family])
    IN  /\ Runs(h, "lock_token")
        /\ \/ /\ GetRefreshTokenForUpdate(c.token) = {}
              /\ Returns(h)
           \/ /\ GetRefreshTokenForUpdate(c.token) # {}
              /\ IF WithinGrace(row) THEN goesOn(RotateToken, "grace")
                 ELSE IF row.used # None \/ row.revoked THEN goesOn(ReuseDetected, "none")
                 ELSE IF row.expires <= now THEN Returns(h)
                 ELSE goesOn(RotateToken, "rotate")

\* issueSessionWithQueries, and before it what marks the token or the link
\* that is exchanged for the session.
Issue(h) ==
    LET c == call[h]
        family(t) == IF c.family = None THEN t ELSE c.family
        from == CASE c.via \in {"rotate", "grace"} -> c.token
                  [] c.via = "link" -> c.link
                  [] OTHER -> None
        spent == CASE c.via = "rotate" -> MarkRefreshTokenUsed(h, c.token, c.began)
                   [] c.via = "link" -> MarkOneTimeTokenUsed(h, c.link)
                   [] OTHER -> NoWrites
    IN  /\ Runs(h, "issue")
        /\ IF ~References(h, c.user) THEN Returns(h)     \* foreign key violation
           ELSE \E t \in NewId("refresh", Tokens) :
                    Continues(h, Over(spent, CreateRefreshToken(t, family(t), c.user, now + RefreshTTL,
                                                                from, c.via)),
                              Rest(h))

\* GetUserByIdentity of FederatedLogin and LinkFederated.
ReadIdentity(h) ==
    LET c == call[h]
        found == GetUserByIdentity(h, c.subject)
    IN  /\ Runs(h, "read_identity")
        /\ IF c.op = "link"
           THEN IF found = {} THEN Continues(h, NoWrites, Rest(h)) ELSE Returns(h)
           ELSE IF found = {} THEN Continues(h, NoWrites, [c EXCEPT !.steps = <<"read_email">>])
           ELSE \E u \in found :
                    Continues(h, NoWrites, [c EXCEPT !.steps = KnownIdentity, !.user = u, !.via = "identity"])

\* GetUserByEmail of FederatedLogin: nobody, an unproven account, or an
\* account whose owner has to link the provider.
ReadEmail(h) ==
    LET c == call[h]
        found == GetUserByEmail(h, c.email)
    IN  /\ Runs(h, "read_email")
        /\ IF found = {}
           THEN Continues(h, NoWrites, [c EXCEPT !.steps = NewIdentity, !.via = "identity"])
           ELSE IF \E u \in found : Get(h, UserRow(u)).verified
           THEN Returns(h)
           ELSE Continues(h, NoWrites, [c EXCEPT !.steps = ClaimUnverifiedAccount, !.via = "claim"])

\* GetUserByEmailForUpdate of claimUnverifiedAccount and the tests after it.
LockAccount(h) ==
    LET c == call[h]
        free == {u \in GetUserByEmailForUpdate(c.email) :
                    ~db[UserRow(u)].verified /\ CountUserIdentities(h, u) = 0}
    IN  /\ Runs(h, "lock_account")
        /\ IF free = {} THEN Returns(h)
           ELSE \E u \in free : Continues(h, NoWrites, [Rest(h) EXCEPT !.user = u])

DropPassword(h) ==
    /\ Runs(h, "drop_password")
    /\ Continues(h, DeletePasswordCredential(call[h].user), Rest(h))

MutConflictIgnored(h) ==
    LET c == call[h]
    IN  /\ Runs(h, "insert_identity")
        /\ Continues(h, IF Visible(h, IdentityRow(c.subject)) THEN NoWrites ELSE CreateIdentity(c.subject, c.user),
                     Rest(h))

\* CreateIdentity: identity_in_use, provider_already_linked or a user that is
\* gone end the request.
InsertIdentity(h) ==
    LET c == call[h]
        conflict == \/ Visible(h, IdentityRow(c.subject))
                    \/ CountUserIdentities(h, c.user) > 0
                    \/ ~References(h, c.user)
    IN  /\ Runs(h, "insert_identity")
        /\ IF conflict THEN Returns(h)
           ELSE Continues(h, CreateIdentity(c.subject, c.user), Rest(h))

\* The deletion of the row; VisitRow deletes what references it.
Delete(h) ==
    LET c == call[h]
    IN  /\ Runs(h, "delete")
        /\ IF Visible(h, UserRow(c.user))
           THEN Continues(h, DeleteUser(c.user), [Rest(h) EXCEPT !.todo = CascadeOf(h, c.user)])
           ELSE Returns(h)

\* tx.Commit, or the end of a statement outside a transaction.
Commit(h) ==
    LET issued == {t \in Tokens : RefreshRow(t) \in DOMAIN tx[h].writes
                                    /\ tx[h].writes[RefreshRow(t)] # Gone}
    IN  /\ Runs(h, "commit")
        /\ CommitTx(h)
        /\ call' = [call EXCEPT ![h] = IF Len(@.steps) = 1 THEN Idle ELSE Rest(h)]
        /\ principals' = principals \cup {tx[h].writes[RefreshRow(t)].user : t \in issued}
        /\ UNCHANGED <<now, faults>>

----------------------------------------------------------------------------

ServiceStep(h) ==
    \/ InsertUser(h) \/ ReadUser(h) \/ InsertLink(h) \/ ReadCredential(h)
    \/ Revoke(h) \/ Invalidate(h) \/ VisitRow(h)
    \/ LockLink(h) \/ SetVerified(h) \/ SetCredential(h)
    \/ LockToken(h) \/ Issue(h)
    \/ ReadIdentity(h) \/ ReadEmail(h) \/ LockAccount(h) \/ DropPassword(h)
    \/ InsertIdentity(h) \/ Delete(h) \/ Commit(h)

Busy(h) == call[h].op # "none"

\* Each transaction of a cycle waits for another one of it.
Deadlocked(h) ==
    \E S \in SUBSET Handlers : h \in S /\ \A g \in S : Blockers(g) \cap S # {}

\* PostgreSQL's deadlock_timeout: a transaction of the cycle is rolled back,
\* its statement fails, and the request with it.
DeadlockVictim(h) == Busy(h) /\ Deadlocked(h) /\ Returns(h)

\* A statement fails, or the connection, the client or the process goes away.
Fail(h) ==
    /\ Busy(h)
    /\ faults > 0
    /\ faults' = faults - 1
    /\ RollbackTx(h)
    /\ call' = [call EXCEPT ![h] = Idle]
    /\ UNCHANGED <<now, principals>>
=============================================================================
