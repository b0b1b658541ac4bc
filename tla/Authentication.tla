--------------------------- MODULE Authentication ---------------------------
(***************************************************************************)
(* Authentication as a whole: the endpoints of                             *)
(* src/internal/httpapi/auth_handlers.go and the create-admin command      *)
(* start requests, auth.Service serves them statement by statement and     *)
(* side by side, transactions wait for one another's locks, deadlock, fail *)
(* and roll back, and time passes.                                         *)
(*                                                                         *)
(* A client may present any token or link that was ever committed, at any  *)
(* time and in several requests at once: answers are lost, clients retry.  *)
(* An access token is taken to be valid for good, which only adds          *)
(* requests to the ones an unexpired token can make.                       *)
(***************************************************************************)
EXTENDS AuthService

(* A scenario bounds a behaviour: the accounts there are at the start, the  *)
(* requests that clients make and the addresses in them, where the clock   *)
(* stops and how many statements fail.                                     *)
CONSTANT Scenarios

VARIABLE scenario

vars == <<authVars, scenario>>

ASSUME AuthAssumption ==
    /\ Users \subseteq Nat /\ Tokens \subseteq Nat /\ Links \subseteq Nat
    /\ SubjectEmail \in [Subjects -> Emails]
    /\ Grace \in Nat /\ RefreshTTL \in Nat /\ VerifyTTL \in Nat /\ ResetTTL \in Nat
    /\ None \notin Users \cup Tokens \cup Links \cup Emails \cup Subjects \cup Passwords \cup Nat
    /\ Gone # None /\ \A row \in Rows : None \notin ValueOf(row) /\ Gone \notin ValueOf(row)
    /\ \A s \in Scenarios :
        /\ s.accounts \in Seq([email : Emails, password : Passwords, verified : BOOLEAN])
        /\ DOMAIN s.accounts \subseteq Users \cap Tokens \cap Links
        /\ s.emails \subseteq Emails
        /\ s.until \in Nat /\ s.faults \in Nat

Accounts == scenario.accounts

(* An account whose email is verified has been signed in to once; one that *)
(* is not has the link that registration mailed.                           *)
Init ==
    /\ scenario \in Scenarios
    /\ db = [row \in Rows |->
                IF row[1] \notin {"user", "password", "refresh", "link"} \/ row[2] \notin DOMAIN Accounts
                THEN None
                ELSE LET account == Accounts[row[2]]
                     IN  CASE row[1] = "user" -> [email |-> account.email, verified |-> account.verified]
                           [] row[1] = "password" -> [hash |-> account.password]
                           [] row[1] = "refresh" ->
                                IF ~account.verified THEN None
                                ELSE [user |-> row[2], family |-> row[2], expires |-> RefreshTTL,
                                      used |-> None, revoked |-> FALSE, from |-> None, via |-> "password"]
                           [] row[1] = "link" ->
                                IF account.verified THEN None
                                ELSE [user |-> row[2], kind |-> "verify_email", expires |-> VerifyTTL,
                                      used |-> FALSE]]
    /\ tx = [h \in Handlers |-> NoTx]
    /\ call = [h \in Handlers |-> Idle]
    /\ now = 0
    /\ principals = {i \in DOMAIN Accounts : Accounts[i].verified}
    /\ faults = scenario.faults

----------------------------------------------------------------------------
(* The endpoints. *)

\* The ids a request may take, and whether enough are left (a bound).
Mints(op) == CASE op = "register" -> {"user", "link"}
               [] op = "createAdmin" -> {"user"}
               [] op = "federated" -> {"user", "refresh"}
               [] op \in {"forgot", "resend"} -> {"link"}
               [] op \in {"login", "refresh", "verify", "reset"} -> {"refresh"}
               [] OTHER -> {}

IdsOf(table) == CASE table = "user" -> Users [] table = "refresh" -> Tokens [] table = "link" -> Links

Room(op) == \A table \in Mints(op) :
    Cardinality({i \in IdsOf(table) : db[<<table, i>>] = None})
        > Cardinality({g \in Handlers : table \in Mints(call[g].op)})

Serve(h, op, method, request) ==
    /\ op \in scenario.ops
    /\ ~Busy(h)
    /\ Room(op)
    /\ call' = [call EXCEPT ![h] = [request EXCEPT !.op = op, !.steps = method]]
    /\ UNCHANGED <<db, tx, now, principals, faults>>

Issued(table) == {i \in IdsOf(table) : db[<<table, i>>] # None}

PostRegister(h) == \E e \in scenario.emails, p \in Passwords :
    Serve(h, "register", Register, [Idle EXCEPT !.email = e, !.password = p])

PostResendVerification(h) == \E e \in scenario.emails :
    Serve(h, "resend", ResendVerification, [Idle EXCEPT !.email = e])

PostVerifyEmail(h) == \E l \in Issued("link") :
    Serve(h, "verify", VerifyEmail, [Idle EXCEPT !.link = l])

PostLogin(h) == \E e \in scenario.emails, p \in Passwords :
    Serve(h, "login", Login, [Idle EXCEPT !.email = e, !.current = p])

PostRefresh(h) == \E t \in Issued("refresh") :
    Serve(h, "refresh", Refresh, [Idle EXCEPT !.token = t, !.began = now])

PostLogout(h) == \E t \in Issued("refresh") :
    Serve(h, "logout", Logout, [Idle EXCEPT !.token = t])

PostForgotPassword(h) == \E e \in scenario.emails :
    Serve(h, "forgot", ForgotPassword, [Idle EXCEPT !.email = e])

PostResetPassword(h) == \E l \in Issued("link"), p \in Passwords :
    Serve(h, "reset", ResetPassword, [Idle EXCEPT !.link = l, !.password = p])

PostFederatedLogin(h) == \E s \in Subjects :
    Serve(h, "federated", FederatedLogin, [Idle EXCEPT !.subject = s, !.email = SubjectEmail[s]])

PostLinkFederated(h) == \E u \in principals, s \in Subjects :
    Serve(h, "link", LinkFederated, [Idle EXCEPT !.user = u, !.subject = s])

PostChangePassword(h) == \E u \in principals, old, new \in Passwords :
    Serve(h, "changePassword", ChangePassword, [Idle EXCEPT !.user = u, !.current = old, !.password = new])

DeleteMe(h) == \E u \in principals :
    Serve(h, "delete", DeleteAccount, [Idle EXCEPT !.user = u])

RunCreateAdmin(h) == \E e \in scenario.emails, p \in Passwords :
    Serve(h, "createAdmin", CreateAdmin, [Idle EXCEPT !.email = e, !.password = p])

Request(h) ==
    \/ PostRegister(h) \/ PostResendVerification(h) \/ PostVerifyEmail(h)
    \/ PostLogin(h) \/ PostRefresh(h) \/ PostLogout(h)
    \/ PostForgotPassword(h) \/ PostResetPassword(h)
    \/ PostFederatedLogin(h) \/ PostLinkFederated(h)
    \/ PostChangePassword(h) \/ DeleteMe(h) \/ RunCreateAdmin(h)

Tick == /\ now < scenario.until
        /\ now' = now + 1
        /\ UNCHANGED <<db, tx, call, principals, faults>>

Next ==
    /\ \/ \E h \in Handlers : Request(h) \/ ServiceStep(h) \/ DeadlockVictim(h) \/ Fail(h)
       \/ Tick
    /\ UNCHANGED scenario

Spec == Init /\ [][Next]_vars

----------------------------------------------------------------------------
(* Properties. *)

RowsOf(table) == {i \in IdsOf(table) : db[<<table, i>>] \notin {None, Gone}}

\* Every table, transaction and request has its type.
TypeOK ==
    /\ scenario \in Scenarios
    /\ DOMAIN db = Rows /\ DOMAIN tx = Handlers /\ DOMAIN call = Handlers
    /\ \A row \in Rows : db[row] \in Stored(row)
    /\ \A h \in Handlers :
        /\ DOMAIN tx[h].writes \subseteq Rows
        /\ \A row \in DOMAIN tx[h].writes : tx[h].writes[row] \in Stored(row)
        /\ tx[h].locks \subseteq (Rows \cup {EmailKey(e) : e \in Emails} \cup {LinkedKey(u) : u \in Users})
                                    \X Modes
        /\ call[h] \in Call
        /\ call[h].op = "none" => call[h] = Idle /\ tx[h] = NoTx
    /\ principals \subseteq Users
    /\ now \in 0..scenario.until
    /\ faults \in 0..scenario.faults

(* A refresh token is rotated into one token only, however many requests   *)
(* present it at once: the others are retries within the grace period or   *)
(* reuse (Refresh, service.go:192).                                        *)
RotatedOnce ==
    \A t1, t2 \in RowsOf("refresh") :
        /\ db[RefreshRow(t1)].via = "rotate"
        /\ db[RefreshRow(t2)].via = "rotate"
        /\ db[RefreshRow(t1)].from = db[RefreshRow(t2)].from
        => t1 = t2

FamilyIn(rows, f) == {t \in Tokens : rows[RefreshRow(t)] \notin {None, Gone}
                                       /\ rows[RefreshRow(t)].family = f}

RevokedIn(rows, f) == \A t \in FamilyIn(rows, f) : rows[RefreshRow(t)].revoked

(* Once every token of a family is revoked, by reuse detection, logout,    *)
(* reset, change of password or claim, no later refresh, retry or request  *)
(* already under way brings the family back to life (Refresh,              *)
(* service.go:190-208).                                                    *)
DeadFamilyStaysDead ==
    [][\A f \in Tokens : FamilyIn(db, f) # {} /\ RevokedIn(db, f) => RevokedIn(db', f)]_authVars

(* A one-time link that was used, or that a resend, a new request or a     *)
(* claim has invalidated, buys no session, also when it was presented      *)
(* before (consumeOneTimeToken, service.go:562-582).                       *)
SpentLinkIsWorthless ==
    [][\A t \in Tokens :
          LET old == db[RefreshRow(t)]
              new == db'[RefreshRow(t)]
          IN  old = None /\ new # None
              => (new.via = "link" => ~db[LinkRow(new.from)].used)]_authVars

(* When the provider takes over an unverified account, the unproven        *)
(* password and any outstanding tokens are discarded (service.go:356-358): *)
(* none is left, and no transaction is about to add one.                   *)
OpenIn(rows, u) ==
    {row \in DOMAIN rows :
        /\ rows[row] \notin {None, Gone}
        /\ \/ row = PasswordRow(u)
           \/ row[1] = "link" /\ rows[row].user = u /\ ~rows[row].used
           \/ row[1] = "refresh" /\ rows[row].user = u /\ ~rows[row].revoked /\ rows[row].via # "claim"}

ClaimDiscards ==
    [][\A h \in Handlers :
          call[h].via = "claim" /\ call'[h] = Idle /\ db' # db
          => LET u == call[h].user
             IN  OpenIn(db', u) = {} /\ \A g \in Handlers \ {h} : OpenIn(tx[g].writes, u) = {}]_authVars

(* An account can always be signed in to: it has a password or an          *)
(* identity, also after a claim that failed half way                       *)
(* (claimUnverifiedAccount, service.go:381-408).                           *)
EveryAccountHasALogin ==
    \A u \in RowsOf("user") :
        \/ db[PasswordRow(u)] # None
        \/ \E s \in Subjects : db[IdentityRow(s)] # None /\ db[IdentityRow(s)].user = u

(* Only verified accounts hold sessions, whichever of the five ways to a   *)
(* session was taken (Login, service.go:168).                              *)
SessionsAreVerified ==
    \A t \in RowsOf("refresh") : LET user == db[UserRow(db[RefreshRow(t)].user)]
                                 IN  user \in {None, Gone} \/ user.verified

(* A deleted account leaves no session, link, password or identity behind, *)
(* also when a request was about to add one (DeleteAccount,                *)
(* service.go:527-529).                                                    *)
DeletionIsComplete ==
    \A row \in Rows : row[1] # "user" /\ db[row] \notin {None, Gone}
        => db[UserRow(OwnerOf(row, db[row]))] # Gone

(* docs/AUDIT_REPORT.md:42: SetPassword executes                           *)
(* RevokeAllUserRefreshTokens, "invalidating all active refresh token      *)
(* families upon password changes".  When the revocation commits, every    *)
(* family it reached is revoked as a whole.                                *)
PasswordChangeEndsSessions ==
    [][\A h \in Handlers :
          call[h].op \in {"changePassword", "reset"} /\ call'[h] = Idle
          => \A t \in RowsOf("refresh") :
                LET row == RefreshRow(t)
                IN  ~db[row].revoked /\ db'[row] \notin {None, Gone} /\ db'[row].revoked
                    => RevokedIn(db', db[row].family)]_authVars
=============================================================================
