-------------------------- MODULE MCAuthentication --------------------------
(* Small instances of Authentication for TLC. *)
EXTENDS Authentication

CONSTANTS e1, e2, s1, p1

\* The subject has the address of the first account.
OneAddress == [s \in Subjects |-> e1]

Account(e, verified) == [email |-> e, password |-> p1, verified |-> verified]

\* One user with a session: sign in and out, refresh, retry, delete.
Sessions == [accounts |-> <<Account(e1, TRUE)>>, emails |-> {e1}, until |-> 2, faults |-> 0,
             ops |-> {"login", "refresh", "logout", "changePassword", "delete"}]

\* A registered account, and another one that is signed in: links, resets and
\* the provider's claim of the first.
Claims == [accounts |-> <<Account(e1, FALSE), Account(e2, TRUE)>>, emails |-> {e1, e2},
           until |-> 1, faults |-> 1,
           ops |-> {"verify", "forgot", "resend", "reset", "federated", "link"}]

\* No account at first: the ways to an account and to its first session.
Registration == [accounts |-> <<>>, emails |-> {e1}, until |-> 1, faults |-> 1,
                 ops |-> {"register", "createAdmin", "verify", "login", "federated", "delete"}]

AllScenarios == {Sessions, Claims, Registration}

\* A change of password beside a refresh.
PasswordChange == {[Sessions EXCEPT !.ops = {"refresh", "changePassword"}]}

Symmetry == Permutations(Handlers)
=============================================================================
