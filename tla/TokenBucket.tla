----------------------------- MODULE TokenBucket -----------------------------
(***************************************************************************)
(* What the rate limiter of the authentication endpoints promises: every   *)
(* client has a bucket of its own, which fills with time and from which    *)
(* each admitted request takes one token; a request is refused exactly     *)
(* when its client's bucket holds less than a token.                       *)
(***************************************************************************)
EXTENDS Integers

CONSTANTS
    Clients,      \* the addresses that requests come from
    Every,        \* clock ticks per token
    Burst         \* tokens that a bucket holds

\* Buckets are filled in clock ticks, so that no fraction of a token is lost.
Full == Burst * Every

VARIABLES
    bucket,       \* the fill of each client's bucket, in clock ticks
    answer        \* the last request and whether it was admitted

vars == <<bucket, answer>>

Init == /\ bucket = [c \in Clients |-> Full]
        /\ answer = [client |-> CHOOSE c \in Clients : TRUE, allowed |-> TRUE]

Refill == /\ bucket' = [c \in Clients |-> IF bucket[c] < Full THEN bucket[c] + 1 ELSE Full]
          /\ UNCHANGED answer

Admit(c) == /\ bucket[c] >= Every
            /\ bucket' = [bucket EXCEPT ![c] = @ - Every]
            /\ answer' = [client |-> c, allowed |-> TRUE]

Refuse(c) == /\ bucket[c] < Every
             /\ answer' = [client |-> c, allowed |-> FALSE]
             /\ UNCHANGED bucket

Next == Refill \/ \E c \in Clients : Admit(c) \/ Refuse(c)

Spec == Init /\ [][Next]_vars
=============================================================================
