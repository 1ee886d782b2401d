----------------------------- MODULE RateLimits -----------------------------
(***************************************************************************)
(* What the rate limiter promises: each client has one bucket, full until  *)
(* its first request, and every request of the client is one decision on   *)
(* that bucket, at a time not after now.                                   *)
(***************************************************************************)
EXTENDS TokenBucket

CONSTANTS
    Clients,    \* API keys, and the addresses of clients that send none
    MaxTime     \* a bound of the model

VARIABLES
    bucket,     \* the bucket of each client
    now         \* the clock

Init ==
    /\ bucket = [c \in Clients |-> NewBucket]
    /\ now = 0

Decide(c) ==
    /\ \E t \in 0..now : bucket' = [bucket EXCEPT ![c] = Take(@, t)]
    /\ UNCHANGED now

Tick ==
    /\ now < MaxTime
    /\ now' = now + 1
    /\ UNCHANGED bucket

Next == Tick \/ \E c \in Clients : Decide(c)

Spec == Init /\ [][Next]_<<bucket, now>>
=============================================================================
