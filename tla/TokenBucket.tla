----------------------------- MODULE TokenBucket -----------------------------
(***************************************************************************)
(* rate.Limiter of golang.org/x/time 0.5.0: `tokens' at the time `last',   *)
(* refilled at Rate tokens per unit of time up to Burst.  Tokens are       *)
(* integers here (fractions of a token are not).                           *)
(***************************************************************************)
EXTENDS Integers

CONSTANTS
    Rate,   \* tokens per unit of time
    Burst   \* the most tokens a bucket holds

ASSUME RateAssumption == Rate \in Nat
ASSUME BurstAssumption == Burst \in Nat \ {0}

Bucket == [tokens : 0..Burst, last : Nat]

\* NewLimiter leaves last at the zero time, centuries ago: the first use
\* finds the bucket full.
NewBucket == [tokens |-> Burst, last |-> 0]

\* Mutant: the bucket is not full at Burst.
TokensAt_Overflows(b, t) ==
    b.tokens + (IF t < b.last THEN 0 ELSE Rate * (t - b.last))

\* The tokens at time t.  A time before `last' counts as `last': no refill.
TokensAt(b, t) ==
    LET n == b.tokens + (IF t < b.last THEN 0 ELSE Rate * (t - b.last))
    IN  IF n > Burst THEN Burst ELSE n

Admits(b, t) == TokensAt(b, t) >= 1

\* A request that is admitted takes a token and sets `last', also back; one
\* that is refused changes nothing.
Take(b, t) ==
    IF Admits(b, t) THEN [tokens |-> TokensAt(b, t) - 1, last |-> t] ELSE b
=============================================================================
