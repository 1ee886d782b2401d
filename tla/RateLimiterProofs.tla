-------------------------- MODULE RateLimiterProofs --------------------------
(***************************************************************************)
(* Theorems about RateLimiter, for any numbers of requests, clients and    *)
(* limiters, any rate, any burst and any bound of the clock.               *)
(***************************************************************************)
EXTENDS RateLimiter, TLAPS

IInv == LimiterTypeOK /\ OneBucket

\* A bucket is never above its burst, nor below empty.
LEMMA TokensBound ==
    ASSUME NEW b \in Bucket, NEW t \in Nat
    PROVE  /\ TokensAt(b, t) \in 0..Burst
           /\ TokensAt(b, t) \in Int
<1>1. Rate \in Nat /\ Burst \in Nat /\ b.tokens \in 0..Burst /\ b.last \in Nat
  BY RateAssumption, BurstAssumption DEF Bucket
<1>2. t >= b.last => t - b.last \in Nat
  BY <1>1
<1>3. \A d \in Nat : Rate * d \in Nat
  BY <1>1
<1>. DEFINE refill == IF t < b.last THEN 0 ELSE Rate * (t - b.last)
<1>4. refill \in Nat
  BY <1>1, <1>2, <1>3
<1>. HIDE DEF refill
<1>5. TokensAt(b, t) = IF b.tokens + refill > Burst THEN Burst
                       ELSE b.tokens + refill
  BY DEF TokensAt, refill
<1>. QED
  BY <1>1, <1>4, <1>5

LEMMA NewBucketTyped == NewBucket \in Bucket
BY BurstAssumption DEF NewBucket, Bucket

\* Take keeps a bucket a bucket.
LEMMA TakeTyped ==
    ASSUME NEW b \in Bucket, NEW t \in Nat
    PROVE  /\ Take(b, t) \in Bucket
           /\ Take(b, t).last \in {b.last, t}
<1>1. TokensAt(b, t) \in 0..Burst /\ Burst \in Nat
  BY TokensBound, BurstAssumption
<1>2. CASE Admits(b, t)
  <2>1. TokensAt(b, t) - 1 \in 0..Burst
    BY <1>1, <1>2 DEF Admits
  <2>. QED
    BY <1>2, <2>1 DEF Take, Bucket
<1>3. CASE ~Admits(b, t)
  BY <1>3 DEF Take
<1>. QED
  BY <1>2, <1>3

LEMMA Initially == Init => IInv
<1>. SUFFICES ASSUME Init PROVE IInv
  OBVIOUS
<1>1. LimiterTypeOK
  BY NewBucketTyped, MaxTimeAssumption
     DEF Init, LimiterTypeOK, NewBucket
<1>2. OneBucket
  BY DEF Init, OneBucket
<1>. QED
  BY <1>1, <1>2 DEF IInv

-----------------------------------------------------------------------------
(***************************************************************************)
(* The steps.                                                              *)
(***************************************************************************)
LEMMA TypeStep ==
    ASSUME LimiterTypeOK, OneBucket, [Next]_vars
    PROVE  LimiterTypeOK'
<1>. USE DEF LimiterTypeOK
<1>1. ASSUME NEW r \in Requests, Arrive(r) PROVE LimiterTypeOK'
  BY <1>1 DEF Arrive, Goto, window
<1>2. ASSUME NEW r \in Requests, Lookup(r) PROVE LimiterTypeOK'
  BY <1>2 DEF Lookup, Found, Goto, window
<1>3. ASSUME NEW r \in Requests, Create(r) PROVE LimiterTypeOK'
  <2>1. CASE Found(r)
    BY <1>3, <2>1 DEF Create, Found, Goto, window
  <2>2. CASE NewLimiter(r)
    <3>1. PICK l \in Limiters :
              /\ clients' = [clients EXCEPT ![client[r]] = l]
              /\ limiter' = [limiter EXCEPT ![l] = NewBucket]
              /\ held' = [held EXCEPT ![r] = l]
              /\ Goto(r, "allow")
      BY <2>2 DEF NewLimiter
    <3>2. limiter' \in [Limiters -> Bucket]
      BY <3>1, NewBucketTyped
    <3>3. \A k \in Limiters : limiter'[k].last <= now
      BY <3>1 DEF NewBucket
    <3>. QED
      BY <1>3, <3>1, <3>2, <3>3 DEF Create, Goto, window
  <2>. QED
    BY <1>3, <2>1, <2>2 DEF Create
<1>4. ASSUME NEW r \in Requests, ReadClock(r) PROVE LimiterTypeOK'
  BY <1>4 DEF ReadClock, Goto, window
<1>5. ASSUME NEW r \in Requests, Allow(r) PROVE LimiterTypeOK'
  <2>. DEFINE l == held[r]
  <2>1. l \in Limiters /\ stamp[r] \in 0..now /\ stamp[r] \in Nat
    BY <1>5 DEF Allow, OneBucket
  <2>2. /\ Take(limiter[l], stamp[r]) \in Bucket
        /\ Take(limiter[l], stamp[r]).last <= now
    <3>1. limiter[l] \in Bucket /\ limiter[l].last <= now /\ stamp[r] <= now
      BY <2>1
    <3>. HIDE DEF l, LimiterTypeOK
    <3>. QED
      BY <2>1, <3>1, TakeTyped
  <2>3. limiter' = [limiter EXCEPT ![l] = Take(limiter[l], stamp[r])]
    BY <1>5, <2>1 DEF Allow
  <2>4. /\ limiter' \in [Limiters -> Bucket]
        /\ \A k \in Limiters : limiter'[k].last <= now
    BY <2>1, <2>2, <2>3
  <2>5. admitted' \in [Clients -> Nat] /\ setback' \in [Clients -> Nat]
    <3>1. limiter[l].last \in Nat
      BY <2>1 DEF Bucket
    <3>2. stamp[r] < limiter[l].last => limiter[l].last - stamp[r] \in Nat
      BY <2>1, <3>1
    <3>. QED
      BY <1>5, <2>1, <3>1, <3>2 DEF Allow
  <2>6. UNCHANGED <<clients, client, now, from>>
    BY <1>5 DEF Allow
  <2>7. /\ held' \in [Requests -> Limiters \cup {None}]
        /\ at' \in [Requests -> {"idle", "lookup", "create", "allow", "take"}]
    BY <1>5 DEF Allow, Goto
  <2>8. stamp' \in [Requests -> 0..now]
    BY <1>5, <2>1 DEF Allow
  <2>9. /\ now' = now /\ from' = from
        /\ now \in 0..MaxTime /\ from \in 0..now
        /\ clients' \in [Clients -> Limiters \cup {None}]
        /\ client' \in [Requests -> Clients]
    BY <2>6
  <2>. HIDE DEF LimiterTypeOK, OneBucket, l
  <2>. QED
    BY <2>4, <2>5, <2>7, <2>8, <2>9 DEF LimiterTypeOK
<1>6. CASE Tick
  <2>1. now' = now + 1 /\ now \in Nat /\ now' \in 0..MaxTime
    BY <1>6, MaxTimeAssumption DEF Tick
  <2>2. UNCHANGED <<clients, limiter, local, window>>
    BY <1>6 DEF Tick
  <2>3. \A l \in Limiters : limiter[l].last <= now'
    BY <2>1 DEF Bucket
  <2>4. stamp \in [Requests -> 0..now'] /\ from \in 0..now'
    BY <2>1
  <2>. QED
    BY <2>1, <2>2, <2>3, <2>4 DEF local, window
<1>7. CASE Observe
  BY <1>7 DEF Observe, local
<1>8. CASE UNCHANGED vars
  BY <1>8 DEF vars, local, window
<1>. QED
  BY <1>1, <1>2, <1>3, <1>4, <1>5, <1>6, <1>7, <1>8 DEF Next, Step

LEMMA BucketStep ==
    ASSUME LimiterTypeOK, OneBucket, [Next]_vars
    PROVE  OneBucket'
<1>. USE DEF LimiterTypeOK, OneBucket
<1>1. ASSUME NEW r \in Requests, Arrive(r) PROVE OneBucket'
  BY <1>1 DEF Arrive, Goto
<1>2. ASSUME NEW r \in Requests, Lookup(r) PROVE OneBucket'
  BY <1>2 DEF Lookup, Found, Goto
<1>3. ASSUME NEW r \in Requests, Create(r) PROVE OneBucket'
  <2>1. CASE Found(r)
    BY <1>3, <2>1 DEF Create, Found, Goto
  <2>2. CASE clients[client[r]] = None /\ NewLimiter(r)
    <3>1. PICK l \in Limiters :
              /\ \A c \in Clients : clients[c] # l
              /\ clients' = [clients EXCEPT ![client[r]] = l]
              /\ held' = [held EXCEPT ![r] = l]
              /\ Goto(r, "allow")
      BY <2>2 DEF NewLimiter
    <3>2. UNCHANGED client /\ l # None
      BY <1>3, LimiterAssumption DEF Create
    <3>. QED
      BY <2>2, <3>1, <3>2 DEF Goto
  <2>. QED
    BY <1>3, <2>1, <2>2 DEF Create
<1>4. ASSUME NEW r \in Requests, ReadClock(r) PROVE OneBucket'
  BY <1>4 DEF ReadClock, Goto
<1>5. ASSUME NEW r \in Requests, Allow(r) PROVE OneBucket'
  BY <1>5 DEF Allow, Goto
<1>6. CASE Tick
  BY <1>6 DEF Tick, local
<1>7. CASE Observe
  BY <1>7 DEF Observe, local
<1>8. CASE UNCHANGED vars
  BY <1>8 DEF vars, local
<1>. QED
  BY <1>1, <1>2, <1>3, <1>4, <1>5, <1>6, <1>7, <1>8 DEF Next, Step

\* Types and the one bucket of each client hold together in every state:
\* ratelimit.go:27-44.
THEOREM Invariance == Spec => []IInv
<1>1. IInv /\ [Next]_vars => IInv'
  BY TypeStep, BucketStep DEF IInv
<1>. QED
  BY Initially, <1>1, PTL DEF Spec

\* The variables of the limiter keep their types (ratelimit.go:12-17).
THEOREM TypeCorrect == Spec => []LimiterTypeOK
BY Invariance, PTL DEF IInv

\* Concurrent requests of a client meet in one bucket, created once
\* (ratelimit.go:27-44).
THEOREM OneBucketEach == Spec => []OneBucket
BY Invariance, PTL DEF IInv

-----------------------------------------------------------------------------
(***************************************************************************)
(* The refinement.                                                         *)
(***************************************************************************)
Buckets == [c \in Clients |-> IF clients[c] = None THEN NewBucket
                              ELSE limiter[clients[c]]]

LEMMA InitRefines == Init => Promised!Init
BY DEF Init, Promised!Init, Promised!NewBucket, NewBucket

\* The abstract operators are the concrete ones: the mapping leaves them alone.
LEMMA SameTake ==
    ASSUME NEW b, NEW t
    PROVE  Promised!Take(b, t) = Take(b, t)
BY DEF Promised!Take, Promised!Admits, Promised!TokensAt,
       Take, Admits, TokensAt

\* A step that changes no bucket in use is a stutter.
LEMMA StepRefines ==
    ASSUME IInv, [Next]_vars
    PROVE  [Promised!Next]_<<Buckets, now>>
<1>. USE DEF IInv, LimiterTypeOK, OneBucket
<1>1. ASSUME NEW r \in Requests, Arrive(r) PROVE UNCHANGED <<Buckets, now>>
  BY <1>1 DEF Arrive, Buckets
<1>2. ASSUME NEW r \in Requests, Lookup(r) PROVE UNCHANGED <<Buckets, now>>
  BY <1>2 DEF Lookup, Found, Buckets
<1>3. ASSUME NEW r \in Requests, Create(r) PROVE UNCHANGED <<Buckets, now>>
  <2>1. CASE Found(r)
    BY <1>3, <2>1 DEF Create, Found, Buckets
  <2>2. CASE clients[client[r]] = None /\ NewLimiter(r)
    <3>1. PICK l \in Limiters :
              /\ \A c \in Clients : clients[c] # l
              /\ clients' = [clients EXCEPT ![client[r]] = l]
              /\ limiter' = [limiter EXCEPT ![l] = NewBucket]
      BY <2>2 DEF NewLimiter
    <3>2. ASSUME NEW c \in Clients PROVE Buckets'[c] = Buckets[c]
      <4>1. CASE c = client[r]
        BY <2>2, <3>1, <4>1, LimiterAssumption DEF Buckets
      <4>2. CASE c # client[r]
        BY <3>1, <4>2 DEF Buckets
      <4>. QED
        BY <4>1, <4>2
    <3>. QED
      BY <1>3, <3>2 DEF Create, Buckets
  <2>. QED
    BY <1>3, <2>1, <2>2 DEF Create
<1>4. ASSUME NEW r \in Requests, ReadClock(r)
      PROVE  UNCHANGED <<Buckets, now>>
  BY <1>4 DEF ReadClock, Buckets
<1>5. ASSUME NEW r \in Requests, Allow(r) PROVE Promised!Next
  <2>. DEFINE c == client[r]
  <2>1. /\ c \in Clients
        /\ held[r] = clients[c]
        /\ clients[c] \in Limiters
        /\ stamp[r] \in 0..now
    BY <1>5 DEF Allow
  <2>2. /\ limiter' = [limiter EXCEPT ![clients[c]] =
                           Take(limiter[clients[c]], stamp[r])]
        /\ UNCHANGED <<clients, now>>
    BY <1>5, <2>1 DEF Allow
  <2>3. Buckets[c] = limiter[clients[c]]
    BY <2>1, LimiterAssumption DEF Buckets
  <2>. DEFINE b == Take(limiter[clients[c]], stamp[r])
  <2>4. Buckets' = [Buckets EXCEPT ![c] = b]
    <3>. HIDE DEF b
    <3>1. limiter' = [limiter EXCEPT ![clients[c]] = b]
      BY <2>2 DEF b
    <3>2. ASSUME NEW d \in Clients
          PROVE  Buckets'[d] = [Buckets EXCEPT ![c] = b][d]
      <4>1. CASE d = c
        BY <2>1, <2>2, <3>1, <4>1, LimiterAssumption DEF Buckets
      <4>2. CASE d # c
        BY <2>1, <2>2, <3>1, <4>2, LimiterAssumption DEF Buckets
      <4>. QED
        BY <4>1, <4>2
    <3>. QED
      BY <3>2 DEF Buckets
  <2>5. Buckets' = [Buckets EXCEPT ![c] = Promised!Take(Buckets[c], stamp[r])]
    BY <2>3, <2>4, SameTake
  <2>6. UNCHANGED now
    BY <2>2
  <2>7. \E d \in Clients : \E t \in 0..now :
            Buckets' = [Buckets EXCEPT ![d] = Promised!Take(Buckets[d], t)]
    BY <2>1, <2>5
  <2>. QED
    BY <2>6, <2>7 DEF Promised!Next, Promised!Decide, Buckets
<1>6. CASE Tick
  BY <1>6 DEF Tick, local, Promised!Next, Promised!Tick, Buckets
<1>7. CASE Observe
  BY <1>7 DEF Observe, Buckets
<1>8. CASE UNCHANGED vars
  BY <1>8 DEF vars, Buckets
<1>. QED
  BY <1>1, <1>2, <1>3, <1>4, <1>5, <1>6, <1>7, <1>8 DEF Next, Step

\* Limiters that are created on demand by concurrent requests implement one
\* bucket for each client, there from the start (ratelimit.go:27-62).
THEOREM Refinement == Spec => ImplementsRateLimits
<1>1. Init => Promised!Init
  BY InitRefines
<1>2. IInv /\ [Next]_vars => [Promised!Next]_<<Buckets, now>>
  BY StepRefines
<1>. QED
  BY <1>1, <1>2, Invariance, PTL
     DEF Spec, ImplementsRateLimits, Promised!Spec, Buckets
-----------------------------------------------------------------------------
(***************************************************************************)
(* The bound of every window of time.                                      *)
(***************************************************************************)

\* The tokens of a span of time.
Refill(x) == Rate * x

\* What a requests admitted since f leave in a bucket that went back by k.
Counted(b, f, a, k) ==
    a = 0 \/ a + b.tokens <= Burst + Refill(b.last - f + k)

WInv ==
    \A c \in Clients :
        IF clients[c] = None
        THEN admitted[c] = 0
        ELSE Counted(limiter[clients[c]], from, admitted[c], setback[c])

\* The refills of adjacent spans add up.
LEMMA Distribute ==
    /\ \A x \in Nat : Refill(x) \in Nat
    /\ \A x \in Int : Refill(x) \in Int
    /\ \A x, y \in Int : Refill(x) + Refill(y) = Refill(x + y)
BY RateAssumption DEF Refill

\* A request that passes, counted when its time is in the window, is paid for
\* by the bucket, by the time since, or by the way that the bucket goes back.
LEMMA TakeCounted ==
    ASSUME NEW b \in Bucket, NEW t \in Nat, NEW f \in Nat, NEW a \in Nat,
           NEW k \in Nat, NEW d \in {0, 1}, d = 1 => f <= t,
           Admits(b, t), Counted(b, f, a, k)
    PROVE  Counted(Take(b, t), f, a + d,
                   IF t < b.last THEN k + b.last - t ELSE k)
<1>. DEFINE refill == IF t < b.last THEN 0 ELSE Refill(t - b.last)
            after == IF t < b.last THEN k + b.last - t ELSE k
            before == Refill(b.last - f + k)
            width == Refill(t - f + after)
<1>1. b.tokens \in 0..Burst /\ b.last \in Nat /\ Burst \in Nat
  BY BurstAssumption DEF Bucket
<1>2. after \in Nat
  BY <1>1
<1>3. refill \in Nat /\ before \in Int /\ width \in Int
  <2>1. ~(t < b.last) => t - b.last \in Nat
    BY <1>1
  <2>2. b.last - f + k \in Int /\ t - f + after \in Int
    BY <1>1, <1>2
  <2>. QED
    BY <2>1, <2>2, Distribute
<1>4. before + refill = width
  <2>1. CASE t < b.last
    <3>1. b.last - f + k = t - f + after
      BY <1>1, <2>1
    <3>. QED
      BY <1>3, <2>1, <3>1
  <2>2. CASE ~(t < b.last)
    <3>1. (b.last - f + k) + (t - b.last) = t - f + after
      BY <1>1, <2>2
    <3>2. b.last - f + k \in Int /\ t - b.last \in Int
      BY <1>1
    <3>3. before + refill = Refill((b.last - f + k) + (t - b.last))
      BY <2>2, <3>2, Distribute
    <3>. QED
      BY <3>1, <3>3
  <2>. QED
    BY <2>1, <2>2
<1>5. /\ Take(b, t).tokens = TokensAt(b, t) - 1 /\ Take(b, t).last = t
      /\ TokensAt(b, t) \in 0..Burst
      /\ TokensAt(b, t) <= b.tokens + refill
  <2>1. TokensAt(b, t) = IF b.tokens + refill > Burst THEN Burst
                         ELSE b.tokens + refill
    BY DEF TokensAt, Refill
  <2>2. TokensAt(b, t) \in 0..Burst
    BY TokensBound
  <2>. HIDE DEF refill
  <2>. QED
    BY <1>1, <1>3, <2>1, <2>2 DEF Take
<1>6. CASE a = 0 /\ d = 1
  <2>1. t - f + after \in Nat
    BY <1>2, <1>6
  <2>2. width \in Nat
    BY <2>1, Distribute
  <2>3. Counted(Take(b, t), f, a + d, after)
    <3>. HIDE DEF refill, before
    <3>1. a + d + Take(b, t).tokens <= Burst + width
      <4>. HIDE DEF width
      <4>. QED
        BY <1>1, <1>5, <1>6, <2>2
    <3>. QED
      BY <1>5, <3>1 DEF Counted
  <2>. QED
    BY <2>3
<1>7. CASE a # 0
  <2>1. a + b.tokens <= Burst + before
    BY <1>7 DEF Counted
  <2>2. a + d + Take(b, t).tokens <= Burst + width
    <3>. HIDE DEF refill, before, width
    <3>. QED
      BY <1>1, <1>3, <1>4, <1>5, <2>1
  <2>. QED
    BY <1>5, <2>2 DEF Counted
<1>8. CASE a = 0 /\ d = 0
  BY <1>8 DEF Counted
<1>. QED
  BY <1>6, <1>7, <1>8

LEMMA WInit == Init => WInv
BY DEF Init, WInv

LEMMA WStep ==
    ASSUME IInv, WInv, [Next]_vars
    PROVE  WInv'
<1>. USE DEF IInv, LimiterTypeOK, OneBucket, WInv
<1>1. ASSUME NEW r \in Requests, Arrive(r) PROVE WInv'
  BY <1>1 DEF Arrive, Goto, window
<1>2. ASSUME NEW r \in Requests, Lookup(r) PROVE WInv'
  BY <1>2 DEF Lookup, Found, Goto, window
<1>3. ASSUME NEW r \in Requests, Create(r) PROVE WInv'
  <2>1. CASE Found(r)
    BY <1>3, <2>1 DEF Create, Found, Goto, window
  <2>2. CASE clients[client[r]] = None /\ NewLimiter(r)
    <3>1. PICK l \in Limiters :
              /\ \A c \in Clients : clients[c] # l
              /\ clients' = [clients EXCEPT ![client[r]] = l]
              /\ limiter' = [limiter EXCEPT ![l] = NewBucket]
              /\ Goto(r, "allow")
      BY <2>2 DEF NewLimiter
    <3>2. UNCHANGED <<from, admitted, setback>>
      BY <1>3 DEF Create, window
    <3>3. ASSUME NEW c \in Clients
          PROVE  IF clients'[c] = None THEN admitted'[c] = 0
                 ELSE Counted(limiter'[clients'[c]], from', admitted'[c],
                              setback'[c])
      <4>1. CASE c = client[r]
        <5>1. admitted'[c] = 0
          BY <2>2, <3>2, <4>1
        <5>. QED
          BY <5>1 DEF Counted
      <4>2. CASE c # client[r]
        BY <3>1, <3>2, <4>2
      <4>. QED
        BY <4>1, <4>2
    <3>. QED
      BY <3>3
  <2>. QED
    BY <1>3, <2>1, <2>2 DEF Create
<1>4. ASSUME NEW r \in Requests, ReadClock(r) PROVE WInv'
  BY <1>4 DEF ReadClock, window
<1>5. ASSUME NEW r \in Requests, Allow(r) PROVE WInv'
  <2>. DEFINE l == held[r]
              b == limiter[held[r]]
              t == stamp[r]
              a == admitted[client[r]]
              k == setback[client[r]]
              d == IF t >= from THEN 1 ELSE 0
  <2>1. /\ l \in Limiters /\ l # None /\ l = clients[client[r]]
        /\ client[r] \in Clients
        /\ b \in Bucket /\ t \in Nat
        /\ b.last \in Nat
        /\ from \in Nat /\ a \in Nat /\ k \in Nat
        /\ Counted(b, from, a, k)
    BY <1>5 DEF Allow, Bucket
  <2>2. /\ limiter' = [limiter EXCEPT ![l] = Take(b, t)]
        /\ UNCHANGED <<clients, from>>
    BY <1>5 DEF Allow
  <2>3. CASE Passes(r)
    <3>1. admitted'[client[r]] = a + d
      BY <1>5, <2>1, <2>3 DEF Allow
    <3>2. setback'[client[r]] = IF t < b.last THEN k + b.last - t ELSE k
      BY <1>5, <2>1, <2>3 DEF Allow
    <3>3. Admits(b, t) /\ d \in {0, 1} /\ (d = 1 => from <= t)
      BY <2>1, <2>3 DEF Passes
    <3>4. Counted(Take(b, t), from', admitted'[client[r]],
                  setback'[client[r]])
      <4>. HIDE DEF b, t, a, k, d, IInv, WInv
      <4>. QED
        BY <2>1, <2>2, <3>1, <3>2, <3>3, TakeCounted
    <3>5. ASSUME NEW c \in Clients
          PROVE  IF clients'[c] = None THEN admitted'[c] = 0
                 ELSE Counted(limiter'[clients'[c]], from', admitted'[c],
                              setback'[c])
      <4>1. CASE c = client[r]
        BY <2>1, <2>2, <3>4, <4>1
      <4>2. CASE c # client[r]
        <5>1. admitted'[c] = admitted[c] /\ setback'[c] = setback[c]
          BY <1>5, <4>2 DEF Allow
        <5>2. clients[c] # None => limiter'[clients[c]] = limiter[clients[c]]
          BY <2>1, <2>2, <4>2
        <5>. QED
          BY <2>2, <5>1, <5>2
      <4>. QED
        BY <4>1, <4>2
    <3>. QED
      BY <3>5
  <2>4. CASE ~Passes(r)
    <3>1. Take(b, t) = b /\ UNCHANGED <<admitted, setback>>
      BY <1>5, <2>4 DEF Allow, Passes, Take
    <3>2. limiter' = limiter
      BY <2>1, <2>2, <3>1
    <3>. QED
      BY <2>2, <3>1, <3>2
  <2>. QED
    BY <2>3, <2>4
<1>6. CASE Tick
  BY <1>6 DEF Tick, local, window
<1>7. CASE Observe
  BY <1>7 DEF Observe, Counted
<1>8. CASE UNCHANGED vars
  BY <1>8 DEF vars, local, window
<1>. QED
  BY <1>1, <1>2, <1>3, <1>4, <1>5, <1>6, <1>7, <1>8 DEF Next, Step

LEMMA WInvImpliesBound == IInv /\ WInv => RateBound
<1>. SUFFICES ASSUME IInv, WInv, NEW c \in Clients
              PROVE  admitted[c] <= Burst + Refill(now - from + setback[c])
  BY DEF RateBound, Refill
<1>1. /\ now \in Nat /\ from \in Nat /\ from <= now
      /\ admitted[c] \in Nat /\ setback[c] \in Nat
  BY DEF IInv, LimiterTypeOK
<1>. DEFINE width == now - from + setback[c]
<1>2. width \in Nat
  BY <1>1
<1>3. Refill(width) \in Nat /\ Burst \in Nat
  BY <1>2, Distribute, BurstAssumption
<1>4. CASE admitted[c] = 0
  BY <1>3, <1>4
<1>5. CASE admitted[c] # 0
  <2>. DEFINE b == limiter[clients[c]]
              past == b.last - from + setback[c]
              since == now - b.last
  <2>1. /\ b.last \in Nat /\ b.tokens \in Nat /\ b.last <= now
        /\ Counted(b, from, admitted[c], setback[c])
    BY <1>5, BurstAssumption DEF IInv, LimiterTypeOK, WInv, Bucket
  <2>. HIDE DEF b
  <2>2. past \in Int /\ since \in Nat /\ past + since = width
    BY <1>1, <2>1
  <2>3. admitted[c] + b.tokens <= Burst + Refill(past)
    BY <1>5, <2>1 DEF Counted
  <2>. HIDE DEF past, since, width
  <2>4. Refill(past) + Refill(since) = Refill(past + since)
    <3>1. since \in Int
      BY <2>2
    <3>. QED
      BY <2>2, <3>1, Distribute
  <2>5. /\ Refill(past) + Refill(since) = Refill(width)
        /\ Refill(past) \in Int /\ Refill(since) \in Nat
    BY <2>2, <2>4, Distribute
  <2>6. admitted[c] <= Burst + Refill(width)
    BY <1>1, <1>3, <2>1, <2>3, <2>5
  <2>. QED
    BY <2>6 DEF width
<1>. QED
  BY <1>4, <1>5

\* In every window of time a client is admitted at most Burst times and Rate
\* times per unit of time, its requests in the wrong order included, each of
\* which adds no more than the time by which it comes late (main.go:60,
\* ratelimit.go:47-62).
THEOREM WindowIsBounded == Spec => []RateBound
<1>1. IInv /\ WInv /\ [Next]_vars => WInv'
  BY WStep
<1>. QED
  BY <1>1, WInit, Invariance, WInvImpliesBound, PTL DEF Spec
=============================================================================
