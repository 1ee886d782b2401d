----------------------------- MODULE RateLimiter -----------------------------
(***************************************************************************)
(* internal/middleware/ratelimit.go: requests of the API group look up the *)
(* limiter of their client in a map under an RWMutex, create it under      *)
(* double-checked locking, and ask it to Allow() them.  A section between  *)
(* Lock and Unlock, or RLock and RUnlock, is one step: those of writers    *)
(* exclude all others, and those of readers change nothing.                *)
(***************************************************************************)
EXTENDS TokenBucket

CONSTANTS
    Requests,   \* requests that are processed at the same time
    Clients,    \* X-API-Key of a request, or the IP address without one
    Limiters,   \* addresses of *rate.Limiter
    None,       \* no limiter
    MaxTime     \* a bound of the model

ASSUME LimiterAssumption == None \notin Limiters
ASSUME MaxTimeAssumption == MaxTime \in Nat

VARIABLES
    clients,    \* RateLimiter.clients
    limiter,    \* the state of each *rate.Limiter
    at,         \* where each request is
    client,     \* the client of each request
    held,       \* the limiter that getLimiter returned
    stamp,      \* the time that Allow() read
    now,        \* the clock
    from,       \* an observer's window starts at this time
    admitted,   \* requests of each client admitted for a time in the window
    setback     \* how far the bucket of each client went back in time in
                \* the window

local == <<at, client, held, stamp>>
window == <<from, admitted, setback>>
vars == <<clients, limiter, local, now, window>>

Init ==
    /\ clients = [c \in Clients |-> None]
    /\ limiter = [l \in Limiters |-> NewBucket]
    /\ at = [r \in Requests |-> "idle"]
    /\ client \in [Requests -> Clients]
    /\ held = [r \in Requests |-> None]
    /\ stamp = [r \in Requests |-> 0]
    /\ now = 0
    /\ from = 0
    /\ admitted = [c \in Clients |-> 0]
    /\ setback = [c \in Clients |-> 0]

Goto(r, place) == at' = [at EXCEPT ![r] = place]

Arrive(r) ==
    /\ at[r] = "idle"
    /\ \E c \in Clients : client' = [client EXCEPT ![r] = c]
    /\ Goto(r, "lookup")
    /\ UNCHANGED <<clients, limiter, held, stamp, now, window>>

\* The request has the limiter of its client.
Found(r) ==
    /\ clients[client[r]] # None
    /\ held' = [held EXCEPT ![r] = clients[client[r]]]
    /\ Goto(r, "allow")
    /\ UNCHANGED <<clients, limiter>>

\* Under the read lock.
Lookup(r) ==
    /\ at[r] = "lookup"
    /\ \/ Found(r)
       \/ /\ clients[client[r]] = None
          /\ Goto(r, "create")
          /\ UNCHANGED <<clients, limiter, held>>
    /\ UNCHANGED <<client, stamp, now, window>>

\* rate.NewLimiter at an address that nobody uses.
NewLimiter(r) ==
    \E l \in Limiters :
        /\ \A c \in Clients : clients[c] # l
        /\ \A q \in Requests : held[q] # l
        /\ clients' = [clients EXCEPT ![client[r]] = l]
        /\ limiter' = [limiter EXCEPT ![l] = NewBucket]
        /\ held' = [held EXCEPT ![r] = l]
        /\ Goto(r, "allow")

\* Mutant: no second check under the write lock.
Create_Unchecked(r) ==
    /\ at[r] = "create"
    /\ NewLimiter(r)
    /\ UNCHANGED <<client, stamp, now, window>>

\* Under the write lock, where the map is checked again.
Create(r) ==
    /\ at[r] = "create"
    /\ \/ Found(r)
       \/ clients[client[r]] = None /\ NewLimiter(r)
    /\ UNCHANGED <<client, stamp, now, window>>

\* Allow() reads the clock before it locks the limiter.
ReadClock(r) ==
    /\ at[r] = "allow"
    /\ stamp' = [stamp EXCEPT ![r] = now]
    /\ Goto(r, "take")
    /\ UNCHANGED <<clients, limiter, client, held, now, window>>

\* Mutant: the request passes whatever Allow() answers.
Passes_Always(r) == TRUE

Passes(r) == Admits(limiter[held[r]], stamp[r])

\* The request goes on, or is answered with 429.
Allow(r) ==
    /\ at[r] = "take"
    /\ limiter' = [limiter EXCEPT ![held[r]] = Take(@, stamp[r])]
    /\ admitted' = IF Passes(r) /\ stamp[r] >= from
                   THEN [admitted EXCEPT ![client[r]] = @ + 1]
                   ELSE admitted
    /\ setback' = IF Passes(r) /\ stamp[r] < limiter[held[r]].last
                  THEN [setback EXCEPT
                            ![client[r]] = @ + limiter[held[r]].last - stamp[r]]
                  ELSE setback
    /\ held' = [held EXCEPT ![r] = None]
    /\ stamp' = [stamp EXCEPT ![r] = 0]
    /\ Goto(r, "idle")
    /\ UNCHANGED <<clients, client, now, from>>

Tick ==
    /\ now < MaxTime
    /\ now' = now + 1
    /\ UNCHANGED <<clients, limiter, local, window>>

\* The observer starts to count.
Observe ==
    /\ from' = now
    /\ admitted' = [c \in Clients |-> 0]
    /\ setback' = [c \in Clients |-> 0]
    /\ UNCHANGED <<clients, limiter, local, now>>

Step(r) == Arrive(r) \/ Lookup(r) \/ Create(r) \/ ReadClock(r) \/ Allow(r)

Next == Tick \/ Observe \/ \E r \in Requests : Step(r)

Spec == Init /\ [][Next]_vars
-----------------------------------------------------------------------------
(***************************************************************************)
(* Properties.                                                             *)
(***************************************************************************)

\* The types of the variables; no bucket is ahead of the clock.
LimiterTypeOK ==
    /\ clients \in [Clients -> Limiters \cup {None}]
    /\ limiter \in [Limiters -> Bucket]
    /\ \A l \in Limiters : limiter[l].last <= now
    /\ at \in [Requests -> {"idle", "lookup", "create", "allow", "take"}]
    /\ client \in [Requests -> Clients]
    /\ held \in [Requests -> Limiters \cup {None}]
    /\ stamp \in [Requests -> 0..now]
    /\ now \in 0..MaxTime
    /\ from \in 0..now
    /\ admitted \in [Clients -> Nat]
    /\ setback \in [Clients -> Nat]

\* All requests of a client meet in one bucket, and no two clients share one:
\* a request that has left getLimiter holds the limiter that is in the map
\* (ratelimit.go:37-41).
OneBucket ==
    /\ \A r \in Requests :
           at[r] \in {"allow", "take"} =>
               /\ held[r] # None
               /\ held[r] = clients[client[r]]
    /\ \A c, d \in Clients :
           clients[c] = clients[d] => c = d \/ clients[c] = None

\* Creating limiters on demand, concurrently, is the same as having had one
\* full bucket for every client from the start (ratelimit.go:27-44).
Promised == INSTANCE RateLimits WITH
    bucket <- [c \in Clients |-> IF clients[c] = None
                                 THEN NewBucket
                                 ELSE limiter[clients[c]]]

ImplementsRateLimits == Promised!Spec

\* "100 requests/second, burst of 200" (main.go:60): in any window of time a
\* client is admitted at most Burst times and Rate times per unit of time.  A
\* request that takes its token after one that read the clock later sets the
\* bucket back (Allow() reads the clock before it locks the bucket,
\* ratelimit.go:54), and the time in between is refilled a second time, once
\* for each such request and no more.
RateBound ==
    \A c \in Clients :
        admitted[c] <= Burst + Rate * (now - from + setback[c])
=============================================================================
