--------------------------- MODULE ServerShutdown ---------------------------
(***************************************************************************)
(* The end of the process (cmd/server/main.go:115-143) and what it cuts    *)
(* short: requests, for which Shutdown waits, and the goroutines that post *)
(* webhooks (internal/service/webhook.go), for which nothing waits.        *)
(***************************************************************************)
EXTENDS Naturals

CONSTANTS
    Requests,   \* connections that bring a payment request each
    MayHang,    \* may a handler wait forever for the hub? (see WebSocketHub)
    MaxHops     \* redirects that http.Client follows for one event

ASSUME HangAssumption == MayHang \in BOOLEAN
ASSUME HopsAssumption == MaxHops \in Nat

VARIABLES
    server,     \* "serving"; "draining": in Shutdown; "stopped"; "killed"
    request,    \* the stage of each request
    hook,       \* the stage of the goroutine that its operation started
    received,   \* how often endpoints of the webhook have got the event
    hops,       \* how often one of them answered with a redirect
    logged      \* what the goroutine logged

vars == <<server, request, hook, received, hops, logged>>

Running == server \in {"serving", "draining"}
Busy == {"active", "committed", "hung"}

Init ==
    /\ server = "serving"
    /\ request = [r \in Requests |-> "none"]
    /\ hook = [r \in Requests |-> "none"]
    /\ received = [r \in Requests |-> 0]
    /\ hops = [r \in Requests |-> 0]
    /\ logged = [r \in Requests |-> "none"]

Becomes(r, stage) == request' = [request EXCEPT ![r] = stage]
HookBecomes(r, stage) == hook' = [hook EXCEPT ![r] = stage]
Logs(r, what) == logged' = [logged EXCEPT ![r] = what]

-----------------------------------------------------------------------------
(***************************************************************************)
(* Requests.                                                               *)
(***************************************************************************)

\* Shutdown closes the listener first.
Connect(r) ==
    /\ server = "serving"
    /\ request[r] = "none"
    /\ Becomes(r, "connected")
    /\ UNCHANGED <<server, hook, received, hops, logged>>

\* The head of the request has been read, perhaps during Shutdown.
Arrive(r) ==
    /\ Running
    /\ request[r] = "connected"
    /\ Becomes(r, "active")
    /\ UNCHANGED <<server, hook, received, hops, logged>>

\* The operation commits and calls Dispatch, or it fails and is answered;
\* Dispatch does nothing without a URL.
Operate(r) ==
    /\ Running
    /\ request[r] = "active"
    /\ \/ Becomes(r, "committed") /\ HookBecomes(r, "posting")
       \/ Becomes(r, "committed") /\ UNCHANGED hook
       \/ Becomes(r, "answered") /\ UNCHANGED hook
    /\ UNCHANGED <<server, received, hops, logged>>

\* The broadcast and the answer.
Answer(r) ==
    /\ Running
    /\ request[r] = "committed"
    /\ \/ Becomes(r, "answered")
       \/ MayHang /\ Becomes(r, "hung")
    /\ UNCHANGED <<server, hook, received, hops, logged>>

-----------------------------------------------------------------------------
(***************************************************************************)
(* Webhooks: one POST, and one more for each redirect that asks for it; no *)
(* retry.                                                                  *)
(***************************************************************************)

Receive(r) ==
    /\ Running
    /\ hook[r] = "posting"
    /\ received' = [received EXCEPT ![r] = @ + 1]
    /\ HookBecomes(r, "awaiting")
    /\ UNCHANGED <<server, request, hops, logged>>

\* The endpoint answers with 307 or 308: http.Client posts the event again,
\* where it is told to.  Other redirects it follows with a GET, which is part
\* of awaiting the response.
Redirect(r) ==
    /\ Running
    /\ hook[r] = "awaiting"
    /\ hops[r] < MaxHops
    /\ HookBecomes(r, "posting")
    /\ hops' = [hops EXCEPT ![r] = @ + 1]
    /\ UNCHANGED <<server, request, received, logged>>

\* The response arrives.
Respond(r) ==
    /\ Running
    /\ hook[r] = "awaiting"
    /\ HookBecomes(r, "done")
    /\ Logs(r, "delivered") \/ Logs(r, "refused")
    /\ UNCHANGED <<server, request, received, hops>>

\* Mutant: the event is posted again.
Fail_Retried(r) ==
    /\ Running
    /\ hook[r] \in {"posting", "awaiting"}
    /\ received[r] < 2 + MaxHops
    /\ HookBecomes(r, "posting")
    /\ UNCHANGED <<server, request, received, hops, logged>>

\* The connection fails, there was a redirect too many, or the client's ten
\* seconds are over.
Fail(r) ==
    /\ Running
    /\ hook[r] \in {"posting", "awaiting"}
    /\ HookBecomes(r, "done")
    /\ Logs(r, "failed")
    /\ UNCHANGED <<server, request, received, hops>>

-----------------------------------------------------------------------------
(***************************************************************************)
(* The server.                                                             *)
(***************************************************************************)

Signal ==
    /\ server = "serving"
    /\ server' = "draining"
    /\ UNCHANGED <<request, hook, received, hops, logged>>

\* Mutant: the goroutines outlive main.
Exit_HooksStay(how) ==
    /\ server' = how
    /\ request' = [r \in Requests |->
           IF request[r] \in Busy THEN "cut"
           ELSE IF request[r] = "connected" THEN "closed" ELSE request[r]]
    /\ UNCHANGED <<hook, received, hops, logged>>

\* The process ends, and all its goroutines and connections with it.
Exit(how) ==
    /\ server' = how
    /\ request' = [r \in Requests |->
           IF request[r] \in Busy THEN "cut"
           ELSE IF request[r] = "connected" THEN "closed" ELSE request[r]]
    /\ hook' = [r \in Requests |->
           IF hook[r] \in {"posting", "awaiting"} THEN "cut" ELSE hook[r]]
    /\ UNCHANGED <<received, hops, logged>>

\* Shutdown returns when no connection is active (one that never brought a
\* request is closed after five seconds), and main returns.
Stop ==
    /\ server = "draining"
    /\ \A r \in Requests : request[r] \notin Busy
    /\ Exit("stopped")

\* Mutant: Shutdown without a deadline.
Kill_Never == FALSE /\ UNCHANGED vars

\* Shutdown returns an error after ten seconds: log.Fatal.
Kill ==
    /\ server = "draining"
    /\ Exit("killed")

RequestStep(r) == Connect(r) \/ Arrive(r) \/ Operate(r) \/ Answer(r)
HookStep(r) == Receive(r) \/ Redirect(r) \/ Respond(r) \/ Fail(r)

Next ==
    \/ Signal \/ Stop \/ Kill
    \/ \E r \in Requests : RequestStep(r) \/ HookStep(r)

\* Timers fire: the ten seconds of Shutdown, those of the webhook's client.
Fairness == WF_vars(Kill) /\ \A r \in Requests : WF_vars(Fail(r))

Spec == Init /\ [][Next]_vars

FairSpec == Spec /\ Fairness
-----------------------------------------------------------------------------
(***************************************************************************)
(* Properties.                                                             *)
(***************************************************************************)

\* The types of the variables; work is only under way in a running process.
ShutdownTypeOK ==
    /\ server \in {"serving", "draining", "stopped", "killed"}
    /\ request \in [Requests -> Busy \cup
           {"none", "connected", "answered", "closed", "cut"}]
    /\ hook \in [Requests -> {"none", "posting", "awaiting", "done", "cut"}]
    /\ received \in [Requests -> Nat]
    /\ hops \in [Requests -> 0..MaxHops]
    /\ logged \in [Requests -> {"none", "delivered", "refused", "failed"}]
    /\ ~Running => \A r \in Requests :
           request[r] \notin Busy /\ hook[r] \notin {"posting", "awaiting"}

\* An event reaches an endpoint at most once, but for redirects, and the log
\* calls it delivered or refused only if it did, each time that it was
\* redirected included; nothing follows from "failed"
\* (service/webhook.go:41-52).
OnceAndTruly ==
    \A r \in Requests :
        /\ received[r] <= 1 + hops[r]
        /\ logged[r] \in {"delivered", "refused"} => received[r] = 1 + hops[r]

\* Nobody waits for ever: Shutdown ends the process even if a handler never
\* returns (main.go:137-141), and the client's timeout ends a webhook goroutine
\* even if the endpoint never answers (service/webhook.go:23-25).
WaitsEnd ==
    /\ server = "draining" ~> server \in {"stopped", "killed"}
    /\ \A r \in Requests : hook[r] = "posting" ~> hook[r] \in {"done", "cut"}
=============================================================================
