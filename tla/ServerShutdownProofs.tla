------------------------ MODULE ServerShutdownProofs ------------------------
(***************************************************************************)
(* Theorems about ServerShutdown, for any number of requests.              *)
(***************************************************************************)
EXTENDS ServerShutdown, TLAPS

\* How far the webhook of a request is, and what the others know of it.
HookAgrees(r) ==
    /\ request[r] \in {"none", "connected", "active"} => hook[r] = "none"
    /\ hook[r] = "none" => received[r] = 0 /\ hops[r] = 0
    /\ hook[r] = "posting" => received[r] = hops[r]
    /\ hook[r] = "awaiting" => received[r] = 1 + hops[r]
    /\ hook[r] \notin {"done"} => logged[r] = "none"
    /\ received[r] <= 1 + hops[r]
    /\ logged[r] \in {"delivered", "refused"} => received[r] = 1 + hops[r]

IInv ==
    /\ ShutdownTypeOK
    /\ \A r \in Requests : HookAgrees(r)

LEMMA Initially == Init => IInv
BY HopsAssumption DEF Init, IInv, ShutdownTypeOK, HookAgrees, Busy, Running

\* The steps of a request, and of its webhook, leave those of others alone.
LEMMA RequestSteps ==
    ASSUME IInv, NEW r \in Requests, RequestStep(r) PROVE IInv'
<1>. USE DEF IInv, ShutdownTypeOK, HookAgrees, Running, Busy, Becomes,
             HookBecomes
<1>1. CASE Connect(r)
  BY <1>1 DEF Connect
<1>2. CASE Arrive(r)
  BY <1>2 DEF Arrive
<1>3. CASE Operate(r)
  BY <1>3 DEF Operate
<1>4. CASE Answer(r)
  BY <1>4 DEF Answer
<1>. QED
  BY <1>1, <1>2, <1>3, <1>4 DEF RequestStep

LEMMA HookSteps ==
    ASSUME IInv, NEW r \in Requests, HookStep(r) PROVE IInv'
<1>. USE DEF IInv, ShutdownTypeOK, HookAgrees, Running, Busy, Becomes,
             HookBecomes, Logs
<1>1. CASE Receive(r)
  BY <1>1 DEF Receive
<1>2. CASE Redirect(r)
  BY <1>2, HopsAssumption DEF Redirect
<1>3. CASE Respond(r)
  BY <1>3 DEF Respond
<1>4. CASE Fail(r)
  BY <1>4 DEF Fail
<1>. QED
  BY <1>1, <1>2, <1>3, <1>4 DEF HookStep

LEMMA ServerSteps ==
    ASSUME IInv, Signal \/ Stop \/ Kill PROVE IInv'
<1>. USE DEF IInv, ShutdownTypeOK, HookAgrees, Running, Busy
<1>1. CASE Signal
  BY <1>1 DEF Signal
<1>2. CASE Stop
  BY <1>2 DEF Stop, Exit
<1>3. CASE Kill
  BY <1>3 DEF Kill, Exit
<1>. QED
  BY <1>1, <1>2, <1>3

(***************************************************************************)
(* The invariant holds in every reachable state: what is known of a        *)
(* webhook agrees with how often an endpoint got it and was redirected     *)
(* from (main.go:115-143, service/webhook.go:29-53).                       *)
(***************************************************************************)
THEOREM Invariance == Spec => []IInv
<1>1. IInv /\ [Next]_vars => IInv'
  <2>. SUFFICES ASSUME IInv, [Next]_vars PROVE IInv'
    OBVIOUS
  <2>1. CASE UNCHANGED vars
    BY <2>1 DEF vars, IInv, ShutdownTypeOK, HookAgrees, Running, Busy
  <2>2. CASE Next
    BY <2>2, RequestSteps, HookSteps, ServerSteps DEF Next
  <2>. QED
    BY <2>1, <2>2
<1>. QED
  BY Initially, <1>1, PTL DEF Spec

\* The types, and that nothing is under way in a process that has ended
\* (main.go:140-143).
THEOREM TypeCorrect == Spec => []ShutdownTypeOK
<1>1. IInv => ShutdownTypeOK
  BY DEF IInv
<1>. QED
  BY <1>1, Invariance, PTL

\* An event is received at most once, and once more for each redirect, and the
\* log does not call it delivered or refused without that
\* (service/webhook.go:41-52).
THEOREM HooksAreTrue == Spec => []OnceAndTruly
<1>1. IInv => OnceAndTruly
  BY DEF IInv, HookAgrees, OnceAndTruly
<1>. QED
  BY <1>1, Invariance, PTL
=============================================================================
