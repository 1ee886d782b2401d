----------------------------- MODULE MCLiveFeed -----------------------------
(***************************************************************************)
(* LiveFeed for TLC, with two observers.                                   *)
(*                                                                         *)
(* The feed is calm while the page has been loaded and connected from the  *)
(* first payment on, by one socket, and requests have broadcast one at a   *)
(* time.  What the page promises then, it does not promise otherwise: the  *)
(* answer to a fetch replaces rows that were pushed after it was taken,    *)
(* what is broadcast during a reconnection is not fetched again, and two   *)
(* requests may broadcast in the other order than they committed.          *)
(*                                                                         *)
(* A payment is untold while no request has had its last status to         *)
(* broadcast, because the one that committed it got an error.  A later     *)
(* operation on it, or a retry of its initiation, makes up for that.       *)
(***************************************************************************)
EXTENDS LiveFeed

VARIABLES calm, untold

mcvars == <<vars, calm, untold>>

Calm ==
    /\ connected
    /\ \E s \in Sockets : Registered = {s}
    /\ \A s \in Sockets : socket[s] \in {"registered", "free"}
    /\ \A x \in Fetches : fetch[x] = Idle
    /\ \A q, r \in Requests : NoRow \notin {pending[q], pending[r]} => q = r

MCInit == Init /\ calm = Calm /\ untold = {}

MCNext ==
    /\ Next
    /\ calm' = (calm /\ Calm')
    /\ untold' = {t \in Txns :
           /\ t \in untold \/ status'[t] # status[t]
           /\ \A r \in Requests : pending'[r] # Row(t, status'[t])}

MCSpec == MCInit /\ [][MCNext]_mcvars

MCFairSpec == MCSpec /\ Fairness

\* A page that is calm ends up with what is committed, without a fetch, for
\* every payment whose last status some request had to broadcast
\* (App.js:14-24, hub.go:98-118, handler/payment.go:33-39).
CatchesUp == []calm => <>[](\A t \in Txns \ untold : shown[t] = status[t])

\* A payment that is shown does not go back to an earlier status while the
\* page is calm (App.js:19-23).
NeverBackwards ==
    [][calm' => \A t \in Txns : Rank(shown[t]) <= Rank(shown'[t])]_mcvars
=============================================================================
