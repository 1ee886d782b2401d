------------------------------ MODULE LiveFeed ------------------------------
(***************************************************************************)
(* From the commit of a payment to the dashboard: requests commit and then *)
(* broadcast (internal/handler/payment.go), the hub hands each message to  *)
(* the sockets that are registered (internal/websocket/hub.go), and the    *)
(* dashboard merges them with the answers to its fetches (web/src/App.js)  *)
(* and reconnects (web/src/hooks/useWebSocket.js).                         *)
(*                                                                         *)
(* The hub keeps its promise here: a broadcast reaches every registered    *)
(* socket.  WebSocketHub shows when it does.                               *)
(***************************************************************************)
EXTENDS Sequences, Naturals, FiniteSets

CONSTANTS
    Txns,       \* transactions
    Requests,   \* HTTP requests that are processed at the same time
    Sockets,    \* WebSocket objects of the dashboard
    Fetches,    \* calls of axios.get that are under way at the same time
    Filters,    \* statuses the user may choose, or "all"
    Starts,     \* how the dashboard may start, see Init
    MaxUpsets,  \* how many times a connection or fetch fails or the user
                \* chooses a filter
    MaxInbox    \* messages on their way to a socket before its writer waits

Statuses == <<"none", "pending", "authorized", "settled">>

ASSUME FeedAssumption ==
    /\ Filters \subseteq {"all"} \cup {Statuses[i] : i \in 2..4}
    /\ "all" \in Filters
    /\ Starts \subseteq {"mounted", "remounted", "loaded"}
    /\ MaxUpsets \in Nat /\ MaxInbox \in Nat
    /\ IsFiniteSet(Sockets)

VARIABLES
    status,     \* committed status of each transaction; "none": no such row
    pending,    \* the row that each request has committed, to be broadcast
    socket,     \* the stage of each socket
    inbox,      \* events of each socket that the page has not handled
    timers,     \* calls of setTimeout(connect, 3000) that are due
    connected,  \* state of the page: the label is 'Live'
    shown,      \* state of the page: the status shown of each transaction
    filter,     \* state of the page
    fetch,      \* fetches under way
    upsets      \* how many times so far

server == <<status, pending>>
wire == <<socket, inbox, timers, connected>>
page == <<shown, filter, fetch>>
vars == <<server, wire, page, upsets>>

Rank(s) == CHOOSE i \in 1..4 : Statuses[i] = s
NoRow == [kind |-> "none"]
Row(t, s) == [kind |-> "row", id |-> t, status |-> s]
Open == [kind |-> "open"]
Close == [kind |-> "close"]
Nothing == [t \in Txns |-> "none"]
Idle == [stage |-> "idle", filter |-> "all", rows |-> Nothing]
Sent(f) == [Idle EXCEPT !.stage = "sent", !.filter = f]

Matches(f, s) == f = "all" \/ f = s

\* The rows a query with filter f returns now.
Selected(f) ==
    [t \in Txns |-> IF Matches(f, status[t]) THEN status[t] ELSE "none"]

(***************************************************************************)
(* The page has just mounted, or it has mounted twice (StrictMode, in      *)
(* development: effects run, are cleaned up and run again, so that a first *)
(* socket is already closing and a first fetch goes on), or it has loaded  *)
(* and is connected, before the first payment.                             *)
(***************************************************************************)
Init ==
    /\ status = Nothing
    /\ pending = [r \in Requests |-> NoRow]
    /\ shown = Nothing
    /\ filter = "all"
    /\ timers = 0
    /\ upsets = 0
    /\ \E start \in Starts, s, old \in Sockets, f, first \in Fetches :
        /\ start = "remounted" <=> s # old
        /\ start = "remounted" <=> f # first
        /\ connected = (start = "loaded")
        /\ socket = [x \in Sockets |->
               CASE x = s -> (IF start = "loaded" THEN "registered"
                                                  ELSE "connecting")
                 [] x = old /\ x # s -> "gone"
                 [] OTHER -> "free"]
        /\ inbox = [x \in Sockets |->
               IF x = old /\ x # s THEN <<Close>> ELSE <<>>]
        /\ fetch = [x \in Fetches |->
               IF x \in {f, first} /\ start # "loaded" THEN Sent("all")
                                                       ELSE Idle]

-----------------------------------------------------------------------------
(***************************************************************************)
(* Requests.                                                               *)
(***************************************************************************)

\* Mutant: a row is broadcast before it is committed.
Commit_BroadcastFirst(r) ==
    /\ pending[r] = NoRow
    /\ \E t \in Txns :
        /\ status[t] # "settled"
        /\ pending' = [pending EXCEPT
                           ![r] = Row(t, Statuses[Rank(status[t]) + 1])]
    /\ UNCHANGED <<status, wire, page, upsets>>

\* An operation of PaymentService commits and returns the row.
Commit(r) ==
    /\ pending[r] = NoRow
    /\ \E t \in Txns :
        /\ status[t] # "settled"
        /\ LET next == Statuses[Rank(status[t]) + 1]
           IN  /\ status' = [status EXCEPT ![t] = next]
               /\ pending' = [pending EXCEPT ![r] = Row(t, next)]
    /\ UNCHANGED <<wire, page, upsets>>

\* The operation commits and the request gets an error all the same (the
\* acknowledgement is lost, or the client has gone and with it the request's
\* context), or the server dies next: nothing is broadcast.
CommitUntold ==
    /\ \E r \in Requests : pending[r] = NoRow
    /\ \E t \in Txns :
        /\ status[t] # "settled"
        /\ status' = [status EXCEPT ![t] = Statuses[Rank(@) + 1]]
    /\ UNCHANGED <<pending, wire, page, upsets>>

\* Mutant: the row is answered as the client sent it.
Retry_AsSent(r) ==
    /\ pending[r] = NoRow
    /\ \E t \in Txns :
        /\ status[t] # "none"
        /\ pending' = [pending EXCEPT ![r] = Row(t, "pending")]
    /\ UNCHANGED <<status, wire, page, upsets>>

\* An initiation whose key is taken returns the row that is there, and the
\* handler broadcasts it like a new one.
Retry(r) ==
    /\ pending[r] = NoRow
    /\ \E t \in Txns :
        /\ status[t] # "none"
        /\ pending' = [pending EXCEPT ![r] = Row(t, status[t])]
    /\ UNCHANGED <<status, wire, page, upsets>>

Registered == {s \in Sockets : socket[s] = "registered"}

\* The handler calls Hub.Broadcast, which waits for a socket that is full.
Broadcast(r) ==
    /\ pending[r] # NoRow
    /\ \A s \in Registered : Len(inbox[s]) < MaxInbox
    /\ inbox' = [s \in Sockets |-> IF s \in Registered
                                   THEN Append(inbox[s], pending[r])
                                   ELSE inbox[s]]
    /\ pending' = [pending EXCEPT ![r] = NoRow]
    /\ UNCHANGED <<status, socket, timers, connected, page, upsets>>
-----------------------------------------------------------------------------
(***************************************************************************)
(* Connections.                                                            *)
(***************************************************************************)
Goes(s, stage) == socket' = [socket EXCEPT ![s] = stage]

\* The upgrade is answered; the browser will call onopen.
Upgrade(s) ==
    /\ socket[s] = "connecting"
    /\ Goes(s, "upgraded")
    /\ inbox' = [inbox EXCEPT ![s] = Append(@, Open)]
    /\ UNCHANGED <<server, timers, connected, page, upsets>>

\* Between the two a broadcast passes the socket by.
Register(s) ==
    /\ socket[s] = "upgraded"
    /\ Goes(s, "registered")
    /\ UNCHANGED <<server, inbox, timers, connected, page, upsets>>

\* The connection fails, or is refused; what had arrived is still handled.
Drop(s) ==
    /\ upsets < MaxUpsets
    /\ socket[s] \in {"connecting", "upgraded", "registered"}
    /\ Goes(s, "gone")
    /\ \E n \in 0..Len(inbox[s]) :
           inbox' = [inbox EXCEPT ![s] = Append(SubSeq(@, 1, n), Close)]
    /\ upsets' = upsets + 1
    /\ UNCHANGED <<server, timers, connected, page>>

\* Mutant: setInterval.
TimerFires_Again ==
    /\ timers > 0
    /\ \E s \in Sockets : socket[s] = "free" /\ Goes(s, "connecting")
    /\ UNCHANGED <<server, inbox, timers, connected, page, upsets>>

\* The timer calls connect.
TimerFires ==
    /\ timers > 0
    /\ timers' = timers - 1
    /\ \E s \in Sockets : socket[s] = "free" /\ Goes(s, "connecting")
    /\ UNCHANGED <<server, inbox, connected, page, upsets>>

-----------------------------------------------------------------------------
(***************************************************************************)
(* The page.                                                               *)
(***************************************************************************)
Arrives(s, kind) ==
    /\ inbox[s] # <<>>
    /\ Head(inbox[s]).kind = kind
    /\ inbox' = [inbox EXCEPT ![s] = Tail(@)]

OnOpen(s) ==
    /\ Arrives(s, "open")
    /\ connected' = TRUE
    /\ UNCHANGED <<server, socket, timers, page, upsets>>

\* Mutant: only a row that is in the list is replaced.
Push_OnlyKnown(row) ==
    shown' = IF shown[row.id] = "none" THEN shown
             ELSE [shown EXCEPT ![row.id] = row.status]

\* setTransactions in handleWsMessage.
Push(row) == shown' = [shown EXCEPT ![row.id] = row.status]

OnMessage(s) ==
    /\ Arrives(s, "row")
    /\ Push(Head(inbox[s]))
    /\ UNCHANGED <<server, socket, timers, connected, filter, fetch, upsets>>

\* Mutant: no new attempt.
OnClose_GivesUp(s) ==
    /\ Arrives(s, "close")
    /\ connected' = FALSE
    /\ Goes(s, "free")
    /\ UNCHANGED <<server, timers, page, upsets>>

OnClose(s) ==
    /\ Arrives(s, "close")
    /\ connected' = FALSE
    /\ Goes(s, "free")
    /\ timers' = timers + 1
    /\ UNCHANGED <<server, page, upsets>>

\* A new filter makes a new fetchTransactions, which the effect calls.
ChangeFilter ==
    /\ upsets < MaxUpsets
    /\ \E f \in Filters \ {filter}, x \in Fetches :
        /\ fetch[x] = Idle
        /\ filter' = f
        /\ fetch' = [fetch EXCEPT ![x] = Sent(f)]
    /\ upsets' = upsets + 1
    /\ UNCHANGED <<server, wire, shown>>

AnswerFetch(x) ==
    /\ fetch[x].stage = "sent"
    /\ fetch' = [fetch EXCEPT ![x].stage = "answered",
                              ![x].rows = Selected(fetch[x].filter)]
    /\ UNCHANGED <<server, wire, shown, filter, upsets>>

\* setTransactions in fetchTransactions: the answer replaces the list.
ReceiveFetch(x) ==
    /\ fetch[x].stage = "answered"
    /\ shown' = fetch[x].rows
    /\ fetch' = [fetch EXCEPT ![x] = Idle]
    /\ UNCHANGED <<server, wire, filter, upsets>>

\* The error is logged, the list stays.
FailFetch(x) ==
    /\ upsets < MaxUpsets
    /\ fetch[x] # Idle
    /\ fetch' = [fetch EXCEPT ![x] = Idle]
    /\ upsets' = upsets + 1
    /\ UNCHANGED <<server, wire, shown, filter>>

Next ==
    \/ \E r \in Requests : Commit(r) \/ Retry(r) \/ Broadcast(r)
    \/ CommitUntold
    \/ \E s \in Sockets : Upgrade(s) \/ Register(s) \/ Drop(s)
    \/ TimerFires
    \/ \E s \in Sockets : OnOpen(s) \/ OnMessage(s) \/ OnClose(s)
    \/ ChangeFilter
    \/ \E x \in Fetches : AnswerFetch(x) \/ ReceiveFetch(x) \/ FailFetch(x)

Spec == Init /\ [][Next]_vars

\* Goroutines run, packets arrive, timers fire and the browser handles its
\* events.  Nobody has to commit, retry, fail or choose a filter.
Fairness ==
    /\ \A r \in Requests : SF_vars(Broadcast(r))
    /\ \A s \in Sockets :
        /\ WF_vars(Upgrade(s)) /\ WF_vars(Register(s))
        /\ WF_vars(OnOpen(s) \/ OnMessage(s) \/ OnClose(s))
    /\ WF_vars(TimerFires)
    /\ \A x \in Fetches : WF_vars(AnswerFetch(x)) /\ WF_vars(ReceiveFetch(x))

FairSpec == Spec /\ Fairness
-----------------------------------------------------------------------------
(***************************************************************************)
(* Properties.                                                             *)
(***************************************************************************)

\* The types of the variables; each socket has a close to handle when it is
\* gone, and each timer was set by a socket that is not used any more.
FeedTypeOK ==
    /\ status \in [Txns -> {Statuses[i] : i \in 1..4}]
    /\ \A r \in Requests : pending[r] # NoRow => pending[r].id \in Txns
    /\ socket \in [Sockets ->
           {"free", "connecting", "upgraded", "registered", "gone"}]
    /\ \A s \in Sockets :
           /\ socket[s] = "gone" <=> \E i \in DOMAIN inbox[s] :
                                         inbox[s][i] = Close
           /\ socket[s] \in {"free", "connecting"} => inbox[s] = <<>>
    /\ timers \in 0..Cardinality({s \in Sockets : socket[s] = "free"})
    /\ connected \in BOOLEAN
    /\ shown \in [Txns -> {Statuses[i] : i \in 1..4}]
    /\ filter \in Filters
    /\ upsets \in 0..MaxUpsets

\* Whatever is lost, late or out of order, the page never shows a status that
\* the payment has not reached: the broadcast follows the commit
\* (handler/payment.go:33-39, 58-68, 87-97).
ShowsCommitted == \A t \in Txns : Rank(shown[t]) <= Rank(status[t])

\* A page that has lost its connection gets another one
\* (useWebSocket.js:26-29).
Reconnects == []<>connected
=============================================================================
