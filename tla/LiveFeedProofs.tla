--------------------------- MODULE LiveFeedProofs ---------------------------
(***************************************************************************)
(* Theorems about LiveFeed, for any numbers of transactions, requests,     *)
(* sockets, fetches and failures.                                          *)
(***************************************************************************)
EXTENDS MCLiveFeed, FiniteSetTheorems, TLAPS

StatusSet == {"none", "pending", "authorized", "settled"}

LEMMA Ranks ==
    /\ Rank("none") = 1 /\ Rank("pending") = 2
    /\ Rank("authorized") = 3 /\ Rank("settled") = 4
<1>1. 1..4 = {1, 2, 3, 4}
  OBVIOUS
<1>2. /\ Statuses[1] = "none" /\ Statuses[2] = "pending"
      /\ Statuses[3] = "authorized" /\ Statuses[4] = "settled"
  BY DEF Statuses
<1>3. ASSUME NEW i \in 1..4, NEW s, \A j \in 1..4 : Statuses[j] = s <=> j = i
      PROVE  Rank(s) = i
  BY <1>3 DEF Rank
<1>4. \A j \in 1..4 : Statuses[j] = "none" <=> j = 1
  BY <1>1, <1>2
<1>5. \A j \in 1..4 : Statuses[j] = "pending" <=> j = 2
  BY <1>1, <1>2
<1>6. \A j \in 1..4 : Statuses[j] = "authorized" <=> j = 3
  BY <1>1, <1>2
<1>7. \A j \in 1..4 : Statuses[j] = "settled" <=> j = 4
  BY <1>1, <1>2
<1>. QED
  BY <1>1, <1>3, <1>4, <1>5, <1>6, <1>7

\* Of two statuses of a payment, the first is not later than the second.
AtMost(s, u) == s \in StatusSet /\ u \in StatusSet /\ Rank(s) <= Rank(u)

LEMMA AtMostOrders ==
    /\ \A s \in StatusSet : AtMost(s, s) /\ AtMost("none", s)
    /\ \A s, u, v : AtMost(s, u) /\ AtMost(u, v) => AtMost(s, v)
BY Ranks DEF AtMost, StatusSet

LEMMA NextStatus ==
    ASSUME NEW s \in StatusSet, s # "settled"
    PROVE  AtMost(s, Statuses[Rank(s) + 1])
BY Ranks DEF AtMost, StatusSet, Statuses

-----------------------------------------------------------------------------
Rows == [kind : {"row"}, id : Txns, status : StatusSet]
Events == Rows \cup {Open, Close}

\* A row that is under way tells a status that was committed.
TrueRow(e) == e \in Rows => AtMost(e.status, status[e.id])

TInv ==
    /\ status \in [Txns -> StatusSet]
    /\ pending \in [Requests -> Rows \cup {NoRow}]
    /\ \A r \in Requests : TrueRow(pending[r])
    /\ inbox \in [Sockets -> Seq(Events)]
    /\ \A s \in Sockets : \A i \in 1..Len(inbox[s]) : TrueRow(inbox[s][i])
    /\ DOMAIN fetch = Fetches
    /\ \A x \in Fetches : fetch[x].rows \in [Txns -> StatusSet]
    /\ \A x \in Fetches, t \in Txns : AtMost(fetch[x].rows[t], status[t])
    /\ shown \in [Txns -> StatusSet]
    /\ \A t \in Txns : AtMost(shown[t], status[t])

LEMMA Kinds ==
    /\ Open \notin Rows /\ Close \notin Rows /\ NoRow \notin Rows
    /\ \A e \in Events : e.kind = "row" <=> e \in Rows
BY DEF Open, Close, NoRow, Rows, Events

LEMMA Initially == Init => TInv
<1>. SUFFICES ASSUME Init PROVE TInv
  OBVIOUS
<1>1. /\ status = Nothing /\ shown = Nothing
      /\ pending = [r \in Requests |-> NoRow]
  BY DEF Init
<1>2. Nothing \in [Txns -> StatusSet]
  BY DEF Nothing, StatusSet
<1>3. inbox \in [Sockets -> Seq(Events)]
      /\ \A s \in Sockets : \A i \in 1..Len(inbox[s]) : inbox[s][i] = Close
  <2>1. \A s \in Sockets : inbox[s] = <<>> \/ inbox[s] = <<Close>>
    BY DEF Init
  <2>2. inbox = [s \in Sockets |-> inbox[s]]
    BY DEF Init
  <2>3. <<>> \in Seq(Events) /\ <<Close>> \in Seq(Events)
    BY DEF Events
  <2>4. \A s \in Sockets : inbox[s] \in Seq(Events)
    BY <2>1, <2>3
  <2>5. inbox \in [Sockets -> Seq(Events)]
    BY <2>2, <2>4
  <2>6. ASSUME NEW s \in Sockets, NEW i \in 1..Len(inbox[s])
        PROVE  inbox[s][i] = Close
    BY <2>1, <2>6
  <2>. QED
    BY <2>5, <2>6
<1>4. \A x \in Fetches : fetch[x].rows = Nothing
  BY DEF Init, Sent, Idle
<1>5. DOMAIN fetch = Fetches
  BY DEF Init
<1>6. \A t \in Txns : AtMost(Nothing[t], Nothing[t])
  BY <1>2, AtMostOrders
<1>7. \A r \in Requests : TrueRow(pending[r])
  BY <1>1, Kinds DEF TrueRow
<1>8. \A s \in Sockets : \A i \in 1..Len(inbox[s]) : TrueRow(inbox[s][i])
  BY <1>3, Kinds DEF TrueRow
<1>. QED
  BY <1>1, <1>2, <1>3, <1>4, <1>5, <1>6, <1>7, <1>8 DEF TInv

-----------------------------------------------------------------------------
\* No step takes a status back.
Rises ==
    /\ status' \in [Txns -> StatusSet]
    /\ \A t \in Txns : AtMost(status[t], status'[t])

LEMMA StatusRises == ASSUME TInv, [Next]_vars PROVE Rises
<1>. USE DEF TInv
<1>1. ASSUME status' = status PROVE Rises
  BY <1>1, AtMostOrders DEF Rises
<1>2. ASSUME NEW r \in Requests, Commit(r) PROVE Rises
  <2>1. PICK t \in Txns :
          /\ status[t] # "settled"
          /\ status' = [status EXCEPT ![t] = Statuses[Rank(status[t]) + 1]]
    BY <1>2 DEF Commit
  <2>2. AtMost(status[t], Statuses[Rank(status[t]) + 1])
    BY <2>1, NextStatus
  <2>. QED
    BY <2>1, <2>2, AtMostOrders DEF Rises, AtMost
<1>3. CASE CommitUntold
  <2>1. PICK t \in Txns :
          /\ status[t] # "settled"
          /\ status' = [status EXCEPT ![t] = Statuses[Rank(status[t]) + 1]]
    BY <1>3 DEF CommitUntold
  <2>2. AtMost(status[t], Statuses[Rank(status[t]) + 1])
    BY <2>1, NextStatus
  <2>. QED
    BY <2>1, <2>2, AtMostOrders DEF Rises, AtMost
<1>4. CASE UNCHANGED vars
  BY <1>4, <1>1 DEF vars, server
<1>5. CASE Next
  <2>1. \/ \E r \in Requests : Commit(r)
        \/ CommitUntold
        \/ status' = status
    BY <1>5 DEF Next, server, Retry, Broadcast, Upgrade, Register, Drop,
       TimerFires, OnOpen, OnMessage, OnClose, ChangeFilter, AnswerFetch,
       ReceiveFetch, FailFetch
  <2>. QED
    BY <2>1, <1>1, <1>2, <1>3
<1>. QED
  BY <1>4, <1>5

\* A true row stays true.
LEMMA RowsStayTrue ==
    ASSUME TInv, Rises, NEW e, TrueRow(e) PROVE TrueRow(e)'
BY AtMostOrders DEF TrueRow, Rises, Rows

-----------------------------------------------------------------------------
(***************************************************************************)
(* What each variable keeps, and the steps that change it.                 *)
(***************************************************************************)
PendingTrue ==
    /\ pending \in [Requests -> Rows \cup {NoRow}]
    /\ \A r \in Requests : TrueRow(pending[r])
InboxTrue ==
    /\ inbox \in [Sockets -> Seq(Events)]
    /\ \A s \in Sockets : \A i \in 1..Len(inbox[s]) : TrueRow(inbox[s][i])
FetchTrue ==
    /\ DOMAIN fetch = Fetches
    /\ \A x \in Fetches : fetch[x].rows \in [Txns -> StatusSet]
    /\ \A x \in Fetches, t \in Txns : AtMost(fetch[x].rows[t], status[t])
ShownTrue ==
    /\ shown \in [Txns -> StatusSet]
    /\ \A t \in Txns : AtMost(shown[t], status[t])

LEMMA PendingStays ==
    ASSUME TInv, [Next]_vars, Rises PROVE PendingTrue'
<1>. USE DEF TInv
<1>1. ASSUME pending' = pending PROVE PendingTrue'
  BY <1>1, RowsStayTrue DEF PendingTrue, TrueRow
<1>2. ASSUME NEW r \in Requests, NEW t \in Txns, NEW s \in StatusSet,
             AtMost(s, status'[t]),
             pending' = [pending EXCEPT ![r] = Row(t, s)]
      PROVE  PendingTrue'
  <2>1. Row(t, s) \in Rows
    BY DEF Row, Rows
  <2>2. TrueRow(Row(t, s))'
    BY <1>2 DEF TrueRow, Row
  <2>3. \A q \in Requests : TrueRow(pending[q])'
    BY <1>2, <2>2, RowsStayTrue DEF TrueRow
  <2>. QED
    BY <1>2, <2>1, <2>3 DEF PendingTrue
<1>3. ASSUME NEW r \in Requests, Commit(r) PROVE PendingTrue'
  <2>1. PICK t \in Txns :
          /\ status[t] # "settled"
          /\ status' = [status EXCEPT ![t] = Statuses[Rank(status[t]) + 1]]
          /\ pending' = [pending EXCEPT
                            ![r] = Row(t, Statuses[Rank(status[t]) + 1])]
    BY <1>3 DEF Commit
  <2>2. Statuses[Rank(status[t]) + 1] \in StatusSet
    BY <2>1, NextStatus DEF AtMost
  <2>3. status'[t] = Statuses[Rank(status[t]) + 1]
    BY <2>1
  <2>. QED
    BY <2>1, <2>2, <2>3, <1>2, AtMostOrders
<1>4. ASSUME NEW r \in Requests, Retry(r) PROVE PendingTrue'
  <2>1. PICK t \in Txns : pending' = [pending EXCEPT ![r] = Row(t, status[t])]
    BY <1>4 DEF Retry
  <2>. QED
    BY <2>1, <1>2 DEF Rises
<1>5. ASSUME NEW r \in Requests, Broadcast(r) PROVE PendingTrue'
  <2>1. pending' = [pending EXCEPT ![r] = NoRow]
    BY <1>5 DEF Broadcast
  <2>2. \A q \in Requests : TrueRow(pending[q])'
    BY <2>1, RowsStayTrue, Kinds DEF TrueRow
  <2>. QED
    BY <2>1, <2>2 DEF PendingTrue
<1>6. \/ pending' = pending
      \/ \E r \in Requests : Commit(r) \/ Retry(r) \/ Broadcast(r)
  BY DEF Next, vars, server, CommitUntold, Upgrade, Register, Drop,
     TimerFires, OnOpen, OnMessage, OnClose, ChangeFilter, AnswerFetch,
     ReceiveFetch, FailFetch
<1>. QED
  BY <1>1, <1>3, <1>4, <1>5, <1>6

LEMMA InboxStays ==
    ASSUME TInv, [Next]_vars, Rises PROVE InboxTrue'
<1>. USE DEF TInv
<1>1. ASSUME inbox' \in [Sockets -> Seq(Events)],
             \A s \in Sockets : \A i \in 1..Len(inbox'[s]) :
                 \/ inbox'[s][i] \in {Open, Close}
                 \/ \E r \in Requests : inbox'[s][i] = pending[r]
                 \/ \E j \in 1..Len(inbox[s]) : inbox'[s][i] = inbox[s][j]
      PROVE  InboxTrue'
  <2>1. ASSUME NEW s \in Sockets, NEW i \in 1..Len(inbox'[s])
        PROVE  TrueRow(inbox[s][i])'
    <3>1. CASE inbox'[s][i] \in {Open, Close}
      BY <3>1, Kinds DEF TrueRow
    <3>2. ASSUME NEW r \in Requests, inbox'[s][i] = pending[r]
          PROVE  TrueRow(inbox[s][i])'
      <4>1. TrueRow(pending[r])
        OBVIOUS
      <4>2. pending[r] \in Rows => AtMost(pending[r].status,
                                          status'[pending[r].id])
        BY <4>1, AtMostOrders DEF TrueRow, Rises, Rows
      <4>. QED
        BY <3>2, <4>2 DEF TrueRow
    <3>3. ASSUME NEW j \in 1..Len(inbox[s]), inbox'[s][i] = inbox[s][j]
          PROVE  TrueRow(inbox[s][i])'
      <4>1. TrueRow(inbox[s][j])
        OBVIOUS
      <4>2. inbox[s][j] \in Rows => AtMost(inbox[s][j].status,
                                           status'[inbox[s][j].id])
        BY <4>1, AtMostOrders DEF TrueRow, Rises, Rows
      <4>. QED
        BY <3>3, <4>2 DEF TrueRow
    <3>. QED
      BY <1>1, <3>1, <3>2, <3>3
  <2>. QED
    BY <1>1, <2>1 DEF InboxTrue
<1>2. ASSUME inbox' = inbox PROVE InboxTrue'
  BY <1>2, <1>1
<1>3. ASSUME NEW r \in Requests, Broadcast(r) PROVE InboxTrue'
  <2>1. pending[r] \in Events
    BY <1>3 DEF Broadcast, Events
  <2>2. inbox' = [s \in Sockets |-> IF s \in Registered
                     THEN Append(inbox[s], pending[r]) ELSE inbox[s]]
    BY <1>3 DEF Broadcast
  <2>. QED
    BY <2>1, <2>2, <1>1
<1>4. ASSUME NEW s \in Sockets, Upgrade(s) PROVE InboxTrue'
  <2>1. inbox' = [inbox EXCEPT ![s] = Append(@, Open)]
    BY <1>4 DEF Upgrade
  <2>2. Open \in Events
    BY DEF Events
  <2>. QED
    BY <2>1, <2>2, <1>1
<1>5. ASSUME NEW s \in Sockets, Drop(s) PROVE InboxTrue'
  <2>1. PICK n \in 0..Len(inbox[s]) :
          inbox' = [inbox EXCEPT ![s] = Append(SubSeq(@, 1, n), Close)]
    BY <1>5 DEF Drop
  <2>2. Close \in Events
    BY DEF Events
  <2>3. /\ SubSeq(inbox[s], 1, n) \in Seq(Events)
        /\ Len(SubSeq(inbox[s], 1, n)) = n
        /\ \A j \in 1..n : SubSeq(inbox[s], 1, n)[j] = inbox[s][j]
    OBVIOUS
  <2>. QED
    BY <2>1, <2>2, <2>3, <1>1
<1>6. ASSUME NEW s \in Sockets, inbox[s] # <<>>,
             inbox' = [inbox EXCEPT ![s] = Tail(@)]
      PROVE  InboxTrue'
  <2>1. /\ Tail(inbox[s]) \in Seq(Events)
        /\ Len(Tail(inbox[s])) = Len(inbox[s]) - 1
        /\ \A j \in 1..Len(inbox[s]) - 1 : Tail(inbox[s])[j] = inbox[s][j + 1]
    BY <1>6
  <2>. QED
    BY <1>6, <2>1, <1>1
<1>7. \/ inbox' = inbox
      \/ \E r \in Requests : Broadcast(r)
      \/ \E s \in Sockets : Upgrade(s) \/ Drop(s)
      \/ \E s \in Sockets : inbox[s] # <<>>
                              /\ inbox' = [inbox EXCEPT ![s] = Tail(@)]
  BY DEF Next, vars, wire, Commit, CommitUntold, Retry, Register,
     TimerFires, OnOpen, OnMessage, OnClose, Arrives, ChangeFilter,
     AnswerFetch, ReceiveFetch, FailFetch
<1>. QED
  BY <1>2, <1>3, <1>4, <1>5, <1>6, <1>7

LEMMA FetchStays ==
    ASSUME TInv, [Next]_vars, Rises PROVE FetchTrue'
<1>. USE DEF TInv
<1>1. ASSUME DOMAIN fetch' = Fetches,
             \A x \in Fetches :
                 \/ fetch'[x].rows \in {fetch[x].rows, Nothing}
                 \/ \E f : fetch'[x].rows = Selected(f)
      PROVE  FetchTrue'
  <2>1. \A f : /\ Selected(f) \in [Txns -> StatusSet]
               /\ \A t \in Txns : AtMost(Selected(f)[t], status[t])
    BY AtMostOrders DEF Selected, StatusSet
  <2>2. /\ Nothing \in [Txns -> StatusSet]
        /\ \A t \in Txns : AtMost(Nothing[t], status[t])
    BY AtMostOrders DEF Nothing, StatusSet
  <2>3. ASSUME NEW x \in Fetches
        PROVE  /\ fetch'[x].rows \in [Txns -> StatusSet]
               /\ \A t \in Txns : AtMost(fetch'[x].rows[t], status[t])
    <3>1. CASE fetch'[x].rows = fetch[x].rows
      BY <3>1
    <3>2. CASE fetch'[x].rows = Nothing
      BY <3>2, <2>2
    <3>3. CASE \E f : fetch'[x].rows = Selected(f)
      BY <3>3, <2>1
    <3>. QED
      BY <1>1, <3>1, <3>2, <3>3
  <2>. QED
    BY <1>1, <2>3, AtMostOrders DEF FetchTrue, Rises
<1>2. ASSUME fetch' = fetch PROVE FetchTrue'
  BY <1>2, <1>1
<1>3. ASSUME NEW x \in Fetches, NEW f, fetch' = [fetch EXCEPT ![x] = Sent(f)]
      PROVE  FetchTrue'
  BY <1>3, <1>1 DEF Sent, Idle
<1>4. ASSUME NEW x \in Fetches, fetch' = [fetch EXCEPT ![x] = Idle]
      PROVE  FetchTrue'
  BY <1>4, <1>1 DEF Idle
<1>5. ASSUME NEW x \in Fetches, AnswerFetch(x) PROVE FetchTrue'
  <2>1. fetch' = [fetch EXCEPT ![x].stage = "answered",
                               ![x].rows = Selected(fetch[x].filter)]
    BY <1>5 DEF AnswerFetch
  <2>2. \A y \in Fetches : fetch'[y].rows
                            \in {fetch[y].rows, Selected(fetch[x].filter)}
    BY <2>1
  <2>. QED
    BY <2>1, <2>2, <1>1
<1>6. \/ fetch' = fetch
      \/ \E x \in Fetches : \/ AnswerFetch(x)
                             \/ fetch' = [fetch EXCEPT ![x] = Idle]
                             \/ \E f : fetch' = [fetch EXCEPT ![x] = Sent(f)]
  BY DEF Next, vars, page, Commit, CommitUntold, Retry, Broadcast, Upgrade,
     Register, Drop, TimerFires, OnOpen, OnMessage, OnClose, ChangeFilter,
     ReceiveFetch, FailFetch
<1>. QED
  BY <1>2, <1>3, <1>4, <1>5, <1>6

LEMMA ShownStays ==
    ASSUME TInv, [Next]_vars, Rises PROVE ShownTrue'
<1>. USE DEF TInv
<1>1. ASSUME shown' \in [Txns -> StatusSet],
             \A t \in Txns : AtMost(shown'[t], status[t])
      PROVE  ShownTrue'
  BY <1>1, AtMostOrders DEF ShownTrue, Rises
<1>2. ASSUME shown' = shown PROVE ShownTrue'
  BY <1>2, <1>1
<1>3. ASSUME NEW s \in Sockets, OnMessage(s) PROVE ShownTrue'
  <2>. DEFINE row == Head(inbox[s])
  <2>1. inbox[s] # <<>> /\ row.kind = "row"
        /\ shown' = [shown EXCEPT ![row.id] = row.status]
    BY <1>3 DEF OnMessage, Arrives, Push
  <2>2. row \in Events /\ 1 \in 1..Len(inbox[s]) /\ row = inbox[s][1]
    BY <2>1
  <2>3. row \in Rows
    BY <2>1, <2>2, Kinds
  <2>4. TrueRow(row)
    BY <2>2
  <2>5. row.id \in Txns /\ row.status \in StatusSet
        /\ AtMost(row.status, status[row.id])
    BY <2>3, <2>4 DEF TrueRow, Rows
  <2>. QED
    BY <2>1, <2>5, <1>1
<1>4. ASSUME NEW x \in Fetches, ReceiveFetch(x) PROVE ShownTrue'
  <2>1. shown' = fetch[x].rows
    BY <1>4 DEF ReceiveFetch
  <2>. QED
    BY <2>1, <1>1 DEF AtMost
<1>5. \/ shown' = shown
      \/ \E s \in Sockets : OnMessage(s)
      \/ \E x \in Fetches : ReceiveFetch(x)
  BY DEF Next, vars, page, Commit, CommitUntold, Retry, Broadcast, Upgrade,
     Register, Drop, TimerFires, OnOpen, OnClose, ChangeFilter, AnswerFetch,
     FailFetch
<1>. QED
  BY <1>2, <1>3, <1>4, <1>5

LEMMA TStep == ASSUME TInv, [Next]_vars PROVE TInv'
BY StatusRises, PendingStays, InboxStays, FetchStays, ShownStays
   DEF TInv, Rises, PendingTrue, InboxTrue, FetchTrue, ShownTrue

-----------------------------------------------------------------------------
(***************************************************************************)
(* The page never shows a status that the payment has not reached          *)
(* (handler/payment.go broadcasts a row after it is committed: 33-39,      *)
(* 58-68, 87-97), whatever is lost or late on the way: rows under way, and *)
(* answers under way, are true, and what is true stays true.               *)
(***************************************************************************)
THEOREM Truthful == Spec => []ShowsCommitted
<1>1. TInv /\ [Next]_vars => TInv'
  BY TStep
<1>2. TInv => ShowsCommitted
  BY DEF TInv, AtMost, ShowsCommitted
<1>. QED
  BY Initially, <1>1, <1>2, PTL DEF Spec

-----------------------------------------------------------------------------
(***************************************************************************)
(* Connections: where the close of a socket is, and the timers.            *)
(***************************************************************************)
Stages == {"free", "connecting", "upgraded", "registered", "gone"}
Free == {s \in Sockets : socket[s] = "free"}

\* The close of a connection is the last event of a socket that is gone, and
\* of no other; a socket without a connection has no events.
CloseIsLast(s) ==
    /\ \A i \in 1..Len(inbox[s]) :
           inbox[s][i] = Close <=> socket[s] = "gone" /\ i = Len(inbox[s])
    /\ socket[s] = "gone" => inbox[s] # <<>>
    /\ socket[s] \in {"free", "connecting"} => inbox[s] = <<>>

WInv ==
    /\ socket \in [Sockets -> Stages]
    /\ \A s \in Sockets : CloseIsLast(s)
    /\ timers \in Nat /\ timers <= Cardinality(Free)
    /\ connected \in BOOLEAN
    /\ filter \in Filters
    /\ upsets \in 0..MaxUpsets

LEMMA FreeIsFinite == IsFiniteSet(Free) /\ Cardinality(Free) \in Nat
BY FeedAssumption, FS_Subset, FS_CardinalityType DEF Free

LEMMA WInitially == Init => WInv
<1>. SUFFICES ASSUME Init PROVE WInv
  OBVIOUS
<1>1. PICK start \in Starts, s, old \in Sockets :
        /\ connected = (start = "loaded")
        /\ socket = [x \in Sockets |->
               CASE x = s -> (IF start = "loaded" THEN "registered"
                                                  ELSE "connecting")
                 [] x = old /\ x # s -> "gone"
                 [] OTHER -> "free"]
        /\ inbox = [x \in Sockets |->
               IF x = old /\ x # s THEN <<Close>> ELSE <<>>]
  BY DEF Init
<1>2. ASSUME NEW x \in Sockets
      PROVE  /\ socket[x] = "gone" <=> x = old /\ x # s
             /\ socket[x] \in Stages
  BY <1>1 DEF Stages
<1>3. socket \in [Sockets -> Stages]
  BY <1>1, <1>2
<1>4. ASSUME NEW x \in Sockets PROVE CloseIsLast(x)
  <2>1. CASE x = old /\ x # s
    <3>1. inbox[x] = <<Close>> /\ socket[x] = "gone"
      BY <1>1, <1>2, <2>1
    <3>. QED
      BY <3>1 DEF CloseIsLast
  <2>2. CASE ~(x = old /\ x # s)
    <3>1. inbox[x] = <<>> /\ socket[x] # "gone"
      BY <1>1, <1>2, <2>2
    <3>. QED
      BY <3>1 DEF CloseIsLast
  <2>. QED
    BY <2>1, <2>2
<1>. QED
  BY <1>1, <1>3, <1>4, FreeIsFinite, FeedAssumption DEF Init, WInv

-----------------------------------------------------------------------------
\* A step that leaves the sockets where they are.
LEMMA EventsStay ==
    ASSUME WInv, UNCHANGED <<socket, timers>>,
           \A s \in Sockets : CloseIsLast(s)',
           connected' \in BOOLEAN, filter' \in Filters,
           upsets' \in 0..MaxUpsets
    PROVE  WInv'
BY DEF WInv, Free

\* A step of one socket.
LEMMA OneSocket ==
    ASSUME WInv, NEW s \in Sockets, NEW stage \in Stages, Goes(s, stage),
           \A q \in Sockets \ {s} : inbox'[q] = inbox[q],
           CloseIsLast(s)',
           connected' \in BOOLEAN, filter' = filter,
           upsets' \in 0..MaxUpsets,
           \/ timers' = timers /\ socket[s] # "free"
           \/ timers' = timers + 1 /\ socket[s] # "free" /\ stage = "free"
           \/ timers' = timers - 1 /\ timers > 0 /\ stage # "free"
    PROVE  WInv'
<1>1. socket' = [socket EXCEPT ![s] = stage]
  BY DEF Goes
<1>2. socket' \in [Sockets -> Stages] /\ socket'[s] = stage
      /\ \A q \in Sockets \ {s} : socket'[q] = socket[q]
  BY <1>1 DEF WInv
<1>3. \A q \in Sockets \ {s} : CloseIsLast(q)'
  BY <1>2 DEF WInv, CloseIsLast
<1>4. Free' = IF stage = "free" THEN Free \cup {s} ELSE Free \ {s}
  BY <1>2 DEF Free
<1>5. /\ Cardinality(Free \cup {s})
           = IF s \in Free THEN Cardinality(Free) ELSE Cardinality(Free) + 1
      /\ Cardinality(Free \ {s})
           = IF s \in Free THEN Cardinality(Free) - 1 ELSE Cardinality(Free)
  BY FreeIsFinite, FS_AddElement, FS_RemoveElement
<1>6. s \in Free <=> socket[s] = "free"
  BY DEF Free
<1>7. timers' \in Nat /\ timers' <= Cardinality(Free')
  BY <1>4, <1>5, <1>6, FreeIsFinite DEF WInv
<1>. QED
  BY <1>2, <1>3, <1>7 DEF WInv

LEMMA WStep == ASSUME TInv, WInv, [Next]_vars PROVE WInv'
<1>. USE DEF TInv
<1>1. ASSUME UNCHANGED wire, filter' \in Filters, upsets' \in 0..MaxUpsets
      PROVE  WInv'
  BY <1>1, EventsStay DEF wire, WInv, CloseIsLast
<1>2. upsets < MaxUpsets => upsets + 1 \in 0..MaxUpsets
  BY FeedAssumption DEF WInv
<1>3. ASSUME NEW r \in Requests, Commit(r) \/ Retry(r) PROVE WInv'
  BY <1>1, <1>3 DEF Commit, Retry, page, WInv
<1>4. ASSUME NEW r \in Requests, Broadcast(r) PROVE WInv'
  <2>1. /\ inbox' = [s \in Sockets |-> IF s \in Registered
                        THEN Append(inbox[s], pending[r]) ELSE inbox[s]]
        /\ UNCHANGED <<socket, timers, connected, filter, upsets>>
        /\ pending[r] # Close
    BY <1>4, Kinds DEF Broadcast, page
  <2>2. ASSUME NEW s \in Sockets PROVE CloseIsLast(s)'
    <3>1. CASE socket[s] = "registered"
      <4>1. /\ inbox'[s] = Append(inbox[s], pending[r])
            /\ inbox[s] \in Seq(Events)
            /\ \A i \in 1..Len(inbox[s]) : inbox[s][i] # Close
        BY <2>1, <3>1 DEF Registered, WInv, CloseIsLast
      <4>2. \A i \in 1..Len(inbox'[s]) : inbox'[s][i] # Close
        BY <2>1, <4>1
      <4>. QED
        BY <2>1, <3>1, <4>2 DEF CloseIsLast
    <3>2. CASE socket[s] # "registered"
      BY <2>1, <3>2 DEF Registered, WInv, CloseIsLast
    <3>. QED
      BY <3>1, <3>2
  <2>. QED
    BY <2>1, <2>2, EventsStay DEF WInv
<1>5. ASSUME NEW s \in Sockets, Upgrade(s) PROVE WInv'
  <2>1. /\ socket[s] = "connecting" /\ Goes(s, "upgraded")
        /\ inbox' = [inbox EXCEPT ![s] = Append(@, Open)]
        /\ UNCHANGED <<timers, connected, filter, upsets>>
    BY <1>5 DEF Upgrade, page
  <2>2. inbox[s] = <<>> /\ socket'[s] = "upgraded"
    BY <2>1 DEF WInv, CloseIsLast, Goes
  <2>3. Len(inbox'[s]) = 1 /\ inbox'[s][1] = Open
    BY <2>1, <2>2 DEF Events
  <2>4. CloseIsLast(s)'
    BY <2>2, <2>3 DEF CloseIsLast, Open, Close
  <2>. QED
    BY <2>1, <2>4, OneSocket DEF WInv, Stages
<1>6. ASSUME NEW s \in Sockets, Register(s) PROVE WInv'
  <2>1. /\ socket[s] = "upgraded" /\ Goes(s, "registered")
        /\ UNCHANGED <<inbox, timers, connected, filter, upsets>>
    BY <1>6 DEF Register, page
  <2>2. CloseIsLast(s)'
    BY <2>1 DEF WInv, CloseIsLast, Goes
  <2>. QED
    BY <2>1, <2>2, OneSocket DEF WInv, Stages
<1>7. ASSUME NEW s \in Sockets, Drop(s) PROVE WInv'
  <2>1. /\ socket[s] \in {"connecting", "upgraded", "registered"}
        /\ Goes(s, "gone")
        /\ upsets' \in 0..MaxUpsets
        /\ UNCHANGED <<timers, connected, filter>>
    BY <1>2, <1>7 DEF Drop, page
  <2>2. PICK n \in 0..Len(inbox[s]) :
          inbox' = [inbox EXCEPT ![s] = Append(SubSeq(@, 1, n), Close)]
    BY <1>7 DEF Drop
  <2>3. /\ SubSeq(inbox[s], 1, n) \in Seq(Events)
        /\ Len(SubSeq(inbox[s], 1, n)) = n
        /\ \A i \in 1..n : SubSeq(inbox[s], 1, n)[i] = inbox[s][i]
        /\ Close \in Events
    BY DEF Events
  <2>4. \A i \in 1..Len(inbox[s]) : inbox[s][i] # Close
    BY <2>1 DEF WInv, CloseIsLast
  <2>5. /\ Len(inbox'[s]) = n + 1
        /\ inbox'[s][n + 1] = Close
        /\ \A i \in 1..n : inbox'[s][i] # Close
    BY <2>2, <2>3, <2>4
  <2>6. socket'[s] = "gone"
    BY <2>1 DEF WInv, Goes
  <2>7. CloseIsLast(s)'
    BY <2>5, <2>6 DEF CloseIsLast
  <2>. QED
    BY <2>1, <2>2, <2>7, OneSocket DEF WInv, Stages
<1>8. CASE TimerFires
  <2>1. PICK s \in Sockets : socket[s] = "free" /\ Goes(s, "connecting")
    BY <1>8 DEF TimerFires
  <2>2. /\ timers > 0 /\ timers' = timers - 1
        /\ UNCHANGED <<inbox, connected, filter, upsets>>
    BY <1>8 DEF TimerFires, page
  <2>3. CloseIsLast(s)'
    BY <2>1, <2>2 DEF WInv, CloseIsLast, Goes
  <2>. QED
    BY <2>1, <2>2, <2>3, OneSocket DEF WInv, Stages
<1>9. ASSUME NEW s \in Sockets, NEW kind, Arrives(s, kind)
      PROVE  /\ Len(inbox'[s]) = Len(inbox[s]) - 1
             /\ \A i \in 1..Len(inbox'[s]) : inbox'[s][i] = inbox[s][i + 1]
             /\ \A q \in Sockets \ {s} : inbox'[q] = inbox[q]
             /\ 1 \in 1..Len(inbox[s]) /\ inbox[s][1].kind = kind
             /\ inbox[s][1] \in Events
             /\ inbox'[s] \in Seq(Events)
  BY <1>9 DEF Arrives
<1>10. ASSUME NEW s \in Sockets, NEW kind \in {"open", "row"},
              Arrives(s, kind),
              UNCHANGED <<socket, timers, filter, upsets>>,
              connected' \in BOOLEAN
       PROVE  WInv'
  <2>1. inbox[s][1] # Close
    BY <1>9, <1>10 DEF Close
  <2>2. CloseIsLast(s)'
    <3>1. /\ Len(inbox'[s]) = Len(inbox[s]) - 1 /\ Len(inbox[s]) \in Nat
          /\ \A i \in 1..Len(inbox'[s]) : inbox'[s][i] = inbox[s][i + 1]
          /\ 1 \in 1..Len(inbox[s])
          /\ inbox'[s] \in Seq(Events)
      BY <1>9, <1>10
    <3>2. CloseIsLast(s) /\ socket'[s] = socket[s]
      BY <1>10 DEF WInv
    <3>3. socket[s] \notin {"free", "connecting"}
      BY <3>1, <3>2 DEF CloseIsLast
    <3>4. socket[s] = "gone" => Len(inbox[s]) > 1
      BY <2>1, <3>1, <3>2 DEF CloseIsLast
    <3>5. \A i \in 1..Len(inbox'[s]) :
              inbox'[s][i] = Close
                  <=> socket[s] = "gone" /\ i = Len(inbox'[s])
      BY <3>1, <3>2 DEF CloseIsLast
    <3>. QED
      BY <3>1, <3>2, <3>3, <3>4, <3>5 DEF CloseIsLast
  <2>3. \A q \in Sockets : CloseIsLast(q)'
    BY <1>9, <1>10, <2>2 DEF WInv, CloseIsLast
  <2>. QED
    BY <1>10, <2>3, EventsStay DEF WInv
<1>11. ASSUME NEW s \in Sockets, OnOpen(s) PROVE WInv'
  BY <1>10, <1>11 DEF OnOpen, page
<1>12. ASSUME NEW s \in Sockets, OnMessage(s) PROVE WInv'
  BY <1>10, <1>12 DEF OnMessage, WInv
<1>13. ASSUME NEW s \in Sockets, OnClose(s) PROVE WInv'
  <2>1. /\ Arrives(s, "close") /\ Goes(s, "free")
        /\ connected' \in BOOLEAN /\ timers' = timers + 1
        /\ UNCHANGED <<filter, upsets>>
    BY <1>13 DEF OnClose, page
  <2>2. inbox[s][1] = Close
    BY <1>9, <2>1 DEF Events, Rows, Open
  <2>3. socket[s] = "gone" /\ Len(inbox[s]) = 1
    BY <1>9, <2>1, <2>2 DEF WInv, CloseIsLast
  <2>4. inbox'[s] \in Seq(Events) /\ Len(inbox'[s]) = 0
    BY <1>9, <2>1, <2>3
  <2>5. CloseIsLast(s)'
    <3>1. socket'[s] = "free"
      BY <2>1 DEF WInv, Goes
    <3>2. inbox'[s] = <<>>
      BY <2>4
    <3>. QED
      BY <3>1, <3>2 DEF CloseIsLast
  <2>. QED
    BY <1>9, <2>1, <2>3, <2>5, OneSocket DEF WInv, Stages
<1>14. CASE ChangeFilter
  BY <1>1, <1>2, <1>14 DEF ChangeFilter
<1>15. ASSUME NEW x \in Fetches,
              AnswerFetch(x) \/ ReceiveFetch(x) \/ FailFetch(x)
       PROVE  WInv'
  BY <1>1, <1>2, <1>15 DEF AnswerFetch, ReceiveFetch, FailFetch, WInv
<1>16. CASE CommitUntold
  BY <1>1, <1>16 DEF CommitUntold, page, WInv
<1>17. CASE UNCHANGED vars
  BY <1>1, <1>17 DEF vars, page, WInv
<1>. QED
  BY <1>3, <1>4, <1>5, <1>6, <1>7, <1>8, <1>11, <1>12, <1>13, <1>14, <1>15,
     <1>16, <1>17 DEF Next

-----------------------------------------------------------------------------
\* The types of the variables: a socket has a close to handle when it is gone,
\* and each timer was set by a socket that is not used any more
\* (useWebSocket.js:26-29).
THEOREM FeedTypeCorrect == Spec => []FeedTypeOK
<1>1. Init => TInv /\ WInv
  BY Initially, WInitially
<1>2. TInv /\ WInv /\ [Next]_vars => (TInv /\ WInv)'
  BY TStep, WStep
<1>3. TInv /\ WInv => FeedTypeOK
  <2>. SUFFICES ASSUME TInv, WInv PROVE FeedTypeOK
    OBVIOUS
  <2>1. {Statuses[i] : i \in 1..4} = StatusSet
    <3>1. 1..4 = {1, 2, 3, 4}
      OBVIOUS
    <3>. QED
      BY <3>1 DEF Statuses, StatusSet
  <2>2. \A r \in Requests : pending[r] # NoRow => pending[r].id \in Txns
    BY DEF TInv, Rows
  <2>3. \A s \in Sockets :
          /\ socket[s] = "gone" <=> \E i \in DOMAIN inbox[s] :
                                        inbox[s][i] = Close
          /\ socket[s] \in {"free", "connecting"} => inbox[s] = <<>>
    <3>. SUFFICES ASSUME NEW s \in Sockets
                  PROVE  /\ socket[s] = "gone" <=> \E i \in DOMAIN inbox[s] :
                                                       inbox[s][i] = Close
                         /\ socket[s] \in {"free", "connecting"}
                                => inbox[s] = <<>>
      OBVIOUS
    <3>1. inbox[s] \in Seq(Events) /\ CloseIsLast(s)
      BY DEF TInv, WInv
    <3>2. DOMAIN inbox[s] = 1..Len(inbox[s]) /\ Len(inbox[s]) \in Nat
      BY <3>1
    <3>3. inbox[s] # <<>> => Len(inbox[s]) \in 1..Len(inbox[s])
      BY <3>1
    <3>. QED
      BY <3>1, <3>2, <3>3 DEF CloseIsLast
  <2>4. timers \in 0..Cardinality({s \in Sockets : socket[s] = "free"})
    BY FreeIsFinite DEF WInv, Free
  <2>. QED
    BY <2>1, <2>2, <2>3, <2>4 DEF TInv, WInv, Stages, FeedTypeOK
<1>. QED
  BY <1>1, <1>2, <1>3, PTL DEF Spec

-----------------------------------------------------------------------------
(***************************************************************************)
(* A calm page (see MCLiveFeed): the one socket that is registered brings  *)
(* the rows of each payment in the order of their commits.                 *)
(***************************************************************************)

\* A row that waits to be broadcast tells no earlier status than the page, or
\* a row on its way to it.
Newest(e) ==
    e \in Rows =>
        /\ AtMost(shown[e.id], e.status)
        /\ \A s \in Registered : \A i \in 1..Len(inbox[s]) :
               inbox[s][i] \in Rows /\ inbox[s][i].id = e.id
                   => AtMost(inbox[s][i].status, e.status)

\* Of two rows of one payment, the later one tells no earlier status.
InOrder(events) ==
    \A i, j \in 1..Len(events) :
        /\ i < j
        /\ events[i] \in Rows /\ events[j] \in Rows
        /\ events[i].id = events[j].id
        => AtMost(events[i].status, events[j].status)

\* The page is not ahead of what is on its way.
Behind(events) ==
    \A i \in 1..Len(events) :
        events[i] \in Rows => AtMost(shown[events[i].id], events[i].status)

\* The last status is shown, or on its way.
Informed(t) ==
    \/ shown[t] = status[t]
    \/ \E r \in Requests : pending[r] = Row(t, status[t])
    \/ \E s \in Registered : \E i \in 1..Len(inbox[s]) :
           inbox[s][i] = Row(t, status[t])

CInv ==
    calm =>
        /\ Calm
        /\ \A r \in Requests : Newest(pending[r])
        /\ \A s \in Registered : InOrder(inbox[s]) /\ Behind(inbox[s])
        /\ \A t \in Txns \ untold : Informed(t)

LEMMA CInitially == MCInit => CInv
<1>. SUFFICES ASSUME MCInit, calm PROVE CInv
  BY DEF CInv
<1>1. Init /\ Calm
  BY DEF MCInit
<1>2. \A s \in Registered : inbox[s] = <<>>
  BY <1>1 DEF Init, Registered
<1>3. status = shown /\ \A r \in Requests : pending[r] = NoRow
  BY <1>1 DEF Init
<1>. QED
  BY <1>1, <1>2, <1>3, Kinds DEF CInv, Newest, InOrder, Behind, Informed

-----------------------------------------------------------------------------
\* What can happen while the page stays calm.
LEMMA CalmMoves ==
    ASSUME TInv, WInv, Calm, Calm', [Next]_vars
    PROVE  /\ UNCHANGED <<socket, fetch>>
           /\ \/ UNCHANGED <<status, pending, inbox, shown>>
              \/ \E r \in Requests : Commit(r) \/ Retry(r) \/ Broadcast(r)
              \/ CommitUntold
              \/ \E s \in Registered : OnOpen(s) \/ OnMessage(s)
<1>1. \A s \in Sockets : socket[s] \in {"registered", "free"}
      /\ socket'[s] \in {"registered", "free"}
  BY DEF Calm
<1>2. \A x \in Fetches : fetch[x] = Idle /\ fetch'[x] = Idle
  BY DEF Calm
<1>3. connected'
  BY DEF Calm
<1>4. ~\E s \in Sockets : Upgrade(s) \/ Register(s)
  BY <1>1 DEF Upgrade, Register
<1>5. ~\E s \in Sockets : Drop(s)
  BY <1>1 DEF Drop, Goes, WInv
<1>6. ~TimerFires
  BY <1>1 DEF TimerFires, Goes, WInv
<1>7. ~\E s \in Sockets : OnClose(s)
  BY <1>3 DEF OnClose
<1>8. Idle.stage = "idle" /\ \A f : Sent(f).stage = "sent"
  BY DEF Idle, Sent
<1>9. ~ChangeFilter
  <2>. SUFFICES ASSUME ChangeFilter PROVE FALSE
    OBVIOUS
  <2>1. PICK f \in Filters, x \in Fetches :
          fetch' = [fetch EXCEPT ![x] = Sent(f)]
    BY DEF ChangeFilter
  <2>2. fetch'[x] = Sent(f)
    BY <2>1 DEF TInv
  <2>. QED
    BY <1>2, <1>8, <2>2
<1>10. ~\E x \in Fetches : AnswerFetch(x) \/ ReceiveFetch(x) \/ FailFetch(x)
  BY <1>2, <1>8 DEF AnswerFetch, ReceiveFetch, FailFetch
<1>11. ASSUME NEW s \in Sockets, OnOpen(s) \/ OnMessage(s)
       PROVE  s \in Registered
  BY <1>1, <1>11 DEF OnOpen, OnMessage, Arrives, Registered, WInv, CloseIsLast
<1>12. CASE UNCHANGED vars
  BY <1>12 DEF vars, server, wire, page
<1>13. CASE \E r \in Requests : Commit(r) \/ Retry(r) \/ Broadcast(r)
  BY <1>13 DEF Commit, Retry, Broadcast, wire, page
<1>14. CASE CommitUntold
  BY <1>14 DEF CommitUntold, wire, page
<1>15. CASE \E s \in Sockets : OnOpen(s) \/ OnMessage(s)
  BY <1>11, <1>15 DEF OnOpen, OnMessage, page
<1>. QED
  BY <1>4, <1>5, <1>6, <1>7, <1>9, <1>10, <1>12, <1>13, <1>14, <1>15 DEF Next

\* The parts of CInv after a step.
CalmAfter ==
    /\ \A r \in Requests : Newest(pending[r])'
    /\ \A s \in Registered' : InOrder(inbox'[s]) /\ Behind(inbox[s])'
    /\ \A t \in Txns \ untold : status'[t] = status[t] => Informed(t)'

\* No other request waits than the one that a calm step lets wait.
LEMMA OneWaits ==
    ASSUME TInv, NEW r \in Requests, NEW e \in Rows, Calm',
           pending[r] = NoRow, pending' = [pending EXCEPT ![r] = e]
    PROVE  /\ \A q \in Requests : pending[q] = NoRow
           /\ \A q \in Requests : pending'[q] = IF q = r THEN e ELSE NoRow
<1>1. e # NoRow /\ pending'[r] = e
  BY Kinds DEF TInv
<1>2. ASSUME NEW q \in Requests, q # r PROVE pending'[q] = NoRow
  BY <1>1, <1>2 DEF Calm
<1>. QED
  BY <1>1, <1>2 DEF TInv

\* A row is not earlier than what the page knows when it tells the status that
\* is committed, or the one after it.
LEMMA CommittedIsNewest ==
    ASSUME TInv, NEW t \in Txns, NEW u, AtMost(status[t], u),
           UNCHANGED <<socket, inbox, shown>>
    PROVE  Newest(Row(t, u))'
<1>1. Registered' = Registered /\ Registered \subseteq Sockets
  BY DEF Registered
<1>2. AtMost(shown[t], u)
  BY AtMostOrders DEF TInv
<1>3. ASSUME NEW s \in Registered, NEW i \in 1..Len(inbox[s]),
             inbox[s][i] \in Rows, inbox[s][i].id = t
      PROVE  AtMost(inbox[s][i].status, u)
  <2>1. TrueRow(inbox[s][i])
    BY <1>1, <1>3 DEF TInv
  <2>. QED
    BY <1>3, <2>1, AtMostOrders DEF TrueRow
<1>. QED
  BY <1>1, <1>2, <1>3 DEF Newest, Row

LEMMA CalmCommit ==
    ASSUME TInv, calm, CInv, Calm', NEW r \in Requests, Commit(r)
    PROVE  CalmAfter
<1>. USE DEF TInv, CInv
<1>1. PICK t \in Txns, next \in StatusSet :
        /\ AtMost(status[t], next)
        /\ status' = [status EXCEPT ![t] = next]
        /\ pending' = [pending EXCEPT ![r] = Row(t, next)]
        /\ pending[r] = NoRow
        /\ UNCHANGED <<socket, inbox, shown>>
  <2>1. PICK t \in Txns :
          /\ status[t] # "settled"
          /\ status' = [status EXCEPT ![t] = Statuses[Rank(status[t]) + 1]]
          /\ pending' = [pending EXCEPT
                            ![r] = Row(t, Statuses[Rank(status[t]) + 1])]
    BY DEF Commit
  <2>2. AtMost(status[t], Statuses[Rank(status[t]) + 1])
    BY <2>1, NextStatus
  <2>3. Statuses[Rank(status[t]) + 1] \in StatusSet
    BY <2>2 DEF AtMost
  <2>4. pending[r] = NoRow /\ UNCHANGED <<socket, inbox, shown>>
    BY DEF Commit, wire, page
  <2>. QED
    BY <2>1, <2>2, <2>3, <2>4
<1>3. Row(t, next) \in Rows
  BY DEF Row, Rows
<1>4. /\ \A q \in Requests : pending[q] = NoRow
      /\ \A q \in Requests : pending'[q] = IF q = r THEN Row(t, next)
                                                    ELSE NoRow
  BY <1>1, <1>3, OneWaits
<1>5. status'[t] = next /\ \A u \in Txns \ {t} : status'[u] = status[u]
  BY <1>1
<1>6. \A q \in Requests : Newest(pending[q])'
  <2>1. Newest(Row(t, next))'
    BY <1>1, CommittedIsNewest
  <2>. QED
    BY <1>4, <2>1, Kinds DEF Newest
<1>7. Registered' = Registered
  BY <1>1 DEF Registered
<1>8. \A s \in Registered' : InOrder(inbox'[s]) /\ Behind(inbox[s])'
  BY <1>1, <1>7 DEF InOrder, Behind
<1>9. ASSUME NEW u \in Txns \ untold PROVE Informed(u)'
  <2>1. CASE u = t
    BY <1>4, <1>5, <2>1 DEF Informed
  <2>2. CASE u # t
    <3>1. Row(u, status[u]) # NoRow
      BY DEF Row, NoRow
    <3>. QED
      BY <1>1, <1>4, <1>5, <1>7, <2>2, <3>1 DEF Informed
  <2>. QED
    BY <2>1, <2>2
<1>. QED
  BY <1>6, <1>8, <1>9 DEF CalmAfter

LEMMA CalmRetry ==
    ASSUME TInv, calm, CInv, Calm', NEW r \in Requests, Retry(r)
    PROVE  CalmAfter
<1>. USE DEF TInv, CInv
<1>1. PICK t \in Txns, now \in StatusSet :
        /\ now = status[t]
        /\ pending' = [pending EXCEPT ![r] = Row(t, now)]
        /\ pending[r] = NoRow
        /\ UNCHANGED <<status, socket, inbox, shown>>
  BY DEF Retry, wire, page
<1>2. Row(t, now) \in Rows
  BY DEF Row, Rows
<1>3. /\ \A q \in Requests : pending[q] = NoRow
      /\ \A q \in Requests : pending'[q] = IF q = r THEN Row(t, now)
                                                    ELSE NoRow
  BY <1>1, <1>2, OneWaits
<1>4. \A q \in Requests : Newest(pending[q])'
  <2>1. Newest(Row(t, now))'
    BY <1>1, CommittedIsNewest, AtMostOrders
  <2>. QED
    BY <1>3, <2>1, Kinds DEF Newest
<1>5. Registered' = Registered
  BY <1>1 DEF Registered
<1>6. \A s \in Registered' : InOrder(inbox'[s]) /\ Behind(inbox[s])'
  BY <1>1, <1>5 DEF InOrder, Behind
<1>7. \A u \in Txns : Row(u, status[u]) # NoRow
  BY DEF Row, NoRow
<1>8. \A u \in Txns \ untold : Informed(u)'
  BY <1>1, <1>3, <1>5, <1>7 DEF Informed
<1>. QED
  BY <1>4, <1>6, <1>8 DEF CalmAfter

\* A payment whose status is committed and not told is the one that changes.
LEMMA CalmUntold ==
    ASSUME TInv, calm, CInv, CommitUntold
    PROVE  CalmAfter
<1>. USE DEF TInv, CInv
<1>1. UNCHANGED <<pending, socket, inbox, shown>>
  BY DEF CommitUntold, wire, page
<1>2. Registered' = Registered
  BY <1>1 DEF Registered
<1>3. \A r \in Requests : Newest(pending[r])'
  BY <1>1, <1>2 DEF Newest
<1>4. \A s \in Registered' : InOrder(inbox'[s]) /\ Behind(inbox[s])'
  BY <1>1, <1>2 DEF InOrder, Behind
<1>5. \A t \in Txns \ untold : status'[t] = status[t] => Informed(t)'
  BY <1>1, <1>2 DEF Informed
<1>. QED
  BY <1>3, <1>4, <1>5 DEF CalmAfter

\* The row that is broadcast comes last, and no row tells a later status.
LEMMA CalmBroadcast ==
    ASSUME TInv, WInv, calm, CInv, Calm', NEW r \in Requests, Broadcast(r)
    PROVE  CalmAfter
<1>. USE DEF TInv, CInv
<1>. DEFINE e == pending[r]
<1>1. /\ e \in Rows /\ Newest(e)
      /\ inbox' = [s \in Sockets |-> IF s \in Registered
                     THEN Append(inbox[s], e) ELSE inbox[s]]
      /\ pending' = [pending EXCEPT ![r] = NoRow]
      /\ UNCHANGED <<status, socket, shown>>
  BY DEF Broadcast, page
<1>. HIDE DEF e
<1>2. Registered' = Registered
  BY <1>1 DEF Registered
<1>3. \A q \in Requests : Newest(pending[q])'
  <2>1. \A q \in Requests \ {r} : pending[q] = NoRow
    BY <1>1, Kinds DEF Calm, e
  <2>2. \A q \in Requests : pending'[q] = NoRow
    BY <1>1, <2>1
  <2>. QED
    BY <2>2, Kinds DEF Newest
<1>4. ASSUME NEW s \in Registered
      PROVE  /\ Len(inbox[s]) \in Nat
             /\ Len(inbox'[s]) = Len(inbox[s]) + 1
             /\ inbox'[s][Len(inbox[s]) + 1] = e
             /\ \A i \in 1..Len(inbox[s]) : inbox'[s][i] = inbox[s][i]
             /\ s \in Sockets
  <2>1. inbox[s] \in Seq(Events) /\ e \in Events /\ s \in Sockets
    BY <1>1 DEF Registered, Events
  <2>2. inbox'[s] = Append(inbox[s], e)
    BY <1>1, <2>1
  <2>. QED
    BY <2>1, <2>2
<1>5. ASSUME NEW s \in Registered PROVE InOrder(inbox'[s])
  <2>. SUFFICES ASSUME NEW i \in 1..Len(inbox'[s]),
                       NEW j \in 1..Len(inbox'[s]),
                       i < j, inbox'[s][i] \in Rows, inbox'[s][j] \in Rows,
                       inbox'[s][i].id = inbox'[s][j].id
                PROVE  AtMost(inbox'[s][i].status, inbox'[s][j].status)
    BY DEF InOrder
  <2>1. i \in 1..Len(inbox[s]) /\ inbox'[s][i] = inbox[s][i]
    <3>1. /\ Len(inbox[s]) \in Nat
          /\ Len(inbox'[s]) = Len(inbox[s]) + 1
      BY <1>4
    <3>2. i \in 1..Len(inbox[s])
      BY <3>1
    <3>. QED
      BY <1>4, <3>2
  <2>2. CASE j \in 1..Len(inbox[s])
    BY <1>4, <2>1, <2>2 DEF InOrder
  <2>3. CASE j = Len(inbox[s]) + 1
    <3>1. inbox'[s][j] = e
      BY <1>4, <2>3
    <3>. QED
      BY <1>1, <2>1, <3>1 DEF Newest
  <2>. QED
    BY <1>4, <2>2, <2>3
<1>6. ASSUME NEW s \in Registered PROVE Behind(inbox[s])'
  <2>. SUFFICES ASSUME NEW i \in 1..Len(inbox'[s]), inbox'[s][i] \in Rows
                PROVE  AtMost(shown[inbox'[s][i].id], inbox'[s][i].status)
    BY <1>1 DEF Behind
  <2>1. CASE i \in 1..Len(inbox[s])
    BY <1>4, <2>1 DEF Behind
  <2>2. CASE i = Len(inbox[s]) + 1
    <3>1. inbox'[s][i] = e
      BY <1>4, <2>2
    <3>. QED
      BY <1>1, <3>1 DEF Newest
  <2>. QED
    BY <1>4, <2>1, <2>2
<1>7. ASSUME NEW t \in Txns \ untold PROVE Informed(t)'
  <2>1. CASE shown[t] = status[t]
    BY <1>1, <2>1 DEF Informed
  <2>2. CASE \E q \in Requests : pending[q] = Row(t, status[t])
    <3>1. Row(t, status[t]) # NoRow
      BY DEF Row, NoRow
    <3>2. e = Row(t, status[t])
      <4>1. PICK q \in Requests : pending[q] = Row(t, status[t])
        BY <2>2
      <4>2. NoRow \notin {pending[q], pending[r]}
        BY <1>1, <3>1, <4>1, Kinds DEF e
      <4>3. q = r
        BY <4>2 DEF Calm
      <4>. QED
        BY <4>1, <4>3 DEF e
    <3>3. PICK s \in Registered : TRUE
      BY DEF Calm
    <3>4. /\ Len(inbox[s]) + 1 \in 1..Len(inbox'[s])
          /\ inbox'[s][Len(inbox[s]) + 1] = Row(t, status[t])
      BY <1>4, <3>2
    <3>. QED
      BY <1>1, <1>2, <3>4 DEF Informed
  <2>3. CASE \E s \in Registered : \E i \in 1..Len(inbox[s]) :
                 inbox[s][i] = Row(t, status[t])
    <3>1. PICK s \in Registered : \E i \in 1..Len(inbox[s]) :
                 inbox[s][i] = Row(t, status[t])
      BY <2>3
    <3>2. PICK i \in 1..Len(inbox[s]) : inbox[s][i] = Row(t, status[t])
      BY <3>1
    <3>3. i \in 1..Len(inbox'[s])
      <4>1. Len(inbox[s]) \in Nat /\ Len(inbox'[s]) = Len(inbox[s]) + 1
        BY <1>4
      <4>. QED
        BY <4>1
    <3>4. inbox'[s][i] = Row(t, status[t])
      BY <1>4, <3>2
    <3>. QED
      BY <1>1, <1>2, <3>3, <3>4 DEF Informed
  <2>. QED
    BY <2>1, <2>2, <2>3 DEF Informed
<1>. QED
  BY <1>2, <1>3, <1>5, <1>6, <1>7 DEF CalmAfter

\* The first event of the registered socket leaves its inbox.
LEMMA FirstLeaves ==
    ASSUME TInv, NEW s \in Registered, Calm,
           inbox[s] # <<>>, inbox' = [inbox EXCEPT ![s] = Tail(@)]
    PROVE  /\ Registered = {s} /\ s \in Sockets
           /\ Len(inbox[s]) \in Nat /\ 1 \in 1..Len(inbox[s])
           /\ Head(inbox[s]) = inbox[s][1] /\ inbox[s][1] \in Events
           /\ Len(inbox'[s]) = Len(inbox[s]) - 1
           /\ \A i \in 1..Len(inbox'[s]) : inbox'[s][i] = inbox[s][i + 1]
<1>1. Registered = {s}
  BY DEF Calm
<1>2. s \in Sockets
  BY DEF Registered
<1>3. inbox[s] \in Seq(Events) /\ inbox'[s] = Tail(inbox[s])
  BY <1>2 DEF TInv
<1>4. /\ Len(inbox[s]) \in Nat /\ 1 \in 1..Len(inbox[s])
      /\ Head(inbox[s]) = inbox[s][1] /\ inbox[s][1] \in Events
  BY <1>3
<1>5. /\ Len(Tail(inbox[s])) = Len(inbox[s]) - 1
      /\ \A i \in 1..Len(inbox[s]) - 1 : Tail(inbox[s])[i] = inbox[s][i + 1]
  BY <1>3
<1>. QED
  BY <1>1, <1>2, <1>3, <1>4, <1>5

\* What an opened connection or a row changes.
LEMMA CalmEvent ==
    ASSUME TInv, calm, CInv, NEW s \in Registered, NEW kind,
           Arrives(s, kind),
           UNCHANGED <<status, pending, socket>>,
           \/ kind = "open" /\ shown' = shown
           \/ kind = "row" /\ Push(Head(inbox[s]))
    PROVE  /\ CalmAfter
           /\ \A t \in Txns : AtMost(shown[t], shown'[t])
<1>. USE DEF TInv, CInv
<1>. DEFINE e == inbox[s][1]
<1>1. /\ Registered = {s} /\ s \in Sockets
      /\ Len(inbox[s]) \in Nat /\ 1 \in 1..Len(inbox[s])
      /\ e \in Events /\ e.kind = kind
      /\ Len(inbox'[s]) = Len(inbox[s]) - 1
      /\ \A i \in 1..Len(inbox'[s]) : inbox'[s][i] = inbox[s][i + 1]
      /\ Head(inbox[s]) = e
  BY FirstLeaves DEF Arrives
<1>. HIDE DEF e
<1>2. Registered' = Registered
  BY DEF Registered
<1>3. \A r \in Requests : Newest(pending[r])'
  <2>. SUFFICES ASSUME NEW r \in Requests, NEW p \in Rows, p = pending[r]
                PROVE  /\ AtMost(shown'[p.id], p.status)
                       /\ \A i \in 1..Len(inbox'[s]) :
                              inbox'[s][i] \in Rows /\ inbox'[s][i].id = p.id
                                  => AtMost(inbox'[s][i].status, p.status)
    BY <1>1, <1>2 DEF Newest
  <2>1. Newest(p)
    OBVIOUS
  <2>2. \A i \in 1..Len(inbox'[s]) :
            i + 1 \in 1..Len(inbox[s]) /\ inbox'[s][i] = inbox[s][i + 1]
    BY <1>1
  <2>3. p.id \in Txns
    BY DEF Rows
  <2>4. AtMost(shown'[p.id], p.status)
    <3>. shown' = IF e \in Rows THEN [shown EXCEPT ![e.id] = e.status]
                                ELSE shown
      BY <1>1, Kinds DEF Push
    <3>1. CASE e \in Rows /\ e.id = p.id
      <4>1. shown'[p.id] = e.status
        BY <2>3, <3>1
      <4>. QED
        BY <1>1, <2>1, <3>1, <4>1 DEF Newest, e
    <3>2. CASE shown'[p.id] = shown[p.id]
      BY <2>1, <3>2 DEF Newest
    <3>. QED
      BY <2>3, <3>1, <3>2
  <2>. QED
    BY <2>1, <2>2, <2>4 DEF Newest
<1>4. InOrder(inbox'[s])
  <2>1. \A i \in 1..Len(inbox'[s]) :
            i + 1 \in 1..Len(inbox[s]) /\ inbox'[s][i] = inbox[s][i + 1]
    BY <1>1
  <2>. SUFFICES ASSUME NEW i \in 1..Len(inbox'[s]),
                       NEW j \in 1..Len(inbox'[s]),
                       i < j, inbox'[s][i] \in Rows, inbox'[s][j] \in Rows,
                       inbox'[s][i].id = inbox'[s][j].id
                PROVE  AtMost(inbox'[s][i].status, inbox'[s][j].status)
    BY DEF InOrder
  <2>2. /\ i + 1 \in 1..Len(inbox[s]) /\ inbox'[s][i] = inbox[s][i + 1]
        /\ j + 1 \in 1..Len(inbox[s]) /\ inbox'[s][j] = inbox[s][j + 1]
    BY <2>1
  <2>3. i + 1 < j + 1
    BY <1>1
  <2>4. InOrder(inbox[s])
    OBVIOUS
  <2>. QED
    BY <2>2, <2>3, <2>4 DEF InOrder
<1>5. CASE e \notin Rows
  <2>1. shown' = shown
    BY <1>1, <1>5, Kinds
  <2>2. Behind(inbox[s])'
    BY <1>1, <2>1 DEF Behind
  <2>3. ASSUME NEW t \in Txns \ untold PROVE Informed(t)'
    <3>1. Row(t, status[t]) # e
      BY <1>5 DEF Row, Rows
    <3>2. ASSUME NEW i \in 1..Len(inbox[s]), inbox[s][i] = Row(t, status[t])
          PROVE  i - 1 \in 1..Len(inbox'[s])
                 /\ inbox'[s][i - 1] = Row(t, status[t])
      BY <1>1, <3>1, <3>2 DEF e
    <3>. QED
      BY <1>1, <1>2, <2>1, <3>2 DEF Informed
  <2>4. \A t \in Txns : AtMost(shown[t], shown'[t])
    BY <2>1, AtMostOrders
  <2>. QED
    BY <1>1, <1>2, <1>3, <1>4, <2>2, <2>3, <2>4 DEF CalmAfter
<1>6. CASE e \in Rows
  <2>1. /\ e.id \in Txns /\ e.status \in StatusSet
        /\ shown' = [shown EXCEPT ![e.id] = e.status]
    BY <1>1, <1>6, Kinds DEF Rows, Push
  <2>2. /\ shown'[e.id] = e.status
        /\ \A t \in Txns \ {e.id} : shown'[t] = shown[t]
    BY <2>1
  <2>3. AtMost(shown[e.id], e.status)
    BY <1>1, <1>6 DEF Behind, e
  <2>4. AtMost(e.status, status[e.id])
    BY <1>1, <1>6 DEF TrueRow, e
  <2>5. \A t \in Txns : AtMost(shown[t], shown'[t])
    BY <2>2, <2>3, AtMostOrders
  <2>6. Behind(inbox[s])'
    <3>. SUFFICES ASSUME NEW i \in 1..Len(inbox'[s]), inbox'[s][i] \in Rows
                  PROVE  AtMost(shown'[inbox'[s][i].id], inbox'[s][i].status)
      BY DEF Behind
    <3>1. /\ i + 1 \in 1..Len(inbox[s]) /\ 1 < i + 1
          /\ inbox'[s][i] = inbox[s][i + 1]
      BY <1>1
    <3>2. inbox[s][i + 1].id \in Txns
      BY <3>1 DEF Rows
    <3>3. CASE inbox[s][i + 1].id = e.id
      BY <1>1, <1>6, <2>2, <3>1, <3>3 DEF InOrder, e
    <3>4. CASE inbox[s][i + 1].id # e.id
      BY <1>1, <2>2, <3>1, <3>2, <3>4 DEF Behind
    <3>. QED
      BY <3>3, <3>4
  <2>7. ASSUME NEW t \in Txns \ untold PROVE Informed(t)'
    <3>1. CASE e = Row(t, status[t])
      BY <2>2, <3>1 DEF Informed, Row
    <3>2. ASSUME NEW i \in 1..Len(inbox[s]), inbox[s][i] = Row(t, status[t]),
                 e # Row(t, status[t])
          PROVE  i - 1 \in 1..Len(inbox'[s])
                 /\ inbox'[s][i - 1] = Row(t, status[t])
      BY <1>1, <3>2 DEF e
    <3>3. CASE shown[t] = status[t]
      <4>1. CASE t = e.id
        <5>1. e.status = status[t]
          BY <2>3, <2>4, <3>3, <4>1, Ranks DEF AtMost, StatusSet
        <5>. QED
          BY <2>2, <4>1, <5>1 DEF Informed
      <4>2. CASE t # e.id
        BY <2>2, <3>3, <4>2 DEF Informed
      <4>. QED
        BY <4>1, <4>2
    <3>4. CASE \E r \in Requests : pending[r] = Row(t, status[t])
      BY <3>4 DEF Informed
    <3>. QED
      BY <1>1, <1>2, <3>1, <3>2, <3>3, <3>4 DEF Informed
  <2>. QED
    BY <1>1, <1>2, <1>3, <1>4, <2>5, <2>6, <2>7 DEF CalmAfter
<1>. QED
  BY <1>5, <1>6

LEMMA CStep ==
    ASSUME TInv, WInv, CInv, [MCNext]_mcvars
    PROVE  /\ CInv'
           /\ calm' => \A t \in Txns : Rank(shown[t]) <= Rank(shown'[t])
<1>. SUFFICES ASSUME calm'
              PROVE  /\ Calm' /\ CalmAfter
                     /\ \A t \in Txns : AtMost(shown[t], shown'[t])
  <2>1. ASSUME NEW t \in Txns \ untold' PROVE
               \/ t \notin untold /\ status'[t] = status[t]
               \/ \E r \in Requests : pending'[r] = Row(t, status'[t])
    BY DEF MCNext, mcvars, vars, server
  <2>. QED
    BY <2>1 DEF CInv, CalmAfter, AtMost, Informed
<1>1. CASE UNCHANGED mcvars
  <2>1. Calm' /\ Registered' = Registered
    BY <1>1 DEF mcvars, vars, server, wire, page, CInv, Calm, Registered
  <2>2. UNCHANGED <<status, pending, socket, inbox, shown>> /\ calm
    BY <1>1 DEF mcvars, vars, server, wire, page
  <2>3. CalmAfter
    BY <2>1, <2>2
       DEF CInv, CalmAfter, Newest, InOrder, Behind, Informed
  <2>4. \A t \in Txns : AtMost(shown[t], shown'[t])
    BY <2>2, AtMostOrders DEF TInv
  <2>. QED
    BY <2>1, <2>3, <2>4
<1>2. CASE MCNext
  <2>1. calm /\ Calm /\ Calm' /\ Next
    BY <1>2 DEF MCNext, CInv
  <2>2. UNCHANGED <<socket, fetch>>
    BY <2>1, CalmMoves
  <2>3. CASE UNCHANGED <<status, pending, inbox, shown>>
    BY <2>1, <2>2, <2>3, AtMostOrders DEF CInv, CalmAfter, Registered,
       Newest, InOrder, Behind, Informed, TInv
  <2>4. ASSUME NEW r \in Requests, Commit(r) \/ Retry(r) \/ Broadcast(r)
        PROVE  CalmAfter /\ shown' = shown
    BY <2>1, <2>4, CalmCommit, CalmRetry, CalmBroadcast
       DEF Commit, Retry, Broadcast, page
  <2>5. CASE CommitUntold
    BY <2>1, <2>5, CalmUntold, AtMostOrders DEF CommitUntold, page, TInv
  <2>6. ASSUME NEW s \in Registered, OnOpen(s)
        PROVE  CalmAfter /\ \A t \in Txns : AtMost(shown[t], shown'[t])
    BY <2>1, <2>6, CalmEvent DEF OnOpen, server, page
  <2>7. ASSUME NEW s \in Registered, OnMessage(s)
        PROVE  CalmAfter /\ \A t \in Txns : AtMost(shown[t], shown'[t])
    BY <2>1, <2>7, CalmEvent DEF OnMessage, server
  <2>. QED
    BY <2>1, <2>3, <2>4, <2>5, <2>6, <2>7, CalmMoves, AtMostOrders DEF TInv
<1>. QED
  BY <1>1, <1>2

-----------------------------------------------------------------------------
LEMMA MCInvariance == MCSpec => [](TInv /\ WInv /\ CInv)
<1>1. MCInit => TInv /\ WInv /\ CInv
  BY Initially, WInitially, CInitially DEF MCInit
<1>2. TInv /\ WInv /\ CInv /\ [MCNext]_mcvars
        => (TInv /\ WInv /\ CInv)'
  <2>. SUFFICES ASSUME TInv, WInv, CInv, [MCNext]_mcvars
                PROVE  (TInv /\ WInv /\ CInv)'
    OBVIOUS
  <2>1. [Next]_vars
    BY DEF MCNext, mcvars
  <2>. QED
    BY <2>1, TStep, WStep, CStep
<1>. QED
  BY <1>1, <1>2, PTL DEF MCSpec

\* While the page is calm, no payment that is shown goes back to an earlier
\* status: rows arrive in the order of their commits (App.js:19-23).
THEOREM Forward == MCSpec => NeverBackwards
<1>1. TInv /\ WInv /\ CInv /\ [MCNext]_mcvars
        => [calm' => \A t \in Txns : Rank(shown[t]) <= Rank(shown'[t])
           ]_mcvars
  BY CStep
<1>. QED
  BY <1>1, MCInvariance, PTL DEF MCSpec, NeverBackwards

\* What CatchesUp promises of a calm page, without the time it takes: when
\* nothing is on its way any more, the page shows what is committed, of every
\* payment whose last status some request had to broadcast (App.js:14-24,
\* hub.go:98-118, handler/payment.go:33-39).
QuietIsCurrent ==
    /\ calm
    /\ \A r \in Requests : pending[r] = NoRow
    /\ \A s \in Registered : inbox[s] = <<>>
    => \A t \in Txns \ untold : shown[t] = status[t]

THEOREM QuietPage == MCSpec => []QuietIsCurrent
<1>1. TInv /\ CInv => QuietIsCurrent
  <2>. SUFFICES ASSUME TInv, CInv, calm,
                       \A r \in Requests : pending[r] = NoRow,
                       \A s \in Registered : inbox[s] = <<>>
                PROVE  \A t \in Txns \ untold : shown[t] = status[t]
    BY DEF QuietIsCurrent
  <2>1. ASSUME NEW t \in Txns \ untold PROVE shown[t] = status[t]
    <3>1. Row(t, status[t]) # NoRow
      BY DEF Row, NoRow
    <3>2. \A s \in Registered : ~\E i \in 1..Len(inbox[s]) :
              inbox[s][i] = Row(t, status[t])
      OBVIOUS
    <3>3. Informed(t)
      BY DEF CInv
    <3>. QED
      BY <3>1, <3>2, <3>3 DEF Informed
  <2>. QED
    BY <2>1
<1>. QED
  BY <1>1, MCInvariance, PTL
=============================================================================
