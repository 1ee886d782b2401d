------------------------------- MODULE Queries -------------------------------
(***************************************************************************)
(* GET /api/v1/payments (ListTransactions of handler, service and          *)
(* repository): a client reads the transactions page by page, by limit and *)
(* offset, while others are inserted and change their status.              *)
(***************************************************************************)
EXTENDS Integers, Sequences, FiniteSets, SequencesExt

CONSTANTS
    Txns,           \* transactions
    Limits,         \* limits that clients ask for
    Most,           \* 100
    Default,        \* 50
    Filter,         \* the status that the client asks for, or "all"
    SameTime,       \* may two transactions have one created_at?
    MayCut,         \* may the connection fail in the middle of an answer?
    MaxTime         \* a bound of the model

ASSUME QueriesAssumption ==
    /\ Limits \subseteq Int /\ Most \in Nat /\ Default \in 1..Most
    /\ Filter \in {"all", "pending", "authorized", "settled"}
    /\ SameTime \in BOOLEAN /\ MayCut \in BOOLEAN /\ MaxTime \in Nat

VARIABLES
    created,    \* created_at, set before the INSERT; 0 before that
    status,     \* of the committed row; "none": there is no such row
    clock,
    limit,      \* that the client asks for
    offset,     \* of the next page
    owed,       \* what the client must get: the rows at its first page
    seen,       \* what it has got
    answer      \* of the last request

table == <<created, status, clock>>
client == <<limit, offset, owed, seen, answer>>
vars == <<table, client>>

NoAnswer == [code |-> 0, page |-> <<>>, whole |-> TRUE]

Init ==
    /\ created = [t \in Txns |-> 0]
    /\ status = [t \in Txns |-> "none"]
    /\ clock = 1
    /\ limit \in Limits
    /\ offset = 0
    /\ owed = {}
    /\ seen = {}
    /\ answer = NoAnswer

-----------------------------------------------------------------------------
(***************************************************************************)
(* Writers: InitiatePayment sets created_at in Go and inserts the row; it  *)
(* is visible from the commit on.                                          *)
(***************************************************************************)
Stamp(t) ==
    /\ created[t] = 0
    /\ SameTime \/ \A u \in Txns : created[u] # clock
    /\ created' = [created EXCEPT ![t] = clock]
    /\ UNCHANGED <<status, clock, client>>

Rises(t, from, to) ==
    /\ status[t] = from
    /\ status' = [status EXCEPT ![t] = to]
    /\ UNCHANGED <<created, clock, client>>

CommitInsert(t) == created[t] # 0 /\ Rises(t, "none", "pending")
Authorize(t) == Rises(t, "pending", "authorized")
Settle(t) == Rises(t, "authorized", "settled")

Tick ==
    /\ clock < MaxTime
    /\ clock' = clock + 1
    /\ UNCHANGED <<created, status, client>>

-----------------------------------------------------------------------------
(***************************************************************************)
(* The query.                                                              *)
(***************************************************************************)
EffectiveLimit == IF limit <= 0 \/ limit > Most THEN Default ELSE limit

Selected ==
    {t \in Txns : status[t] # "none" /\ (Filter = "all" \/ status[t] = Filter)}

\* Mutant: no ORDER BY.
Ordered_Not(s) == TRUE

\* ORDER BY created_at DESC; rows of one time come in any order.
Ordered(s) ==
    \A i, j \in DOMAIN s : i < j => created[s[i]] >= created[s[j]]

\* Mutant: one row too early.
Page_Overlapping(s) ==
    SubSeq(s, IF offset = 0 THEN 1 ELSE offset,
           IF offset + EffectiveLimit < Len(s) THEN offset + EffectiveLimit
                                               ELSE Len(s))

\* OFFSET is left out for offset 0.
Page(s) ==
    SubSeq(s, offset + 1,
           IF offset + EffectiveLimit < Len(s) THEN offset + EffectiveLimit
                                               ELSE Len(s))

Finished == answer.code = 200 /\ answer.page = <<>>

\* A request: the rows of one page.  When the connection fails while they
\* arrive, rows.Next() ends the loop; nobody asks rows.Err().
List ==
    /\ ~Finished
    /\ owed' = IF answer = NoAnswer THEN Selected ELSE owed
    /\ \E s \in SetToSeqs(Selected) :
        /\ Ordered(s)
        /\ \E n \in 0..Len(Page(s)) :
            LET page == SubSeq(Page(s), 1, n)
            IN  /\ MayCut \/ n = Len(Page(s))
                /\ answer' = [code |-> 200, page |-> page,
                              whole |-> n = Len(Page(s))]
                /\ seen' = seen \cup ToSet(page)
                /\ offset' = offset + n
    /\ UNCHANGED <<table, limit>>

\* The query itself fails; the client asks again.
ListFails ==
    /\ ~Finished
    /\ answer # NoAnswer
    /\ answer' = [code |-> 500, page |-> <<>>, whole |-> FALSE]
    /\ UNCHANGED <<table, limit, offset, owed, seen>>

Next ==
    \/ \E t \in Txns : Stamp(t) \/ CommitInsert(t) \/ Authorize(t) \/ Settle(t)
    \/ Tick
    \/ List \/ ListFails

Spec == Init /\ [][Next]_vars
-----------------------------------------------------------------------------
(***************************************************************************)
(* Properties.                                                             *)
(***************************************************************************)

\* Paging by offset misses no transaction that was there when it began,
\* however many are inserted, also late ones with an older created_at, change
\* their status, or are cut off by a connection that fails in the middle of a
\* page (postgres.go:254-276): rows only move to later pages, and the next
\* offset counts the rows that came.  It takes different times of creation, no
\* filter by status, and a last page that is empty because nothing is left and
\* not because its first row was cut off, which no client can tell apart.
NothingMissed == Finished /\ answer.whole => owed \subseteq seen

\* A row comes again only because another one was inserted before it: there
\* are no more repetitions than insertions (postgres.go:256-267).
RepeatsAreInserts ==
    offset - Cardinality(seen) <= Cardinality(Selected \ owed)
=============================================================================
