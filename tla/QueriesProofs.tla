----------------------------- MODULE QueriesProofs -----------------------------
(***************************************************************************)
(* Theorems about Queries, for any number of transactions, any limits and  *)
(* any cuts: a client without a filter, of transactions with different     *)
(* times of creation.                                                      *)
(***************************************************************************)
EXTENDS Queries, FiniteSetTheorems, FunctionTheorems, SequenceTheorems,
        TLAPS

\* The rows that come before t.
Newer(t) == {u \in Selected : created[u] > created[t]}

StatusSet == {"none", "pending", "authorized", "settled"}

QTypes ==
    /\ created \in [Txns -> Nat]
    /\ status \in [Txns -> StatusSet]
    /\ clock \in Nat \ {0}
    /\ limit \in Int
    /\ offset \in Nat

\* No two rows have one time, and a row that is there has one.
Times ==
    /\ \A t, u \in Txns : created[t] = created[u] /\ created[t] # 0 => t = u
    /\ \A t \in Selected : created[t] # 0

\* What is owed and not yet seen is beyond the offset.
Ahead == \A t \in owed \ seen : offset <= Cardinality(Newer(t))

QInv ==
    /\ QTypes
    /\ Times
    /\ IsFiniteSet(Selected) /\ offset <= Cardinality(Selected)
    /\ owed \subseteq Selected /\ seen \subseteq Selected
    /\ answer = NoAnswer => owed = {} /\ seen = {} /\ offset = 0
    /\ Ahead
    /\ NothingMissed
    /\ RepeatsAreInserts

LEMMA Initially == Init => QInv
<1>. SUFFICES ASSUME Init PROVE QInv
  OBVIOUS
<1>1. Selected = {}
  BY DEF Init, Selected
<1>2. IsFiniteSet({}) /\ Cardinality({}) = 0
  BY FS_EmptySet
<1>3. QTypes
  BY QueriesAssumption DEF Init, QTypes, StatusSet
<1>4. Times
  BY <1>1 DEF Init, Times
<1>5. NothingMissed
  BY DEF Init, NothingMissed
<1>6. RepeatsAreInserts
  <2>1. seen = {} /\ offset = 0 /\ Selected \ owed = {}
    BY <1>1 DEF Init
  <2>. QED
    BY <1>2, <2>1 DEF RepeatsAreInserts
<1>7. offset <= Cardinality(Selected)
  BY <1>1, <1>2 DEF Init
<1>. QED
  BY <1>1, <1>2, <1>3, <1>4, <1>5, <1>6, <1>7 DEF Init, QInv, Ahead

-----------------------------------------------------------------------------
(***************************************************************************)
(* The writers.  They only add rows to what a client without a filter      *)
(* selects.                                                                *)
(***************************************************************************)
Grows ==
    /\ Selected \subseteq Selected'
    /\ IsFiniteSet(Selected')
    /\ \A t \in Selected : created'[t] = created[t]
    /\ UNCHANGED client

LEMMA Counts ==
    ASSUME NEW S, IsFiniteSet(S), NEW T \in SUBSET S
    PROVE  /\ IsFiniteSet(T)
           /\ Cardinality(T) \in Nat /\ Cardinality(S) \in Nat
           /\ Cardinality(T) <= Cardinality(S)
BY FS_Subset, FS_CardinalityType

LEMMA UnionCounts ==
    ASSUME NEW S, IsFiniteSet(S), NEW T, IsFiniteSet(T)
    PROVE  Cardinality(S \cup T) <= Cardinality(S) + Cardinality(T)
<1>1. Cardinality(S \cup T)
        = Cardinality(S) + Cardinality(T) - Cardinality(S \cap T)
  BY FS_Union
<1>2. S \cap T \in SUBSET S
  OBVIOUS
<1>3. Cardinality(S \cap T) \in Nat
  BY <1>2, Counts
<1>4. Cardinality(S) \in Nat /\ Cardinality(T) \in Nat
  BY FS_CardinalityType
<1>. QED
  BY <1>1, <1>3, <1>4

LEMMA GrowthKeeps ==
    ASSUME QInv, Grows, QTypes', Times' PROVE QInv'
<1>1. UNCHANGED <<limit, offset, owed, seen, answer>>
  BY DEF Grows, client
<1>2. ASSUME NEW t \in owed \ seen
      PROVE  offset <= Cardinality(Newer(t)')
  <2>1. t \in Selected
    BY <1>2 DEF QInv
  <2>2. Newer(t) \subseteq Newer(t)'
    BY <2>1 DEF Newer, Grows
  <2>3. IsFiniteSet(Newer(t)')
    BY Counts DEF Newer, Grows
  <2>4. /\ Cardinality(Newer(t)) \in Nat /\ Cardinality(Newer(t)') \in Nat
        /\ Cardinality(Newer(t)) <= Cardinality(Newer(t)')
    BY <2>2, <2>3, Counts
  <2>. QED
    BY <1>2, <2>4 DEF QInv, QTypes, Ahead
<1>3. Ahead'
  BY <1>1, <1>2 DEF Ahead
<1>4. RepeatsAreInserts'
  <2>1. Selected \ owed \subseteq Selected' \ owed
    BY DEF Grows
  <2>2. IsFiniteSet(Selected' \ owed)
    BY Counts DEF Grows
  <2>3. /\ Cardinality(Selected \ owed) \in Nat
        /\ Cardinality(Selected' \ owed) \in Nat
        /\ Cardinality(Selected \ owed) <= Cardinality(Selected' \ owed)
    BY <2>1, <2>2, Counts
  <2>4. Cardinality(seen) \in Nat
    BY Counts DEF QInv
  <2>. QED
    BY <1>1, <2>3, <2>4 DEF QInv, QTypes, RepeatsAreInserts
<1>5. NothingMissed'
  BY <1>1 DEF QInv, NothingMissed, Finished
<1>6. offset' <= Cardinality(Selected')
  <2>1. /\ Cardinality(Selected) \in Nat /\ Cardinality(Selected') \in Nat
        /\ Cardinality(Selected) <= Cardinality(Selected')
    BY Counts DEF Grows
  <2>. QED
    BY <1>1, <2>1 DEF QInv, QTypes
<1>. QED
  BY <1>1, <1>3, <1>4, <1>5, <1>6 DEF QInv, Grows

LEMMA Writers ==
    ASSUME Filter = "all", SameTime = FALSE, QInv, NEW t \in Txns,
           Stamp(t) \/ CommitInsert(t) \/ Authorize(t) \/ Settle(t)
    PROVE  QInv'
<1>. USE DEF QTypes, Times
<1>1. Selected = {u \in Txns : status[u] # "none"}
  BY DEF Selected
<1>2. Selected' = {u \in Txns : status'[u] # "none"}
  BY DEF Selected
<1>3. CASE Stamp(t)
  <2>1. /\ created[t] = 0 /\ created' = [created EXCEPT ![t] = clock]
        /\ \A u \in Txns : created[u] # clock
        /\ UNCHANGED <<status, clock, client>>
    BY <1>3 DEF Stamp
  <2>2. t \notin Selected
    BY <2>1 DEF QInv
  <2>3. Grows
    BY <1>1, <1>2, <2>1, <2>2 DEF QInv, Grows
  <2>4. QTypes'
    BY <2>1 DEF QInv, client
  <2>5. Times'
    BY <1>1, <1>2, <2>1, <2>2 DEF QInv
  <2>. QED
    BY <2>3, <2>4, <2>5, GrowthKeeps
<1>4. ASSUME NEW from \in StatusSet, NEW to \in StatusSet \ {"none"},
             Rises(t, from, to), from = "none" => created[t] # 0
      PROVE  QInv'
  <2>1. /\ status[t] = from /\ status' = [status EXCEPT ![t] = to]
        /\ UNCHANGED <<created, clock, client>>
    BY <1>4 DEF Rises
  <2>2. Selected' = Selected \cup {t}
    BY <1>1, <1>2, <1>4, <2>1 DEF QInv
  <2>3. IsFiniteSet(Selected')
    BY <2>2, FS_AddElement DEF QInv
  <2>4. Grows
    BY <2>1, <2>2, <2>3 DEF Grows
  <2>5. QTypes'
    BY <1>4, <2>1 DEF QInv, client
  <2>6. created[t] # 0
    BY <1>1, <1>4, <2>1 DEF QInv
  <2>7. Times'
    BY <2>1, <2>2, <2>6 DEF QInv
  <2>. QED
    BY <2>4, <2>5, <2>7, GrowthKeeps
<1>5. CASE CommitInsert(t)
  BY <1>5, <1>4 DEF CommitInsert, StatusSet
<1>6. CASE Authorize(t) \/ Settle(t)
  BY <1>6, <1>4 DEF Authorize, Settle, StatusSet
<1>. QED
  BY <1>3, <1>5, <1>6

LEMMA Ticks == ASSUME QInv, Tick PROVE QInv'
<1>1. clock' = clock + 1 /\ UNCHANGED <<created, status, client>>
  BY DEF Tick
<1>2. Selected' = Selected
  BY <1>1 DEF Selected
<1>3. Grows
  BY <1>1, <1>2 DEF QInv, Grows, Selected
<1>4. QTypes' /\ Times'
  BY <1>1, <1>2 DEF QInv, QTypes, Times, client
<1>. QED
  BY <1>3, <1>4, GrowthKeeps

-----------------------------------------------------------------------------
(***************************************************************************)
(* The order of a query.  The place of a row is one more than the number   *)
(* of rows that are newer.                                                 *)
(***************************************************************************)

\* An order of a finite set leaves nothing out.
LEMMA OrdersAreComplete ==
    ASSUME NEW S, IsFiniteSet(S), NEW s \in SetToSeqs(S)
    PROVE  /\ Cardinality(S) \in Nat
           /\ s \in [1..Cardinality(S) -> S]
           /\ \A i, j \in 1..Cardinality(S) : s[i] = s[j] => i = j
           /\ \A t \in S : \E p \in 1..Cardinality(S) : s[p] = t
<1>. DEFINE n == Cardinality(S)
<1>1. n \in Nat
  BY FS_CardinalityType
<1>2. s \in [1..n -> S] /\ \A i, j \in 1..n : i # j => s[i] # s[j]
  BY DEF SetToSeqs
<1>3. IsFiniteSet(1..n) /\ Cardinality(1..n) = n
  BY <1>1, FS_Interval
<1>4. s \in Injection(1..n, S)
  BY <1>2, Fun_IsInj
<1>5. s \in Surjection(1..n, S)
  BY <1>3, <1>4, FS_Injection
<1>6. \A t \in S : \E p \in 1..n : s[p] = t
  BY <1>5 DEF Surjection
<1>. QED
  BY <1>1, <1>2, <1>6

LEMMA PlaceInOrder ==
    ASSUME QInv, NEW s \in SetToSeqs(Selected), Ordered(s),
           NEW p \in 1..Cardinality(Selected)
    PROVE  Cardinality(Newer(s[p])) = p - 1
<1>. DEFINE n == Cardinality(Selected)
            before == [i \in 1..(p - 1) |-> s[i]]
<1>1. /\ n \in Nat
      /\ s \in [1..n -> Selected]
      /\ \A i, j \in 1..n : s[i] = s[j] => i = j
      /\ \A t \in Selected : \E q \in 1..n : s[q] = t
  BY OrdersAreComplete DEF QInv
<1>2. \A i, j \in 1..n : i < j => created[s[i]] >= created[s[j]]
  BY <1>1 DEF Ordered
<1>3. \A t, u \in Selected : /\ created[t] \in Nat
                             /\ created[t] = created[u] => t = u
  BY DEF QInv, QTypes, Times, Selected
<1>4. \A i, j \in 1..n : i < j => created[s[i]] > created[s[j]]
  <2>. SUFFICES ASSUME NEW i \in 1..n, NEW j \in 1..n, i < j
                PROVE  created[s[i]] > created[s[j]]
    OBVIOUS
  <2>1. s[i] \in Selected /\ s[j] \in Selected /\ s[i] # s[j]
    BY <1>1
  <2>. QED
    BY <1>2, <1>3, <2>1
<1>5. \A i \in 1..n : s[i] \in Newer(s[p]) <=> i < p
  <2>. SUFFICES ASSUME NEW i \in 1..n
                PROVE  s[i] \in Newer(s[p]) <=> i < p
    OBVIOUS
  <2>1. s[i] \in Selected /\ s[p] \in Selected
    BY <1>1
  <2>2. CASE i < p
    BY <1>4, <2>1, <2>2 DEF Newer
  <2>3. CASE i = p
    BY <1>3, <2>1, <2>3 DEF Newer
  <2>4. CASE p < i
    BY <1>3, <1>4, <2>1, <2>4 DEF Newer
  <2>. QED
    BY <2>2, <2>3, <2>4
<1>6. before \in [1..(p - 1) -> Newer(s[p])]
  BY <1>1, <1>5
<1>7. \A a, b \in 1..(p - 1) : before[a] = before[b] => a = b
  BY <1>1
<1>8. \A t \in Newer(s[p]) : \E q \in 1..(p - 1) : before[q] = t
  <2>. SUFFICES ASSUME NEW t \in Newer(s[p])
                PROVE  \E q \in 1..(p - 1) : before[q] = t
    OBVIOUS
  <2>1. t \in Selected
    BY DEF Newer
  <2>2. PICK q \in 1..n : s[q] = t
    BY <1>1, <2>1
  <2>3. q < p
    BY <1>5, <2>2
  <2>. QED
    BY <2>2, <2>3
<1>. HIDE DEF before
<1>9. before \in Bijection(1..(p - 1), Newer(s[p]))
  BY <1>6, <1>7, <1>8, Fun_IsBij
<1>10. ExistsBijection(1..(p - 1), Newer(s[p]))
  BY <1>9 DEF ExistsBijection
<1>. QED
  BY <1>10, FS_CountingElements

-----------------------------------------------------------------------------
(***************************************************************************)
(* A page, and what is known after it.                                     *)
(***************************************************************************)
LEMMA EffectiveLimitIsPositive ==
    ASSUME QInv PROVE EffectiveLimit \in Nat /\ EffectiveLimit > 0
BY QueriesAssumption DEF QInv, QTypes, EffectiveLimit

\* The first n rows of a page are those at the n places beyond the offset.
LEMMA PageProperties ==
    ASSUME QInv, NEW s \in SetToSeqs(Selected), NEW n \in 0..Len(Page(s))
    PROVE  /\ Len(Page(s)) \in Nat
           /\ offset + n <= Cardinality(Selected)
           /\ Len(Page(s)) = 0 => Cardinality(Selected) <= offset
           /\ Len(SubSeq(Page(s), 1, n)) = n
           /\ ToSet(SubSeq(Page(s), 1, n))
                  = {s[i] : i \in (offset + 1)..(offset + n)}
<1>. DEFINE size == Cardinality(Selected)
            end == IF offset + EffectiveLimit < size
                   THEN offset + EffectiveLimit ELSE size
<1>1. size \in Nat /\ s \in [1..size -> Selected]
  BY OrdersAreComplete DEF QInv
<1>2. s \in Seq(Selected) /\ Len(s) = size
  BY <1>1
<1>3. offset \in Nat /\ EffectiveLimit \in Nat /\ EffectiveLimit > 0
  BY EffectiveLimitIsPositive DEF QInv, QTypes
<1>4. /\ end \in Nat
      /\ end <= size
      /\ offset < size => offset < end
  BY <1>1, <1>3
<1>. HIDE DEF size, end
<1>5. Page(s) = SubSeq(s, offset + 1, end)
  BY <1>2 DEF Page, size, end
<1>6. \A i \in (offset + 1)..end : s[i] \in Selected
  BY <1>1, <1>3, <1>4
<1>7. /\ Page(s) \in Seq(Selected)
      /\ Len(Page(s)) = IF offset + 1 <= end THEN end - offset ELSE 0
      /\ \A i \in 1..(end - offset) : Page(s)[i] = s[offset + i]
  BY <1>3, <1>4, <1>5, <1>6, SubSeqProperties
<1>8. /\ Len(Page(s)) \in Nat
      /\ n > 0 => n <= end - offset
      /\ Len(Page(s)) = 0 => size <= offset
  BY <1>1, <1>3, <1>4, <1>7
<1>9. offset + n <= size
  BY <1>1, <1>3, <1>4, <1>8 DEF QInv, size
<1>10. /\ Len(SubSeq(Page(s), 1, n)) = n
       /\ \A i \in 1..n : SubSeq(Page(s), 1, n)[i] = s[offset + i]
  <2>1. CASE n = 0
    BY <2>1, SubSeqEmpty
  <2>2. CASE n > 0
    <3>1. n \in Nat /\ \A i \in 1..n : Page(s)[i] = s[offset + i]
      BY <1>3, <1>4, <1>7, <1>8, <2>2
    <3>2. \A i \in 1..n : Page(s)[i] \in Selected
      BY <1>1, <1>3, <1>9, <3>1
    <3>3. /\ Len(SubSeq(Page(s), 1, n)) = n
          /\ \A i \in 1..n : SubSeq(Page(s), 1, n)[i] = Page(s)[1 + i - 1]
      BY <2>2, <3>1, <3>2, SubSeqProperties
    <3>. QED
      BY <3>1, <3>3
  <2>. QED
    BY <1>8, <2>1, <2>2
<1>11. DOMAIN SubSeq(Page(s), 1, n) = 1..n
  BY <1>8, <1>10
<1>12. ToSet(SubSeq(Page(s), 1, n)) = {s[offset + i] : i \in 1..n}
  BY <1>10, <1>11 DEF ToSet
<1>13. {s[offset + i] : i \in 1..n} = {s[i] : i \in (offset + 1)..(offset + n)}
  <2>1. \A i \in 1..n : offset + i \in (offset + 1)..(offset + n)
    BY <1>3, <1>8
  <2>2. \A i \in (offset + 1)..(offset + n) :
            i - offset \in 1..n /\ offset + (i - offset) = i
    BY <1>3, <1>8
  <2>. QED
    BY <2>1, <2>2
<1>. QED
  BY <1>8, <1>9, <1>10, <1>12, <1>13 DEF size

\* The first rows of an order are as many as their places.
LEMMA FirstRows ==
    ASSUME QInv, NEW s \in SetToSeqs(Selected),
           NEW m \in 0..Cardinality(Selected),
           NEW S, IsFiniteSet(S), \A i \in 1..m : s[i] \in S
    PROVE  m <= Cardinality(S)
<1>1. /\ Cardinality(Selected) \in Nat
      /\ s \in [1..Cardinality(Selected) -> Selected]
      /\ \A i, j \in 1..Cardinality(Selected) : s[i] = s[j] => i = j
  BY OrdersAreComplete DEF QInv
<1>2. m \in Nat /\ 1..m \subseteq 1..Cardinality(Selected)
  BY <1>1
<1>. DEFINE first == [i \in 1..m |-> s[i]]
<1>3. first \in [1..m -> S] /\ \A i, j \in 1..m : first[i] = first[j] => i = j
  BY <1>1, <1>2
<1>. HIDE DEF first
<1>4. first \in Injection(1..m, S)
  BY <1>3, Fun_IsInj
<1>5. Cardinality(1..m) = m
  BY <1>2, FS_Interval
<1>. QED
  BY <1>4, <1>5, FS_Injection

LEMMA Lists == ASSUME QInv, List PROVE QInv'
<1>1. PICK s \in SetToSeqs(Selected) :
        /\ Ordered(s)
        /\ \E n \in 0..Len(Page(s)) :
             /\ answer' = [code |-> 200, page |-> SubSeq(Page(s), 1, n),
                           whole |-> n = Len(Page(s))]
             /\ seen' = seen \cup ToSet(SubSeq(Page(s), 1, n))
             /\ offset' = offset + n
  BY DEF List
<1>2. PICK n \in 0..Len(Page(s)) :
        /\ answer' = [code |-> 200, page |-> SubSeq(Page(s), 1, n),
                      whole |-> n = Len(Page(s))]
        /\ seen' = seen \cup ToSet(SubSeq(Page(s), 1, n))
        /\ offset' = offset + n
  BY <1>1
<1>. DEFINE size == Cardinality(Selected)
<1>3. /\ size \in Nat
      /\ s \in [1..size -> Selected]
      /\ \A t \in Selected : \E p \in 1..size : s[p] = t
  BY OrdersAreComplete DEF QInv
<1>4. /\ Len(Page(s)) \in Nat
      /\ offset + n <= size
      /\ Len(Page(s)) = 0 => size <= offset
      /\ Len(SubSeq(Page(s), 1, n)) = n
      /\ seen' = seen \cup {s[i] : i \in (offset + 1)..(offset + n)}
  BY <1>2, PageProperties
<1>5. /\ UNCHANGED <<created, status, clock, limit>>
      /\ owed' = (IF answer = NoAnswer THEN Selected ELSE owed)
      /\ Selected' = Selected
  BY DEF List, table, Selected
<1>6. offset \in Nat /\ n \in Nat /\ offset' = offset + n
  BY <1>2, <1>4 DEF QInv, QTypes
<1>7. owed' \subseteq Selected /\ seen' \subseteq Selected
  BY <1>3, <1>4, <1>5, <1>6 DEF QInv
<1>8. \A t \in owed' \ seen : offset <= Cardinality(Newer(t))
  <2>. SUFFICES ASSUME NEW t \in owed' \ seen
                PROVE  offset <= Cardinality(Newer(t))
    OBVIOUS
  <2>1. CASE answer = NoAnswer
    <3>1. offset = 0 /\ IsFiniteSet(Newer(t))
      BY <2>1, Counts DEF QInv, Newer
    <3>. QED
      BY <3>1, FS_CardinalityType
  <2>2. CASE answer # NoAnswer
    BY <1>5, <2>2 DEF QInv, Ahead
  <2>. QED
    BY <2>1, <2>2
\* A row that is owed and was not seen stands beyond the rows of this page.
<1>9. ASSUME NEW p \in 1..size, s[p] \in owed', s[p] \notin seen'
      PROVE  p > offset'
  <2>1. Cardinality(Newer(s[p])) = p - 1
    BY <1>1, PlaceInOrder
  <2>2. offset <= p - 1
    BY <1>4, <1>8, <1>9, <2>1
  <2>3. p \notin (offset + 1)..(offset + n)
    BY <1>4, <1>9
  <2>. QED
    BY <1>3, <1>6, <2>2, <2>3
<1>10. Ahead'
  <2>. SUFFICES ASSUME NEW t \in owed' \ seen'
                PROVE  offset' <= Cardinality(Newer(t)')
    BY DEF Ahead
  <2>1. PICK p \in 1..size : s[p] = t
    BY <1>3, <1>7
  <2>2. Cardinality(Newer(t)) = p - 1
    BY <1>1, <2>1, PlaceInOrder
  <2>3. Newer(t)' = Newer(t)
    BY <1>5 DEF Newer
  <2>. QED
    BY <1>3, <1>6, <1>9, <2>1, <2>2, <2>3
<1>11. NothingMissed'
  <2>. SUFFICES ASSUME Finished', answer'.whole, NEW t \in owed',
                       t \notin seen'
                PROVE  FALSE
    BY DEF NothingMissed
  <2>1. SubSeq(Page(s), 1, n) = <<>> /\ n = Len(Page(s))
    BY <1>2 DEF Finished
  <2>2. n = 0
    BY <1>4, <2>1
  <2>3. PICK p \in 1..size : s[p] = t
    BY <1>3, <1>7
  <2>4. p > offset
    BY <1>6, <1>9, <2>2, <2>3
  <2>. QED
    BY <1>3, <1>4, <1>6, <2>1, <2>2, <2>4
<1>12. RepeatsAreInserts'
  <2>1. IsFiniteSet(seen') /\ IsFiniteSet(Selected \ owed')
    BY <1>7, Counts DEF QInv
  <2>2. IsFiniteSet(seen' \cup (Selected \ owed'))
    BY <2>1, FS_Union
  <2>3. \A i \in 1..offset' : s[i] \in seen' \cup (Selected \ owed')
    BY <1>3, <1>4, <1>6, <1>9
  <2>4. offset' <= Cardinality(seen' \cup (Selected \ owed'))
    BY <1>4, <1>6, <2>2, <2>3, FirstRows
  <2>5. Cardinality(seen' \cup (Selected \ owed'))
          <= Cardinality(seen') + Cardinality(Selected \ owed')
    BY <2>1, UnionCounts
  <2>6. /\ Cardinality(seen') \in Nat
        /\ Cardinality(Selected \ owed') \in Nat
        /\ Cardinality(seen' \cup (Selected \ owed')) \in Nat
    BY <2>1, <2>2, FS_CardinalityType
  <2>. QED
    BY <1>5, <1>6, <2>4, <2>5, <2>6 DEF RepeatsAreInserts
<1>. QED
  BY <1>2, <1>4, <1>5, <1>6, <1>7, <1>10, <1>11, <1>12
     DEF QInv, QTypes, Times, NoAnswer

-----------------------------------------------------------------------------
LEMMA QueriesStep ==
    ASSUME Filter = "all", SameTime = FALSE, QInv, [Next]_vars PROVE QInv'
<1>1. CASE \E t \in Txns : \/ Stamp(t) \/ CommitInsert(t)
                           \/ Authorize(t) \/ Settle(t)
  BY <1>1, Writers
<1>2. CASE Tick
  BY <1>2, Ticks
<1>3. CASE List
  BY <1>3, Lists
<1>4. CASE ListFails
  <2>1. /\ answer'.code = 500 /\ answer' # NoAnswer
        /\ UNCHANGED <<created, status, clock, limit, offset, owed, seen>>
    BY <1>4 DEF ListFails, table, NoAnswer
  <2>2. Selected' = Selected /\ \A t : Newer(t)' = Newer(t)
    BY <2>1 DEF Selected, Newer
  <2>3. ~Finished'
    BY <2>1 DEF Finished
  <2>. QED
    BY <2>1, <2>2, <2>3
       DEF QInv, QTypes, Times, Ahead, NothingMissed, RepeatsAreInserts
<1>5. CASE UNCHANGED vars
  <2>1. UNCHANGED <<created, status, clock, limit, offset, owed, seen, answer>>
    BY <1>5 DEF vars, table, client
  <2>2. Selected' = Selected /\ \A t : Newer(t)' = Newer(t)
    BY <2>1 DEF Selected, Newer
  <2>. QED
    BY <2>1, <2>2 DEF QInv, QTypes, Times, Ahead, NothingMissed, Finished,
       RepeatsAreInserts
<1>. QED
  BY <1>1, <1>2, <1>3, <1>4, <1>5 DEF Next

-----------------------------------------------------------------------------
\* Rows are only inserted before what a client has still to see, or after it,
\* and the offset counts rows that were there (postgres.go:254-276).
THEOREM QueriesInvariance ==
    ASSUME Filter = "all", SameTime = FALSE PROVE Spec => []QInv
<1>1. Init => QInv
  BY Initially
<1>2. QInv /\ [Next]_vars => QInv'
  BY QueriesStep
<1>. QED
  BY <1>1, <1>2, PTL DEF Spec

\* Paging by offset misses nothing that was there when it began, for any
\* number of rows, writers, limits and cuts (postgres.go:254-276).
THEOREM Complete ==
    ASSUME Filter = "all", SameTime = FALSE PROVE Spec => []NothingMissed
<1>1. QInv => NothingMissed
  BY DEF QInv
<1>. QED
  BY <1>1, QueriesInvariance, PTL

\* No row comes again without an insertion (postgres.go:256-267).
THEOREM RepeatsCounted ==
    ASSUME Filter = "all", SameTime = FALSE PROVE Spec => []RepeatsAreInserts
<1>1. QInv => RepeatsAreInserts
  BY DEF QInv
<1>. QED
  BY <1>1, QueriesInvariance, PTL
=============================================================================
