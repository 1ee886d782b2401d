------------------------ MODULE AtomicPaymentsProofs ------------------------
(***************************************************************************)
(* The properties of AtomicPayments hold for any number of accounts,       *)
(* payments, keys and currencies, and for any amounts.                     *)
(***************************************************************************)
EXTENDS AtomicPayments, SequenceTheorems, TLAPS

\* The assumptions of PaymentModel that the proofs use.
LEMMA Constants ==
    /\ Accounts \subseteq Nat
    /\ Amounts \subseteq Int
    /\ MaxBigint \in Nat
    /\ \A p \in Payment : p # None => p.currency # None
    /\ \A p \in Payment : /\ p.sender \in Accounts
                          /\ p.receiver \in Accounts
                          /\ p.amount \in Int
                          /\ p.amount > 0
                          /\ p.currency \in Currencies
                          /\ p.currency # None
                          /\ p.key \in Keys
BY AccountsAssumption, AmountsAssumption, MaxBigintAssumption, NoneAssumption
   DEF Payment

\* The entries of a ledger that has its type.
LEMMA EntryType ==
    ASSUME TypeOK, NEW a \in Accounts, NEW i \in 1..Len(ledger[a])
    PROVE  /\ ledger[a][i] \in LedgerEntry
           /\ ledger[a][i].txn \in TxnIds
           /\ ledger[a][i].type \in {"debit", "credit"}
<1>1. ledger[a] \in Seq(LedgerEntry)
  BY DEF TypeOK
<1>2. ledger[a][i] \in LedgerEntry
  BY <1>1, ElementOfSeq
<1> QED
  BY <1>2 DEF LedgerEntry

\* Appending one entry to the list of one account.
LEMMA PostEntry ==
    ASSUME NEW book \in [Accounts -> Seq(LedgerEntry)],
           NEW a \in Accounts, NEW e \in LedgerEntry
    PROVE  /\ Post(book, a, e) \in [Accounts -> Seq(LedgerEntry)]
           /\ Post(book, a, e)[a] = Append(book[a], e)
           /\ \A b \in Accounts \ {a} : Post(book, a, e)[b] = book[b]
<1>1. Append(book[a], e) \in Seq(LedgerEntry)
  OBVIOUS
<1> QED
  BY <1>1 DEF Post

-----------------------------------------------------------------------------
(***************************************************************************)
(* Type correctness: the tables hold what their columns declare, and no    *)
(* balance is negative or above BIGINT.                                    *)
(***************************************************************************)
LEMMA InitType == Init => TypeOK
<1> SUFFICES ASSUME Init PROVE TypeOK
  OBVIOUS
<1>1. << >> \in Seq(LedgerEntry)
  OBVIOUS
<1>2. ledger \in [Accounts -> Seq(LedgerEntry)]
  BY <1>1 DEF Init
<1> QED
  BY <1>2, Constants DEF Init, TypeOK, RowStatus, Status

-----------------------------------------------------------------------------
(***************************************************************************)
(* What a settlement does to the ledger.                                   *)
(***************************************************************************)
Debited(t) == balance[payment[t].sender] - payment[t].amount

Credited(t) ==
    [balance EXCEPT ![payment[t].sender] = Debited(t)][payment[t].receiver]
        + payment[t].amount

DebitEntry(t) == Entry(t, "debit", payment[t].amount, Debited(t))
CreditEntry(t) == Entry(t, "credit", payment[t].amount, Credited(t))

\* The two values that a settlement stores are balances.
LEMMA SettledBalances ==
    ASSUME TypeOK, NEW t \in TxnIds, payment[t] \in Payment, Settle(t)
    PROVE  /\ Debited(t) \in 0..MaxBigint
           /\ Credited(t) \in 0..MaxBigint
           /\ DebitEntry(t) \in LedgerEntry
           /\ CreditEntry(t) \in LedgerEntry
           /\ balance' = [[balance EXCEPT ![payment[t].sender] = Debited(t)]
                             EXCEPT ![payment[t].receiver] = Credited(t)]
           /\ ledger' = Post(Post(ledger, payment[t].sender, DebitEntry(t)),
                             payment[t].receiver, CreditEntry(t))
<1> DEFINE p == payment[t]
           withDebit == [balance EXCEPT ![p.sender] = Debited(t)]
<1>1. /\ p.sender \in Accounts
      /\ p.receiver \in Accounts
      /\ p.amount \in {m \in Amounts : m > 0}
      /\ p.amount \in Int
      /\ p.amount > 0
  BY Constants DEF Payment
<1>2. Debited(t) \in 0..MaxBigint
  <2>1. balance[p.sender] \in 0..MaxBigint
    BY <1>1 DEF TypeOK
  <2>2. Debited(t) >= 0
    BY DEF Settle, Debited
  <2> QED
    BY <1>1, <2>1, <2>2, MaxBigintAssumption DEF Debited
<1>3. withDebit \in [Accounts -> 0..MaxBigint]
  BY <1>1, <1>2 DEF TypeOK
<1>4. Credited(t) \in 0..MaxBigint
  <2>1. withDebit[p.receiver] \in 0..MaxBigint
    BY <1>1, <1>3
  <2>2. Credited(t) <= MaxBigint
    BY DEF Settle, Credited, Debited
  <2>3. Credited(t) = withDebit[p.receiver] + p.amount
    BY DEF Credited
  <2> HIDE DEF withDebit
  <2> QED
    BY <1>1, <2>1, <2>2, <2>3, MaxBigintAssumption
<1>5. DebitEntry(t) \in LedgerEntry /\ CreditEntry(t) \in LedgerEntry
  BY <1>1, <1>2, <1>4 DEF LedgerEntry, Entry, DebitEntry, CreditEntry
<1>6. balance' = [withDebit EXCEPT ![p.receiver] = Credited(t)]
  BY DEF Settle, Credited, Debited
<1>7. ledger' = Post(Post(ledger, p.sender, DebitEntry(t)),
                     p.receiver, CreditEntry(t))
  BY DEF Settle, DebitEntry, CreditEntry, Credited, Debited
<1> QED
  BY <1>2, <1>4, <1>5, <1>6, <1>7

LEMMA SettleType ==
    ASSUME TypeOK, NEW t \in TxnIds, payment[t] \in Payment, Settle(t)
    PROVE  TypeOK'
<1>1. payment[t].sender \in Accounts /\ payment[t].receiver \in Accounts
  BY Constants
<1>2. balance' \in [Accounts -> 0..MaxBigint]
  BY <1>1, SettledBalances DEF TypeOK
<1>3. ledger' \in [Accounts -> Seq(LedgerEntry)]
  <2> DEFINE mid == Post(ledger, payment[t].sender, DebitEntry(t))
  <2>1. DebitEntry(t) \in LedgerEntry /\ CreditEntry(t) \in LedgerEntry
    BY SettledBalances
  <2>2. mid \in [Accounts -> Seq(LedgerEntry)]
    BY <1>1, <2>1, PostEntry DEF TypeOK
  <2>3. ledger' = Post(mid, payment[t].receiver, CreditEntry(t))
    BY SettledBalances
  <2> HIDE DEF mid
  <2>4. Post(mid, payment[t].receiver, CreditEntry(t)) \in [Accounts -> Seq(LedgerEntry)]
    BY <1>1, <2>1, <2>2, PostEntry
  <2> QED
    BY <2>3, <2>4
<1>4. status' \in [TxnIds -> RowStatus]
  BY DEF TypeOK, Settle, RowStatus, Status
<1> QED
  BY <1>2, <1>3, <1>4 DEF TypeOK, Settle

(***************************************************************************)
(* The lists of the sender and the receiver grow by one entry each, or the *)
(* list of the one account that pays itself by two; all else stays.        *)
(***************************************************************************)
LEMMA SettledLedger ==
    ASSUME TypeOK, NEW t \in TxnIds, payment[t] \in Payment, Settle(t)
    PROVE  LET s == payment[t].sender
               v == payment[t].receiver
           IN  /\ \A a \in Accounts \ {s, v} : ledger'[a] = ledger[a]
               /\ s # v => /\ ledger'[s] = Append(ledger[s], DebitEntry(t))
                          /\ ledger'[v] = Append(ledger[v], CreditEntry(t))
               /\ s = v => ledger'[s] = Append(Append(ledger[s], DebitEntry(t)),
                                              CreditEntry(t))
<1> DEFINE s == payment[t].sender
           v == payment[t].receiver
           mid == Post(ledger, s, DebitEntry(t))
<1>1. s \in Accounts /\ v \in Accounts
  BY Constants
<1>2. ledger \in [Accounts -> Seq(LedgerEntry)]
  BY DEF TypeOK
<1>3. DebitEntry(t) \in LedgerEntry /\ CreditEntry(t) \in LedgerEntry
  BY SettledBalances
<1>4. /\ mid \in [Accounts -> Seq(LedgerEntry)]
      /\ mid[s] = Append(ledger[s], DebitEntry(t))
      /\ \A b \in Accounts \ {s} : mid[b] = ledger[b]
  BY <1>1, <1>2, <1>3, PostEntry
<1>5. ledger' = Post(mid, v, CreditEntry(t))
  BY SettledBalances
<1> HIDE DEF mid
<1>6. /\ Post(mid, v, CreditEntry(t))[v] = Append(mid[v], CreditEntry(t))
      /\ \A b \in Accounts \ {v} : Post(mid, v, CreditEntry(t))[b] = mid[b]
  BY <1>1, <1>3, <1>4, PostEntry
<1> QED
  BY <1>1, <1>4, <1>5, <1>6

(***************************************************************************)
(* The same, entry by entry: the old entries stay where they are, a new    *)
(* one is the debit right after them or the credit at the very end.        *)
(***************************************************************************)
LEMMA SettledEntries ==
    ASSUME TypeOK, NEW t \in TxnIds, payment[t] \in Payment, Settle(t),
           NEW a \in Accounts
    PROVE  LET s == payment[t].sender
               v == payment[t].receiver
               n == Len(ledger[a])
               m == Len(ledger'[a])
           IN  /\ n \in Nat /\ m \in Nat /\ n <= m
               /\ \A i \in 1..n : ledger'[a][i] = ledger[a][i]
               /\ \A i \in 1..m : i > n =>
                      \/ a = s /\ i = n + 1 /\ ledger'[a][i] = DebitEntry(t)
                      \/ /\ a = v
                         /\ i = m
                         /\ i = IF a = s THEN n + 2 ELSE n + 1
                         /\ ledger'[a][i] = CreditEntry(t)
               /\ a = s => n + 1 <= m /\ ledger'[a][n + 1] = DebitEntry(t)
               /\ a = v => n < m /\ ledger'[a][m] = CreditEntry(t)
<1> DEFINE s == payment[t].sender
           v == payment[t].receiver
           n == Len(ledger[a])
           m == Len(ledger'[a])
           D == DebitEntry(t)
           C == CreditEntry(t)
<1>1. ledger[a] \in Seq(LedgerEntry) /\ n \in Nat
  BY DEF TypeOK
<1>2. D \in LedgerEntry /\ C \in LedgerEntry
  BY SettledBalances
<1> HIDE DEF D, C
<1>3. CASE a \notin {s, v}
  <2>1. ledger'[a] = ledger[a]
    BY <1>3, SettledLedger
  <2> QED
    BY <1>1, <1>3, <2>1
<1>4. CASE s # v /\ a = s
  <2>1. ledger'[a] = Append(ledger[a], D)
    BY <1>4, SettledLedger DEF D
  <2>2. m = n + 1 /\ ledger'[a][n + 1] = D /\ \A i \in 1..n : ledger'[a][i] = ledger[a][i]
    BY <1>1, <1>2, <2>1
  <2> QED
    BY <1>1, <1>4, <2>2 DEF D
<1>5. CASE s # v /\ a = v
  <2>1. ledger'[a] = Append(ledger[a], C)
    BY <1>5, SettledLedger DEF C
  <2>2. m = n + 1 /\ ledger'[a][n + 1] = C /\ \A i \in 1..n : ledger'[a][i] = ledger[a][i]
    BY <1>1, <1>2, <2>1
  <2> QED
    BY <1>1, <1>5, <2>2 DEF C
<1>6. CASE s = v /\ a = s
  <2> DEFINE mid == Append(ledger[a], D)
  <2>1. /\ mid \in Seq(LedgerEntry)
        /\ Len(mid) = n + 1
        /\ mid[n + 1] = D
        /\ \A i \in 1..n : mid[i] = ledger[a][i]
    BY <1>1, <1>2
  <2>2. ledger'[a] = Append(mid, C)
    BY <1>6, SettledLedger DEF C, D
  <2> HIDE DEF mid
  <2>3. /\ m = n + 2
        /\ ledger'[a][n + 2] = C
        /\ \A i \in 1..(n + 1) : ledger'[a][i] = mid[i]
    BY <1>1, <1>2, <2>1, <2>2
  <2>4. ledger'[a][n + 1] = D /\ \A i \in 1..n : ledger'[a][i] = ledger[a][i]
    BY <1>1, <2>1, <2>3
  <2>5. \A i \in 1..m : i > n =>
            \/ i = n + 1 /\ ledger'[a][i] = D
            \/ i = m /\ i = n + 2 /\ ledger'[a][i] = C
    BY <1>1, <2>3, <2>4
  <2>6. a = s /\ a = v /\ n <= m /\ n < m /\ n + 1 <= m /\ m \in Nat /\ ledger'[a][m] = C
    BY <1>1, <1>6, <2>3
  <2> HIDE DEF s, v, n, m
  <2>7. /\ n \in Nat /\ m \in Nat /\ n <= m
        /\ \A i \in 1..n : ledger'[a][i] = ledger[a][i]
        /\ \A i \in 1..m : i > n =>
               \/ a = s /\ i = n + 1 /\ ledger'[a][i] = D
               \/ /\ a = v
                  /\ i = m
                  /\ i = IF a = s THEN n + 2 ELSE n + 1
                  /\ ledger'[a][i] = C
        /\ a = s => n + 1 <= m /\ ledger'[a][n + 1] = D
        /\ a = v => n < m /\ ledger'[a][m] = C
    BY <1>1, <2>4, <2>5, <2>6
  <2> QED
    BY <2>7 DEF C, D, s, v, n, m
<1> QED
  BY <1>3, <1>4, <1>5, <1>6

-----------------------------------------------------------------------------
(***************************************************************************)
(* The inductive invariant.  A row holds a payment; the properties support *)
(* each other: LedgerReplays survives the opening of an account because,   *)
(* by DoubleEntry and SameCurrency, only an account that has a currency    *)
(* has ledger entries.                                                     *)
(***************************************************************************)
RowsArePayments ==
    \A t \in TxnIds : status[t] # "absent" => payment[t] \in Payment

IInv ==
    /\ TypeOK
    /\ RowsArePayments
    /\ OneTransactionPerKey
    /\ SameCurrency
    /\ DoubleEntry
    /\ LedgerReplays

LEMMA InitIInv == Init => IInv
<1> SUFFICES ASSUME Init PROVE IInv
  OBVIOUS
<1>1. TypeOK
  BY InitType
<1>2. \A a \in Accounts : ledger[a] = << >> /\ Len(ledger[a]) = 0
  BY DEF Init
<1>3. \A t \in TxnIds : status[t] = "absent"
  BY DEF Init
<1> QED
  BY <1>1, <1>2, <1>3
  DEF IInv, RowsArePayments, OneTransactionPerKey, SameCurrency, DoubleEntry, LedgerReplays

\* Only an account that exists has ledger entries.
LEMMA EntriesNeedCurrency ==
    ASSUME IInv, NEW a \in Accounts, currency[a] = None
    PROVE  ledger[a] = << >>
<1>1. ledger[a] \in Seq(LedgerEntry)
  BY DEF IInv, TypeOK
<1>2. ASSUME ledger[a] # << >> PROVE FALSE
  <2>1. 1 \in 1..Len(ledger[a])
    BY <1>1, <1>2
  <2> DEFINE e == ledger[a][1]
  <2>2. e \in LedgerEntry /\ e.txn \in TxnIds
    BY <2>1, EntryType DEF IInv
  <2>3. /\ status[e.txn] = "settled"
        /\ a = payment[e.txn].sender \/ a = payment[e.txn].receiver
    BY <2>1 DEF IInv, DoubleEntry, EntryOfSettled
  <2>4. currency[a] = payment[e.txn].currency
    BY <2>2, <2>3 DEF IInv, SameCurrency
  <2>5. payment[e.txn] \in Payment
    BY <2>2, <2>3 DEF IInv, RowsArePayments
  <2> QED
    BY <1>2, <2>4, <2>5, Constants
<1> QED
  BY <1>2

LEMMA OpenIInv ==
    ASSUME IInv, NEW a \in Accounts, NEW c \in Currencies, NEW b \in Openings,
           Open(a, c, b)
    PROVE  IInv'
<1> USE DEF IInv
<1>1. TypeOK'
  BY DEF Open, TypeOK
<1>2. RowsArePayments'
  BY DEF Open, RowsArePayments
<1>3. OneTransactionPerKey'
  BY DEF Open, OneTransactionPerKey
<1>4. SameCurrency'
  <2> SUFFICES ASSUME NEW t \in TxnIds, status[t] # "absent"
               PROVE  /\ currency'[payment[t].sender] = payment[t].currency
                      /\ currency'[payment[t].receiver] = payment[t].currency
    BY DEF SameCurrency, Open
  <2>1. payment[t] \in Payment
    BY DEF RowsArePayments
  <2>2. payment[t].sender \in Accounts \ {a} /\ payment[t].receiver \in Accounts \ {a}
    BY <2>1, Constants DEF SameCurrency, Open
  <2> QED
    BY <2>2 DEF SameCurrency, Open, TypeOK
<1>5. DoubleEntry'
  BY DEF Open, DoubleEntry, EntryOfSettled, HasEntry
<1>6. LedgerReplays'
  <2>1. ledger[a] = << >>
    BY EntriesNeedCurrency DEF Open
  <2>2. ledger' = ledger
    BY DEF Open
  <2>3. \A x \in Accounts \ {a} : balance'[x] = balance[x]
    BY DEF Open, TypeOK
  <2> QED
    BY <2>1, <2>2, <2>3 DEF LedgerReplays
<1> QED
  BY <1>1, <1>2, <1>3, <1>4, <1>5, <1>6

LEMMA InitiateIInv ==
    ASSUME IInv, NEW t \in TxnIds, NEW p \in Payment, Initiate(t, p)
    PROVE  IInv'
<1> USE DEF IInv
<1>1. TypeOK'
  BY DEF Initiate, TypeOK, RowStatus, Status
<1>2. RowsArePayments'
  BY DEF Initiate, RowsArePayments, TypeOK
<1>3. OneTransactionPerKey'
  BY DEF Initiate, OneTransactionPerKey, TypeOK
<1>4. SameCurrency'
  BY DEF Initiate, SameCurrency, TypeOK
<1>5. DoubleEntry'
  <2>1. ledger' = ledger /\ status[t] = "absent" /\ status'[t] = "pending"
    BY DEF Initiate, TypeOK
  <2>2. \A u \in TxnIds \ {t} : status'[u] = status[u] /\ payment'[u] = payment[u]
    BY DEF Initiate, TypeOK
  <2>3. \A x \in Accounts : \A i \in 1..Len(ledger[x]) : ledger[x][i].txn \in TxnIds \ {t}
    BY <2>1, EntryType DEF DoubleEntry, EntryOfSettled
  <2>4. (\A x \in Accounts : \A i \in 1..Len(ledger[x]) : EntryOfSettled(x, i))'
    BY <2>1, <2>2, <2>3 DEF DoubleEntry, EntryOfSettled
  <2>5. \A u \in TxnIds : status'[u] = "settled" =>
            status[u] = "settled" /\ payment'[u] = payment[u]
    BY <2>1, <2>2
  <2> QED
    BY <2>1, <2>4, <2>5 DEF DoubleEntry, HasEntry
<1>6. LedgerReplays'
  BY DEF Initiate, LedgerReplays
<1> QED
  BY <1>1, <1>2, <1>3, <1>4, <1>5, <1>6

LEMMA AuthorizeIInv ==
    ASSUME IInv, NEW t \in TxnIds, Authorize(t)
    PROVE  IInv'
<1> USE DEF IInv
<1>1. TypeOK'
  BY DEF Authorize, TypeOK, RowStatus, Status
<1>2. RowsArePayments'
  BY DEF Authorize, RowsArePayments, TypeOK
<1>3. OneTransactionPerKey'
  BY DEF Authorize, OneTransactionPerKey, TypeOK
<1>4. SameCurrency'
  BY DEF Authorize, SameCurrency, TypeOK
<1>5. DoubleEntry'
  <2>1. /\ ledger' = ledger
        /\ payment' = payment
        /\ status[t] = "pending"
        /\ status'[t] = "authorized"
    BY DEF Authorize, TypeOK
  <2>2. \A u \in TxnIds \ {t} : status'[u] = status[u]
    BY DEF Authorize, TypeOK
  <2>3. \A x \in Accounts : \A i \in 1..Len(ledger[x]) : ledger[x][i].txn \in TxnIds \ {t}
    BY <2>1, EntryType DEF DoubleEntry, EntryOfSettled
  <2>4. (\A x \in Accounts : \A i \in 1..Len(ledger[x]) : EntryOfSettled(x, i))'
    BY <2>1, <2>2, <2>3 DEF DoubleEntry, EntryOfSettled
  <2>5. \A u \in TxnIds : status'[u] = "settled" =>
            status[u] = "settled" /\ payment'[u] = payment[u]
    BY <2>1, <2>2
  <2> QED
    BY <2>1, <2>4, <2>5 DEF DoubleEntry, HasEntry
<1>6. LedgerReplays'
  BY DEF Authorize, LedgerReplays
<1> QED
  BY <1>1, <1>2, <1>3, <1>4, <1>5, <1>6

\* A settlement writes no entry of another transaction, and had none before.
LEMMA SettleDoubleEntry ==
    ASSUME IInv, NEW t \in TxnIds, Settle(t)
    PROVE  DoubleEntry'
<1> DEFINE s == payment[t].sender
           v == payment[t].receiver
<1>1. TypeOK /\ DoubleEntry
  BY DEF IInv
<1>2. /\ status[t] = "authorized"
      /\ status'[t] = "settled"
      /\ payment' = payment
      /\ \A u \in TxnIds \ {t} : status'[u] = status[u]
  BY <1>1 DEF Settle, TypeOK
<1>3. payment[t] \in Payment /\ s \in Accounts /\ v \in Accounts
  BY <1>2, Constants DEF IInv, RowsArePayments
<1>4. \A a \in Accounts : \A i \in 1..Len(ledger[a]) :
          ledger[a][i].txn \in TxnIds \ {t} /\ EntryOfSettled(a, i)
  BY <1>1, <1>2, EntryType DEF DoubleEntry, EntryOfSettled
<1>5. /\ DebitEntry(t).txn = t
      /\ DebitEntry(t).type = "debit"
      /\ DebitEntry(t).amount = payment[t].amount
      /\ CreditEntry(t).txn = t
      /\ CreditEntry(t).type = "credit"
      /\ CreditEntry(t).amount = payment[t].amount
  BY DEF DebitEntry, CreditEntry, Entry
<1>6. ASSUME NEW a \in Accounts, NEW i \in 1..Len(ledger'[a])
      PROVE  EntryOfSettled(a, i)'
  <2> DEFINE n == Len(ledger[a])
  <2>1. CASE i <= n
    <3>1. i \in 1..n /\ ledger'[a][i] = ledger[a][i]
      BY <1>1, <1>3, <2>1, SettledEntries
    <3> QED
      BY <1>2, <1>4, <3>1 DEF EntryOfSettled
  <2>2. CASE i > n
    <3>1. \/ a = s /\ ledger'[a][i] = DebitEntry(t)
          \/ a = v /\ ledger'[a][i] = CreditEntry(t)
      BY <1>1, <1>3, <2>2, SettledEntries
    <3> QED
      BY <1>2, <1>5, <3>1 DEF EntryOfSettled
  <2>3. n \in Nat
    BY <1>1, <1>3, SettledEntries
  <2> QED
    BY <2>1, <2>2, <2>3
<1>7. ASSUME NEW a \in Accounts, NEW i \in 1..Len(ledger'[a]),
             NEW j \in 1..Len(ledger'[a]), SameEntry(ledger'[a][i], ledger'[a][j])
      PROVE  i = j
  <2> DEFINE n == Len(ledger[a])
             m == Len(ledger'[a])
             New(k) == \/ /\ a = s
                          /\ k = n + 1
                          /\ ledger'[a][k] = DebitEntry(t)
                       \/ k = m /\ ledger'[a][k] = CreditEntry(t)
  <2>1. /\ n \in Nat /\ m \in Nat
        /\ \A k \in 1..n : ledger'[a][k] = ledger[a][k]
        /\ \A k \in 1..m : k > n => New(k)
    BY <1>1, <1>3, SettledEntries
  <2>2. \A k \in 1..m : k > n => ledger'[a][k].txn = t
    BY <1>5, <2>1
  <2>3. \A k \in 1..m : k <= n => ledger'[a][k].txn # t
    BY <1>4, <2>1
  <2>4. CASE i <= n
    <3>1. j <= n
      BY <1>7, <2>1, <2>2, <2>3, <2>4 DEF SameEntry
    <3>2. i \in 1..n /\ j \in 1..n
      BY <2>1, <2>4, <3>1
    <3> QED
      BY <1>1, <1>7, <2>1, <3>2 DEF DoubleEntry
  <2>5. CASE i > n
    <3>1. j > n
      BY <1>7, <2>1, <2>2, <2>3, <2>5 DEF SameEntry
    <3>2. New(i) /\ New(j)
      BY <2>1, <2>5, <3>1
    <3> QED
      BY <1>5, <1>7, <3>2 DEF SameEntry
  <2> QED
    BY <2>1, <2>4, <2>5
<1>8. ASSUME NEW u \in TxnIds, status'[u] = "settled"
      PROVE  HasEntry(payment[u].sender, u, "debit")' /\ HasEntry(payment[u].receiver, u, "credit")'
  <2>1. CASE u = t
    <3> DEFINE i == Len(ledger[s]) + 1
               j == Len(ledger'[v])
    <3>1. i \in 1..Len(ledger'[s]) /\ ledger'[s][i] = DebitEntry(t)
      BY <1>1, <1>3, SettledEntries
    <3>2. j \in 1..Len(ledger'[v]) /\ ledger'[v][j] = CreditEntry(t)
      BY <1>1, <1>3, SettledEntries
    <3> QED
      BY <1>2, <1>5, <2>1, <3>1, <3>2 DEF HasEntry
  <2>2. CASE u # t
    <3>1. /\ status[u] = "settled"
          /\ payment[u].sender \in Accounts
          /\ payment[u].receiver \in Accounts
      BY <1>2, <1>8, <2>2, Constants DEF IInv, RowsArePayments
    <3>2. \A a \in Accounts : \A i \in 1..Len(ledger[a]) :
              i \in 1..Len(ledger'[a]) /\ ledger'[a][i] = ledger[a][i]
      BY <1>1, <1>3, SettledEntries
    <3>3. /\ HasEntry(payment[u].sender, u, "debit")
          /\ HasEntry(payment[u].receiver, u, "credit")
      BY <1>1, <3>1 DEF DoubleEntry
    <3>4. /\ HasEntry(payment[u].sender, u, "debit")'
          /\ HasEntry(payment[u].receiver, u, "credit")'
      <4> DEFINE x == payment[u].sender
                 z == payment[u].receiver
      <4>1. x \in Accounts /\ z \in Accounts /\ x' = x /\ z' = z
        BY <1>2, <3>1
      <4>2. \E i \in 1..Len(ledger'[x]) :
                ledger'[x][i].txn = u /\ ledger'[x][i].type = "debit"
        BY <3>2, <3>3, <4>1 DEF HasEntry
      <4>3. \E i \in 1..Len(ledger'[z]) :
                ledger'[z][i].txn = u /\ ledger'[z][i].type = "credit"
        BY <3>2, <3>3, <4>1 DEF HasEntry
      <4> QED
        BY <4>1, <4>2, <4>3 DEF HasEntry
    <3> QED
      BY <3>4
  <2> QED
    BY <2>1, <2>2
<1> QED
  BY <1>6, <1>7, <1>8 DEF DoubleEntry

\* The new entries continue the list of their account up to its new balance.
LEMMA SettleLedgerReplays ==
    ASSUME IInv, NEW t \in TxnIds, Settle(t)
    PROVE  LedgerReplays'
<1> DEFINE s == payment[t].sender
           v == payment[t].receiver
           amount == payment[t].amount
<1>1. TypeOK /\ LedgerReplays
  BY DEF IInv
<1>2. /\ payment[t] \in Payment
      /\ s \in Accounts
      /\ v \in Accounts
      /\ amount \in Int
      /\ payment' = payment
  BY Constants DEF IInv, RowsArePayments, Settle
<1>3. balance \in [Accounts -> 0..MaxBigint] /\ \A a \in Accounts : balance[a] \in Int
  BY <1>1, MaxBigintAssumption DEF TypeOK
<1>4. /\ Debited(t) = balance[s] - amount
      /\ Credited(t) = (IF v = s THEN Debited(t) ELSE balance[v]) + amount
      /\ Debited(t) \in Int
      /\ Credited(t) \in Int
  BY <1>2, <1>3 DEF Debited, Credited
<1>5. /\ DebitEntry(t).after = Debited(t)
      /\ CreditEntry(t).after = Credited(t)
      /\ Signed(DebitEntry(t)) = -amount
      /\ Signed(CreditEntry(t)) = amount
  BY DEF DebitEntry, CreditEntry, Entry, Signed
<1>6. /\ balance'[v] = Credited(t)
      /\ s # v => balance'[s] = Debited(t)
      /\ \A a \in Accounts \ {s, v} : balance'[a] = balance[a]
  BY <1>1, <1>2, <1>3, SettledBalances
<1> SUFFICES ASSUME NEW a \in Accounts
             PROVE  /\ \A i \in 2..Len(ledger'[a]) :
                           ledger'[a][i].after
                               = ledger'[a][i-1].after + Signed(ledger'[a][i])
                    /\ ledger'[a] # << >>
                           => ledger'[a][Len(ledger'[a])].after = balance'[a]
  BY DEF LedgerReplays, Signed
<1> DEFINE n == Len(ledger[a])
           m == Len(ledger'[a])
<1>7. /\ n \in Nat /\ m \in Nat /\ n <= m
      /\ \A i \in 1..n : ledger'[a][i] = ledger[a][i]
      /\ \A i \in 1..m : i > n =>
             \/ a = s /\ i = n + 1 /\ ledger'[a][i] = DebitEntry(t)
             \/ /\ a = v
                /\ i = m
                /\ i = IF a = s THEN n + 2 ELSE n + 1
                /\ ledger'[a][i] = CreditEntry(t)
      /\ a = s => n + 1 <= m /\ ledger'[a][n + 1] = DebitEntry(t)
      /\ a = v => n < m /\ ledger'[a][m] = CreditEntry(t)
  BY <1>1, <1>2, SettledEntries
<1>8. n > 0 => ledger'[a][n].after = balance[a]
  <2>1. ledger[a] \in Seq(LedgerEntry)
    BY <1>1 DEF TypeOK
  <2>2. n > 0 => ledger[a] # << >>
    BY <2>1
  <2> QED
    BY <1>1, <1>7, <2>2 DEF LedgerReplays
<1>9. ASSUME NEW i \in 2..m
      PROVE  ledger'[a][i].after = ledger'[a][i-1].after + Signed(ledger'[a][i])
  <2>1. CASE i <= n
    <3>1. i \in 2..n /\ i \in 1..n /\ i - 1 \in 1..n
      BY <1>7, <2>1
    <3> QED
      BY <1>1, <1>7, <3>1 DEF LedgerReplays
  <2>2. CASE i = n + 1
    <3>1. n > 0 /\ i - 1 = n /\ i > n /\ i \in 1..m
      BY <1>7, <2>2
    <3>2. ledger'[a][i - 1].after = balance[a]
      BY <1>8, <3>1
    <3>3. \/ a = s /\ ledger'[a][i] = DebitEntry(t)
          \/ a = v /\ a # s /\ ledger'[a][i] = CreditEntry(t)
      BY <1>7, <2>2, <3>1
    <3> QED
      BY <1>3, <1>4, <1>5, <3>2, <3>3
  <2>3. CASE i > n + 1
    <3>1. i > n /\ i \in 1..m
      BY <1>7, <2>3
    <3>2. /\ a = s /\ a = v
          /\ i - 1 = n + 1
          /\ ledger'[a][i] = CreditEntry(t)
          /\ ledger'[a][n + 1] = DebitEntry(t)
      BY <1>7, <2>3, <3>1
    <3>3. Credited(t) = Debited(t) + amount
      BY <1>4, <3>2
    <3> QED
      BY <1>5, <3>2, <3>3
  <2> QED
    BY <1>7, <2>1, <2>2, <2>3
<1>10. ASSUME ledger'[a] # << >> PROVE ledger'[a][m].after = balance'[a]
  <2>1. CASE a = v
    BY <1>5, <1>6, <1>7, <2>1
  <2>2. CASE a = s /\ a # v
    <3>1. m = n + 1 \/ m > n + 1
      BY <1>7, <2>2
    <3>2. m \in 1..m /\ m > n
      BY <1>7, <3>1
    <3>3. ledger'[a][m] = DebitEntry(t)
      BY <1>7, <2>2, <3>2
    <3> QED
      BY <1>5, <1>6, <2>2, <3>3
  <2>3. CASE a \notin {s, v}
    <3>1. ledger'[a] = ledger[a]
      BY <1>1, <1>2, <2>3, SettledLedger
    <3>2. balance'[a] = balance[a]
      BY <1>6, <2>3
    <3> QED
      BY <1>1, <1>10, <3>1, <3>2 DEF LedgerReplays
  <2> QED
    BY <2>1, <2>2, <2>3
<1> QED
  BY <1>9, <1>10

LEMMA SettleIInv ==
    ASSUME IInv, NEW t \in TxnIds, Settle(t)
    PROVE  IInv'
<1>1. /\ status[t] = "authorized"
      /\ payment' = payment
      /\ currency' = currency
      /\ \A u \in TxnIds : status'[u] # "absent" => status[u] # "absent"
  BY DEF Settle, IInv, TypeOK
<1>2. payment[t] \in Payment
  BY <1>1 DEF IInv, RowsArePayments
<1>3. TypeOK'
  BY <1>2, SettleType DEF IInv
<1>4. RowsArePayments'
  BY <1>1 DEF IInv, RowsArePayments
<1>5. OneTransactionPerKey'
  BY <1>1 DEF IInv, OneTransactionPerKey
<1>6. SameCurrency'
  BY <1>1 DEF IInv, SameCurrency
<1> QED
  BY <1>3, <1>4, <1>5, <1>6, SettleDoubleEntry, SettleLedgerReplays DEF IInv

LEMMA NextIInv == IInv /\ [Next]_vars => IInv'
<1> SUFFICES ASSUME IInv, [Next]_vars PROVE IInv'
  OBVIOUS
<1>1. CASE \E a \in Accounts, c \in Currencies, b \in Openings : Open(a, c, b)
  BY <1>1, OpenIInv
<1>2. CASE \E t \in TxnIds, p \in Payment : Initiate(t, p)
  BY <1>2, InitiateIInv
<1>3. CASE \E t \in TxnIds : Authorize(t)
  BY <1>3, AuthorizeIInv
<1>4. CASE \E t \in TxnIds : Settle(t)
  BY <1>4, SettleIInv
<1>5. CASE UNCHANGED vars
  BY <1>5 DEF vars, IInv, TypeOK, RowsArePayments, OneTransactionPerKey, SameCurrency,
              DoubleEntry, EntryOfSettled, HasEntry, LedgerReplays
<1> QED
  BY <1>1, <1>2, <1>3, <1>4, <1>5 DEF Next

(***************************************************************************)
(* The invariant and the properties it implies hold in every reachable     *)
(* state, for every value of the constants.                                *)
(***************************************************************************)
THEOREM Invariance == Spec => []IInv
<1>1. IInv /\ [Next]_vars => IInv'
  BY NextIInv
<1> QED
  BY InitIInv, <1>1, PTL DEF Spec

\* Type correctness: no balance leaves 0..MaxBigint (chk_balance_non_negative).
THEOREM TypeCorrect == Spec => []TypeOK
<1>1. IInv => TypeOK
  BY DEF IInv
<1> QED
  BY Invariance, <1>1, PTL

\* Idempotency: at most one transaction per idempotency key.
THEOREM Idempotent == Spec => []OneTransactionPerKey
<1>1. IInv => OneTransactionPerKey
  BY DEF IInv
<1> QED
  BY Invariance, <1>1, PTL

\* A payment and both its accounts have one currency.
THEOREM OneCurrency == Spec => []SameCurrency
<1>1. IInv => SameCurrency
  BY DEF IInv
<1> QED
  BY Invariance, <1>1, PTL

\* Double-entry bookkeeping: one debit and one credit for what is settled.
THEOREM Balanced == Spec => []DoubleEntry
<1>1. IInv => DoubleEntry
  BY DEF IInv
<1> QED
  BY Invariance, <1>1, PTL

\* The ledger replays to the balances.
THEOREM Replays == Spec => []LedgerReplays
<1>1. IInv => LedgerReplays
  BY DEF IInv
<1> QED
  BY Invariance, <1>1, PTL
=============================================================================
