--------------------------- MODULE AtomicPayments ---------------------------
(***************************************************************************)
(* What the gateway promises to its clients: every operation of            *)
(* PaymentService takes effect at one instant on the committed tables.     *)
(* There are no requests, locks or failures here.  PaymentService is shown *)
(* to implement this specification.                                        *)
(***************************************************************************)
EXTENDS PaymentModel

CONSTANT Openings   \* opening balances that clients ask for

VARIABLES
    currency,   \* accounts.currency, None while the account does not exist
    balance,    \* accounts.balance
    payment,    \* the immutable columns of transactions
    status,     \* transactions.status
    ledger      \* ledger_entries of each account, in the order of creation

vars == <<currency, balance, payment, status, ledger>>

TypeOK ==
    /\ currency \in [Accounts -> Currencies \cup {None}]
    /\ balance \in [Accounts -> 0..MaxBigint]
    /\ payment \in [TxnIds -> Payment \cup {None}]
    /\ status \in [TxnIds -> RowStatus]
    /\ ledger \in [Accounts -> Seq(LedgerEntry)]

Init ==
    /\ currency = [a \in Accounts |-> None]
    /\ balance = [a \in Accounts |-> 0]
    /\ payment = [t \in TxnIds |-> None]
    /\ status = [t \in TxnIds |-> "absent"]
    /\ ledger = [a \in Accounts |-> << >>]

\* A new account; CHECK (balance >= 0) refuses a negative opening balance.
Open(a, c, b) ==
    /\ currency[a] = None
    /\ b \in 0..MaxBigint
    /\ currency' = [currency EXCEPT ![a] = c]
    /\ balance' = [balance EXCEPT ![a] = b]
    /\ UNCHANGED <<payment, status, ledger>>

\* A new payment between two accounts of its own currency, under a new key.
Initiate(t, p) ==
    /\ status[t] = "absent"
    /\ \A u \in TxnIds : status[u] # "absent" => payment[u].key # p.key
    /\ currency[p.sender] = p.currency
    /\ currency[p.receiver] = p.currency
    /\ payment' = [payment EXCEPT ![t] = p]
    /\ status' = [status EXCEPT ![t] = "pending"]
    /\ UNCHANGED <<currency, balance, ledger>>

\* The sender can pay the amount now; nothing is reserved.
Authorize(t) ==
    /\ status[t] = "pending"
    /\ payment[t].amount <= balance[payment[t].sender]
    /\ status' = [status EXCEPT ![t] = "authorized"]
    /\ UNCHANGED <<currency, balance, payment, ledger>>

(***************************************************************************)
(* The money moves and both ledger entries are written.  The credit is     *)
(* computed after the debit, so a payment to oneself leaves the balance    *)
(* where it was.                                                           *)
(***************************************************************************)
Settle(t) ==
    LET p == payment[t]
        debited == balance[p.sender] - p.amount
        withDebit == [balance EXCEPT ![p.sender] = debited]
        credited == withDebit[p.receiver] + p.amount
    IN  /\ status[t] = "authorized"
        /\ debited >= 0
        /\ credited <= MaxBigint
        /\ balance' = [withDebit EXCEPT ![p.receiver] = credited]
        /\ ledger' = Post(Post(ledger,
                               p.sender, Entry(t, "debit", p.amount, debited)),
                          p.receiver, Entry(t, "credit", p.amount, credited))
        /\ status' = [status EXCEPT ![t] = "settled"]
        /\ UNCHANGED <<currency, payment>>

Next ==
    \/ \E a \in Accounts, c \in Currencies, b \in Openings : Open(a, c, b)
    \/ \E t \in TxnIds, p \in Payment : Initiate(t, p)
    \/ \E t \in TxnIds : Authorize(t)
    \/ \E t \in TxnIds : Settle(t)

Spec == Init /\ [][Next]_vars
-----------------------------------------------------------------------------
(***************************************************************************)
(* Properties of the committed tables.                                     *)
(***************************************************************************)

(***************************************************************************)
(* README "Idempotency": at most one transaction exists per idempotency    *)
(* key, so every retry of a request finds the same row.                    *)
(***************************************************************************)
OneTransactionPerKey ==
    \A t, u \in TxnIds :
        /\ status[t] # "absent"
        /\ status[u] # "absent"
        /\ payment[t].key = payment[u].key
        => t = u

(***************************************************************************)
(* A transaction and both its accounts have the same currency, although    *)
(* InitiatePayment compares them outside the database transaction.         *)
(***************************************************************************)
SameCurrency ==
    \A t \in TxnIds :
        status[t] # "absent" =>
            /\ currency[payment[t].sender] = payment[t].currency
            /\ currency[payment[t].receiver] = payment[t].currency

\* Entry i of account a is the debit or the credit of a settled transaction.
EntryOfSettled(a, i) ==
    LET e == ledger[a][i]
    IN  /\ status[e.txn] = "settled"
        /\ e.amount = payment[e.txn].amount
        /\ a = IF e.type = "debit" THEN payment[e.txn].sender
                                   ELSE payment[e.txn].receiver

SameEntry(d, e) == d.txn = e.txn /\ d.type = e.type

\* The list of account a has an entry of this type for transaction t.
HasEntry(a, t, type) ==
    \E i \in 1..Len(ledger[a]) : ledger[a][i].txn = t /\ ledger[a][i].type = type

(***************************************************************************)
(* README "Double-Entry Bookkeeping": a settled transaction has exactly    *)
(* one debit entry, on its sender, and one credit entry, on its receiver,  *)
(* both of its amount; any other transaction has none.                     *)
(***************************************************************************)
DoubleEntry ==
    /\ \A a \in Accounts : \A i \in 1..Len(ledger[a]) : EntryOfSettled(a, i)
    /\ \A a \in Accounts : \A i, j \in 1..Len(ledger[a]) :
           SameEntry(ledger[a][i], ledger[a][j]) => i = j
    /\ \A t \in TxnIds : status[t] = "settled" =>
           /\ HasEntry(payment[t].sender, t, "debit")
           /\ HasEntry(payment[t].receiver, t, "credit")

(***************************************************************************)
(* The ledger of an account can be replayed: each balance_after is the one *)
(* before it plus or minus the entry's amount, and the last one is the     *)
(* balance of the account.                                                 *)
(***************************************************************************)
LedgerReplays ==
    \A a \in Accounts :
        /\ \A i \in 2..Len(ledger[a]) :
               ledger[a][i].after = ledger[a][i-1].after + Signed(ledger[a][i])
        /\ ledger[a] # << >> => ledger[a][Len(ledger[a])].after = balance[a]
=============================================================================
