---------------------------- MODULE PaymentModel ----------------------------
(***************************************************************************)
(* The rows of the gateway's tables: internal/model/models.go for the Go   *)
(* types, migrations/001_initial.sql for the constraints PostgreSQL        *)
(* enforces.  Names, e-mails, descriptions, metadata and timestamps are    *)
(* left out: no decision of the code depends on them.                      *)
(***************************************************************************)
EXTENDS Integers, Sequences

CONSTANTS
    Accounts,    \* account ids; numbers, because SettlePayment compares them
    TxnIds,      \* transaction ids (uuid.New() always returns an unused one)
    Keys,        \* idempotency keys that clients send
    Currencies,  \* currency codes
    Amounts,     \* payment amounts that clients ask for, in cents
    MaxBigint,   \* the largest BIGINT; a bound of the model
    None         \* SQL NULL / Go nil / the empty string

ASSUME AccountsAssumption == Accounts \subseteq Nat
\* There is a largest account id: a UUID has 128 bits.
ASSUME AccountsBounded ==
    \E n \in Accounts \cup {0} : \A a \in Accounts : a <= n
ASSUME AmountsAssumption == Amounts \subseteq Int
ASSUME MaxBigintAssumption == MaxBigint \in Nat
ASSUME NoneAssumption ==
    None \notin TxnIds \cup Currencies \cup Accounts \cup Keys

(***************************************************************************)
(* Columns of `transactions' that no statement ever updates.  The amount   *)
(* passes the request binding gt=0 and CHECK (amount > 0).                 *)
(***************************************************************************)
Payment == [key : Keys, sender : Accounts, receiver : Accounts,
            amount : {m \in Amounts : m > 0}, currency : Currencies]

\* TransactionStatus; "absent" stands for an id that has no row.
Status == {"pending", "authorized", "settled", "failed", "refunded"}
RowStatus == Status \cup {"absent"}

\* A row of `ledger_entries'; its account is the index of the entry's list.
LedgerEntry == [txn : TxnIds, type : {"debit", "credit"},
                amount : {m \in Amounts : m > 0}, after : 0..MaxBigint]

\* What an entry does to the balance of its account.
Signed(e) == IF e.type = "debit" THEN -e.amount ELSE e.amount

Entry(t, ty, m, b) == [txn |-> t, type |-> ty, amount |-> m, after |-> b]

\* Append entry e to the list of account a.
Post(book, a, e) == [book EXCEPT ![a] = Append(@, e)]
=============================================================================
